SPECIFICATION ConvertSpec
CONSTANTS
  Bits = 4
  RateMin = 20
  RateMax = 160
  Unset = Unset
  Name = {"a", "b"}
  Originals <- MCOriginals
  Readings = {3, 200}
  Uses <- MCUses
  Losses <- MCLosses
  NumHandle = 2
  MaxTrouble = 2
INVARIANTS Kept
