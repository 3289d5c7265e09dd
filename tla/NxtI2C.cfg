SPECIFICATION FairSpec
CONSTANTS
  Calls <- MCCalls
  Addresses = {2}
  Live <- MCLive
  Kept <- MCKept
  Level = {3, 200}
INVARIANTS TypeOK OwnBytes Written
PROPERTIES CallEnds
