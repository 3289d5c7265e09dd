SPECIFICATION Spec
CONSTANTS
  c1 = c1
  c2 = c2
  Client = {c1, c2}
  Modules <- MCModules
  MapSize <- MCMapSize
  Watched <- MCWatched
  Programs <- MCPrograms
  Changing = {119}
  Byte = {0, 1}
  Junk = Junk
  NumHandle = 2
  Width = 100
  Height = 8
  MaxMissed = 1
  MaxFound = 3
INVARIANTS TypeOK AloneWorks MapsExact
