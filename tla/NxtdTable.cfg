SPECIFICATION Spec
CONSTANTS
  MAXNUM = 3
  USBDev = {u1}
  BTDev = {b1}
  Rec = {r1, r2}
  NULL = NULL
  Scanner = Scanner
  Server = Server
  MaxLost = 1
SYMMETRY Blocks
INVARIANTS TypeOK SlotsAreLive OneHandlePerBrick NoOrphan RefsBalanced TwiceOnlyIfInterrupted CrashOnlyAfterFailure
PROPERTIES PointersStayValid IsRegistry
