SPECIFICATION StillSpec
CONSTANTS
  MAXNUM = 3
  USBDev = {}
  BTDev = {b1, b2}
  Rec = {r1, r2}
  NULL = NULL
  Scanner = Scanner
  Server = Server
  MaxLost = 0
PROPERTIES BtBrickListed
