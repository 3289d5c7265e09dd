SPECIFICATION FairSpec
CONSTANTS
  MAXNUM = 2
  USBDev = {u1}
  BTDev = {}
  Rec = {r1, r2}
  NULL = NULL
  Scanner = Scanner
  Server = Server
  MaxLost = 0
PROPERTIES RequestsEnd UsbBrickListed
