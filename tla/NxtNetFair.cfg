SPECIFICATION FairSpec
CONSTANTS
  Client = {k1, k2}
  Knows = {k1, k2}
  Near = {k1, k2}
  Far = {}
  Fd = {2, 4}
  Listen = 3
  Counts = {4}
  Split = TRUE
  MaxUnread = 1
  None = None
  Unknown = Unknown
  Failed = Failed
PROPERTIES CallsReturn
