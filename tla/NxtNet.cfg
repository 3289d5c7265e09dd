SPECIFICATION Spec
CONSTANTS
  Client = {k1, k2, w1}
  Knows = {k1, k2}
  Near = {k1, k2, w1}
  Far = {w1}
  Fd = {2, 4}
  Listen = 3
  Counts = {3}
  Split = FALSE
  MaxUnread = 1
  None = None
  Unknown = Unknown
  Failed = Failed
SYMMETRY Alike
INVARIANTS TypeOK Watched OneSocketEach NeverWaitsForIdle AnswersExpected
PROPERTIES IsRpc
