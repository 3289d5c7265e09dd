SPECIFICATION FairSpec
CONSTANTS
  Cmd = {beep, tacho, list, upload, recv, pollcmd}
  Lists = {list}
  Talks = {list, upload}
  Raw = {pollcmd}
  Bare = {recv}
  Opt = {o1, o2}
  Data = {d1, d2}
  Nothing = Nothing
  Prints = {tacho}
  Careful = TRUE
INVARIANTS TypeOK
PROPERTIES IsShell Answered
CHECK_DEADLOCK FALSE
