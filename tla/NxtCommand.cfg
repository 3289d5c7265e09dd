SPECIFICATION Spec
CONSTANTS
  Client = {c1}
  Brick = {b1}
  MAXNUM = 1
  Cmd = {"set_name", "version", "keep_alive", "beep", "recv_msg", "get_sensor", "poll_size", "reset_bluetooth"}
  n2 = n2
  n2more = n2more
  Name = {n1, n2, n2more}
  Packed <- MCPacked
  Factory = n1
  Motors = 3
  Wide = TRUE
  Bits = 8
  Sharing = FALSE
  MaxLeft = 3
  None = None
INVARIANTS TypeOK Tidy OwnReply
PROPERTIES NameSet IsRemote
