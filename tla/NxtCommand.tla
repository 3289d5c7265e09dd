----------------------------- MODULE NxtCommand -----------------------------
(***************************************************************************)
(* libanxt: programs that open a brick by name (nxt_open_net) and send it   *)
(* commands.  Every command is a telegram handed to nxtd with SEND and a    *)
(* reply fetched with RECV (nxt_con_send, nxt_con_recv); replies wait in    *)
(* the brick's pipe.  A call of nxtd is one step here: NxtNet shows that it *)
(* is executed at most once and returns what was executed.  So are the      *)
(* changes of the table of nxtd: NxtdTable shows that they look atomic.     *)
(*                                                                         *)
(* nxtd removes a brick when a transfer does not move exactly the bytes     *)
(* asked for; the scanner adds it again, with an empty pipe.  Programs may  *)
(* die between SEND and RECV, bricks may be unplugged, nxtd may restart.    *)
(***************************************************************************)
EXTENDS Integers, Sequences, FiniteSets

CONSTANTS Client, Brick,
          MAXNUM,    \* NXTD_MAXNUM
          Cmd,       \* the commands that programs use
          Name,      \* strings that programs give nxt_set_name
          Packed,    \* what of a string a telegram holds: 15 characters
          Motors,    \* motors that nxt_open_net asks for: 3 in the code
          Wide,      \* ssize_t has more bits than the size in a packet
          Bits,      \* bits of the size in a packet: 32 in the code
          Sharing,   \* programs use nxtd at the same time
          MaxLeft,   \* bound: replies in a brick that nobody will ask for
          Factory,   \* the name after a reset
          None

Handle == 0 .. (MAXNUM - 1)

\* The names a brick can have: the strings of up to 15 characters
Held == {Packed[n] : n \in Name}

\* Bytes of a reply: what the command functions give nxt_con_recv.
MessageReply == [send_msg |-> 3, recv_msg |-> 64]
DeviceReply == [set_name |-> 3, version |-> 7]
SensorReply == [set_sensor |-> 3, get_sensor |-> 16, reset_sensor |-> 3]
ProgramReply == [battery |-> 5, stop_program |-> 3, get_program |-> 23]
InfoReply == [devinfo |-> 33, keep_alive |-> 7]
PlayReply == [beep |-> 3, play_sound |-> 3, stop_sound |-> 3, run_program |-> 3]
SystemReply == [reset_bluetooth |-> 28, poll_size |-> 5, poll_read |-> 64,
                delete_flash |-> 3]
MotorReply == [motor_get |-> 25]
Size(m) == LET Has(r) == m \in DOMAIN r IN
  CASE Has(MessageReply) -> MessageReply[m] [] Has(DeviceReply) -> DeviceReply[m]
    [] Has(SensorReply) -> SensorReply[m] [] Has(ProgramReply) -> ProgramReply[m]
    [] Has(InfoReply) -> InfoReply[m] [] Has(PlayReply) -> PlayReply[m]
    [] Has(SystemReply) -> SystemReply[m] [] OTHER -> MotorReply[m]

Commands == UNION {DOMAIN MessageReply, DOMAIN DeviceReply, DOMAIN SensorReply,
                   DOMAIN ProgramReply, DOMAIN InfoReply, DOMAIN PlayReply,
                   DOMAIN SystemReply, DOMAIN MotorReply}

\* The reply to these says that there is more to ask for, and for what: the
\* sensor has no value yet, a command waits to be read.
FollowUp(m) == IF m = "poll_size" THEN "poll_read" ELSE m
Repeats == {"get_sensor", "poll_size"}
\* nxt_recv_msg returns the text whatever error came with it.
IgnoresError == {"recv_msg"}

ASSUME CommandAssumption ==
  /\ MAXNUM \in Nat \ {0} /\ Motors \in Nat /\ Cmd \subseteq Commands
  /\ Wide \in BOOLEAN /\ Sharing \in BOOLEAN /\ MaxLeft \in Nat
  /\ Bits \in Nat
  /\ Packed \in [Name -> Name] /\ \A n \in Held : Packed[n] = n
  /\ Factory \in Held
  /\ None \notin Client \cup Brick \cup Name \cup Handle /\ None \notin Commands

VARIABLES
  bt, here, bname, pipe, \* bricks: on Bluetooth (the others on USB),
                         \*   reachable, name, replies not fetched
  table, rname,          \* nxtd: list, and the names in its records
  pc, linked,            \* programs: state; the connection to nxtd is there
  handle, name, error,   \* nxt_t
  todo, cmd, to,       \* what nxt_open_net has still to ask; the command and
                       \*   the name it gives
  ret, result,         \* what the last transfer, the last command returned
  own, did, mine       \* for the properties: the brick that was opened, what
                       \*   it made of the command, whether the reply that was
                       \*   taken is the one to this command

brickVars == <<bt, here, bname, pipe>>
srvVars   == <<table, rname>>
nxtVars   == <<handle, name, error>>
runVars   == <<todo, cmd, to, ret, result, own, did, mine>>
vars == <<brickVars, srvVars, pc, linked, nxtVars, runVars>>

PC == {"closed", "idle", "busy", "sent", "crashed"}
Status == {"ok", "error", "again"}

Init ==
  /\ bt \in SUBSET Brick
  /\ here \in SUBSET Brick /\ bname \in [Brick -> Held]
  /\ pipe = [b \in Brick |-> <<>>]
  /\ table = [h \in Handle |-> None] /\ rname = [h \in Handle |-> None]
  /\ pc = [c \in Client |-> "closed"] /\ linked = [c \in Client |-> FALSE]
  /\ handle = [c \in Client |-> None] /\ name = [c \in Client |-> None]
  /\ error = [c \in Client |-> "none"]
  /\ todo = [c \in Client |-> 0]
  /\ cmd = [c \in Client |-> None] /\ to = [c \in Client |-> None]
  /\ ret = [c \in Client |-> 0] /\ result = [c \in Client |-> "none"]
  /\ own = [c \in Client |-> None] /\ did = [c \in Client |-> "none"]
  /\ mine = [c \in Client |-> TRUE]

-----------------------------------------------------------------------------
(* The bricks and the table of nxtd.                                       *)

Plug(b) ==
  /\ b \notin here
  /\ here' = here \cup {b}
  /\ UNCHANGED <<bt, bname, pipe, srvVars, pc, linked, nxtVars, runVars>>

Unplug(b) ==
  /\ b \in here
  /\ here' = here \ {b} /\ pipe' = [pipe EXCEPT ![b] = <<>>]
  /\ UNCHANGED <<bt, bname, srvVars, pc, linked, nxtVars, runVars>>

\* The scanner takes the lowest free slot, and the name the brick has now.
Scan(b, h) ==
  /\ b \in here /\ \A k \in Handle : table[k] # b
  /\ table[h] = None /\ \A k \in 0 .. (h - 1) : table[k] # None
  /\ table' = [table EXCEPT ![h] = b] /\ rname' = [rname EXCEPT ![h] = bname[b]]
  /\ UNCHANGED <<brickVars, pc, linked, nxtVars, runVars>>

\* nxtd_usb_recv goes on until it has s bytes, and fails on a longer reply or
\* when no other comes; nxtd_bt_recv takes one reply of whatever size.
Total(p) == LET f[k \in 0 .. Len(p)] == IF k = 0 THEN 0 ELSE f[k - 1] + p[k].size
            IN  f
Takes(b, p, s) == IF b \in bt THEN {k \in {1} : p # <<>>}
                              ELSE {k \in DOMAIN p : Total(p)[k] = s}
Received(b, p, s) == IF b \in bt THEN (IF p = <<>> THEN 0 ELSE p[1].size)
                     ELSE IF Takes(b, p, s) = {} THEN -1 ELSE s
Rest(b, p, s) == SubSeq(p, 1 + CHOOSE k \in Takes(b, p, s) : TRUE, Len(p))

\* nxtd_nxt_remove, of the bricks B
Remove(B) == /\ table' = [h \in Handle |-> IF table[h] \in B THEN None ELSE table[h]]
             /\ rname' = [h \in Handle |-> IF table[h] \in B THEN None ELSE rname[h]]

\* nxtd exits and is started again: every connection is closed.
Restart ==
  /\ table' = [h \in Handle |-> None] /\ rname' = [h \in Handle |-> None]
  /\ pipe' = [b \in Brick |-> <<>>]
  /\ linked' = [c \in Client |-> FALSE]
  /\ UNCHANGED <<bt, here, bname, pc, nxtVars, runVars>>

-----------------------------------------------------------------------------
(* Opening and closing.                                                    *)

\* nxtd_keepalive: a telegram, and seven bytes whatever they answer
KeptAlive(b) == Append(pipe[b], [cmd |-> "keep_alive", size |-> 7,
                                 status |-> "ok", by |-> None])
Answers(b) == /\ b \in here
              /\ Received(b, KeptAlive(b), 7) = 7
              /\ KeptAlive(b)[1].status = "ok"

\* nxtnet_cli_list, where the bricks in mute do not answer in time, and
\* nxt_open_net: any brick, or one with a certain name or address.
Open(c, want, mute) ==
  /\ pc[c] = "closed" /\ (Sharing \/ \A d \in Client : pc[d] = "closed")
  /\ LET gone == {b \in Brick : ~Answers(b) \/ b \in mute}
         hits == {h \in Handle : /\ table[h] \in Brick \ gone
                                 /\ want \in {None, rname[h], table[h]}}
     IN /\ Remove(gone)
        /\ pipe' = [b \in Brick |->
             IF \A h \in Handle : table[h] # b THEN pipe[b]
             ELSE IF b \in gone THEN <<>> ELSE Rest(b, KeptAlive(b), 7)]
        /\ IF hits = {} THEN UNCHANGED <<pc, linked, nxtVars, runVars>>
           ELSE \E h \in hits :
             /\ \A k \in hits : h <= k
             /\ pc' = [pc EXCEPT ![c] = "idle"]
             /\ linked' = [linked EXCEPT ![c] = TRUE]
             /\ handle' = [handle EXCEPT ![c] = h]
             /\ name' = [name EXCEPT ![c] = rname[h]]
             /\ own' = [own EXCEPT ![c] = table[h]]
             /\ todo' = [todo EXCEPT ![c] = Motors]
             /\ UNCHANGED <<error, cmd, to, ret, result, did, mine>>
  /\ UNCHANGED <<bt, here, bname>>

\* Replies in the pipe of b that nobody will ask for
Left(b) == {k \in DOMAIN pipe[b] :
              \A c \in Client : pc[c] # "sent" \/ pipe[b][k].by # c}

\* nxt_close, or the program ends at any other point.
Leave(c) ==
  /\ pc[c] # "closed"
  /\ pc[c] = "sent" => \A b \in Brick : Cardinality(Left(b)) < MaxLeft
  /\ pc' = [pc EXCEPT ![c] = "closed"] /\ linked' = [linked EXCEPT ![c] = FALSE]
  /\ handle' = [handle EXCEPT ![c] = None] /\ name' = [name EXCEPT ![c] = None]
  /\ error' = [error EXCEPT ![c] = "none"] /\ todo' = [todo EXCEPT ![c] = 0]
  /\ cmd' = [cmd EXCEPT ![c] = None] /\ to' = [to EXCEPT ![c] = None]
  /\ ret' = [ret EXCEPT ![c] = 0] /\ result' = [result EXCEPT ![c] = "none"]
  /\ own' = [own EXCEPT ![c] = None] /\ did' = [did EXCEPT ![c] = "none"]
  /\ mine' = [mine EXCEPT ![c] = TRUE]
  /\ UNCHANGED <<brickVars, srvVars>>

-----------------------------------------------------------------------------
(* A command.                                                              *)

\* A command function has packed its telegram; a program that opens a brick
\* first asks for its motors, whatever comes of it.
Start(c, m, n) ==
  /\ pc[c] = "idle"
  /\ IF todo[c] > 0 THEN m = "motor_get" ELSE m \in Cmd
  /\ m = "reset_bluetooth" => own[c] \notin bt
  /\ n # None <=> m = "set_name"
  /\ pc' = [pc EXCEPT ![c] = "busy"]
  /\ cmd' = [cmd EXCEPT ![c] = m] /\ to' = [to EXCEPT ![c] = n]
  /\ ret' = [ret EXCEPT ![c] = 0] /\ result' = [result EXCEPT ![c] = "none"]
  /\ did' = [did EXCEPT ![c] = "none"] /\ mine' = [mine EXCEPT ![c] = TRUE]
  /\ UNCHANGED <<brickVars, srvVars, linked, nxtVars, todo, own>>

\* Faulty: one motor too many.
EndsTooLate(c, r) ==
  /\ pc' = [pc EXCEPT ![c] = "idle"]
  /\ result' = [result EXCEPT ![c] = IF todo[c] >= 0 THEN @ ELSE r]
  /\ todo' = [todo EXCEPT ![c] = IF @ >= 0 THEN @ - 1 ELSE 0]
  /\ cmd' = [cmd EXCEPT ![c] = None] /\ to' = [to EXCEPT ![c] = None]
  /\ did' = [did EXCEPT ![c] = "none"]

\* nxt_open_net ignores what its commands return.
Ends(c, r) == /\ pc' = [pc EXCEPT ![c] = "idle"]
              /\ result' = [result EXCEPT ![c] = IF todo[c] > 0 THEN @ ELSE r]
              /\ todo' = [todo EXCEPT ![c] = IF @ > 0 THEN @ - 1 ELSE 0]
              /\ cmd' = [cmd EXCEPT ![c] = None] /\ to' = [to EXCEPT ![c] = None]
              /\ did' = [did EXCEPT ![c] = "none"]
Fails(c, e) == /\ Ends(c, "fail")
               /\ error' = [error EXCEPT ![c] = IF e = "same" THEN @ ELSE e]
               /\ UNCHANGED name

\* What a result is after its way through a packet
Wire(n) == IF n = -1 /\ Wide THEN 2 ^ Bits - 1 ELSE n

\* nxtd has exited since: nxtnet_cli_send and nxtnet_cli_recv return -1.
NoAnswer(c) ==
  /\ pc[c] \in {"busy", "sent"} /\ ~linked[c]
  /\ ret' = [ret EXCEPT ![c] = -1]
  /\ Fails(c, "connection")
  /\ UNCHANGED <<brickVars, srvVars, linked, handle, own, mine>>

Slot(c) == table[handle[c]]

\* nxt_con_send returns n; the brick has made d of the telegram.
Sent(c, n, d) ==
  /\ ret' = [ret EXCEPT ![c] = Wire(n)]
  /\ IF Wire(n) = -1 THEN Fails(c, "connection")
     ELSE /\ pc' = [pc EXCEPT ![c] = "sent"] /\ did' = [did EXCEPT ![c] = d]
          /\ UNCHANGED <<name, error, todo, cmd, to, result>>
  /\ UNCHANGED <<bt, here, linked, handle, own, mine>>

SendNowhere(c) ==
  /\ pc[c] = "busy" /\ linked[c] /\ Slot(c) = None
  /\ Sent(c, -1, "none")
  /\ UNCHANGED <<bname, pipe, srvVars>>

\* The brick is gone or does not take the telegram in time; over Bluetooth it
\* may have taken a part of it.
SendFails(c, n) ==
  /\ pc[c] = "busy" /\ linked[c] /\ Slot(c) # None
  /\ n \in {-1} \cup {0 : b \in bt \cap {Slot(c)}}
  /\ Remove({Slot(c)}) /\ pipe' = [pipe EXCEPT ![Slot(c)] = <<>>]
  /\ Sent(c, n, "none")
  /\ UNCHANGED bname

\* The brick executes the telegram, and replies.  An error may be shorter.
SendDone(c, st, short) ==
  /\ pc[c] = "busy" /\ linked[c] /\ Slot(c) \in here
  /\ st = "again" => cmd[c] \in Repeats
  /\ short => st = "error"
  /\ LET b == Slot(c)
         Old(r) == [r EXCEPT !.by = IF @ = c THEN None ELSE @]
         reply == [cmd |-> cmd[c], size |-> IF short THEN 3 ELSE Size(cmd[c]),
                   status |-> st, by |-> c]
     IN /\ pipe' = [pipe EXCEPT ![b] =
             Append([k \in DOMAIN @ |-> Old(@[k])], reply)]
        /\ bname' = IF st # "ok" THEN bname
                    ELSE [bname EXCEPT ![b] =
                            CASE cmd[c] = "set_name" -> Packed[to[c]]
                              [] cmd[c] = "reset_bluetooth" -> Factory
                              [] OTHER -> @]
        /\ Sent(c, 2, IF b = own[c] THEN st ELSE "elsewhere")
  /\ UNCHANGED srvVars

\* Faulty: the name is taken before the error is looked at.
UnpackNamesFirst(c, r) ==
  /\ mine' = [mine EXCEPT ![c] = r.by = c]
  /\ IF r.cmd # cmd[c] THEN Fails(c, "same")
     ELSE /\ Ends(c, "ok")
          /\ error' = [error EXCEPT ![c] = IF r.status = "error" THEN "brick" ELSE @]
          /\ name' = [name EXCEPT ![c] = IF cmd[c] = "set_name" THEN to[c] ELSE @]

\* What a command function makes of the reply r in its buffer.  The handle
\* keeps the whole string of nxt_set_name, of which the brick has got Packed.
Unpack(c, r) ==
  /\ mine' = [mine EXCEPT ![c] = r.by = c]
  /\ IF r.cmd # cmd[c] THEN Fails(c, "same")
     ELSE IF r.status = "error" /\ cmd[c] \notin IgnoresError THEN Fails(c, "brick")
     ELSE IF r.status = "again"
       THEN /\ pc' = [pc EXCEPT ![c] = "busy"]
            /\ cmd' = [cmd EXCEPT ![c] = FollowUp(@)]
            /\ did' = [did EXCEPT ![c] = "none"]
            /\ UNCHANGED <<name, error, todo, to, result>>
     ELSE /\ Ends(c, "ok")
          /\ error' = [error EXCEPT ![c] = IF r.status = "error" THEN "brick" ELSE @]
          /\ name' = [name EXCEPT ![c] = CASE cmd[c] = "set_name" -> to[c]
                                           [] cmd[c] = "reset_bluetooth" -> Factory
                                           [] OTHER -> @]

\* nxt_con_recv returns n and has copied as many bytes, those of r if any.
\* Where -1 has become a large number the copy runs out of the memory.
Got(c, n, r) ==
  /\ ret' = [ret EXCEPT ![c] = Wire(n)]
  /\ IF Wire(n) = -1 THEN Fails(c, "connection") /\ UNCHANGED mine
     ELSE IF n = -1
       THEN /\ pc' = [pc EXCEPT ![c] = "crashed"]
            /\ did' = [did EXCEPT ![c] = "none"]
            /\ UNCHANGED <<name, error, todo, cmd, to, result, mine>>
     ELSE IF n = 0 THEN Fails(c, "same") /\ UNCHANGED mine
     ELSE Unpack(c, r)
  /\ UNCHANGED <<bt, here, bname, linked, handle, own>>

\* nxtd_recv finds no brick: the telegram is still in the buffer.
RecvNowhere(c) ==
  /\ pc[c] = "sent" /\ linked[c] /\ Slot(c) = None
  /\ Got(c, 0, None)
  /\ UNCHANGED <<pipe, srvVars>>

RecvDone(c) ==
  /\ pc[c] = "sent" /\ linked[c] /\ Slot(c) \in here
  /\ LET b == Slot(c) s == Size(cmd[c]) IN
       /\ Received(b, pipe[b], s) = s
       /\ pipe' = [pipe EXCEPT ![b] = Rest(b, @, s)]
       /\ Got(c, s, pipe[b][1])
  /\ UNCHANGED srvVars

\* Faulty: nxtd keeps a brick that answered with another size.
RecvFailsKeeps(c, mute) ==
  /\ pc[c] = "sent" /\ linked[c] /\ Slot(c) # None
  /\ LET b == Slot(c) s == Size(cmd[c]) p == IF mute THEN <<>> ELSE pipe[b] IN
       /\ Received(b, p, s) # s
       /\ UNCHANGED srvVars
       /\ pipe' = [pipe EXCEPT ![b] = IF p = <<>> THEN @ ELSE Tail(@)]
       /\ Got(c, Received(b, p, s), IF p = <<>> THEN None ELSE p[1])

\* The brick is gone, or it does not answer in time, or not with as many bytes.
RecvFails(c, mute) ==
  /\ pc[c] = "sent" /\ linked[c] /\ Slot(c) # None
  /\ LET b == Slot(c) s == Size(cmd[c]) p == IF mute THEN <<>> ELSE pipe[b] IN
       /\ Received(b, p, s) # s
       /\ Remove({b}) /\ pipe' = [pipe EXCEPT ![b] = <<>>]
       /\ Got(c, Received(b, p, s), IF p = <<>> THEN None ELSE p[1])

-----------------------------------------------------------------------------
Program(c) ==
  \/ \E want \in {None} \cup Name \cup Brick, mute \in SUBSET Brick :
       Open(c, want, mute)
  \/ Leave(c)
  \/ \E m \in Cmd \cup {"motor_get"}, n \in Name \cup {None} : Start(c, m, n)
  \/ NoAnswer(c)
  \/ SendNowhere(c) \/ \E n \in {-1, 0} : SendFails(c, n)
  \/ \E st \in Status, short \in BOOLEAN : SendDone(c, st, short)
  \/ RecvNowhere(c) \/ RecvDone(c) \/ \E mute \in BOOLEAN : RecvFails(c, mute)

Next == \/ \E c \in Client : Program(c)
        \/ \E b \in Brick : \/ Plug(b) \/ Unplug(b)
                            \/ \E h \in Handle : Scan(b, h)
        \/ Restart

Spec == Init /\ [][Next]_vars
=============================================================================
