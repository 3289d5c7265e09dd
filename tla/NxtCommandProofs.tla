-------------------------- MODULE NxtCommandProofs --------------------------
(***************************************************************************)
(* Proofs about the commands of libanxt, for all programs, bricks, names    *)
(* and sets of commands: what programs that died have left behind is gone   *)
(* when nxt_open_net returns, and a reply is the answer to its telegram.    *)
(***************************************************************************)
EXTENDS NxtCommandProperties, SequenceTheorems, FiniteSetTheorems, TLAPS

-----------------------------------------------------------------------------
(* Types.                                                                  *)

BrickTypes ==
  /\ bt \in SUBSET Brick /\ here \in SUBSET Brick /\ bname \in [Brick -> Held]
  /\ pipe \in [Brick -> Seq(Reply)]
  /\ table \in [Handle -> Brick \cup {None}]
  /\ rname \in [Handle -> Held \cup {None}]
ProgramTypes ==
  /\ pc \in [Client -> PC] /\ linked \in [Client -> BOOLEAN]
  /\ handle \in [Client -> Handle \cup {None}]
  /\ name \in [Client -> Name \cup {None}] /\ error \in [Client -> Errors]
  /\ todo \in [Client -> 0 .. Motors]
  /\ cmd \in [Client -> AnyCmd \cup {None}] /\ to \in [Client -> Name \cup {None}]
  /\ ret \in [Client -> Int] /\ result \in [Client -> {"none", "ok", "fail"}]
  /\ own \in [Client -> Brick \cup {None}]
  /\ did \in [Client -> Status \cup {"none", "elsewhere"}]
  /\ mine \in [Client -> BOOLEAN]

\* What a program knows in each of its states
Locals == \A c \in Client :
  /\ linked[c] => pc[c] # "closed" /\ handle[c] \in Handle /\ own[c] \in Brick
  /\ pc[c] \in {"busy", "sent"} => cmd[c] \in AnyCmd
  /\ cmd[c] = "set_name" => to[c] \in Name
  /\ todo[c] > 0 /\ pc[c] \in {"busy", "sent"} => cmd[c] = "motor_get"
  /\ result[c] # "none" => pc[c] = "idle" /\ todo[c] = 0 /\ cmd[c] = None
  /\ pc[c] = "closed" => todo[c] = 0 /\ ~linked[c]
Types == BrickTypes /\ ProgramTypes /\ Locals

-----------------------------------------------------------------------------
(* The replies that wait for a program.                                    *)

\* Programs open nxtd one after the other.
Alone == \A c, d \in Client : pc[c] # "closed" /\ pc[d] # "closed" => c = d

\* A brick that nxtd has not listed has an empty pipe.
Unlisted == \A b \in Brick : (\A h \in Handle : table[h] # b) => pipe[b] = <<>>

\* What a command is answered with
Sizes == {3, 5, 7, 16, 23, 25, 28, 33, 64}
Sized == \A b \in Brick : \A k \in DOMAIN pipe[b] : pipe[b][k].size \in Sizes

\* The program uses a brick.
Uses(c, b) == linked[c] /\ Slot(c) = b

\* The last reply is the answer to the telegram, and no other one is.
Answered(c, p) ==
  LET r == p[Len(p)] IN
  /\ r.by = c /\ r.cmd = cmd[c]
  /\ \A k \in DOMAIN p : p[k].by = c => k = Len(p)
  /\ Slot(c) = own[c] =>
       /\ did[c] = r.status
       /\ r.cmd = "set_name" /\ r.status = "ok" => bname[own[c]] = Packed[to[c]]
Replied == \A c \in Client, b \in Brick :
  pc[c] = "sent" /\ Uses(c, b) /\ pipe[b] # <<>> => Answered(c, pipe[b])

\* No more replies are left than a program that is opening will find.
Few == \A b \in Brick :
  \/ Len(pipe[b]) <= 3
  \/ Len(pipe[b]) = 4 /\ \E c \in Client : pc[c] = "sent" /\ Uses(c, b)

\* Behind as many replies as motors are still asked for there is one that no
\* question for a motor takes.
Blocked(p, n, t) == \E j \in 1 .. t : j <= n /\ p[j].size = 7
Front == \A c \in Client, b \in Brick : Uses(c, b) =>
  /\ pc[c] \in {"idle", "busy"} => pipe[b] = <<>> \/ Blocked(pipe[b], Len(pipe[b]), todo[c])
  /\ pc[c] = "sent" => Len(pipe[b]) <= 1 \/ Blocked(pipe[b], Len(pipe[b]) - 1, todo[c])

PInv == Alone /\ Unlisted /\ Sized /\ Replied /\ Few /\ Front
CInv == Types /\ PInv

-----------------------------------------------------------------------------
(* Sizes of replies, and what is left of a pipe.                           *)

LEMMA SizeTypes ==
  /\ \A m \in Commands : Size(m) \in Sizes
  /\ Size("motor_get") = 25 /\ "motor_get" \in Commands /\ "poll_read" \in Commands
<1>1. \A m \in DOMAIN MessageReply : MessageReply[m] \in Sizes
  BY DEF MessageReply, Sizes
<1>2. \A m \in DOMAIN DeviceReply : DeviceReply[m] \in Sizes
  BY DEF DeviceReply, Sizes
<1>3. \A m \in DOMAIN SensorReply : SensorReply[m] \in Sizes
  BY DEF SensorReply, Sizes
<1>4. \A m \in DOMAIN ProgramReply : ProgramReply[m] \in Sizes
  BY DEF ProgramReply, Sizes
<1>5. \A m \in DOMAIN InfoReply : InfoReply[m] \in Sizes
  BY DEF InfoReply, Sizes
<1>6. \A m \in DOMAIN PlayReply : PlayReply[m] \in Sizes
  BY DEF PlayReply, Sizes
<1>7. \A m \in DOMAIN SystemReply : SystemReply[m] \in Sizes
  BY DEF SystemReply, Sizes
<1>8. DOMAIN MotorReply = {"motor_get"} /\ MotorReply["motor_get"] = 25
  BY DEF MotorReply
<1>9. 25 \in Sizes
  BY DEF Sizes
<1>10. \A m \in Commands : Size(m) \in Sizes
  BY <1>1, <1>2, <1>3, <1>4, <1>5, <1>6, <1>7, <1>8, <1>9 DEF Size, Commands
<1>11. /\ "motor_get" \notin DOMAIN MessageReply /\ "motor_get" \notin DOMAIN DeviceReply
       /\ "motor_get" \notin DOMAIN SensorReply /\ "motor_get" \notin DOMAIN ProgramReply
       /\ "motor_get" \notin DOMAIN InfoReply /\ "motor_get" \notin DOMAIN PlayReply
       /\ "motor_get" \notin DOMAIN SystemReply
  BY DEF MessageReply, DeviceReply, SensorReply, ProgramReply, InfoReply, PlayReply,
         SystemReply
<1>12. Size("motor_get") = 25
  BY <1>8, <1>11 DEF Size
<1>13. "motor_get" \in Commands /\ "poll_read" \in Commands
  <2>1. "poll_read" \in DOMAIN SystemReply
    BY DEF SystemReply
  <2> QED BY <1>8, <2>1 DEF Commands
<1> QED BY <1>10, <1>12, <1>13

LEMMA AnyCmdTypes ==
  /\ AnyCmd \subseteq Commands /\ None \notin AnyCmd
  /\ \A m \in AnyCmd : FollowUp(m) \in AnyCmd /\ Size(m) \in Sizes
  /\ "motor_get" \in AnyCmd
<1>1. AnyCmd \subseteq Commands
  BY SizeTypes, CommandAssumption DEF AnyCmd, FollowUp
<1>2. \A m \in AnyCmd : FollowUp(m) \in AnyCmd
  BY DEF AnyCmd, FollowUp
<1> QED BY <1>1, <1>2, SizeTypes, CommandAssumption DEF AnyCmd

LEMMA SizesTypes == \A s \in Sizes : s \in 3 .. 64 /\ s \in Nat \ {0}
BY DEF Sizes

\* A program knows its command while one is under way.
LEMMA CommandTypes ==
  ASSUME Types, NEW c \in Client, pc[c] \in {"busy", "sent"}
  PROVE  /\ cmd[c] \in AnyCmd /\ Size(cmd[c]) \in Sizes /\ Size(cmd[c]) \in Nat \ {0}
         /\ result[c] = "none"
<1>1. cmd[c] \in AnyCmd /\ result[c] = "none"
  BY DEF Types, Locals
<1> QED BY <1>1, AnyCmdTypes, SizesTypes

\* A receive takes at least one reply.
LEMMA RestShape ==
  ASSUME NEW p \in Seq(Reply), NEW s \in Nat \ {0}, NEW b, Received(b, p, s) = s
  PROVE  /\ \E k \in Takes(b, p, s) :
              /\ k \in 1 .. Len(p) /\ Len(Rest(b, p, s)) = Len(p) - k
              /\ \A i \in 1 .. Len(p) - k : Rest(b, p, s)[i] = p[k + i]
         /\ Rest(b, p, s) \in Seq(Reply) /\ p # <<>>
<1>1. p # <<>> /\ Takes(b, p, s) # {} /\ Takes(b, p, s) \subseteq 1 .. Len(p)
  <2>1. CASE b \in bt
    <3>1. p # <<>>
      BY <2>1 DEF Received
    <3>2. 1 \in 1 .. Len(p)
      BY <3>1
    <3> QED BY <2>1, <3>1, <3>2 DEF Takes
  <2>2. CASE b \notin bt
    <3>1. Takes(b, p, s) # {}
      BY <2>2 DEF Received
    <3>2. Takes(b, p, s) \subseteq 1 .. Len(p)
      BY <2>2 DEF Takes
    <3>3. p # <<>>
      <4>1. Len(<<>>) = 0
        OBVIOUS
      <4> QED BY <3>1, <3>2, <4>1
    <3> QED BY <3>1, <3>2, <3>3
  <2> QED BY <2>1, <2>2
<1> DEFINE k == CHOOSE j \in Takes(b, p, s) : TRUE
<1>2. k \in Takes(b, p, s) /\ k \in 1 .. Len(p)
  BY <1>1
<1>3. Rest(b, p, s) = SubSeq(p, 1 + k, Len(p))
  BY DEF Rest
<1> HIDE DEF k
<1>4. /\ SubSeq(p, 1 + k, Len(p)) \in Seq(Reply)
      /\ Len(SubSeq(p, 1 + k, Len(p))) = Len(p) - k
      /\ \A i \in 1 .. Len(p) - k : SubSeq(p, 1 + k, Len(p))[i] = p[k + i]
  <2>1. /\ 1 + k \in Int /\ Len(p) \in Int /\ 1 + k <= Len(p) + 1
        /\ \A i \in 1 + k .. Len(p) : p[i] \in Reply
    BY <1>2, ElementOfSeq
  <2>2. /\ SubSeq(p, 1 + k, Len(p)) \in Seq(Reply)
        /\ Len(SubSeq(p, 1 + k, Len(p))) =
             IF 1 + k <= Len(p) THEN Len(p) - (1 + k) + 1 ELSE 0
        /\ \A i \in 1 .. Len(p) - (1 + k) + 1 :
             SubSeq(p, 1 + k, Len(p))[i] = p[(1 + k) + i - 1]
    BY <2>1, SubSeqProperties
  <2>3. /\ (IF 1 + k <= Len(p) THEN Len(p) - (1 + k) + 1 ELSE 0) = Len(p) - k
        /\ Len(p) - (1 + k) + 1 = Len(p) - k
        /\ \A i \in 1 .. Len(p) - k : (1 + k) + i - 1 = k + i
    BY <1>2, <2>1
  <2> QED BY <2>2, <2>3
<1> QED BY <1>1, <1>2, <1>3, <1>4

\* The telegram is answered, and older answers to the program are no more its own.
Aged(p, c) == [k \in DOMAIN p |-> [p[k] EXCEPT !.by = IF @ = c THEN None ELSE @]]
ReplyTo(c, st, short) ==
  [cmd |-> cmd[c], size |-> IF short THEN 3 ELSE Size(cmd[c]), status |-> st, by |-> c]

LEMMA SendDoneShape ==
  ASSUME Types, NEW c \in Client, NEW st \in Status, NEW short \in BOOLEAN,
         SendDone(c, st, short)
  PROVE  /\ Slot(c) \in Brick /\ pipe[Slot(c)] \in Seq(Reply)
         /\ ReplyTo(c, st, short) \in Reply /\ ReplyTo(c, st, short).size \in Sizes
         /\ Aged(pipe[Slot(c)], c) \in Seq(Reply)
         /\ Len(Aged(pipe[Slot(c)], c)) = Len(pipe[Slot(c)])
         /\ pipe' = [pipe EXCEPT ![Slot(c)] =
                       Append(Aged(pipe[Slot(c)], c), ReplyTo(c, st, short))]
<1> DEFINE p == pipe[Slot(c)]
<1>1. Slot(c) \in Brick /\ p \in Seq(Reply)
  BY DEF SendDone, Types, BrickTypes
<1>2. cmd[c] \in AnyCmd /\ Size(cmd[c]) \in Sizes /\ 3 \in Sizes
  BY CommandTypes DEF SendDone, Sizes
<1>3. ReplyTo(c, st, short) \in Reply /\ ReplyTo(c, st, short).size \in Sizes
  BY <1>2, SizesTypes DEF ReplyTo, Reply
<1>4. \A k \in 1 .. Len(p) : Aged(p, c)[k] \in Reply
  <2>1. \A k \in 1 .. Len(p) : p[k] \in Reply
    BY <1>1, ElementOfSeq
  <2>2. \A r \in Reply : [r EXCEPT !.by = IF @ = c THEN None ELSE @] \in Reply
    BY DEF Reply
  <2> QED BY <1>1, <2>1, <2>2 DEF Aged
<1>5. Len(p) \in Nat /\ DOMAIN p = 1 .. Len(p)
  BY <1>1
<1>6. Aged(p, c) \in [1 .. Len(p) -> Reply]
  BY <1>4, <1>5 DEF Aged
<1> HIDE DEF p
<1>7. Aged(p, c) \in Seq(Reply) /\ Len(Aged(p, c)) = Len(p)
  BY <1>5, <1>6
<1>8. pipe' = [pipe EXCEPT ![Slot(c)] =
                 Append(Aged(pipe[Slot(c)], c), ReplyTo(c, st, short))]
  BY Zenon DEF SendDone, Aged, ReplyTo
<1> QED BY <1>1, <1>3, <1>7, <1>8 DEF p

-----------------------------------------------------------------------------
(* Types are kept.                                                         *)

LEMMA NoneTypes ==
  /\ None \notin Client \cup Brick \cup Name \cup Handle \cup Commands
  /\ None # "set_name" /\ Held \subseteq Name /\ Factory \in Held
  /\ \A n \in Name : Packed[n] \in Held
  /\ Motors \in Nat /\ MAXNUM \in Nat \ {0}
<1>1. "set_name" \in DOMAIN DeviceReply
  BY DEF DeviceReply
<1>2. "set_name" \in Commands
  BY <1>1 DEF Commands
<1>3. Held \subseteq Name /\ \A n \in Name : Packed[n] \in Held
  BY CommandAssumption DEF Held
<1> QED BY <1>2, <1>3, CommandAssumption

\* Every way to end a command leaves the program idle.
LEMMA EndsTypes ==
  ASSUME ProgramTypes, Locals, NEW c \in Client, NEW r \in {"ok", "fail"},
         pc[c] \in {"busy", "sent"}, Ends(c, r),
         name' \in [Client -> Name \cup {None}], error' \in [Client -> Errors],
         ret' \in [Client -> Int], mine' \in [Client -> BOOLEAN],
         UNCHANGED <<linked, handle, own>>
  PROVE  ProgramTypes' /\ Locals'
<1>1. /\ pc' \in [Client -> PC] /\ result' \in [Client -> {"none", "ok", "fail"}]
      /\ cmd' \in [Client -> AnyCmd \cup {None}] /\ to' \in [Client -> Name \cup {None}]
      /\ did' \in [Client -> Status \cup {"none", "elsewhere"}]
  BY DEF ProgramTypes, Ends, PC
<1>2. todo' \in [Client -> 0 .. Motors]
  <2>1. todo[c] \in 0 .. Motors /\ Motors \in Nat
    BY NoneTypes DEF ProgramTypes
  <2>2. (IF todo[c] > 0 THEN todo[c] - 1 ELSE 0) \in 0 .. Motors
    BY <2>1
  <2> QED BY <2>2 DEF ProgramTypes, Ends
<1>3. ProgramTypes'
  <2>1. linked' = linked /\ handle' = handle /\ own' = own
    OBVIOUS
  <2>2. /\ linked \in [Client -> BOOLEAN] /\ handle \in [Client -> Handle \cup {None}]
        /\ own \in [Client -> Brick \cup {None}]
    BY DEF ProgramTypes
  <2> QED BY <1>1, <1>2, <2>1, <2>2, Zenon DEF ProgramTypes
<1>4. Locals'
  <2> SUFFICES ASSUME NEW d \in Client
               PROVE  /\ linked'[d] => pc'[d] # "closed" /\ handle'[d] \in Handle
                                       /\ own'[d] \in Brick
                      /\ pc'[d] \in {"busy", "sent"} => cmd'[d] \in AnyCmd
                      /\ cmd'[d] = "set_name" => to'[d] \in Name
                      /\ todo'[d] > 0 /\ pc'[d] \in {"busy", "sent"} => cmd'[d] = "motor_get"
                      /\ result'[d] # "none" => pc'[d] = "idle" /\ todo'[d] = 0
                                                /\ cmd'[d] = None
                      /\ pc'[d] = "closed" => todo'[d] = 0 /\ ~linked'[d]
    BY Zenon DEF Locals
  <2>1. CASE d = c
    <3>1. pc'[c] = "idle" /\ cmd'[c] = None
      BY DEF Ends, ProgramTypes
    <3>2. result[c] = "none" /\ (linked[c] => handle[c] \in Handle /\ own[c] \in Brick)
      BY DEF Locals
    <3>3. result'[c] # "none" => todo'[c] = 0
      <4>1. result'[c] = (IF todo[c] > 0 THEN result[c] ELSE r)
        BY DEF Ends, ProgramTypes
      <4>2. todo'[c] = (IF todo[c] > 0 THEN todo[c] - 1 ELSE 0)
        BY DEF Ends, ProgramTypes
      <4> QED BY <3>2, <4>1, <4>2
    <3>4. linked'[c] = linked[c] /\ handle'[c] = handle[c] /\ own'[c] = own[c]
      OBVIOUS
    <3> QED BY <2>1, <3>1, <3>2, <3>3, <3>4, NoneTypes
  <2>2. CASE d # c
    <3>1. /\ pc'[d] = pc[d] /\ cmd'[d] = cmd[d] /\ to'[d] = to[d] /\ todo'[d] = todo[d]
          /\ result'[d] = result[d] /\ linked'[d] = linked[d] /\ handle'[d] = handle[d]
          /\ own'[d] = own[d]
      BY <2>2 DEF Ends, ProgramTypes
    <3> QED BY <3>1 DEF Locals
  <2> QED BY <2>1, <2>2
<1> QED BY <1>3, <1>4

LEMMA FailsTypes ==
  ASSUME ProgramTypes, Locals, NEW c \in Client, NEW e \in {"same", "brick", "connection"},
         pc[c] \in {"busy", "sent"}, Fails(c, e),
         ret' \in [Client -> Int], mine' \in [Client -> BOOLEAN],
         UNCHANGED <<linked, handle, own>>
  PROVE  ProgramTypes' /\ Locals'
<1>1. Ends(c, "fail") /\ name' = name
  BY Zenon DEF Fails
<1>2. error' \in [Client -> Errors]
  BY DEF Fails, ProgramTypes, Errors
<1>3. name' \in [Client -> Name \cup {None}]
  BY <1>1 DEF ProgramTypes
<1> QED BY <1>1, <1>2, <1>3, EndsTypes

LEMMA WireTypes == \A n \in Int : Wire(n) \in Int /\ (n # -1 => Wire(n) = n)
<1>1. 2 ^ Bits - 1 \in Int
  <2>1. Bits \in Nat
    BY CommandAssumption
  <2>2. \A n \in Nat : 2 ^ n \in Int
    OBVIOUS
  <2> QED BY <2>1, <2>2
<1> QED BY <1>1 DEF Wire

\* A program goes on with the command it has, or the one that follows.
LEMMA GoesOnTypes ==
  ASSUME ProgramTypes, Locals, NEW c \in Client, NEW s \in {"busy", "sent"},
         NEW d \in Status \cup {"none", "elsewhere"}, NEW m \in AnyCmd,
         pc[c] \in {"busy", "sent"}, m = cmd[c] \/ m = FollowUp(cmd[c]),
         pc' = [pc EXCEPT ![c] = s], cmd' = [cmd EXCEPT ![c] = m],
         did' = [did EXCEPT ![c] = d], ret' \in [Client -> Int],
         mine' \in [Client -> BOOLEAN],
         UNCHANGED <<linked, handle, own, name, error, todo, to, result>>
  PROVE  ProgramTypes' /\ Locals'
<1>1. /\ linked' = linked /\ handle' = handle /\ own' = own /\ name' = name
      /\ error' = error /\ todo' = todo /\ to' = to /\ result' = result
  OBVIOUS
<1>2. ProgramTypes'
  <2>1. /\ pc' \in [Client -> PC] /\ cmd' \in [Client -> AnyCmd \cup {None}]
        /\ did' \in [Client -> Status \cup {"none", "elsewhere"}]
    BY DEF ProgramTypes, PC
  <2> QED BY <1>1, <2>1, Zenon DEF ProgramTypes
<1>3. Locals'
  <2> SUFFICES ASSUME NEW e \in Client
               PROVE  /\ linked[e] => pc'[e] # "closed" /\ handle[e] \in Handle
                                       /\ own[e] \in Brick
                      /\ pc'[e] \in {"busy", "sent"} => cmd'[e] \in AnyCmd
                      /\ cmd'[e] = "set_name" => to[e] \in Name
                      /\ todo[e] > 0 /\ pc'[e] \in {"busy", "sent"} => cmd'[e] = "motor_get"
                      /\ result[e] # "none" => pc'[e] = "idle" /\ todo[e] = 0
                                               /\ cmd'[e] = None
                      /\ pc'[e] = "closed" => todo[e] = 0 /\ ~linked[e]
    BY <1>1, SMTT(30) DEF Locals
  <2>1. CASE e = c
    <3>1. pc'[c] = s /\ cmd'[c] = m
      BY DEF ProgramTypes
    <3>2. /\ result[c] = "none" /\ (linked[c] => handle[c] \in Handle /\ own[c] \in Brick)
          /\ cmd[c] = "set_name" => to[c] \in Name
          /\ todo[c] > 0 => cmd[c] = "motor_get"
      BY DEF Locals
    <3>3. (m = "set_name" => cmd[c] = "set_name") /\ (cmd[c] = "motor_get" => m = "motor_get")
      BY DEF FollowUp
    <3> QED BY <2>1, <3>1, <3>2, <3>3
  <2>2. CASE e # c
    <3>1. pc'[e] = pc[e] /\ cmd'[e] = cmd[e]
      BY <2>2 DEF ProgramTypes
    <3> QED BY <3>1 DEF Locals
  <2> QED BY <2>1, <2>2
<1> QED BY <1>2, <1>3

LEMMA SentTypes ==
  ASSUME ProgramTypes, Locals, NEW c \in Client, NEW n \in Int,
         NEW d \in Status \cup {"none", "elsewhere"}, pc[c] = "busy", Sent(c, n, d)
  PROVE  ProgramTypes' /\ Locals'
<1>1. ret' \in [Client -> Int] /\ mine' = mine /\ mine' \in [Client -> BOOLEAN]
  BY WireTypes DEF Sent, ProgramTypes
<1>2. UNCHANGED <<linked, handle, own>>
  BY Zenon DEF Sent
<1>3. CASE Wire(n) = -1
  <2>1. Fails(c, "connection")
    BY <1>3, Zenon DEF Sent
  <2> QED BY <1>1, <1>2, <2>1, FailsTypes
<1>4. CASE Wire(n) # -1
  <2>1. /\ pc' = [pc EXCEPT ![c] = "sent"] /\ did' = [did EXCEPT ![c] = d]
        /\ UNCHANGED <<name, error, todo, cmd, to, result>>
    BY <1>4, Zenon DEF Sent
  <2>2. cmd[c] \in AnyCmd
    BY DEF Locals
  <2>3. cmd' = [cmd EXCEPT ![c] = cmd[c]]
    BY <2>1 DEF ProgramTypes
  <2> QED BY <1>1, <1>2, <2>1, <2>2, <2>3, GoesOnTypes
<1> QED BY <1>3, <1>4

LEMMA UnpackTypes ==
  ASSUME ProgramTypes, Locals, NEW c \in Client, NEW r \in Reply, pc[c] = "sent",
         Unpack(c, r), ret' \in [Client -> Int], UNCHANGED <<linked, handle, own>>
  PROVE  ProgramTypes' /\ Locals'
<1>1. mine' \in [Client -> BOOLEAN]
  <2>1. (r.by = c) \in BOOLEAN
    OBVIOUS
  <2>2. mine' = [mine EXCEPT ![c] = r.by = c]
    BY Zenon DEF Unpack
  <2> QED BY <2>1, <2>2, Zenon DEF ProgramTypes
<1>2. CASE r.cmd # cmd[c]
  <2>1. Fails(c, "same")
    BY <1>2, Zenon DEF Unpack
  <2> QED BY <1>1, <2>1, FailsTypes
<1>3. CASE r.cmd = cmd[c] /\ r.status = "error" /\ cmd[c] \notin IgnoresError
  <2>1. Fails(c, "brick")
    BY <1>3, Zenon DEF Unpack
  <2> QED BY <1>1, <2>1, FailsTypes
<1>4. CASE r.cmd = cmd[c] /\ ~(r.status = "error" /\ cmd[c] \notin IgnoresError)
           /\ r.status = "again"
  <2>1. /\ pc' = [pc EXCEPT ![c] = "busy"]
        /\ cmd' = [cmd EXCEPT ![c] = FollowUp(@)]
        /\ did' = [did EXCEPT ![c] = "none"]
        /\ UNCHANGED <<name, error, todo, to, result>>
    BY <1>4, Zenon DEF Unpack
  <2>2. FollowUp(cmd[c]) \in AnyCmd
    BY AnyCmdTypes DEF Locals
  <2> QED BY <1>1, <2>1, <2>2, GoesOnTypes
<1>5. CASE r.cmd = cmd[c] /\ ~(r.status = "error" /\ cmd[c] \notin IgnoresError)
           /\ r.status # "again"
  <2>1. /\ Ends(c, "ok")
        /\ error' = [error EXCEPT ![c] = IF r.status = "error" THEN "brick" ELSE @]
        /\ name' = [name EXCEPT ![c] = CASE cmd[c] = "set_name" -> to[c]
                                         [] cmd[c] = "reset_bluetooth" -> Factory
                                         [] OTHER -> @]
    BY <1>5, Zenon DEF Unpack
  <2>2. error' \in [Client -> Errors]
    BY <2>1 DEF ProgramTypes, Errors
  <2>3. name' \in [Client -> Name \cup {None}]
    BY <2>1, NoneTypes DEF ProgramTypes, Locals
  <2> QED BY <1>1, <2>1, <2>2, <2>3, EndsTypes
<1> QED BY <1>2, <1>3, <1>4, <1>5

LEMMA GotTypes ==
  ASSUME ProgramTypes, Locals, NEW c \in Client, NEW n \in Int, NEW r,
         n \in {-1, 0} \/ r \in Reply, pc[c] = "sent", Got(c, n, r)
  PROVE  ProgramTypes' /\ Locals'
<1>1. ret' \in [Client -> Int]
  BY WireTypes DEF Got, ProgramTypes
<1>2. UNCHANGED <<linked, handle, own>>
  BY Zenon DEF Got
<1>3. mine \in [Client -> BOOLEAN]
  BY DEF ProgramTypes
<1>4. CASE Wire(n) = -1
  <2>1. Fails(c, "connection") /\ mine' = mine
    BY <1>4, Zenon DEF Got
  <2> QED BY <1>1, <1>2, <1>3, <2>1, FailsTypes
<1>5. CASE Wire(n) # -1 /\ n = -1
  <2>1. /\ pc' = [pc EXCEPT ![c] = "crashed"] /\ did' = [did EXCEPT ![c] = "none"]
        /\ UNCHANGED <<name, error, todo, cmd, to, result, mine>>
    BY <1>5, Zenon DEF Got
  <2>2. /\ linked' = linked /\ handle' = handle /\ own' = own /\ name' = name
        /\ error' = error /\ todo' = todo /\ to' = to /\ result' = result
        /\ cmd' = cmd /\ mine' = mine
    BY <1>2, <2>1
  <2>3. ProgramTypes'
    <3>1. /\ pc' \in [Client -> PC]
          /\ did' \in [Client -> Status \cup {"none", "elsewhere"}]
      BY <2>1 DEF ProgramTypes, PC
    <3> QED BY <1>1, <2>2, <3>1, Zenon DEF ProgramTypes
  <2>4. Locals'
    <3>1. \A e \in Client : pc'[e] = pc[e] \/ (e = c /\ pc'[e] = "crashed")
      BY <2>1 DEF ProgramTypes
    <3>2. result[c] = "none"
      BY DEF Locals
    <3> QED BY <2>2, <3>1, <3>2 DEF Locals
  <2> QED BY <2>3, <2>4
<1>6. CASE Wire(n) # -1 /\ n = 0
  <2> n # -1
    BY <1>6
  <2>1. Fails(c, "same") /\ mine' = mine
    BY <1>6, Zenon DEF Got
  <2> QED BY <1>1, <1>2, <1>3, <2>1, FailsTypes
<1>7. CASE Wire(n) # -1 /\ n # -1 /\ n # 0
  <2>1. Unpack(c, r) /\ r \in Reply
    BY <1>7, Zenon DEF Got
  <2> QED BY <1>1, <1>2, <2>1, UnpackTypes
<1> QED BY <1>4, <1>5, <1>6, <1>7

\* nxtd takes bricks out of its table.
LEMMA RemoveTypes ==
  ASSUME BrickTypes, NEW B, Remove(B)
  PROVE  /\ table' \in [Handle -> Brick \cup {None}]
         /\ rname' \in [Handle -> Held \cup {None}]
BY DEF BrickTypes, Remove

LEMMA PipeTypes ==
  ASSUME BrickTypes, NEW b, NEW p \in Seq(Reply), pipe' = [pipe EXCEPT ![b] = p]
  PROVE  pipe' \in [Brick -> Seq(Reply)]
BY DEF BrickTypes

LEMMA SlotTypes ==
  ASSUME Types, NEW c \in Client, linked[c]
  PROVE  /\ Slot(c) \in Brick \cup {None} /\ handle[c] \in Handle /\ own[c] \in Brick
         /\ Slot(c) # None => Slot(c) \in Brick /\ pipe[Slot(c)] \in Seq(Reply)
BY DEF Types, Locals, BrickTypes, Slot

\* What the table and the pipes are made of is left to each step.
LEMMA NoAnswerTypes ==
  ASSUME Types, NEW c \in Client, NoAnswer(c)  PROVE Types'
<1>1. BrickTypes'
  BY DEF NoAnswer, Types, BrickTypes, brickVars, srvVars
<1>2. ProgramTypes' /\ Locals'
  <2>1. ret' \in [Client -> Int] /\ mine' \in [Client -> BOOLEAN]
    BY DEF NoAnswer, Types, ProgramTypes
  <2> QED BY <2>1, FailsTypes, Zenon DEF NoAnswer, Types
<1> QED BY <1>1, <1>2 DEF Types

LEMMA SendNowhereTypes ==
  ASSUME Types, NEW c \in Client, SendNowhere(c)  PROVE Types'
<1>1. Sent(c, -1, "none") /\ pc[c] = "busy"
  BY Zenon DEF SendNowhere
<1>2. BrickTypes'
  BY <1>1 DEF SendNowhere, Sent, Types, BrickTypes, srvVars
<1>3. ProgramTypes' /\ Locals'
  BY <1>1, SentTypes DEF Types
<1> QED BY <1>2, <1>3 DEF Types

LEMMA SendFailsTypes ==
  ASSUME Types, NEW c \in Client, NEW n \in {-1, 0}, SendFails(c, n)  PROVE Types'
<1>1. Sent(c, n, "none") /\ pc[c] = "busy" /\ Remove({Slot(c)})
      /\ pipe' = [pipe EXCEPT ![Slot(c)] = <<>>] /\ bname' = bname
  BY Zenon DEF SendFails
<1>2. BrickTypes'
  <2>1. bt' = bt /\ here' = here
    BY <1>1, Zenon DEF Sent
  <2>2. pipe' \in [Brick -> Seq(Reply)]
    BY <1>1, PipeTypes, EmptySeq DEF Types
  <2>3. BrickTypes
    BY DEF Types
  <2> QED BY <1>1, <2>1, <2>2, <2>3, RemoveTypes DEF BrickTypes
<1>3. ProgramTypes' /\ Locals'
  BY <1>1, SentTypes DEF Types
<1> QED BY <1>2, <1>3 DEF Types

LEMMA SendDoneTypes ==
  ASSUME Types, NEW c \in Client, NEW st \in Status, NEW short \in BOOLEAN,
         SendDone(c, st, short)
  PROVE  Types'
<1>1. /\ Sent(c, 2, IF Slot(c) = own[c] THEN st ELSE "elsewhere") /\ pc[c] = "busy"
      /\ table' = table /\ rname' = rname
      /\ bname' = IF st # "ok" THEN bname
                  ELSE [bname EXCEPT ![Slot(c)] =
                          CASE cmd[c] = "set_name" -> Packed[to[c]]
                            [] cmd[c] = "reset_bluetooth" -> Factory
                            [] OTHER -> @]
  BY Zenon DEF SendDone, srvVars
<1>2. BrickTypes'
  <2>1. bt' = bt /\ here' = here
    BY <1>1, Zenon DEF Sent
  <2>2. pipe' \in [Brick -> Seq(Reply)]
    <3>1. Append(Aged(pipe[Slot(c)], c), ReplyTo(c, st, short)) \in Seq(Reply)
      BY SendDoneShape, AppendProperties
    <3> DEFINE p == Append(Aged(pipe[Slot(c)], c), ReplyTo(c, st, short))
    <3>2. p \in Seq(Reply) /\ pipe' = [pipe EXCEPT ![Slot(c)] = p] /\ BrickTypes
      BY <3>1, SendDoneShape, Zenon DEF Types
    <3> HIDE DEF p
    <3> QED BY <3>2, PipeTypes, Zenon
  <2>3. bname' \in [Brick -> Held]
    BY <1>1, NoneTypes DEF Types, BrickTypes, Locals
  <2> QED BY <1>1, <2>1, <2>2, <2>3 DEF Types, BrickTypes
<1>3. ProgramTypes' /\ Locals'
  <2>1. (IF Slot(c) = own[c] THEN st ELSE "elsewhere") \in Status \cup {"none", "elsewhere"}
    OBVIOUS
  <2> QED BY <1>1, <2>1, SentTypes DEF Types
<1> QED BY <1>2, <1>3 DEF Types

LEMMA RecvNowhereTypes ==
  ASSUME Types, NEW c \in Client, RecvNowhere(c)  PROVE Types'
<1>1. Got(c, 0, None) /\ pc[c] = "sent" /\ pipe' = pipe /\ table' = table /\ rname' = rname
  BY Zenon DEF RecvNowhere, srvVars
<1>2. BrickTypes'
  <2>1. bt' = bt /\ here' = here /\ bname' = bname
    BY <1>1, Zenon DEF Got
  <2> QED BY <1>1, <2>1 DEF Types, BrickTypes
<1>3. ProgramTypes' /\ Locals'
  <2>1. 0 \in {-1, 0} /\ 0 \in Int
    OBVIOUS
  <2> QED BY <1>1, <2>1, GotTypes DEF Types
<1> QED BY <1>2, <1>3 DEF Types

LEMMA RecvDoneTypes ==
  ASSUME Types, NEW c \in Client, RecvDone(c)
  PROVE  /\ Types' /\ Slot(c) \in Brick /\ pipe[Slot(c)] \in Seq(Reply)
         /\ Size(cmd[c]) \in Sizes /\ Size(cmd[c]) \in Nat \ {0}
         /\ Received(Slot(c), pipe[Slot(c)], Size(cmd[c])) = Size(cmd[c])
         /\ pipe' = [pipe EXCEPT ![Slot(c)] = Rest(Slot(c), pipe[Slot(c)], Size(cmd[c]))]
         /\ pipe[Slot(c)][1] \in Reply /\ pipe[Slot(c)] # <<>>
<1>1. /\ Got(c, Size(cmd[c]), pipe[Slot(c)][1]) /\ pc[c] = "sent" /\ linked[c]
      /\ Slot(c) \in here /\ Received(Slot(c), pipe[Slot(c)], Size(cmd[c])) = Size(cmd[c])
      /\ pipe' = [pipe EXCEPT ![Slot(c)] = Rest(Slot(c), @, Size(cmd[c]))]
      /\ table' = table /\ rname' = rname
  BY Zenon DEF RecvDone, srvVars
<1>2. Slot(c) \in Brick /\ pipe[Slot(c)] \in Seq(Reply)
  BY <1>1 DEF Types, BrickTypes
<1>3. Size(cmd[c]) \in Sizes /\ Size(cmd[c]) \in Nat \ {0}
  BY <1>1, CommandTypes
<1>4. /\ Rest(Slot(c), pipe[Slot(c)], Size(cmd[c])) \in Seq(Reply)
      /\ pipe[Slot(c)] # <<>>
  BY <1>1, <1>2, <1>3, RestShape
<1>5. pipe' = [pipe EXCEPT ![Slot(c)] = Rest(Slot(c), pipe[Slot(c)], Size(cmd[c]))]
  BY <1>1
<1>6. BrickTypes'
  <2>1. bt' = bt /\ here' = here /\ bname' = bname
    BY <1>1, Zenon DEF Got
  <2>2. pipe' \in [Brick -> Seq(Reply)]
    BY <1>4, <1>5, PipeTypes DEF Types
  <2> QED BY <1>1, <2>1, <2>2 DEF Types, BrickTypes
<1>7. pipe[Slot(c)][1] \in Reply
  BY <1>2, <1>4
<1>8. ProgramTypes' /\ Locals'
  <2>1. Size(cmd[c]) \in Int
    BY <1>3
  <2> QED BY <1>1, <1>7, <2>1, GotTypes DEF Types
<1> QED BY <1>1, <1>2, <1>3, <1>4, <1>5, <1>6, <1>7, <1>8 DEF Types

\* Without an answer nothing is received.
LEMMA ReceivedTypes ==
  ASSUME NEW p \in Seq(Reply), NEW s \in Nat, NEW b
  PROVE  /\ Received(b, p, s) \in Int
         /\ p = <<>> => Received(b, p, s) \in {-1, 0}
<1>1. p # <<>> => p[1].size \in Int
  <2> SUFFICES ASSUME p # <<>>  PROVE p[1].size \in Int
    OBVIOUS
  <2>1. p[1] \in Reply
    OBVIOUS
  <2> DEFINE n == p[1].size
  <2>2. n \in 3 .. 64
    BY <2>1 DEF Reply
  <2> HIDE DEF n
  <2>3. n \in Int
    BY <2>2
  <2> QED BY <2>3 DEF n
<1>2. p = <<>> /\ b \notin bt => Takes(b, p, s) = {}
  <2>1. Len(<<>>) = 0 /\ DOMAIN <<>> = {}
    OBVIOUS
  <2> QED BY <2>1 DEF Takes
<1> QED BY <1>1, <1>2 DEF Received

LEMMA RecvFailsTypes ==
  ASSUME Types, NEW c \in Client, NEW mute \in BOOLEAN, RecvFails(c, mute)
  PROVE  Types' /\ Remove({Slot(c)}) /\ pipe' = [pipe EXCEPT ![Slot(c)] = <<>>]
<1> DEFINE p == IF mute THEN <<>> ELSE pipe[Slot(c)]
           n == Received(Slot(c), p, Size(cmd[c]))
           r == IF p = <<>> THEN None ELSE p[1]
<1>1. /\ pc[c] = "sent" /\ linked[c] /\ Slot(c) # None /\ n # Size(cmd[c])
      /\ Remove({Slot(c)}) /\ pipe' = [pipe EXCEPT ![Slot(c)] = <<>>]
      /\ Got(c, n, r)
  BY Zenon DEF RecvFails
<1>2. Slot(c) \in Brick /\ pipe[Slot(c)] \in Seq(Reply)
  BY <1>1, SlotTypes
<1>3. Size(cmd[c]) \in Nat
  BY <1>1, CommandTypes
<1>4. p \in Seq(Reply)
  BY <1>2
<1>5. n \in Int /\ (n \in {-1, 0} \/ r \in Reply)
  <2> HIDE DEF p
  <2>1. n \in Int /\ (p = <<>> => n \in {-1, 0})
    BY <1>3, <1>4, ReceivedTypes
  <2>2. p # <<>> => r \in Reply
    BY <1>4
  <2> QED BY <2>1, <2>2
<1> HIDE DEF n, r
<1>6. BrickTypes'
  <2>1. bt' = bt /\ here' = here /\ bname' = bname
    BY <1>1, Zenon DEF Got
  <2>2. pipe' \in [Brick -> Seq(Reply)]
    BY <1>1, PipeTypes, EmptySeq DEF Types
  <2>3. BrickTypes
    BY DEF Types
  <2> QED BY <1>1, <2>1, <2>2, <2>3, RemoveTypes DEF BrickTypes
<1>7. ProgramTypes' /\ Locals'
  BY <1>1, <1>5, GotTypes DEF Types
<1> QED BY <1>1, <1>6, <1>7 DEF Types

\* LIST keeps a brick only when its keepalive is answered.
LEMMA KeptAliveTypes ==
  ASSUME BrickTypes, NEW b \in Brick
  PROVE  /\ KeptAlive(b) \in Seq(Reply) /\ Len(KeptAlive(b)) = Len(pipe[b]) + 1
         /\ Len(pipe[b]) \in Nat /\ pipe[b] \in Seq(Reply)
         /\ \A k \in 1 .. Len(pipe[b]) : KeptAlive(b)[k] = pipe[b][k]
         /\ KeptAlive(b)[Len(pipe[b]) + 1].size = 7
         /\ Answers(b) => Rest(b, KeptAlive(b), 7) \in Seq(Reply)
<1> DEFINE r == [cmd |-> "keep_alive", size |-> 7, status |-> "ok", by |-> None]
<1>1. r \in Reply /\ r.size = 7
  BY DEF Reply, Status
<1>2. pipe[b] \in Seq(Reply) /\ KeptAlive(b) = Append(pipe[b], r)
  BY DEF BrickTypes, KeptAlive
<1> HIDE DEF r
<1>3. /\ Append(pipe[b], r) \in Seq(Reply) /\ Len(Append(pipe[b], r)) = Len(pipe[b]) + 1
      /\ \A k \in 1 .. Len(pipe[b]) : Append(pipe[b], r)[k] = pipe[b][k]
      /\ Append(pipe[b], r)[Len(pipe[b]) + 1] = r
  BY <1>1, <1>2, AppendProperties
<1>4. Len(pipe[b]) \in Nat
  BY <1>2
<1>5. Answers(b) => Rest(b, KeptAlive(b), 7) \in Seq(Reply)
  <2> SUFFICES ASSUME Answers(b)  PROVE Rest(b, KeptAlive(b), 7) \in Seq(Reply)
    OBVIOUS
  <2>1. Received(b, KeptAlive(b), 7) = 7
    BY Zenon DEF Answers
  <2>2. KeptAlive(b) \in Seq(Reply) /\ 7 \in Nat \ {0}
    BY <1>2, <1>3
  <2> QED BY <2>1, <2>2, RestShape
<1> QED BY <1>1, <1>2, <1>3, <1>4, <1>5

\* A step that touches neither the programs nor the connections
LEMMA ProgramsUnchanged ==
  ASSUME ProgramTypes, Locals, UNCHANGED <<pc, linked, nxtVars, runVars>>
  PROVE  ProgramTypes' /\ Locals'
BY DEF ProgramTypes, Locals, nxtVars, runVars

LEMMA OpenTypes ==
  ASSUME Types, NEW c \in Client, NEW want, NEW mute \in SUBSET Brick,
         Open(c, want, mute)
  PROVE  Types'
<1> DEFINE gone == {b \in Brick : ~Answers(b) \/ b \in mute}
           hits == {h \in Handle : /\ table[h] \in Brick \ gone
                                   /\ want \in {None, rname[h], table[h]}}
<1>1. /\ pc[c] = "closed" /\ Remove(gone)
      /\ bt' = bt /\ here' = here /\ bname' = bname
      /\ pipe' = [b \in Brick |->
           IF \A h \in Handle : table[h] # b THEN pipe[b]
           ELSE IF b \in gone THEN <<>> ELSE Rest(b, KeptAlive(b), 7)]
  BY Zenon DEF Open
<1>2. BrickTypes /\ ProgramTypes /\ Locals
  BY DEF Types
<1>3. BrickTypes'
  <2>1. \A b \in Brick : pipe'[b] \in Seq(Reply)
    <3> SUFFICES ASSUME NEW b \in Brick  PROVE pipe'[b] \in Seq(Reply)
      OBVIOUS
    <3>1. pipe[b] \in Seq(Reply) /\ <<>> \in Seq(Reply)
      BY <1>2, EmptySeq DEF BrickTypes
    <3>2. b \notin gone => Answers(b)
      OBVIOUS
    <3>3. b \notin gone => Rest(b, KeptAlive(b), 7) \in Seq(Reply)
      BY <1>2, <3>2, KeptAliveTypes
    <3> HIDE DEF gone
    <3> QED BY <1>1, <3>1, <3>3
  <2>2. pipe' \in [Brick -> Seq(Reply)]
    BY <1>1, <2>1, Zenon
  <2> HIDE DEF gone
  <2> QED BY <1>1, <1>2, <2>2, RemoveTypes DEF BrickTypes
<1>4. ProgramTypes' /\ Locals'
  <2>1. CASE hits = {}
    <3>1. UNCHANGED <<pc, linked, nxtVars, runVars>>
      BY <2>1, Zenon DEF Open
    <3> QED BY <1>2, <3>1, ProgramsUnchanged
  <2>2. CASE hits # {}
    <3>1. PICK h \in hits :
            /\ pc' = [pc EXCEPT ![c] = "idle"]
            /\ linked' = [linked EXCEPT ![c] = TRUE]
            /\ handle' = [handle EXCEPT ![c] = h]
            /\ name' = [name EXCEPT ![c] = rname[h]]
            /\ own' = [own EXCEPT ![c] = table[h]]
            /\ todo' = [todo EXCEPT ![c] = Motors]
            /\ UNCHANGED <<error, cmd, to, ret, result, did, mine>>
      BY <2>2, Zenon DEF Open
    <3>2. h \in Handle /\ table[h] \in Brick /\ rname[h] \in Name \cup {None}
      BY <1>2, NoneTypes DEF BrickTypes
    <3>3. /\ error' = error /\ cmd' = cmd /\ to' = to /\ ret' = ret
          /\ result' = result /\ did' = did /\ mine' = mine
      BY <3>1
    <3>4. ProgramTypes'
      <4>1. /\ pc' \in [Client -> PC] /\ handle' \in [Client -> Handle \cup {None}]
            /\ name' \in [Client -> Name \cup {None}]
            /\ own' \in [Client -> Brick \cup {None}]
        BY <1>2, <3>1, <3>2 DEF ProgramTypes, PC
      <4>2. linked' \in [Client -> BOOLEAN]
        BY <1>2, <3>1, Zenon DEF ProgramTypes
      <4>3. todo' \in [Client -> 0 .. Motors]
        BY <1>2, <3>1, NoneTypes DEF ProgramTypes
      <4> QED BY <1>2, <3>3, <4>1, <4>2, <4>3, Zenon DEF ProgramTypes
    <3>5. Locals'
      <4> SUFFICES ASSUME NEW e \in Client
                   PROVE  /\ linked'[e] => pc'[e] # "closed" /\ handle'[e] \in Handle
                                           /\ own'[e] \in Brick
                          /\ pc'[e] \in {"busy", "sent"} => cmd[e] \in AnyCmd
                          /\ cmd[e] = "set_name" => to[e] \in Name
                          /\ todo'[e] > 0 /\ pc'[e] \in {"busy", "sent"}
                               => cmd[e] = "motor_get"
                          /\ result[e] # "none" => pc'[e] = "idle" /\ todo'[e] = 0
                                                   /\ cmd[e] = None
                          /\ pc'[e] = "closed" => todo'[e] = 0 /\ ~linked'[e]
        BY <3>3, Zenon DEF Locals
      <4>1. CASE e = c
        <5>1. /\ pc'[c] = "idle" /\ handle'[c] = h /\ own'[c] = table[h]
          BY <1>2, <3>1 DEF ProgramTypes
        <5>2. result[c] = "none" /\ (cmd[c] = "set_name" => to[c] \in Name)
          BY <1>1, <1>2 DEF Locals
        <5> QED BY <3>2, <4>1, <5>1, <5>2
      <4>2. CASE e # c
        <5>1. /\ pc'[e] = pc[e] /\ linked'[e] = linked[e] /\ handle'[e] = handle[e]
              /\ own'[e] = own[e] /\ todo'[e] = todo[e]
          BY <1>2, <3>1, <4>2 DEF ProgramTypes
        <5> QED BY <1>2, <5>1 DEF Locals
      <4> QED BY <4>1, <4>2
    <3> QED BY <3>4, <3>5
  <2> QED BY <2>1, <2>2
<1> QED BY <1>3, <1>4 DEF Types

LEMMA LeaveTypes ==
  ASSUME Types, NEW c \in Client, Leave(c)  PROVE Types'
<1>1. BrickTypes'
  BY DEF Leave, Types, BrickTypes, brickVars, srvVars
<1>2. ProgramTypes'
  <2>1. /\ pc' \in [Client -> PC] /\ handle' \in [Client -> Handle \cup {None}]
        /\ name' \in [Client -> Name \cup {None}] /\ error' \in [Client -> Errors]
        /\ cmd' \in [Client -> AnyCmd \cup {None}]
        /\ to' \in [Client -> Name \cup {None}]
        /\ result' \in [Client -> {"none", "ok", "fail"}]
        /\ own' \in [Client -> Brick \cup {None}]
        /\ did' \in [Client -> Status \cup {"none", "elsewhere"}]
    BY DEF Leave, Types, ProgramTypes, PC, Errors
  <2>2. linked' \in [Client -> BOOLEAN] /\ mine' \in [Client -> BOOLEAN]
    BY Zenon DEF Leave, Types, ProgramTypes
  <2>3. todo' \in [Client -> 0 .. Motors] /\ ret' \in [Client -> Int]
    BY NoneTypes DEF Leave, Types, ProgramTypes
  <2> QED BY <2>1, <2>2, <2>3, Zenon DEF ProgramTypes
<1>3. Locals'
  <2> SUFFICES ASSUME NEW e \in Client
               PROVE  /\ linked'[e] => pc'[e] # "closed" /\ handle'[e] \in Handle
                                       /\ own'[e] \in Brick
                      /\ pc'[e] \in {"busy", "sent"} => cmd'[e] \in AnyCmd
                      /\ cmd'[e] = "set_name" => to'[e] \in Name
                      /\ todo'[e] > 0 /\ pc'[e] \in {"busy", "sent"} => cmd'[e] = "motor_get"
                      /\ result'[e] # "none" => pc'[e] = "idle" /\ todo'[e] = 0
                                                /\ cmd'[e] = None
                      /\ pc'[e] = "closed" => todo'[e] = 0 /\ ~linked'[e]
    BY Zenon DEF Locals
  <2>1. CASE e = c
    <3>1. /\ pc'[c] = "closed" /\ cmd'[c] = None /\ todo'[c] = 0
          /\ result'[c] = "none"
      BY DEF Leave, Types, ProgramTypes
    <3>2. ~linked'[c]
      BY DEF Leave, Types, ProgramTypes
    <3> QED BY <2>1, <3>1, <3>2, NoneTypes
  <2>2. CASE e # c
    <3>1. /\ pc'[e] = pc[e] /\ linked'[e] = linked[e] /\ handle'[e] = handle[e]
          /\ own'[e] = own[e] /\ todo'[e] = todo[e] /\ cmd'[e] = cmd[e]
          /\ to'[e] = to[e] /\ result'[e] = result[e]
      BY <2>2 DEF Leave, Types, ProgramTypes
    <3> QED BY <3>1 DEF Types, Locals
  <2> QED BY <2>1, <2>2
<1> QED BY <1>1, <1>2, <1>3 DEF Types

LEMMA StartTypes ==
  ASSUME Types, NEW c \in Client, NEW m \in Cmd \cup {"motor_get"},
         NEW n \in Name \cup {None}, Start(c, m, n)
  PROVE  Types'
<1>1. BrickTypes'
  BY DEF Start, Types, BrickTypes, brickVars, srvVars
<1>2. m \in AnyCmd
  BY DEF AnyCmd
<1>3. ProgramTypes'
  <2>1. /\ pc' \in [Client -> PC] /\ cmd' \in [Client -> AnyCmd \cup {None}]
        /\ to' \in [Client -> Name \cup {None}]
        /\ result' \in [Client -> {"none", "ok", "fail"}]
        /\ did' \in [Client -> Status \cup {"none", "elsewhere"}]
        /\ ret' \in [Client -> Int]
    BY <1>2 DEF Start, Types, ProgramTypes, PC
  <2>2. mine' \in [Client -> BOOLEAN]
    BY Zenon DEF Start, Types, ProgramTypes
  <2>3. /\ linked' = linked /\ handle' = handle /\ name' = name /\ error' = error
        /\ todo' = todo /\ own' = own
    BY DEF Start, nxtVars
  <2> QED BY <2>1, <2>2, <2>3, Zenon DEF Types, ProgramTypes
<1>4. Locals'
  <2>1. /\ linked' = linked /\ handle' = handle /\ todo' = todo /\ own' = own
    BY DEF Start, nxtVars
  <2> SUFFICES ASSUME NEW e \in Client
               PROVE  /\ linked[e] => pc'[e] # "closed" /\ handle[e] \in Handle
                                       /\ own[e] \in Brick
                      /\ pc'[e] \in {"busy", "sent"} => cmd'[e] \in AnyCmd
                      /\ cmd'[e] = "set_name" => to'[e] \in Name
                      /\ todo[e] > 0 /\ pc'[e] \in {"busy", "sent"} => cmd'[e] = "motor_get"
                      /\ result'[e] # "none" => pc'[e] = "idle" /\ todo[e] = 0
                                                /\ cmd'[e] = None
                      /\ pc'[e] = "closed" => todo[e] = 0 /\ ~linked[e]
    BY <2>1, Zenon DEF Locals
  <2>2. CASE e = c
    <3>1. /\ pc'[c] = "busy" /\ cmd'[c] = m /\ to'[c] = n /\ result'[c] = "none"
      BY DEF Start, Types, ProgramTypes
    <3>2. (m = "set_name" => n \in Name) /\ (todo[c] > 0 => m = "motor_get")
      BY DEF Start
    <3>3. linked[c] => handle[c] \in Handle /\ own[c] \in Brick
      BY DEF Types, Locals
    <3> QED BY <1>2, <2>2, <3>1, <3>2, <3>3
  <2>3. CASE e # c
    <3>1. /\ pc'[e] = pc[e] /\ cmd'[e] = cmd[e] /\ to'[e] = to[e] /\ result'[e] = result[e]
      BY <2>3 DEF Start, Types, ProgramTypes
    <3> QED BY <3>1 DEF Types, Locals
  <2> QED BY <2>2, <2>3
<1> QED BY <1>1, <1>3, <1>4 DEF Types

LEMMA InitTypes == ASSUME Init  PROVE Types
<1>1. \A b \in Brick : <<>> \in Seq(Reply)
  BY EmptySeq
<1>2. BrickTypes
  BY <1>1 DEF Init, BrickTypes
<1>3. ProgramTypes
  BY NoneTypes DEF Init, ProgramTypes, PC, Errors
<1>4. Locals
  BY NoneTypes DEF Init, Locals
<1> QED BY <1>2, <1>3, <1>4 DEF Types

LEMMA EnvironmentTypes ==
  ASSUME Types,
         \/ \E b \in Brick : \/ Plug(b) \/ Unplug(b)
                             \/ \E h \in Handle : Scan(b, h)
         \/ Restart
  PROVE  Types'
<1>1. ASSUME NEW b \in Brick, Plug(b)  PROVE Types'
  <2>1. BrickTypes'
    BY <1>1 DEF Plug, Types, BrickTypes, srvVars
  <2>2. ProgramTypes' /\ Locals'
    BY <1>1, ProgramsUnchanged, Zenon DEF Plug, Types
  <2> QED BY <2>1, <2>2 DEF Types
<1>2. ASSUME NEW b \in Brick, Unplug(b)  PROVE Types'
  <2>1. pipe' \in [Brick -> Seq(Reply)]
    BY <1>2, PipeTypes, EmptySeq DEF Unplug, Types
  <2>2. BrickTypes'
    BY <1>2, <2>1 DEF Unplug, Types, BrickTypes, srvVars
  <2>3. ProgramTypes' /\ Locals'
    BY <1>2, ProgramsUnchanged, Zenon DEF Unplug, Types
  <2> QED BY <2>2, <2>3 DEF Types
<1>3. ASSUME NEW b \in Brick, NEW h \in Handle, Scan(b, h)  PROVE Types'
  <2>1. BrickTypes'
    BY <1>3 DEF Scan, Types, BrickTypes, brickVars
  <2>2. UNCHANGED <<pc, linked, nxtVars, runVars>>
    BY <1>3, Zenon DEF Scan
  <2>3. ProgramTypes' /\ Locals'
    BY <2>2, ProgramsUnchanged DEF Types
  <2> QED BY <2>1, <2>3 DEF Types
<1>4. ASSUME Restart  PROVE Types'
  <2>1. \A b \in Brick : <<>> \in Seq(Reply)
    BY EmptySeq
  <2>2. BrickTypes'
    BY <1>4, <2>1 DEF Restart, Types, BrickTypes
  <2>3. linked' = [c \in Client |-> FALSE] /\ UNCHANGED <<pc, nxtVars, runVars>>
    BY <1>4, Zenon DEF Restart
  <2>4. ProgramTypes'
    <3>1. linked' \in [Client -> BOOLEAN]
      BY <2>3, Zenon
    <3>2. /\ pc' = pc /\ handle' = handle /\ name' = name /\ error' = error
          /\ todo' = todo /\ cmd' = cmd /\ to' = to /\ ret' = ret /\ result' = result
          /\ own' = own /\ did' = did /\ mine' = mine
      BY <2>3 DEF nxtVars, runVars
    <3> QED BY <3>1, <3>2, Zenon DEF Types, ProgramTypes
  <2>5. Locals'
    BY <2>3 DEF Types, Locals, nxtVars, runVars
  <2> QED BY <2>2, <2>4, <2>5 DEF Types
<1> QED BY <1>1, <1>2, <1>3, <1>4

LEMMA StepTypes == Types /\ [Next]_vars => Types'
<1> SUFFICES ASSUME Types, [Next]_vars  PROVE Types'
  OBVIOUS
<1>1. ASSUME NEW c \in Client, Program(c)  PROVE Types'
  <2>1. CASE \E want \in {None} \cup Name \cup Brick, mute \in SUBSET Brick :
               Open(c, want, mute)
    BY <2>1, OpenTypes
  <2>2. CASE Leave(c)
    BY <2>2, LeaveTypes
  <2>3. CASE \E m \in Cmd \cup {"motor_get"}, n \in Name \cup {None} : Start(c, m, n)
    BY <2>3, StartTypes
  <2>4. CASE NoAnswer(c)
    BY <2>4, NoAnswerTypes
  <2>5. CASE SendNowhere(c) \/ \E n \in {-1, 0} : SendFails(c, n)
    BY <2>5, SendNowhereTypes, SendFailsTypes
  <2>6. CASE \E st \in Status, short \in BOOLEAN : SendDone(c, st, short)
    BY <2>6, SendDoneTypes
  <2>7. CASE RecvNowhere(c) \/ RecvDone(c) \/ \E mute \in BOOLEAN : RecvFails(c, mute)
    BY <2>7, RecvNowhereTypes, RecvDoneTypes, RecvFailsTypes
  <2> QED BY <1>1, <2>1, <2>2, <2>3, <2>4, <2>5, <2>6, <2>7, Zenon DEF Program
<1>2. CASE UNCHANGED vars
  BY <1>2 DEF vars, brickVars, srvVars, nxtVars, runVars, Types, BrickTypes,
              ProgramTypes, Locals, Slot
<1> QED BY <1>1, <1>2, EnvironmentTypes, Zenon DEF Next

\* Type correctness, for programs that may share nxtd and any number of motors:
\* with it the copies of nxt_con_recv get sizes, and the unpacking of a reply
\* the commands and names, that the code has.
THEOREM CommandTypesHold == Spec => []TypeOK
<1>1. Types => TypeOK
  BY Zenon DEF Types, BrickTypes, ProgramTypes, TypeOK
<1>2. Spec => []Types
  BY InitTypes, StepTypes, PTL DEF Spec
<1> QED BY <1>1, <1>2, PTL

-----------------------------------------------------------------------------
(* Programs open nxtd one after the other; they leave as few replies in a   *)
(* pipe as an opening program asks for motors.                              *)

Exclusive == ~Sharing /\ MaxLeft <= 3 /\ 3 <= Motors

\* A step keeps a program where it is.
Keeps(d) ==
  /\ linked'[d] = linked[d] /\ handle'[d] = handle[d] /\ own'[d] = own[d]
  /\ todo'[d] = todo[d]
  /\ \/ pc'[d] = pc[d] /\ cmd'[d] = cmd[d] /\ to'[d] = to[d] /\ did'[d] = did[d]
     \/ pc[d] = "idle" /\ pc'[d] = "busy"
\* A step leaves a program without a brick, or without a reply.
Clears(d) == \A b \in Brick :
  /\ linked'[d] /\ table'[handle'[d]] = b => pipe'[b] = <<>>
  /\ pc[d] = "sent" /\ Uses(d, b) => Len(pipe'[b]) <= 3

\* Whatever only empties pipes keeps the invariant.
LEMMA EmptyingKeeps ==
  ASSUME CInv, Types', bname' = bname,
         \A b \in Brick : pipe'[b] = pipe[b] \/ pipe'[b] = <<>>,
         \A h \in Handle : \/ table'[h] = table[h] \/ table'[h] = None
                           \/ pipe'[table'[h]] = <<>>,
         \A h \in Handle, b \in Brick :
           table[h] = b /\ table'[h] # b => pipe'[b] = <<>>,
         \A d \in Client : Keeps(d) \/ Clears(d),
         \A d \in Client : pc'[d] # "closed" => pc[d] # "closed"
  PROVE  PInv'
<1>1. Alone'
  BY DEF CInv, PInv, Alone
<1>2. Unlisted'
  <2> SUFFICES ASSUME NEW b \in Brick, \A h \in Handle : table'[h] # b
               PROVE  pipe'[b] = <<>>
    BY DEF Unlisted
  <2>1. CASE \E h \in Handle : table[h] = b
    BY <2>1
  <2>2. CASE \A h \in Handle : table[h] # b
    BY <2>2 DEF CInv, PInv, Unlisted
  <2> QED BY <2>1, <2>2
<1>3. Sized'
  <2>1. DOMAIN <<>> = {}
    OBVIOUS
  <2> QED BY <2>1, Zenon DEF CInv, PInv, Sized
<1>4. ASSUME NEW d \in Client, NEW b \in Brick, linked'[d], table'[handle'[d]] = b,
             pipe'[b] # <<>>
      PROVE  Keeps(d) /\ Uses(d, b) /\ pipe'[b] = pipe[b]
  <2>1. Keeps(d) /\ pipe'[b] = pipe[b]
    BY <1>4 DEF Clears
  <2>2. linked[d] /\ handle[d] = handle'[d] /\ handle[d] \in Handle
    BY <1>4, <2>1 DEF Keeps, CInv, Types, Locals
  <2>3. table'[handle[d]] = table[handle[d]]
    BY <1>4, <2>2, NoneTypes
  <2> QED BY <1>4, <2>1, <2>2, <2>3 DEF Uses, Slot
<1>5. Replied'
  <2> SUFFICES ASSUME NEW d \in Client, NEW b \in Brick, pc'[d] = "sent",
                      linked'[d], table'[handle'[d]] = b, pipe'[b] # <<>>
               PROVE  Answered(d, pipe[b])'
    BY Zenon DEF Replied, Uses, Slot
  <2>1. Keeps(d) /\ Uses(d, b) /\ pipe'[b] = pipe[b]
    BY <1>4
  <2>2. pc[d] = "sent" /\ cmd'[d] = cmd[d] /\ to'[d] = to[d] /\ did'[d] = did[d]
        /\ own'[d] = own[d] /\ handle'[d] = handle[d]
    BY <2>1 DEF Keeps
  <2>3. Answered(d, pipe[b])
    BY <2>1, <2>2 DEF CInv, PInv, Replied
  <2>4. Slot(d)' = Slot(d)
    BY <2>1, <2>2 DEF Uses, Slot
  <2> QED BY <2>1, <2>2, <2>3, <2>4, Zenon DEF Answered
<1>6. Few'
  <2> SUFFICES ASSUME NEW b \in Brick
               PROVE  \/ Len(pipe'[b]) <= 3
                      \/ /\ Len(pipe'[b]) = 4
                         /\ \E d \in Client : pc'[d] = "sent" /\ linked'[d]
                                               /\ table'[handle'[d]] = b
    BY Zenon DEF Few, Uses, Slot
  <2>1. CASE pipe'[b] = <<>>
    BY <2>1
  <2>2. CASE pipe'[b] # <<>> /\ ~(Len(pipe'[b]) <= 3)
    <3>1. pipe'[b] = pipe[b]
      BY <2>2
    <3>2. PICK d \in Client : pc[d] = "sent" /\ Uses(d, b) /\ Len(pipe[b]) = 4
      BY <2>2, <3>1 DEF CInv, PInv, Few
    <3>3. ~Clears(d)
      BY <2>2, <3>2, Zenon DEF Clears
    <3>4. Keeps(d)
      BY <3>3
    <3>5. pc'[d] = "sent" /\ linked'[d] /\ handle'[d] = handle[d]
      BY <3>2, <3>4 DEF Keeps, Uses
    <3>6. handle[d] \in Handle /\ table[handle[d]] = b
      BY <3>2 DEF Uses, Slot, CInv, Types, Locals
    <3>7. table'[handle[d]] = b
      BY <2>2, <3>6
    <3> QED BY <3>1, <3>2, <3>5, <3>7
  <2> QED BY <2>1, <2>2
<1>7. Front'
  <2> SUFFICES ASSUME NEW d \in Client, NEW b \in Brick, linked'[d],
                      table'[handle'[d]] = b
               PROVE  /\ pc'[d] \in {"idle", "busy"} =>
                           \/ pipe'[b] = <<>>
                           \/ Blocked(pipe'[b], Len(pipe'[b]), todo'[d])
                      /\ pc'[d] = "sent" =>
                           \/ Len(pipe'[b]) <= 1
                           \/ Blocked(pipe'[b], Len(pipe'[b]) - 1, todo'[d])
    BY Zenon DEF Front, Uses, Slot, Blocked
  <2>1. CASE pipe'[b] = <<>>
    BY <2>1
  <2>2. CASE pipe'[b] # <<>>
    <3>1. Keeps(d) /\ Uses(d, b) /\ pipe'[b] = pipe[b]
      BY <1>4, <2>2
    <3>2. todo'[d] = todo[d] /\ (pc'[d] = pc[d] \/ (pc[d] = "idle" /\ pc'[d] = "busy"))
      BY <3>1 DEF Keeps
    <3>3. /\ pc[d] \in {"idle", "busy"} =>
               pipe[b] = <<>> \/ Blocked(pipe[b], Len(pipe[b]), todo[d])
          /\ pc[d] = "sent" =>
               Len(pipe[b]) <= 1 \/ Blocked(pipe[b], Len(pipe[b]) - 1, todo[d])
      BY <3>1, Zenon DEF CInv, PInv, Front
    <3> QED BY <3>1, <3>2, <3>3
  <2> QED BY <2>1, <2>2
<1> QED BY <1>1, <1>2, <1>3, <1>5, <1>6, <1>7 DEF PInv

\* A step of one program leaves the others alone.
Others(c) == \A d \in Client \ {c} :
  /\ pc'[d] = pc[d] /\ linked'[d] = linked[d] /\ handle'[d] = handle[d]
  /\ own'[d] = own[d] /\ todo'[d] = todo[d] /\ cmd'[d] = cmd[d] /\ to'[d] = to[d]
  /\ did'[d] = did[d] /\ result'[d] = result[d] /\ mine'[d] = mine[d]

LEMMA EndsOthers ==
  ASSUME ProgramTypes, NEW c \in Client, NEW r, Ends(c, r),
         UNCHANGED <<linked, handle, own>>,
         \A d \in Client \ {c} : mine'[d] = mine[d]
  PROVE  /\ Others(c) /\ pc'[c] = "idle" /\ cmd'[c] = None
         /\ todo'[c] = (IF todo[c] > 0 THEN todo[c] - 1 ELSE 0)
         /\ result'[c] = (IF todo[c] > 0 THEN result[c] ELSE r)
BY DEF ProgramTypes, Ends, Others

LEMMA SentOthers ==
  ASSUME ProgramTypes, NEW c \in Client, NEW n \in Int, NEW d, Sent(c, n, d)
  PROVE  /\ Others(c) /\ linked' = linked /\ handle' = handle /\ own' = own
         /\ \/ pc'[c] = "idle" /\ Fails(c, "connection")
            \/ /\ pc'[c] = "sent" /\ did'[c] = d /\ todo'[c] = todo[c]
               /\ cmd'[c] = cmd[c] /\ to'[c] = to[c] /\ result'[c] = result[c]
               /\ mine'[c] = mine[c]
         /\ n = 2 => pc'[c] = "sent"
<1>1. linked' = linked /\ handle' = handle /\ own' = own /\ mine' = mine
  BY DEF Sent
<1>2. CASE Wire(n) = -1
  <2>1. Fails(c, "connection")
    BY <1>2, Zenon DEF Sent
  <2>2. Ends(c, "fail")
    BY <2>1, Zenon DEF Fails
  <2>3. n # 2
    BY <1>2, WireTypes
  <2> QED BY <1>1, <2>1, <2>2, <2>3, EndsOthers
<1>3. CASE Wire(n) # -1
  <2>1. /\ pc' = [pc EXCEPT ![c] = "sent"] /\ did' = [did EXCEPT ![c] = d]
        /\ UNCHANGED <<name, error, todo, cmd, to, result>>
    BY <1>3, Zenon DEF Sent
  <2> QED BY <1>1, <2>1 DEF ProgramTypes, Others
<1> QED BY <1>2, <1>3

\* What a program does with a reply
LEMMA UnpackOthers ==
  ASSUME ProgramTypes, NEW c \in Client, NEW r \in Reply, Unpack(c, r),
         UNCHANGED <<linked, handle, own>>
  PROVE  /\ Others(c) /\ mine'[c] = (r.by = c)
         /\ \/ /\ pc'[c] = "idle" /\ cmd'[c] = None
               /\ todo'[c] = (IF todo[c] > 0 THEN todo[c] - 1 ELSE 0)
               /\ \/ Fails(c, "same") \/ Fails(c, "brick")
                  \/ /\ Ends(c, "ok") /\ r.cmd = cmd[c] /\ r.status # "again"
                     /\ r.status = "error" => cmd[c] \in IgnoresError
                     /\ name'[c] = CASE cmd[c] = "set_name" -> to[c]
                                     [] cmd[c] = "reset_bluetooth" -> Factory
                                     [] OTHER -> name[c]
            \/ /\ pc'[c] = "busy" /\ todo'[c] = todo[c] /\ result'[c] = result[c]
               /\ r.cmd = cmd[c] /\ r.status = "again" /\ cmd'[c] = FollowUp(cmd[c])
               /\ did'[c] = "none"
<1>1. mine' = [mine EXCEPT ![c] = r.by = c]
  BY Zenon DEF Unpack
<1>2. /\ mine'[c] = (r.by = c) /\ \A d \in Client \ {c} : mine'[d] = mine[d]
  BY <1>1, Zenon DEF ProgramTypes
<1>3. ASSUME NEW e \in {"same", "brick"}, Fails(c, e)  PROVE Ends(c, "fail")
  BY <1>3, Zenon DEF Fails
<1>4. CASE r.cmd # cmd[c]
  <2>1. Fails(c, "same")
    BY <1>4, Zenon DEF Unpack
  <2> QED BY <1>2, <1>3, <2>1, EndsOthers
<1>5. CASE r.cmd = cmd[c] /\ r.status = "error" /\ cmd[c] \notin IgnoresError
  <2>1. Fails(c, "brick")
    BY <1>5, Zenon DEF Unpack
  <2> QED BY <1>2, <1>3, <2>1, EndsOthers
<1>6. CASE r.cmd = cmd[c] /\ ~(r.status = "error" /\ cmd[c] \notin IgnoresError)
           /\ r.status = "again"
  <2>1. /\ pc' = [pc EXCEPT ![c] = "busy"]
        /\ cmd' = [cmd EXCEPT ![c] = FollowUp(@)]
        /\ did' = [did EXCEPT ![c] = "none"]
        /\ UNCHANGED <<name, error, todo, to, result>>
    BY <1>6, Zenon DEF Unpack
  <2> QED BY <1>2, <1>6, <2>1 DEF ProgramTypes, Others
<1>7. CASE r.cmd = cmd[c] /\ ~(r.status = "error" /\ cmd[c] \notin IgnoresError)
           /\ r.status # "again"
  <2>1. /\ Ends(c, "ok")
        /\ name' = [name EXCEPT ![c] = CASE cmd[c] = "set_name" -> to[c]
                                         [] cmd[c] = "reset_bluetooth" -> Factory
                                         [] OTHER -> @]
    BY <1>7, Zenon DEF Unpack
  <2>2. name'[c] = CASE cmd[c] = "set_name" -> to[c]
                     [] cmd[c] = "reset_bluetooth" -> Factory
                     [] OTHER -> name[c]
    BY <2>1 DEF ProgramTypes
  <2> QED BY <1>2, <1>7, <2>1, <2>2, EndsOthers
<1> QED BY <1>4, <1>5, <1>6, <1>7

\* A receive that does not move a reply fails, or is the end of the program.
LEMMA GotOthers ==
  ASSUME ProgramTypes, NEW c \in Client, NEW n \in Int, NEW r,
         n \in {-1, 0} \/ r \in Reply, Got(c, n, r)
  PROVE  /\ Others(c) /\ linked' = linked /\ handle' = handle /\ own' = own
         /\ pc'[c] \in {"idle", "busy", "crashed"}
         /\ \/ n \notin {-1, 0} /\ Unpack(c, r)
            \/ n \in {-1, 0} /\ (Fails(c, "connection") \/ Fails(c, "same"))
            \/ /\ n \in {-1, 0} /\ pc'[c] = "crashed" /\ todo'[c] = todo[c]
               /\ did'[c] = "none" /\ result'[c] = result[c] /\ mine'[c] = mine[c]
               /\ cmd'[c] = cmd[c]
<1>1. linked' = linked /\ handle' = handle /\ own' = own
  BY DEF Got
<1>2. ASSUME NEW e \in {"connection", "same"}, Fails(c, e), mine' = mine
      PROVE  Others(c) /\ pc'[c] = "idle"
  <2>1. Ends(c, "fail")
    BY <1>2, Zenon DEF Fails
  <2> QED BY <1>1, <1>2, <2>1, EndsOthers
<1>3. CASE n \in {-1, 0} /\ Wire(n) = -1
  <2>1. Fails(c, "connection") /\ mine' = mine
    BY <1>3, Zenon DEF Got
  <2> QED BY <1>1, <1>2, <1>3, <2>1
<1>4. CASE Wire(n) # -1 /\ n = -1
  <2>1. /\ pc' = [pc EXCEPT ![c] = "crashed"] /\ did' = [did EXCEPT ![c] = "none"]
        /\ UNCHANGED <<name, error, todo, cmd, to, result, mine>>
    BY <1>4, Zenon DEF Got
  <2> QED BY <1>1, <1>4, <2>1 DEF ProgramTypes, Others
<1>5. CASE Wire(n) # -1 /\ n = 0
  <2> n # -1
    BY <1>5
  <2>1. Fails(c, "same") /\ mine' = mine
    BY <1>5, Zenon DEF Got
  <2> QED BY <1>1, <1>2, <1>5, <2>1
<1>6. CASE n \notin {-1, 0}
  <2>1. Wire(n) # -1 /\ n # -1 /\ n # 0
    BY <1>6, WireTypes
  <2>2. Unpack(c, r) /\ r \in Reply
    BY <1>6, <2>1, Zenon DEF Got
  <2>3. Others(c) /\ pc'[c] \in {"idle", "busy"}
    BY <1>1, <2>2, UnpackOthers
  <2> QED BY <1>1, <1>6, <2>2, <2>3
<1> QED BY <1>3, <1>4, <1>5, <1>6

LEMMA OthersKeep ==
  ASSUME NEW c \in Client, Others(c)  PROVE \A d \in Client \ {c} : Keeps(d)
BY DEF Others, Keeps

\* nxtd drops the brick of a program.
LEMMA DropKeeps ==
  ASSUME CInv, Types', NEW c \in Client, Others(c), pc[c] # "closed",
         Slot(c) \in Brick, linked[c], Remove({Slot(c)}), bname' = bname,
         pipe' = [pipe EXCEPT ![Slot(c)] = <<>>], linked' = linked, handle' = handle
  PROVE  PInv'
<1>1. handle[c] \in Handle /\ pipe'[Slot(c)] = <<>>
  BY DEF CInv, Types, BrickTypes, Locals
<1>2. table'[handle[c]] = None
  BY <1>1 DEF Remove, Slot
<1>3. Clears(c)
  <2>1. \A b \in Brick : table'[handle'[c]] # b
    BY <1>2, NoneTypes
  <2>2. Len(<<>>) = 0
    OBVIOUS
  <2>3. \A b \in Brick : Uses(c, b) => Len(pipe'[b]) <= 3
    BY <1>1, <2>2 DEF Uses
  <2> QED BY <2>1, <2>3, Zenon DEF Clears
<1>4. \A b \in Brick : pipe'[b] = pipe[b] \/ pipe'[b] = <<>>
  BY DEF CInv, Types, BrickTypes
<1>5. \A h \in Handle : table'[h] = table[h] \/ table'[h] = None
  BY DEF Remove
<1>6. \A h \in Handle, b \in Brick : table[h] = b /\ table'[h] # b => pipe'[b] = <<>>
  BY <1>1 DEF Remove
<1>7. \A d \in Client : pc'[d] # "closed" => pc[d] # "closed"
  BY DEF Others
<1>8. \A d \in Client : Keeps(d) \/ Clears(d)
  BY <1>3, OthersKeep
<1> QED BY <1>4, <1>5, <1>6, <1>7, <1>8, EmptyingKeeps

\* A program has lost its connection or its brick.
LEMMA MissingKeeps ==
  ASSUME CInv, Types', NEW c \in Client, Others(c), pc[c] # "closed",
         ~linked[c] \/ Slot(c) = None, bname' = bname, pipe' = pipe, table' = table,
         linked' = linked, handle' = handle
  PROVE  PInv'
<1>1. Clears(c)
  <2>1. \A b \in Brick : ~(linked'[c] /\ table'[handle'[c]] = b) /\ ~Uses(c, b)
    BY NoneTypes DEF Uses, Slot
  <2> QED BY <2>1, Zenon DEF Clears
<1>2. \A d \in Client : Keeps(d) \/ Clears(d)
  BY <1>1, OthersKeep
<1>3. \A d \in Client : pc'[d] # "closed" => pc[d] # "closed"
  BY DEF Others
<1> QED BY <1>2, <1>3, EmptyingKeeps

LEMMA FailsOthers ==
  ASSUME ProgramTypes, NEW c \in Client, NEW e, Fails(c, e),
         UNCHANGED <<linked, handle, own>>, \A d \in Client \ {c} : mine'[d] = mine[d]
  PROVE  /\ Others(c) /\ pc'[c] = "idle" /\ name' = name
         /\ result'[c] = (IF todo[c] > 0 THEN result[c] ELSE "fail")
         /\ todo'[c] = (IF todo[c] > 0 THEN todo[c] - 1 ELSE 0)
<1>1. Ends(c, "fail") /\ name' = name
  BY Zenon DEF Fails
<1> QED BY <1>1, EndsOthers

LEMMA NoAnswerKeeps ==
  ASSUME CInv, NEW c \in Client, NoAnswer(c)  PROVE PInv'
<1>1. /\ pc[c] \in {"busy", "sent"} /\ ~linked[c] /\ Fails(c, "connection")
      /\ UNCHANGED <<brickVars, srvVars, linked, handle, own, mine>>
  BY Zenon DEF NoAnswer
<1>2. Others(c)
  BY <1>1, FailsOthers DEF CInv, Types
<1>3. Types'
  BY NoAnswerTypes DEF CInv
<1>4. bname' = bname /\ pipe' = pipe /\ table' = table /\ pc[c] # "closed"
  BY <1>1 DEF brickVars, srvVars
<1> QED BY <1>1, <1>2, <1>3, <1>4, MissingKeeps

LEMMA SendNowhereKeeps ==
  ASSUME CInv, NEW c \in Client, SendNowhere(c)  PROVE PInv'
<1>1. /\ pc[c] = "busy" /\ Slot(c) = None /\ Sent(c, -1, "none")
      /\ UNCHANGED <<bname, pipe, srvVars>>
  BY Zenon DEF SendNowhere
<1>2. Others(c) /\ linked' = linked /\ handle' = handle
  BY <1>1, SentOthers DEF CInv, Types
<1>3. Types'
  BY SendNowhereTypes DEF CInv
<1>4. bname' = bname /\ pipe' = pipe /\ table' = table /\ pc[c] # "closed"
  BY <1>1 DEF srvVars
<1> QED BY <1>1, <1>2, <1>3, <1>4, MissingKeeps

LEMMA SendFailsKeeps ==
  ASSUME CInv, NEW c \in Client, NEW n \in {-1, 0}, SendFails(c, n)  PROVE PInv'
<1>1. /\ pc[c] = "busy" /\ linked[c] /\ Slot(c) # None /\ Sent(c, n, "none")
      /\ Remove({Slot(c)}) /\ pipe' = [pipe EXCEPT ![Slot(c)] = <<>>] /\ bname' = bname
  BY Zenon DEF SendFails
<1>2. Others(c) /\ linked' = linked /\ handle' = handle
  BY <1>1, SentOthers DEF CInv, Types
<1>3. Types'
  BY SendFailsTypes DEF CInv
<1>4. Slot(c) \in Brick /\ pc[c] # "closed"
  BY <1>1, SlotTypes DEF CInv
<1> QED BY <1>1, <1>2, <1>3, <1>4, DropKeeps

LEMMA RecvNowhereKeeps ==
  ASSUME CInv, NEW c \in Client, RecvNowhere(c)  PROVE PInv'
<1>1. /\ pc[c] = "sent" /\ Slot(c) = None /\ Got(c, 0, None)
      /\ UNCHANGED <<pipe, srvVars>>
  BY Zenon DEF RecvNowhere
<1>2. Others(c) /\ linked' = linked /\ handle' = handle
  BY <1>1, GotOthers DEF CInv, Types
<1>3. Types'
  BY RecvNowhereTypes DEF CInv
<1>4. bname' = bname
  BY <1>1, Zenon DEF Got
<1>5. pipe' = pipe /\ table' = table /\ pc[c] # "closed"
  BY <1>1 DEF srvVars
<1> QED BY <1>1, <1>2, <1>3, <1>4, <1>5, MissingKeeps

\* What a failed receive is given
LEMMA RecvFailsShape ==
  ASSUME Types, NEW c \in Client, NEW mute \in BOOLEAN, RecvFails(c, mute)
  PROVE  /\ pc[c] = "sent" /\ linked[c] /\ Slot(c) \in Brick /\ bname' = bname
         /\ \E n \in Int : \E r :
              /\ Got(c, n, r) /\ (n \in {-1, 0} \/ r \in Reply)
              /\ n \notin {-1, 0} => pipe[Slot(c)] # <<>> /\ r = pipe[Slot(c)][1]
<1> DEFINE p == IF mute THEN <<>> ELSE pipe[Slot(c)]
           n == Received(Slot(c), p, Size(cmd[c]))
           r == IF p = <<>> THEN None ELSE p[1]
<1>1. /\ pc[c] = "sent" /\ linked[c] /\ Slot(c) # None /\ Got(c, n, r)
  BY Zenon DEF RecvFails
<1>2. Slot(c) \in Brick /\ pipe[Slot(c)] \in Seq(Reply)
  BY <1>1, SlotTypes
<1>3. Size(cmd[c]) \in Nat
  BY <1>1, CommandTypes
<1>4. p \in Seq(Reply) /\ (p # <<>> => p = pipe[Slot(c)])
  BY <1>2
<1>5. n \in Int /\ (n \in {-1, 0} \/ (p # <<>> /\ r \in Reply /\ r = p[1]))
  <2> HIDE DEF p
  <2>1. n \in Int /\ (p = <<>> => n \in {-1, 0})
    BY <1>3, <1>4, ReceivedTypes
  <2>2. p # <<>> => r \in Reply /\ r = p[1]
    BY <1>4
  <2> QED BY <2>1, <2>2
<1> HIDE DEF p, n, r
<1>6. bname' = bname
  BY <1>1, Zenon DEF Got
<1>7. n \notin {-1, 0} => pipe[Slot(c)] # <<>> /\ r = pipe[Slot(c)][1]
  BY <1>4, <1>5
<1> QED BY <1>1, <1>2, <1>5, <1>6, <1>7

LEMMA RecvDropKeeps ==
  ASSUME CInv, NEW c \in Client, NEW mute \in BOOLEAN, RecvFails(c, mute)  PROVE PInv'
<1>1. Types' /\ Remove({Slot(c)}) /\ pipe' = [pipe EXCEPT ![Slot(c)] = <<>>]
  BY RecvFailsTypes DEF CInv
<1>2. Others(c) /\ linked' = linked /\ handle' = handle
  <2>1. \E n \in Int : \E r : Got(c, n, r) /\ (n \in {-1, 0} \/ r \in Reply)
    BY RecvFailsShape, Zenon DEF CInv
  <2> QED BY <2>1, GotOthers DEF CInv, Types
<1>3. pc[c] = "sent" /\ linked[c] /\ Slot(c) \in Brick /\ bname' = bname
  BY RecvFailsShape, Zenon DEF CInv
<1>4. pc[c] # "closed"
  BY <1>3
<1> QED BY <1>1, <1>2, <1>3, <1>4, DropKeeps

LEMMA StartKeeps ==
  ASSUME CInv, NEW c \in Client, NEW m \in Cmd \cup {"motor_get"},
         NEW n \in Name \cup {None}, Start(c, m, n)
  PROVE  PInv'
<1>1. /\ bname' = bname /\ pipe' = pipe /\ table' = table /\ linked' = linked
      /\ handle' = handle /\ own' = own /\ todo' = todo
  BY DEF Start, brickVars, srvVars, nxtVars
<1>2. Others(c) /\ pc[c] = "idle" /\ pc'[c] = "busy"
  BY <1>1 DEF Start, CInv, Types, ProgramTypes, Others
<1>3. Keeps(c)
  BY <1>1, <1>2 DEF Keeps
<1>4. Types'
  BY StartTypes DEF CInv
<1>5. \A d \in Client : Keeps(d)
  BY <1>2, <1>3, OthersKeep
<1>6. \A d \in Client : pc'[d] # "closed" => pc[d] # "closed"
  BY <1>2 DEF Others
<1> QED BY <1>1, <1>4, <1>5, <1>6, EmptyingKeeps

\* A program ends between SEND and RECV only where there is room for the reply
\* that it leaves.
LEMMA LeaveKeeps ==
  ASSUME CInv, Exclusive, NEW c \in Client, Leave(c)  PROVE PInv'
<1>1. bname' = bname /\ pipe' = pipe /\ table' = table
  BY DEF Leave, brickVars, srvVars
<1>2. Others(c) /\ pc'[c] = "closed" /\ ~linked'[c] /\ pc[c] # "closed"
  <2>1. pc[c] # "closed" /\ pc'[c] = "closed"
    BY DEF Leave, CInv, Types, ProgramTypes
  <2>2. ~linked'[c] /\ \A d \in Client \ {c} : linked'[d] = linked[d] /\ mine'[d] = mine[d]
    BY Zenon DEF Leave, CInv, Types, ProgramTypes
  <2>3. \A d \in Client \ {c} :
          /\ pc'[d] = pc[d] /\ handle'[d] = handle[d]
          /\ own'[d] = own[d] /\ todo'[d] = todo[d] /\ cmd'[d] = cmd[d] /\ to'[d] = to[d]
          /\ did'[d] = did[d] /\ result'[d] = result[d]
    BY DEF Leave, CInv, Types, ProgramTypes
  <2> QED BY <2>1, <2>2, <2>3, Zenon DEF Others
<1>3. ASSUME NEW b \in Brick, pc[c] = "sent", Uses(c, b)
      PROVE  Len(pipe[b]) <= 3
  <2> SUFFICES ASSUME ~(Len(pipe[b]) <= 3)  PROVE FALSE
    OBVIOUS
  <2>1. Len(pipe[b]) = 4
    BY DEF CInv, PInv, Few
  <2>2. pipe[b] \in Seq(Reply) /\ DOMAIN pipe[b] = 1 .. 4 /\ pipe[b] # <<>>
    <3>1. pipe[b] \in Seq(Reply)
      BY DEF CInv, Types, BrickTypes
    <3>2. DOMAIN pipe[b] = 1 .. Len(pipe[b])
      BY <3>1
    <3>3. pipe[b] # <<>>
      <4>1. Len(<<>>) # 4
        OBVIOUS
      <4> QED BY <2>1, <4>1, Zenon
    <3> QED BY <2>1, <3>1, <3>2, <3>3, Zenon
  <2>3. \A k \in 1 .. 4 : pipe[b][k].by = c => k = 4
    <3>1. Answered(c, pipe[b])
      BY <1>3, <2>2 DEF CInv, PInv, Replied
    <3> QED BY <2>1, <2>2, <3>1, Zenon DEF Answered
  <2>4. \A d \in Client : pc[d] = "sent" => d = c
    BY <1>3 DEF CInv, PInv, Alone
  <2>5. 1 .. 3 \in SUBSET Left(b) /\ Left(b) \in SUBSET (1 .. 4)
    <3>1. \A k \in 1 .. 3 : k \in 1 .. 4 /\ k # 4
      OBVIOUS
    <3> QED BY <2>2, <2>3, <2>4, <3>1, Zenon DEF Left
  <2>6. IsFiniteSet(Left(b)) /\ Cardinality(1 .. 3) = 3
    <3>1. 1 \in Int /\ 3 \in Int /\ 4 \in Int
      OBVIOUS
    <3>2. IsFiniteSet(1 .. 4)
      BY <3>1, FS_Interval, Zenon
    <3>3. Cardinality(1 .. 3) = IF 1 > 3 THEN 0 ELSE 3 - 1 + 1
      BY <3>1, FS_Interval, Zenon
    <3>4. (IF 1 > 3 THEN 0 ELSE 3 - 1 + 1) = 3
      OBVIOUS
    <3>5. IsFiniteSet(Left(b))
      BY <2>5, <3>2, FS_Subset, Zenon
    <3> QED BY <3>3, <3>4, <3>5
  <2>7. Cardinality(1 .. 3) <= Cardinality(Left(b)) /\ Cardinality(Left(b)) \in Nat
    BY <2>5, <2>6, FS_Subset, FS_CardinalityType
  <2>8. Cardinality(Left(b)) < MaxLeft /\ MaxLeft <= 3 /\ MaxLeft \in Nat
    BY <1>3, CommandAssumption DEF Leave, Exclusive
  <2> QED BY <2>6, <2>7, <2>8
<1>4. Clears(c)
  BY <1>1, <1>2, <1>3 DEF Clears
<1>5. Types'
  BY LeaveTypes DEF CInv
<1>6. \A d \in Client : Keeps(d) \/ Clears(d)
  BY <1>2, <1>4, OthersKeep
<1>7. \A d \in Client : pc'[d] # "closed" => pc[d] # "closed"
  BY <1>2 DEF Others
<1> QED BY <1>1, <1>5, <1>6, <1>7, EmptyingKeeps

LEMMA EnvironmentKeeps ==
  ASSUME CInv,
         \/ \E b \in Brick : \/ Plug(b) \/ Unplug(b)
                             \/ \E h \in Handle : Scan(b, h)
         \/ Restart
  PROVE  PInv'
<1>1. Types'
  BY EnvironmentTypes DEF CInv
<1>2. ASSUME UNCHANGED <<pc, linked, nxtVars, runVars>>
      PROVE  \A d \in Client : Keeps(d) /\ pc'[d] = pc[d]
  BY <1>2 DEF Keeps, nxtVars, runVars
<1>3. ASSUME NEW b \in Brick, Plug(b)  PROVE PInv'
  <2>1. bname' = bname /\ pipe' = pipe /\ table' = table
    BY <1>3 DEF Plug, srvVars
  <2>2. \A d \in Client : Keeps(d) /\ pc'[d] = pc[d]
    BY <1>2, <1>3, Zenon DEF Plug
  <2> QED BY <1>1, <2>1, <2>2, EmptyingKeeps
<1>4. ASSUME NEW b \in Brick, Unplug(b)  PROVE PInv'
  <2>1. bname' = bname /\ pipe' = [pipe EXCEPT ![b] = <<>>] /\ table' = table
    BY <1>4 DEF Unplug, srvVars
  <2>2. \A d \in Client : Keeps(d) /\ pc'[d] = pc[d]
    BY <1>2, <1>4, Zenon DEF Unplug
  <2>3. \A e \in Brick : pipe'[e] = pipe[e] \/ pipe'[e] = <<>>
    BY <2>1 DEF CInv, Types, BrickTypes
  <2> QED BY <1>1, <2>1, <2>2, <2>3, EmptyingKeeps
<1>5. ASSUME NEW b \in Brick, NEW h \in Handle, Scan(b, h)  PROVE PInv'
  <2>1. /\ bname' = bname /\ pipe' = pipe /\ table[h] = None
        /\ table' = [table EXCEPT ![h] = b] /\ \A k \in Handle : table[k] # b
    BY <1>5 DEF Scan, brickVars
  <2>2. \A d \in Client : Keeps(d) /\ pc'[d] = pc[d]
    BY <1>2, <1>5, Zenon DEF Scan
  <2>3. pipe[b] = <<>>
    BY <2>1 DEF CInv, PInv, Unlisted
  <2>4. \A k \in Handle : (k # h /\ table'[k] = table[k]) \/ (k = h /\ table'[k] = b)
    BY <2>1 DEF CInv, Types, BrickTypes
  <2>5. \A k \in Handle : table'[k] = table[k] \/ pipe'[table'[k]] = <<>>
    BY <2>1, <2>3, <2>4
  <2>6. \A k \in Handle, e \in Brick : table[k] = e /\ table'[k] # e => pipe'[e] = <<>>
    BY <2>1, <2>4, NoneTypes
  <2> QED BY <1>1, <2>1, <2>2, <2>5, <2>6, EmptyingKeeps
<1>6. ASSUME Restart  PROVE PInv'
  <2>1. /\ bname' = bname /\ pc' = pc /\ \A b \in Brick : pipe'[b] = <<>>
        /\ \A h \in Handle : table'[h] = None
    BY <1>6 DEF Restart
  <2>2. \A d \in Client : ~linked'[d]
    BY <1>6, Zenon DEF Restart
  <2>3. \A d \in Client : Clears(d)
    <3>1. Len(<<>>) <= 3
      OBVIOUS
    <3> QED BY <2>1, <2>2, <3>1, Zenon DEF Clears
  <2>4. \A d \in Client : pc'[d] # "closed" => pc[d] # "closed"
    BY <2>1
  <2> QED BY <1>1, <2>1, <2>3, <2>4, EmptyingKeeps
<1> QED BY <1>3, <1>4, <1>5, <1>6

\* A brick has room for the answer to a telegram.
LEMMA FewRoom ==
  ASSUME CInv, NEW b \in Brick, \A d \in Client : pc[d] # "sent"
  PROVE  Len(pipe[b]) \in 0 .. 3 /\ Len(pipe[b]) <= 3
<1> DEFINE n == Len(pipe[b])
<1>1. n <= 3
  BY DEF CInv, PInv, Few
<1>2. n \in Nat
  <2>1. pipe[b] \in Seq(Reply)
    BY DEF CInv, Types, BrickTypes
  <2> QED BY <2>1
<1> HIDE DEF n
<1>3. n \in 0 .. 3
  BY <1>1, <1>2
<1> QED BY <1>1, <1>3 DEF n

LEMMA SendDoneKeeps ==
  ASSUME CInv, NEW c \in Client, NEW st \in Status, NEW short \in BOOLEAN,
         SendDone(c, st, short)
  PROVE  PInv'
<1> DEFINE b == Slot(c)
           p == pipe[b]
           q == Append(Aged(p, c), ReplyTo(c, st, short))
<1>1. /\ pc[c] = "busy" /\ linked[c] /\ table' = table
      /\ Sent(c, 2, IF b = own[c] THEN st ELSE "elsewhere")
      /\ bname' = IF st # "ok" THEN bname
                  ELSE [bname EXCEPT ![b] =
                          CASE cmd[c] = "set_name" -> Packed[to[c]]
                            [] cmd[c] = "reset_bluetooth" -> Factory
                            [] OTHER -> @]
  BY Zenon DEF SendDone, srvVars
<1>2. /\ Others(c) /\ linked' = linked /\ handle' = handle /\ own' = own
      /\ pc'[c] = "sent" /\ did'[c] = (IF b = own[c] THEN st ELSE "elsewhere")
      /\ todo'[c] = todo[c] /\ cmd'[c] = cmd[c] /\ to'[c] = to[c]
  <2>1. /\ Others(c) /\ linked' = linked /\ handle' = handle /\ own' = own
        /\ pc'[c] = "sent"
        /\ \/ pc'[c] = "idle"
           \/ /\ did'[c] = (IF b = own[c] THEN st ELSE "elsewhere")
              /\ todo'[c] = todo[c] /\ cmd'[c] = cmd[c] /\ to'[c] = to[c]
    <3>1. 2 \in Int
      OBVIOUS
    <3> QED BY <1>1, <3>1, SentOthers, Zenon DEF CInv, Types
  <2> QED BY <2>1
<1>3. b \in Brick /\ p \in Seq(Reply) /\ pipe' = [pipe EXCEPT ![b] = q]
  BY SendDoneShape DEF CInv
<1>4. pipe'[b] = q /\ \A e \in Brick \ {b} : pipe'[e] = pipe[e]
  BY <1>3 DEF CInv, Types, BrickTypes
<1>5. /\ Len(q) = Len(p) + 1 /\ Len(p) \in Nat /\ q # <<>>
      /\ \A k \in 1 .. Len(p) : q[k].size = p[k].size /\ q[k].by # c
      /\ q[Len(q)] = ReplyTo(c, st, short)
  <2>1. /\ Aged(p, c) \in Seq(Reply) /\ Len(Aged(p, c)) = Len(p)
        /\ ReplyTo(c, st, short) \in Reply
    BY SendDoneShape DEF CInv
  <2>2. /\ Len(q) = Len(p) + 1 /\ q # <<>> /\ q[Len(p) + 1] = ReplyTo(c, st, short)
        /\ \A k \in 1 .. Len(p) : q[k] = Aged(p, c)[k]
    BY <2>1, AppendProperties
  <2>3. Len(p) \in Nat /\ DOMAIN p = 1 .. Len(p)
    BY <1>3
  <2>4. \A k \in 1 .. Len(p) : Aged(p, c)[k].size = p[k].size /\ Aged(p, c)[k].by # c
    <3> SUFFICES ASSUME NEW k \in 1 .. Len(p)
                 PROVE  Aged(p, c)[k].size = p[k].size /\ Aged(p, c)[k].by # c
      OBVIOUS
    <3>1. Aged(p, c)[k] = [p[k] EXCEPT !.by = IF @ = c THEN None ELSE @]
      BY <2>3, Zenon DEF Aged
    <3>2. p[k] \in Reply
      BY <1>3, <2>3, ElementOfSeq
    <3>3. \A r \in Reply : LET a == [r EXCEPT !.by = IF @ = c THEN None ELSE @]
                           IN  a.size = r.size /\ a.by # c
      BY NoneTypes DEF Reply
    <3> QED BY <3>1, <3>2, <3>3
  <2> HIDE DEF p, q
  <2> QED BY <2>2, <2>3, <2>4
<1>6. \A d \in Client \ {c} : pc[d] = "closed" /\ pc'[d] = "closed" /\ ~linked'[d]
  BY <1>1, <1>2 DEF CInv, PInv, Alone, Others, Types, Locals
<1>7. \A d \in Client : pc[d] # "sent"
  BY <1>1, <1>6
<1> HIDE DEF p, q, b
<1>8. Alone'
  BY <1>6 DEF Alone
<1>9. Unlisted'
  <2>1. \E h \in Handle : table'[h] = b
    BY <1>1 DEF CInv, Types, Locals, Slot, b
  <2>2. \A e \in Brick \ {b} : (\A h \in Handle : table'[h] # e) => pipe'[e] = <<>>
    BY <1>1, <1>4 DEF CInv, PInv, Unlisted
  <2> QED BY <2>1, <2>2 DEF Unlisted
<1>13. DOMAIN q = 1 .. Len(p) + 1 /\ DOMAIN p = 1 .. Len(p)
  <2>1. q \in Seq(Reply)
    BY SendDoneShape, AppendProperties DEF CInv, q, p, b
  <2>2. DOMAIN q = 1 .. Len(q)
    BY <2>1
  <2>3. DOMAIN p = 1 .. Len(p)
    BY <1>3
  <2> QED BY <1>5, <2>2, <2>3
<1>10. Sized'
  <2>1. \A k \in DOMAIN q : q[k].size \in Sizes
    <3>1. DOMAIN q = 1 .. Len(p) + 1 /\ DOMAIN p = 1 .. Len(p)
      BY <1>13
    <3>2. \A k \in 1 .. Len(p) : p[k].size \in Sizes
      BY <1>3, <3>1 DEF CInv, PInv, Sized, p
    <3>3. q[Len(q)].size \in Sizes
      BY <1>5, SendDoneShape DEF CInv
    <3>4. \A k \in 1 .. Len(p) + 1 : k \in 1 .. Len(p) \/ k = Len(q)
      BY <1>5
    <3> QED BY <1>5, <3>1, <3>2, <3>3, <3>4, Zenon
  <2>2. \A e \in Brick \ {b} : \A k \in DOMAIN pipe'[e] : pipe'[e][k].size \in Sizes
    BY <1>4, Zenon DEF CInv, PInv, Sized
  <2> QED BY <1>4, <2>1, <2>2, Zenon DEF Sized
<1>11. \A d \in Client, e \in Brick :
         linked'[d] /\ table'[handle'[d]] = e => d = c /\ e = b
  BY <1>1, <1>2, <1>6 DEF Slot, b
<1>12. Replied'
  <2> SUFFICES ASSUME NEW d \in Client, NEW e \in Brick, linked'[d],
                      table'[handle'[d]] = e
               PROVE  Answered(d, pipe[e])'
    BY Zenon DEF Replied, Uses, Slot
  <2>1. d = c /\ e = b
    BY <1>11
  <2> DEFINE r == ReplyTo(c, st, short)
  <2>2. r.by = c /\ r.cmd = cmd[c] /\ r.status = st
    BY DEF ReplyTo
  <2> HIDE DEF r
  <2>3. pipe'[e] = q /\ q[Len(q)] = r /\ Slot(d)' = b /\ own'[d] = own[c]
        /\ cmd'[d] = cmd[c] /\ to'[d] = to[c]
        /\ did'[d] = (IF b = own[c] THEN st ELSE "elsewhere")
    BY <1>1, <1>2, <1>4, <1>5, <2>1, Zenon DEF Slot, r, b
  <2>4. \A k \in DOMAIN q : q[k].by = c => k = Len(q)
    <3>1. \A k \in DOMAIN q : k \in 1 .. Len(p) \/ k = Len(q)
      BY <1>5, <1>13
    <3> QED BY <1>5, <3>1, Zenon
  <2>5. b = own[c] /\ r.cmd = "set_name" /\ r.status = "ok" => bname'[own[c]] = Packed[to[c]]
    BY <1>1, <1>3, <2>2 DEF CInv, Types, BrickTypes
  <2> QED BY <2>1, <2>2, <2>3, <2>4, <2>5, Zenon DEF Answered
<1>14. Few'
  <2> SUFFICES ASSUME NEW e \in Brick
               PROVE  \/ Len(pipe'[e]) <= 3
                      \/ /\ Len(pipe'[e]) = 4
                         /\ \E d \in Client : pc'[d] = "sent" /\ linked'[d]
                                               /\ table'[handle'[d]] = e
    BY Zenon DEF Few, Uses, Slot
  <2>1. CASE e = b
    <3>1. Len(p) \in 0 .. 3
      BY <1>3, <1>7, FewRoom DEF p
    <3>2. linked'[c] /\ table'[handle'[c]] = b
      BY <1>1, <1>2, Zenon DEF Slot, b
    <3>3. Len(q) <= 3 \/ Len(q) = 4
      BY <1>5, <3>1
    <3> QED BY <1>2, <1>4, <2>1, <3>2, <3>3
  <2>2. CASE e # b
    <3>1. Len(pipe[e]) <= 3
      BY <1>7, FewRoom
    <3> QED BY <1>4, <2>2, <3>1
  <2> QED BY <2>1, <2>2
<1>15. Front'
  <2> SUFFICES ASSUME NEW d \in Client, NEW e \in Brick, linked'[d],
                      table'[handle'[d]] = e
               PROVE  /\ pc'[d] \in {"idle", "busy"} =>
                           \/ pipe'[e] = <<>>
                           \/ Blocked(pipe'[e], Len(pipe'[e]), todo'[d])
                      /\ pc'[d] = "sent" =>
                           \/ Len(pipe'[e]) <= 1
                           \/ Blocked(pipe'[e], Len(pipe'[e]) - 1, todo'[d])
    BY Zenon DEF Front, Uses, Slot, Blocked
  <2>1. d = c /\ e = b /\ pipe'[e] = q /\ todo'[d] = todo[c]
    BY <1>2, <1>4, <1>11
  <2>2. Uses(c, b)
    BY <1>1 DEF Uses, b
  <2>3. p = <<>> \/ Blocked(p, Len(p), todo[c])
    BY <1>1, <1>3, <2>2 DEF CInv, PInv, Front, p
  <2>4. p = <<>> => Len(q) <= 1
    <3>1. Len(<<>>) = 0
      OBVIOUS
    <3> QED BY <1>5, <3>1
  <2>5. Blocked(p, Len(p), todo[c]) => Blocked(q, Len(q) - 1, todo[c])
    <3> SUFFICES ASSUME NEW j \in 1 .. todo[c], j <= Len(p), p[j].size = 7
                 PROVE  j <= Len(q) - 1 /\ q[j].size = 7
      BY Zenon DEF Blocked
    <3>1. todo[c] \in Nat
      BY NoneTypes DEF CInv, Types, ProgramTypes
    <3>2. j \in 1 .. Len(p) /\ j <= Len(q) - 1
      BY <1>5, <3>1
    <3> QED BY <1>5, <3>2
  <2> QED BY <1>2, <2>1, <2>3, <2>4, <2>5
<1> QED BY <1>8, <1>9, <1>10, <1>12, <1>14, <1>15 DEF PInv

-----------------------------------------------------------------------------
(* LIST and the questions for motors.                                      *)

\* No four replies with the seven bytes of a keepalive among them add up to the
\* twenty-five of a motor state.
LEMMA SumsMiss ==
  \A x, y, z \in Sizes : x # 18 /\ x + y # 18 /\ x + y + z # 18
<1>1. \A x, y \in Sizes : x # 18 /\ x + y # 18
  BY DEF Sizes
<1>2. ASSUME NEW x \in Sizes, NEW y \in Sizes, NEW z \in Sizes  PROVE x + y + z # 18
  <2>1. x \in Nat /\ y \in Nat /\ z \in Nat
    BY SizesTypes
  <2>2. x \in {3, 5, 7} \/ x >= 16
    BY DEF Sizes
  <2>3. y >= 3 /\ z >= 3
    BY SizesTypes
  <2>4. x \in {3, 5, 7} => y + z \notin {15, 13, 11}
    BY DEF Sizes
  <2> QED BY <2>1, <2>2, <2>3, <2>4
<1> QED BY <1>1, <1>2

LEMMA SumsMissBlocked ==
  \A w, x, y, z \in Sizes :
    /\ 7 \in {w, x} => w + x # 25
    /\ 7 \in {w, x, y} => w + x + y # 25
    /\ 7 \in {w, x, y, z} => w + x + y + z # 25
<1> SUFFICES ASSUME NEW w \in Sizes, NEW x \in Sizes, NEW y \in Sizes, NEW z \in Sizes
             PROVE  /\ 7 \in {w, x} => w + x # 25
                    /\ 7 \in {w, x, y} => w + x + y # 25
                    /\ 7 \in {w, x, y, z} => w + x + y + z # 25
  OBVIOUS
<1>1. w \in Nat /\ x \in Nat /\ y \in Nat /\ z \in Nat
  BY SizesTypes
<1>2. w # 18 /\ x # 18 /\ w + x # 18 /\ w + y # 18 /\ x + y # 18
  BY SumsMiss
<1>3. w + x + y # 18 /\ w + x + z # 18 /\ w + y + z # 18 /\ x + y + z # 18
  BY SumsMiss
<1> QED BY <1>1, <1>2, <1>3

LEMMA TotalShort ==
  ASSUME NEW p, Len(p) \in 0 .. 4, \A i \in 1 .. Len(p) : p[i].size \in Nat
  PROVE  Total(p) = [k \in 0 .. Len(p) |->
                       IF k = 0 THEN 0 ELSE Total(p)[k - 1] + p[k].size]
<1> DEFINE g == [k \in 0 .. Len(p) |->
                   CASE k = 0 -> 0
                     [] k = 1 -> p[1].size
                     [] k = 2 -> p[1].size + p[2].size
                     [] k = 3 -> p[1].size + p[2].size + p[3].size
                     [] OTHER -> p[1].size + p[2].size + p[3].size + p[4].size]
           h(f) == [k \in 0 .. Len(p) |-> IF k = 0 THEN 0 ELSE f[k - 1] + p[k].size]
<1>1. ASSUME NEW k \in 0 .. Len(p)
      PROVE  g[k] = IF k = 0 THEN 0 ELSE g[k - 1] + p[k].size
  <2>1. k \in {0, 1, 2, 3, 4}
    BY <1>1
  <2> QED BY <2>1, <1>1
<1>2. g = h(g)
  BY <1>1
<1>3. \E f : f = h(f)
  BY <1>2
<1>4. Total(p) = CHOOSE f : f = h(f)
  BY DEF Total
<1> HIDE DEF h
<1>5. Total(p) = h(Total(p))
  BY <1>3, <1>4
<1> QED BY <1>5 DEF h

\* A receive for a motor state never reaches a reply of seven bytes.
LEMMA MotorTakes ==
  ASSUME NEW p \in Seq(Reply), Len(p) \in 0 .. 4, NEW b,
         \A i \in 1 .. Len(p) : p[i].size \in Sizes,
         Received(b, p, 25) = 25, NEW j \in 1 .. Len(p), p[j].size = 7,
         NEW k \in Takes(b, p, 25)
  PROVE  k < j
<1>1. CASE b \in bt
  <2>1. k = 1
    BY <1>1 DEF Takes
  <2>2. p # <<>> => p[1].size = 25
    BY <1>1 DEF Received
  <2>3. p # <<>>
    <3>1. Len(<<>>) = 0
      OBVIOUS
    <3> QED BY <3>1
  <2>4. j # 1
    <3>1. 7 # 25
      OBVIOUS
    <3> QED BY <2>2, <2>3, <3>1, Zenon
  <2> QED BY <2>1, <2>4
<1>2. CASE b \notin bt
  <2> DEFINE s == [i \in 1 .. Len(p) |-> p[i].size]
             T == Total(p)
  <2>1. k \in 1 .. Len(p) /\ T[k] = 25
    BY <1>2 DEF Takes
  <2>2. \A i \in 1 .. Len(p) : p[i].size \in Nat
    BY SizesTypes
  <2>3. T = [i \in 0 .. Len(p) |-> IF i = 0 THEN 0 ELSE T[i - 1] + p[i].size]
    BY <2>2, TotalShort
  <2>4. \A i \in 1 .. Len(p) : s[i] \in Sizes /\ s[i] \in Nat /\ s[i] = p[i].size
    BY <2>2
  <2>5. s[j] = 7
    BY <2>4
  <2> HIDE DEF s, T
  <2>6. \A i \in 0 .. Len(p) : T[i] = IF i = 0 THEN 0 ELSE T[i - 1] + s[i]
    <3>1. \A i \in 0 .. Len(p) : i # 0 => p[i].size = s[i]
      BY <2>4
    <3>2. \A i \in 0 .. Len(p) : T[i] = IF i = 0 THEN 0 ELSE T[i - 1] + p[i].size
      BY <2>3
    <3> QED BY <3>1, <3>2
  <2>7. \/ k = 1 /\ s[1] = 25
        \/ k = 2 /\ s[1] + s[2] = 25
        \/ k = 3 /\ s[1] + s[2] + s[3] = 25
        \/ k = 4 /\ s[1] + s[2] + s[3] + s[4] = 25
    <3>1. k \in {1, 2, 3, 4}
      BY <2>1
    <3>2. T[0] = 0
      BY <2>6
    <3>3. T[1] = s[1] /\ s[1] \in Nat
      BY <2>1, <2>4, <2>6, <3>2
    <3>4. k >= 2 => T[2] = s[1] + s[2] /\ s[2] \in Nat
      BY <2>1, <2>4, <2>6, <3>3
    <3>5. k >= 3 => T[3] = s[1] + s[2] + s[3] /\ s[3] \in Nat
      BY <2>1, <2>4, <2>6, <3>4
    <3>6. k >= 4 => T[4] = s[1] + s[2] + s[3] + s[4]
      BY <2>1, <2>4, <2>6, <3>5
    <3> QED BY <2>1, <3>1, <3>3, <3>4, <3>5, <3>6
  <2> SUFFICES ASSUME ~(k < j)  PROVE FALSE
    OBVIOUS
  <2>8. j \in 1 .. k /\ k \in 1 .. 4 /\ k <= Len(p)
    BY <2>1
  <2>9. \A i \in 1 .. k : s[i] \in Sizes /\ s[i] \in Nat
    BY <2>4, <2>8
  <2>10. CASE k = 1
    BY <2>5, <2>7, <2>8, <2>10
  <2>11. CASE k = 2
    <3>1. s[1] \in Sizes /\ s[2] \in Sizes
      BY <2>9, <2>11
    <3>2. j = 1 \/ j = 2
      BY <2>8, <2>11
    <3>3. 7 \in {s[1], s[2]}
      BY <2>5, <3>2
    <3>4. s[1] + s[2] # 25
      BY <3>1, <3>3, SumsMissBlocked
    <3> QED BY <2>7, <2>11, <3>4
  <2>12. CASE k = 3
    <3>1. s[1] \in Sizes /\ s[2] \in Sizes /\ s[3] \in Sizes
      BY <2>9, <2>12
    <3>2. j = 1 \/ j = 2 \/ j = 3
      BY <2>8, <2>12
    <3>3. 7 \in {s[1], s[2], s[3]}
      BY <2>5, <3>2
    <3>4. s[1] + s[2] + s[3] # 25
      BY <3>1, <3>3, SumsMissBlocked
    <3> QED BY <2>7, <2>12, <3>4
  <2>13. CASE k = 4
    <3>1. s[1] \in Sizes /\ s[2] \in Sizes /\ s[3] \in Sizes /\ s[4] \in Sizes
      BY <2>9, <2>13
    <3>2. j = 1 \/ j = 2 \/ j = 3 \/ j = 4
      BY <2>8, <2>13
    <3>3. 7 \in {s[1], s[2], s[3], s[4]}
      BY <2>5, <3>2
    <3>4. s[1] + s[2] + s[3] + s[4] # 25
      BY <3>1, <3>3, SumsMissBlocked
    <3> QED BY <2>7, <2>13, <3>4
  <2> QED BY <2>8, <2>10, <2>11, <2>12, <2>13
<1> QED BY <1>1, <1>2

\* The motor state that is taken, or what is read for it, lies before the reply
\* that blocks; a command after the opening finds nothing but its own answer.
LEMMA RecvDoneKeeps ==
  ASSUME CInv, NEW c \in Client, RecvDone(c)  PROVE PInv'
<1> DEFINE b == Slot(c)
           p == pipe[b]
           s == Size(cmd[c])
           q == Rest(b, p, s)
<1>1. /\ pc[c] = "sent" /\ linked[c] /\ table' = table /\ Got(c, s, p[1])
  BY Zenon DEF RecvDone, srvVars
<1>2. /\ Types' /\ b \in Brick /\ p \in Seq(Reply) /\ s \in Sizes /\ s \in Nat \ {0}
      /\ Received(b, p, s) = s /\ pipe' = [pipe EXCEPT ![b] = q]
      /\ p[1] \in Reply /\ p # <<>>
  BY RecvDoneTypes DEF CInv
<1>3. pipe'[b] = q /\ \A e \in Brick \ {b} : pipe'[e] = pipe[e]
  BY <1>2 DEF CInv, Types, BrickTypes
<1>4. PICK k \in Takes(b, p, s) :
        /\ k \in 1 .. Len(p) /\ Len(q) = Len(p) - k
        /\ \A i \in 1 .. Len(p) - k : q[i] = p[k + i]
  <2> HIDE DEF b, p, s
  <2>1. \E i \in Takes(b, p, s) :
          /\ i \in 1 .. Len(p) /\ Len(Rest(b, p, s)) = Len(p) - i
          /\ \A l \in 1 .. Len(p) - i : Rest(b, p, s)[l] = p[i + l]
    BY <1>2, RestShape
  <2> QED BY <2>1, Zenon
<1>5. q \in Seq(Reply)
  BY <1>2, RestShape
<1>6. /\ Others(c) /\ linked' = linked /\ handle' = handle /\ own' = own
      /\ Unpack(c, p[1])
  BY <1>1, <1>2, GotOthers DEF CInv, Types
<1>7. \/ pc'[c] = "idle" /\ todo'[c] = (IF todo[c] > 0 THEN todo[c] - 1 ELSE 0)
      \/ pc'[c] = "busy" /\ todo'[c] = todo[c]
  BY <1>2, <1>6, UnpackOthers DEF CInv, Types
<1>8. bname' = bname
  BY <1>1, Zenon DEF Got
<1>9. \A d \in Client \ {c} : pc[d] = "closed" /\ pc'[d] = "closed" /\ ~linked'[d]
  BY <1>1, <1>6 DEF CInv, PInv, Alone, Others, Types, Locals
<1>10. Uses(c, b)
  BY <1>1 DEF Uses
<1>11. Len(p) \in 1 .. 4
  <2> DEFINE n == Len(p)
  <2>1. n \in Nat
    BY <1>2
  <2>2. n <= 3 \/ n = 4
    BY <1>2, Zenon DEF CInv, PInv, Few
  <2>3. k \in 1 .. n
    BY <1>4
  <2> HIDE DEF n
  <2>4. n \in 1 .. 4
    BY <2>1, <2>2, <2>3
  <2> QED BY <2>4 DEF n
<1>12. \A i \in 1 .. Len(p) : p[i].size \in Sizes
  <2>1. DOMAIN p = 1 .. Len(p)
    BY <1>2
  <2> QED BY <1>2, <2>1, Zenon DEF CInv, PInv, Sized
<1>13. Len(p) <= 1 \/ Blocked(p, Len(p) - 1, todo[c])
  BY <1>1, <1>2, <1>10, Zenon DEF CInv, PInv, Front
<1>14. todo[c] \in Nat
  BY NoneTypes DEF CInv, Types, ProgramTypes
<1>15. todo[c] > 0 => s = 25
  BY <1>1, SizeTypes DEF CInv, Types, Locals
<1>16. DOMAIN q = 1 .. Len(q)
  BY <1>5
<1> HIDE DEF q, p, s, b
<1>17. Alone'
  BY <1>9 DEF Alone
<1>18. Unlisted'
  <2>1. \E h \in Handle : table'[h] = b
    BY <1>1 DEF CInv, Types, Locals, Slot, b
  <2>2. \A e \in Brick \ {b} : (\A h \in Handle : table'[h] # e) => pipe'[e] = <<>>
    BY <1>1, <1>3 DEF CInv, PInv, Unlisted
  <2> QED BY <2>1, <2>2 DEF Unlisted
<1>19. Sized'
  <2>1. \A i \in 1 .. Len(q) : k + i \in 1 .. Len(p) /\ i \in 1 .. Len(p) - k
    BY <1>4, <1>11
  <2>2. \A i \in DOMAIN q : q[i].size \in Sizes
    BY <1>4, <1>12, <1>16, <2>1
  <2>3. \A e \in Brick \ {b} : \A i \in DOMAIN pipe'[e] : pipe'[e][i].size \in Sizes
    BY <1>3, Zenon DEF CInv, PInv, Sized
  <2> QED BY <1>3, <2>2, <2>3, Zenon DEF Sized
<1>20. \A d \in Client : pc'[d] # "sent"
  BY <1>7, <1>9
<1>21. Replied'
  BY <1>20, Zenon DEF Replied
<1>22. Few'
  <2>1. Len(q) <= 3
    <3> DEFINE n == Len(p)
               m == Len(q)
    <3>1. n \in 1 .. 4 /\ k \in 1 .. n /\ m = n - k
      BY <1>4, <1>11
    <3> HIDE DEF n, m
    <3>2. m <= 3
      BY <3>1
    <3> QED BY <3>2 DEF m
  <2>2. \A e \in Brick \ {b} : Len(pipe[e]) <= 3
    <3>1. ASSUME NEW e \in Brick \ {b}, NEW d \in Client, pc[d] = "sent", Uses(d, e)
          PROVE  FALSE
      <4>1. d = c
        BY <1>9, <3>1
      <4> QED BY <3>1, <4>1 DEF Uses, b
    <3> QED BY <3>1 DEF CInv, PInv, Few
  <2> QED BY <1>3, <2>1, <2>2 DEF Few
<1>23. Front'
  <2> SUFFICES ASSUME NEW d \in Client, NEW e \in Brick, linked'[d],
                      table'[handle'[d]] = e
               PROVE  /\ pc'[d] \in {"idle", "busy"} =>
                           \/ pipe'[e] = <<>>
                           \/ Blocked(pipe'[e], Len(pipe'[e]), todo'[d])
                      /\ pc'[d] = "sent" =>
                           \/ Len(pipe'[e]) <= 1
                           \/ Blocked(pipe'[e], Len(pipe'[e]) - 1, todo'[d])
    BY Zenon DEF Front, Uses, Slot, Blocked
  <2>1. d = c /\ e = b /\ pipe'[e] = q
    BY <1>1, <1>3, <1>6, <1>9 DEF Slot, b
  <2>2. q = <<>> \/ Blocked(q, Len(q), todo'[c])
    <3>1. CASE Len(p) <= 1
      <4>1. Len(q) = 0
        BY <1>4, <1>11, <3>1
      <4> QED BY <1>5, <4>1, EmptySeq
    <3>2. CASE Blocked(p, Len(p) - 1, todo[c])
      <4>1. PICK j \in 1 .. todo[c] : j <= Len(p) - 1 /\ p[j].size = 7
        BY <3>2, Zenon DEF Blocked
      <4>2. s = 25 /\ j \in 1 .. Len(p)
        BY <1>11, <1>14, <1>15, <4>1
      <4>3. k < j
        <5>1. Len(p) \in 0 .. 4
          BY <1>11
        <5> QED BY <1>2, <1>12, <4>1, <4>2, <5>1, MotorTakes
      <4>4. /\ j - k \in 1 .. todo'[c] /\ j - k <= Len(q)
            /\ j - k \in 1 .. Len(p) - k /\ k + (j - k) = j
        <5>1. todo'[c] = todo[c] - 1 \/ todo'[c] = todo[c]
          BY <1>7, <1>14, <4>1
        <5> QED BY <1>4, <1>11, <1>14, <4>1, <4>2, <4>3, <5>1
      <4>5. q[j - k].size = 7
        BY <1>4, <4>1, <4>4
      <4> QED BY <4>4, <4>5 DEF Blocked
    <3> QED BY <1>13, <3>1, <3>2
  <2> QED BY <1>20, <2>1, <2>2
<1> QED BY <1>17, <1>18, <1>19, <1>21, <1>22, <1>23 DEF PInv

\* What LIST leaves in the pipe of a brick that it keeps
LEMMA ListedShape ==
  ASSUME CInv, NEW b \in Brick, Answers(b), Len(pipe[b]) \in 0 .. 3
  PROVE  LET q == Rest(b, KeptAlive(b), 7) IN
         /\ q \in Seq(Reply) /\ Len(q) \in 0 .. 3
         /\ \A i \in DOMAIN q : q[i].size \in Sizes
         /\ q # <<>> => q[Len(q)].size = 7
<1> DEFINE a == KeptAlive(b)
           q == Rest(b, a, 7)
<1>1. /\ a \in Seq(Reply) /\ Len(a) = Len(pipe[b]) + 1 /\ a[Len(a)].size = 7
      /\ \A k \in 1 .. Len(pipe[b]) : a[k] = pipe[b][k]
      /\ pipe[b] \in Seq(Reply)
  BY KeptAliveTypes DEF CInv, Types
<1>2. Received(b, a, 7) = 7 /\ 7 \in Nat \ {0}
  <2>1. Received(b, a, 7) = 7
    BY Zenon DEF Answers
  <2> QED BY <2>1
<1>3. \A k \in 1 .. Len(a) : a[k].size \in Sizes
  <2>1. DOMAIN pipe[b] = 1 .. Len(pipe[b])
    BY <1>1
  <2>2. \A k \in 1 .. Len(pipe[b]) : pipe[b][k].size \in Sizes
    BY <2>1 DEF CInv, PInv, Sized
  <2>3. 7 \in Sizes
    BY DEF Sizes
  <2>4. \A k \in 1 .. Len(a) : k \in 1 .. Len(pipe[b]) \/ k = Len(a)
    BY <1>1
  <2> HIDE DEF a
  <2> QED BY <1>1, <2>2, <2>3, <2>4
<1> HIDE DEF a
<1>4. PICK k \in Takes(b, a, 7) :
        /\ k \in 1 .. Len(a) /\ Len(q) = Len(a) - k
        /\ \A i \in 1 .. Len(a) - k : q[i] = a[k + i]
  BY <1>1, <1>2, RestShape
<1>5. q \in Seq(Reply)
  BY <1>1, <1>2, RestShape
<1>6. DOMAIN q = 1 .. Len(q)
  BY <1>5
<1>7. q # <<>> => Len(q) > 0
  BY <1>5, EmptySeq
<1> HIDE DEF q
<1>8. Len(q) \in 0 .. 3
  <2> DEFINE n == Len(a)
             m == Len(q)
             l == Len(pipe[b])
  <2>1. l \in 0 .. 3 /\ n = l + 1 /\ k \in 1 .. n /\ m = n - k
    BY <1>1, <1>4
  <2> HIDE DEF n, m, l
  <2>2. m \in 0 .. 3
    BY <2>1
  <2> QED BY <2>2 DEF m
<1>9. \A i \in 1 .. Len(q) : i \in 1 .. Len(a) - k /\ k + i \in 1 .. Len(a)
  BY <1>1, <1>4
<1>10. \A i \in DOMAIN q : q[i].size \in Sizes
  BY <1>3, <1>4, <1>6, <1>9
<1>11. q # <<>> => q[Len(q)].size = 7
  <2> SUFFICES ASSUME q # <<>>  PROVE q[Len(q)].size = 7
    OBVIOUS
  <2>1. Len(q) \in 1 .. Len(a) - k /\ k + Len(q) = Len(a)
    BY <1>1, <1>4, <1>7
  <2> QED BY <1>1, <1>4, <2>1
<1> QED BY <1>5, <1>8, <1>10, <1>11 DEF a, q

\* LIST leaves its own keepalive behind whatever was in the pipe.
LEMMA OpenKeeps ==
  ASSUME CInv, Exclusive, NEW c \in Client, NEW want, NEW mute \in SUBSET Brick,
         Open(c, want, mute)
  PROVE  PInv'
<1> DEFINE gone == {b \in Brick : ~Answers(b) \/ b \in mute}
           hits == {h \in Handle : /\ table[h] \in Brick \ gone
                                   /\ want \in {None, rname[h], table[h]}}
<1>1. /\ Remove(gone) /\ bname' = bname
      /\ \A d \in Client : pc[d] = "closed"
      /\ pipe' = [b \in Brick |->
           IF \A h \in Handle : table[h] # b THEN pipe[b]
           ELSE IF b \in gone THEN <<>> ELSE Rest(b, KeptAlive(b), 7)]
  BY Zenon DEF Open, Exclusive
<1>2. \A b \in Brick : Len(pipe[b]) \in 0 .. 3
  BY <1>1, FewRoom
<1>3. \A d \in Client \ {c} : pc'[d] = "closed" /\ ~linked'[d]
  <2>1. \A d \in Client : ~linked[d]
    BY <1>1 DEF CInv, Types, Locals
  <2>2. CASE hits = {}
    <3>1. UNCHANGED <<pc, linked, nxtVars, runVars>>
      BY <2>2, Zenon DEF Open
    <3> QED BY <1>1, <2>1, <3>1
  <2>3. CASE hits # {}
    <3>1. /\ pc' = [pc EXCEPT ![c] = "idle"] /\ linked' = [linked EXCEPT ![c] = TRUE]
      BY <2>3, Zenon DEF Open
    <3> QED BY <1>1, <2>1, <3>1, Zenon DEF CInv, Types, ProgramTypes
  <2> QED BY <2>2, <2>3
<1>4. ASSUME linked'[c]
      PROVE  /\ pc'[c] = "idle" /\ todo'[c] = Motors
             /\ \E h \in Handle : handle'[c] = h /\ table[h] \in Brick \ gone
  <2>1. hits # {}
    <3> SUFFICES ASSUME hits = {}  PROVE FALSE
      OBVIOUS
    <3>1. linked' = linked
      BY Zenon DEF Open
    <3>2. ~linked[c]
      BY <1>1 DEF CInv, Types, Locals
    <3> QED BY <1>4, <3>1, <3>2
  <2>2. PICK h \in hits : /\ pc' = [pc EXCEPT ![c] = "idle"]
                          /\ handle' = [handle EXCEPT ![c] = h]
                          /\ todo' = [todo EXCEPT ![c] = Motors]
    BY <2>1, Zenon DEF Open
  <2>3. h \in Handle /\ table[h] \in Brick \ gone
    OBVIOUS
  <2>4. pc'[c] = "idle" /\ handle'[c] = h /\ todo'[c] = Motors
    BY <2>2 DEF CInv, Types, ProgramTypes
  <2> QED BY <2>3, <2>4
<1>5. \A d \in Client : pc'[d] # "sent"
  <2>1. CASE hits = {}
    <3>1. UNCHANGED <<pc, linked, nxtVars, runVars>>
      BY <2>1, Zenon DEF Open
    <3> QED BY <1>1, <3>1
  <2>2. CASE hits # {}
    <3>1. /\ pc' = [pc EXCEPT ![c] = "idle"]
      BY <2>2, Zenon DEF Open
    <3> QED BY <1>1, <3>1 DEF CInv, Types, ProgramTypes
  <2> QED BY <2>1, <2>2
<1>6. \A b \in Brick \ gone : Answers(b)
  OBVIOUS
<1> HIDE DEF gone, hits
<1>7. ASSUME NEW b \in Brick
      PROVE  /\ Len(pipe'[b]) <= 3 /\ \A i \in DOMAIN pipe'[b] : pipe'[b][i].size \in Sizes
             /\ \/ \A h \in Handle : table[h] # b
                \/ pipe'[b] = <<>>
                \/ /\ b \notin gone /\ Len(pipe'[b]) \in 1 .. 3
                   /\ pipe'[b][Len(pipe'[b])].size = 7
  <2>1. CASE \A h \in Handle : table[h] # b
    <3>1. pipe'[b] = pipe[b]
      BY <1>1, <2>1
    <3>2. Len(pipe[b]) <= 3
      <4> DEFINE n == Len(pipe[b])
      <4>1. n \in 0 .. 3
        BY <1>2
      <4> HIDE DEF n
      <4>2. n <= 3
        BY <4>1
      <4> QED BY <4>2 DEF n
    <3>3. \A i \in DOMAIN pipe[b] : pipe[b][i].size \in Sizes
      BY DEF CInv, PInv, Sized
    <3> QED BY <2>1, <3>1, <3>2, <3>3, Zenon
  <2>2. CASE ~(\A h \in Handle : table[h] # b) /\ b \in gone
    <3>1. pipe'[b] = <<>>
      BY <1>1, <2>2
    <3>2. Len(<<>>) <= 3 /\ DOMAIN <<>> = {}
      OBVIOUS
    <3> QED BY <3>1, <3>2, Zenon
  <2>3. CASE ~(\A h \in Handle : table[h] # b) /\ b \notin gone
    <3> DEFINE q == Rest(b, KeptAlive(b), 7)
    <3>1. pipe'[b] = q
      BY <1>1, <2>3
    <3>2. /\ q \in Seq(Reply) /\ Len(q) \in 0 .. 3
          /\ \A i \in DOMAIN q : q[i].size \in Sizes
          /\ q # <<>> => q[Len(q)].size = 7
      BY <1>2, <1>6, <2>3, ListedShape
    <3> HIDE DEF q
    <3>3. Len(q) <= 3 /\ (q # <<>> => Len(q) \in 1 .. 3)
      BY <3>2, EmptySeq
    <3> QED BY <2>3, <3>1, <3>2, <3>3, Zenon
  <2> QED BY <2>1, <2>2, <2>3
<1>8. Alone'
  BY <1>3 DEF Alone
<1>9. Unlisted'
  <2> SUFFICES ASSUME NEW b \in Brick, \A h \in Handle : table'[h] # b
               PROVE  pipe'[b] = <<>>
    BY DEF Unlisted
  <2>1. CASE \A h \in Handle : table[h] # b
    <3>1. pipe'[b] = pipe[b]
      BY <1>1, <2>1
    <3> QED BY <2>1, <3>1 DEF CInv, PInv, Unlisted
  <2>2. CASE \E h \in Handle : table[h] = b
    <3>1. b \in gone
      BY <1>1, <2>2 DEF Remove
    <3> QED BY <1>1, <2>2, <3>1
  <2> QED BY <2>1, <2>2
<1>10. Sized'
  BY <1>7, Zenon DEF Sized
<1>11. Replied'
  BY <1>5, Zenon DEF Replied
<1>12. Few'
  BY <1>7, Zenon DEF Few
<1>13. Front'
  <2> SUFFICES ASSUME NEW d \in Client, NEW b \in Brick, linked'[d],
                      table'[handle'[d]] = b
               PROVE  /\ pc'[d] \in {"idle", "busy"} =>
                           \/ pipe'[b] = <<>>
                           \/ Blocked(pipe'[b], Len(pipe'[b]), todo'[d])
                      /\ pc'[d] = "sent" =>
                           \/ Len(pipe'[b]) <= 1
                           \/ Blocked(pipe'[b], Len(pipe'[b]) - 1, todo'[d])
    BY Zenon DEF Front, Uses, Slot, Blocked
  <2>1. d = c
    BY <1>3
  <2>2. PICK h \in Handle : handle'[c] = h /\ table[h] \in Brick \ gone
    BY <1>4, <2>1
  <2>3. table[h] = b
    BY <1>1, <2>1, <2>2 DEF Remove
  <2>4. pipe'[b] = <<>> \/ Blocked(pipe'[b], Len(pipe'[b]), todo'[d])
    <3> DEFINE q == pipe'[b]
    <3> SUFFICES ASSUME q # <<>>  PROVE Blocked(q, Len(q), Motors)
      BY <1>4, <2>1
    <3>1. Len(q) \in 1 .. 3 /\ q[Len(q)].size = 7
      BY <1>7, <2>2, <2>3
    <3>2. Motors \in Nat /\ 3 <= Motors
      BY NoneTypes DEF Exclusive
    <3> HIDE DEF q
    <3>3. Len(q) \in 1 .. Motors /\ Len(q) <= Len(q)
      BY <3>1, <3>2
    <3> QED BY <3>1, <3>3 DEF Blocked
  <2> QED BY <1>5, <2>4
<1> QED BY <1>8, <1>9, <1>10, <1>11, <1>12, <1>13 DEF PInv

LEMMA InitKeeps == ASSUME Init  PROVE CInv
<1>1. \A b \in Brick : pipe[b] = <<>>
  BY DEF Init
<1>2. \A c \in Client : pc[c] = "closed" /\ ~linked[c]
  BY DEF Init
<1>3. Len(<<>>) = 0 /\ DOMAIN <<>> = {}
  OBVIOUS
<1>4. Alone /\ Unlisted /\ Replied
  BY <1>1, <1>2 DEF Alone, Unlisted, Replied
<1>5. Sized
  BY <1>1, <1>3, Zenon DEF Sized
<1>6. Few
  BY <1>1, <1>3 DEF Few
<1>7. Front
  BY <1>2, Zenon DEF Front, Uses
<1> QED BY <1>4, <1>5, <1>6, <1>7, InitTypes DEF CInv, PInv

LEMMA StepKeeps ==
  ASSUME Exclusive, CInv, [Next]_vars  PROVE CInv'
<1>1. Types'
  BY StepTypes DEF CInv
<1>2. ASSUME NEW c \in Client, Program(c)  PROVE PInv'
  <2>1. CASE \E want \in {None} \cup Name \cup Brick, mute \in SUBSET Brick :
               Open(c, want, mute)
    BY <2>1, OpenKeeps
  <2>2. CASE Leave(c)
    BY <2>2, LeaveKeeps
  <2>3. CASE \E m \in Cmd \cup {"motor_get"}, n \in Name \cup {None} : Start(c, m, n)
    BY <2>3, StartKeeps
  <2>4. CASE NoAnswer(c)
    BY <2>4, NoAnswerKeeps
  <2>5. CASE SendNowhere(c) \/ \E n \in {-1, 0} : SendFails(c, n)
    BY <2>5, SendNowhereKeeps, SendFailsKeeps
  <2>6. CASE \E st \in Status, short \in BOOLEAN : SendDone(c, st, short)
    BY <2>6, SendDoneKeeps
  <2>7. CASE RecvNowhere(c) \/ RecvDone(c) \/ \E mute \in BOOLEAN : RecvFails(c, mute)
    BY <2>7, RecvNowhereKeeps, RecvDoneKeeps, RecvDropKeeps
  <2> QED BY <1>2, <2>1, <2>2, <2>3, <2>4, <2>5, <2>6, <2>7, Zenon DEF Program
<1>3. ASSUME UNCHANGED vars  PROVE PInv'
  <2>1. /\ bname' = bname /\ pipe' = pipe /\ table' = table /\ pc' = pc
        /\ \A d \in Client : Keeps(d)
    BY <1>3 DEF vars, brickVars, srvVars, nxtVars, runVars, Keeps
  <2> QED BY <1>1, <2>1, EmptyingKeeps
<1> QED BY <1>1, <1>2, <1>3, EnvironmentKeeps, Zenon DEF Next, CInv

LEMMA Invariant == ASSUME Exclusive  PROVE Spec => []CInv
<1>1. Init => CInv
  BY InitKeeps
<1>2. CInv /\ [Next]_vars => CInv'
  BY StepKeeps
<1> QED BY <1>1, <1>2, PTL DEF Spec

\* What programs that died between SEND and RECV have left in a pipe is gone
\* when nxt_open_net returns: the keepalive of LIST, behind at most three of
\* these replies, stops the three questions for motors, and a question that it
\* stops makes nxtd drop the brick.
THEOREM OpeningTidies == Exclusive => (Spec => []Tidy)
<1> SUFFICES ASSUME Exclusive  PROVE Spec => []Tidy
  OBVIOUS
<1>1. CInv => Tidy
  <2> SUFFICES ASSUME CInv, NEW c \in Client, pc[c] = "idle", todo[c] = 0, linked[c],
                      Slot(c) # None
               PROVE  pipe[Slot(c)] = <<>>
    BY Zenon DEF Tidy
  <2>1. Slot(c) \in Brick /\ Uses(c, Slot(c))
    BY SlotTypes DEF CInv, Uses
  <2>2. pipe[Slot(c)] = <<>> \/ Blocked(pipe[Slot(c)], Len(pipe[Slot(c)]), 0)
    BY <2>1 DEF CInv, PInv, Front
  <2> QED BY <2>2 DEF Blocked
<1> QED BY <1>1, Invariant, PTL

-----------------------------------------------------------------------------
(* The reply that a command takes.                                         *)

\* Once a brick is open the first reply is the answer to the telegram.
LEMMA FirstIsOwn ==
  ASSUME CInv, NEW c \in Client, pc[c] = "sent", linked[c], Slot(c) \in Brick,
         todo[c] = 0, pipe[Slot(c)] # <<>>, NEW r, r = pipe[Slot(c)][1]
  PROVE  /\ r.by = c /\ r.cmd = cmd[c]
         /\ Slot(c) = own[c] =>
              /\ did[c] = r.status
              /\ r.cmd = "set_name" /\ r.status = "ok" => bname[own[c]] = Packed[to[c]]
<1> DEFINE p == pipe[Slot(c)]
           n == Len(p)
<1>1. p \in Seq(Reply) /\ Uses(c, Slot(c))
  BY DEF CInv, Types, BrickTypes, Uses
<1>2. n <= 1 \/ Blocked(p, n - 1, 0)
  BY <1>1 DEF CInv, PInv, Front
<1>3. n \in Nat \ {0}
  BY <1>1, EmptySeq
<1>4. n = 1
  <2> HIDE DEF n
  <2> QED BY <1>2, <1>3 DEF Blocked
<1>5. Answered(c, p)
  BY <1>1, Zenon DEF CInv, PInv, Replied
<1>6. p[Len(p)] = r
  BY <1>4
<1> HIDE DEF p
<1> QED BY <1>5, <1>6, Zenon DEF Answered

\* A receive as the program sees it
Takes1(c) == \E n \in Int : \E r :
  /\ Got(c, n, r) /\ (n \in {-1, 0} \/ r \in Reply)
  /\ pc[c] = "sent"
  /\ n \notin {-1, 0} => /\ linked[c] /\ Slot(c) \in Brick
                         /\ pipe[Slot(c)] # <<>> /\ r = pipe[Slot(c)][1]

LEMMA ReceiveShape ==
  ASSUME Types, NEW c \in Client,
         RecvNowhere(c) \/ RecvDone(c) \/ \E mute \in BOOLEAN : RecvFails(c, mute)
  PROVE  Takes1(c)
<1>1. CASE RecvNowhere(c)
  <2>1. Got(c, 0, None) /\ pc[c] = "sent"
    BY <1>1, Zenon DEF RecvNowhere
  <2>2. 0 \in Int /\ 0 \in {-1, 0}
    OBVIOUS
  <2> QED BY <2>1, <2>2, Zenon DEF Takes1
<1>2. CASE RecvDone(c)
  <2>1. Got(c, Size(cmd[c]), pipe[Slot(c)][1]) /\ pc[c] = "sent" /\ linked[c]
    BY <1>2, Zenon DEF RecvDone
  <2>2. /\ Slot(c) \in Brick /\ pipe[Slot(c)][1] \in Reply /\ pipe[Slot(c)] # <<>>
        /\ Size(cmd[c]) \in Nat \ {0}
    BY <1>2, RecvDoneTypes
  <2>3. Size(cmd[c]) \in Int
    BY <2>2
  <2> QED BY <2>1, <2>2, <2>3, Zenon DEF Takes1
<1>3. CASE \E mute \in BOOLEAN : RecvFails(c, mute)
  <2>1. /\ pc[c] = "sent" /\ linked[c] /\ Slot(c) \in Brick
        /\ \E n \in Int : \E r :
             /\ Got(c, n, r) /\ (n \in {-1, 0} \/ r \in Reply)
             /\ n \notin {-1, 0} => pipe[Slot(c)] # <<>> /\ r = pipe[Slot(c)][1]
    BY <1>3, RecvFailsShape
  <2> QED BY <2>1, Zenon DEF Takes1
<1> QED BY <1>1, <1>2, <1>3

\* A command that succeeds has taken its own reply.
LEMMA Succeeds ==
  ASSUME CInv, NEW c \in Client, Takes1(c), result'[c] = "ok"
  PROVE  /\ mine'[c] /\ todo[c] = 0 /\ Ends(c, "ok")
         /\ linked[c] /\ Slot(c) \in Brick
         /\ name'[c] = CASE cmd[c] = "set_name" -> to[c]
                         [] cmd[c] = "reset_bluetooth" -> Factory
                         [] OTHER -> name[c]
         /\ Slot(c) = own[c] =>
              /\ did[c] \in {"ok", "error"}
              /\ did[c] = "error" => cmd[c] \in IgnoresError
              /\ cmd[c] = "set_name" /\ did[c] = "ok" => bname[own[c]] = Packed[to[c]]
<1> PICK n \in Int : \E r :
      /\ Got(c, n, r) /\ (n \in {-1, 0} \/ r \in Reply)
      /\ pc[c] = "sent"
      /\ n \notin {-1, 0} => /\ linked[c] /\ Slot(c) \in Brick
                             /\ pipe[Slot(c)] # <<>> /\ r = pipe[Slot(c)][1]
  BY Zenon DEF Takes1
<1> PICK r :
      /\ Got(c, n, r) /\ (n \in {-1, 0} \/ r \in Reply)
      /\ pc[c] = "sent"
      /\ n \notin {-1, 0} => /\ linked[c] /\ Slot(c) \in Brick
                             /\ pipe[Slot(c)] # <<>> /\ r = pipe[Slot(c)][1]
  OBVIOUS
<1>1. ProgramTypes /\ result[c] = "none"
  BY CommandTypes DEF CInv, Types
<1>2. UNCHANGED <<linked, handle, own>>
  BY Zenon DEF Got
<1>3. \A e : ~Fails(c, e)
  <2> SUFFICES ASSUME NEW e, Fails(c, e)  PROVE FALSE
    OBVIOUS
  <2>1. result' = [result EXCEPT ![c] = IF todo[c] > 0 THEN @ ELSE "fail"]
    BY Zenon DEF Fails, Ends
  <2> QED BY <1>1, <2>1 DEF ProgramTypes
<1>4. n \notin {-1, 0} /\ Unpack(c, r)
  BY <1>1, <1>3, GotOthers
<1>5. r \in Reply
  BY <1>4
<1>6. /\ mine'[c] = (r.by = c) /\ Ends(c, "ok") /\ r.cmd = cmd[c] /\ r.status # "again"
      /\ r.status = "error" => cmd[c] \in IgnoresError
      /\ name'[c] = CASE cmd[c] = "set_name" -> to[c]
                      [] cmd[c] = "reset_bluetooth" -> Factory
                      [] OTHER -> name[c]
  BY <1>1, <1>2, <1>3, <1>4, <1>5, UnpackOthers
<1>7. todo[c] = 0
  <2>1. result' = [result EXCEPT ![c] = IF todo[c] > 0 THEN @ ELSE "ok"]
    BY <1>6, Zenon DEF Ends
  <2>2. ~(todo[c] > 0)
    BY <1>1, <2>1 DEF ProgramTypes
  <2>3. todo[c] \in Nat
    BY <1>1, NoneTypes DEF ProgramTypes
  <2> QED BY <2>2, <2>3
<1>8. /\ r.by = c
      /\ Slot(c) = own[c] =>
           /\ did[c] = r.status
           /\ r.cmd = "set_name" /\ r.status = "ok" => bname[own[c]] = Packed[to[c]]
  BY <1>4, <1>7, FirstIsOwn
<1>9. r.status \in Status
  BY <1>5 DEF Reply
<1>10. mine'[c]
  BY <1>6, <1>8, Zenon
<1>11. Slot(c) = own[c] =>
         /\ did[c] \in {"ok", "error"}
         /\ did[c] = "error" => cmd[c] \in IgnoresError
         /\ cmd[c] = "set_name" /\ did[c] = "ok" => bname[own[c]] = Packed[to[c]]
  BY <1>6, <1>8, <1>9, Zenon DEF Status
<1> QED BY <1>4, <1>6, <1>7, <1>10, <1>11

\* Nothing but a receive makes a command succeed.
LEMMA ResultKept ==
  ASSUME Types, [Next]_vars, NEW c \in Client, result'[c] = "ok", ~Takes1(c)
  PROVE  result[c] = "ok" /\ mine'[c] = mine[c]
<1>1. CASE UNCHANGED runVars
  BY <1>1 DEF runVars
<1>2. ASSUME NEW d \in Client, Others(d), d = c => result'[c] = "fail"
      PROVE  result[c] = "ok" /\ mine'[c] = mine[c]
  BY <1>2 DEF Others
<1>3. ASSUME NEW d \in Client, NEW e, Fails(d, e),
             UNCHANGED <<linked, handle, own, mine>>,
             pc[d] \in {"busy", "sent"}
      PROVE  result[c] = "ok" /\ mine'[c] = mine[c]
  <2>1. result[d] = "none"
    BY <1>3, CommandTypes
  <2>2. result' = [result EXCEPT ![d] = IF todo[d] > 0 THEN @ ELSE "fail"]
    BY <1>3, Zenon DEF Fails, Ends
  <2> QED BY <1>3, <2>1, <2>2 DEF Types, ProgramTypes
<1>4. ASSUME NEW d \in Client, NEW n, NEW x, Sent(d, n, x), pc[d] = "busy"
      PROVE  result[c] = "ok" /\ mine'[c] = mine[c]
  <2>1. UNCHANGED <<linked, handle, own, mine>>
    BY <1>4, Zenon DEF Sent
  <2>2. Fails(d, "connection") \/ result' = result
    BY <1>4, Zenon DEF Sent
  <2>3. CASE Fails(d, "connection")
    BY <1>3, <1>4, <2>1, <2>3
  <2>4. CASE result' = result
    BY <2>1, <2>4
  <2> QED BY <2>2, <2>3, <2>4
<1>5. ASSUME NEW d \in Client, Takes1(d)
      PROVE  result[c] = "ok" /\ mine'[c] = mine[c]
  <2>1. Others(d)
    BY <1>5, GotOthers DEF Takes1, Types
  <2>2. d # c
    BY <1>5
  <2> QED BY <2>1, <2>2 DEF Others
<1>6. ASSUME NEW d \in Client, Program(d)
      PROVE  result[c] = "ok" /\ mine'[c] = mine[c]
  <2>1. ASSUME NEW want, NEW mute, Open(d, want, mute)
        PROVE  UNCHANGED <<result, mine>>
    <3>1. Open(d, want, mute) => UNCHANGED result /\ UNCHANGED mine
      BY Zenon DEF Open, runVars
    <3> QED BY <2>1, <3>1
  <2>2. CASE Leave(d)
    <3>1. result' = [result EXCEPT ![d] = "none"] /\ mine' = [mine EXCEPT ![d] = TRUE]
      BY <2>2, Zenon DEF Leave
    <3>2. c # d /\ result[c] = "ok"
      BY <3>1 DEF Types, ProgramTypes
    <3>3. mine'[c] = mine[c]
      BY <3>1, <3>2, Zenon DEF Types, ProgramTypes
    <3> QED BY <3>2, <3>3
  <2>3. ASSUME NEW m, NEW n, Start(d, m, n)
        PROVE  result[c] = "ok" /\ mine'[c] = mine[c]
    <3>1. result' = [result EXCEPT ![d] = "none"] /\ mine' = [mine EXCEPT ![d] = TRUE]
      BY <2>3, Zenon DEF Start
    <3>2. c # d /\ result[c] = "ok"
      BY <3>1 DEF Types, ProgramTypes
    <3>3. mine'[c] = mine[c]
      BY <3>1, <3>2, Zenon DEF Types, ProgramTypes
    <3> QED BY <3>2, <3>3
  <2>4. CASE NoAnswer(d)
    BY <1>3, <2>4, Zenon DEF NoAnswer
  <2>5. CASE SendNowhere(d)
    BY <1>4, <2>5, Zenon DEF SendNowhere
  <2>6. ASSUME NEW n, SendFails(d, n)  PROVE result[c] = "ok" /\ mine'[c] = mine[c]
    BY <1>4, <2>6, Zenon DEF SendFails
  <2>7. ASSUME NEW st, NEW short, SendDone(d, st, short)
        PROVE  result[c] = "ok" /\ mine'[c] = mine[c]
    BY <1>4, <2>7, Zenon DEF SendDone
  <2>8. CASE RecvNowhere(d) \/ RecvDone(d) \/ \E mute \in BOOLEAN : RecvFails(d, mute)
    BY <1>5, <2>8, ReceiveShape
  <2>9. CASE \E want \in {None} \cup Name \cup Brick, mute \in SUBSET Brick :
               Open(d, want, mute)
    <3>1. result' = result /\ mine' = mine
      BY <2>1, <2>9
    <3> QED BY <3>1
  <2> QED BY <1>6, <2>2, <2>3, <2>4, <2>5, <2>6, <2>7, <2>8, <2>9, Zenon DEF Program
<1>7. CASE \/ \E b \in Brick : \/ Plug(b) \/ Unplug(b)
                               \/ \E h \in Handle : Scan(b, h)
           \/ Restart
  <2>1. UNCHANGED runVars
    BY <1>7, Zenon DEF Plug, Unplug, Scan, Restart
  <2> QED BY <1>1, <2>1
<1>8. CASE UNCHANGED vars
  BY <1>1, <1>8, Zenon DEF vars
<1> QED BY <1>6, <1>7, <1>8, Zenon DEF Next

\* A command that returns success has looked at the reply to its own telegram,
\* never at one that another program, or a motor question, left in the pipe.
THEOREM RepliesAreOwn == Exclusive => (Spec => []OwnReply)
<1> SUFFICES ASSUME Exclusive  PROVE Spec => []OwnReply
  OBVIOUS
<1>1. Init => OwnReply
  BY DEF Init, OwnReply
<1>2. CInv /\ OwnReply /\ [Next]_vars => OwnReply'
  <2> SUFFICES ASSUME CInv, OwnReply, [Next]_vars, NEW c \in Client, result'[c] = "ok"
               PROVE  mine'[c]
    BY Zenon DEF OwnReply
  <2>1. CASE Takes1(c)
    BY <2>1, Succeeds
  <2>2. CASE ~Takes1(c)
    <3>1. result[c] = "ok" /\ mine'[c] = mine[c]
      BY <2>2, ResultKept DEF CInv
    <3> QED BY <3>1, Zenon DEF OwnReply
  <2> QED BY <2>1, <2>2
<1> QED BY <1>1, <1>2, Invariant, PTL DEF Spec

-----------------------------------------------------------------------------
(* One brick: no slot of nxtd is given to another one.                     *)

OneBrick == \A b, d \in Brick : b = d

\* When nxt_set_name returns success, the handle has the string it was given and
\* the brick has of it what a telegram holds.
THEOREM NamesAgree == Exclusive /\ OneBrick => (Spec => NameSet)
<1> SUFFICES ASSUME Exclusive, OneBrick  PROVE Spec => NameSet
  OBVIOUS
<1>1. CInv /\ [Next]_vars =>
        [\A c \in Client :
           cmd[c] = "set_name" /\ result'[c] = "ok" =>
             name'[c] = to[c] /\ bname[own[c]] = Packed[to[c]]]_vars
  <2> SUFFICES ASSUME CInv, [Next]_vars, NEW c \in Client, cmd[c] = "set_name",
                      result'[c] = "ok"
               PROVE  name'[c] = to[c] /\ bname[own[c]] = Packed[to[c]]
    OBVIOUS
  <2>1. Takes1(c)
    <3> SUFFICES ASSUME ~Takes1(c)  PROVE FALSE
      OBVIOUS
    <3>1. result[c] = "ok"
      BY ResultKept DEF CInv
    <3> QED BY <3>1, NoneTypes DEF CInv, Types, Locals
  <2>2. linked[c] /\ Slot(c) \in Brick /\ own[c] \in Brick
    BY <2>1, Succeeds, SlotTypes DEF CInv
  <2>3. Slot(c) = own[c]
    BY <2>2 DEF OneBrick
  <2>4. "set_name" \notin IgnoresError
    BY DEF IgnoresError
  <2>5. /\ did[c] \in {"ok", "error"} /\ (did[c] = "error" => cmd[c] \in IgnoresError)
        /\ cmd[c] = "set_name" /\ did[c] = "ok" => bname[own[c]] = Packed[to[c]]
        /\ name'[c] = CASE cmd[c] = "set_name" -> to[c]
                        [] cmd[c] = "reset_bluetooth" -> Factory
                        [] OTHER -> name[c]
    BY <2>1, <2>3, Succeeds
  <2> QED BY <2>4, <2>5
<1> QED BY <1>1, Invariant, PTL DEF Spec, NameSet

\* What the abstract specification sees of a program
Phase(t, s, d) ==
  IF t > 0 THEN "none"
  ELSE IF s = "sent" /\ d \in Status THEN "executed"
  ELSE IF s \in {"busy", "sent"} THEN "asked" ELSE "none"
Outcome1(t, s, d, m) ==
  IF t > 0 \/ ~(s = "sent" /\ d \in Status) THEN "none"
  ELSE IF d = "error" /\ m \in IgnoresError THEN "ok" ELSE d

LEMMA RemoteShape ==
  /\ RemotePhase = [c \in Client |-> Phase(todo[c], pc[c], did[c])]
  /\ RemoteOutcome = [c \in Client |-> Outcome1(todo[c], pc[c], did[c], cmd[c])]
  /\ RemotePhase' = [c \in Client |-> Phase(todo'[c], pc'[c], did'[c])]
  /\ RemoteOutcome' = [c \in Client |-> Outcome1(todo'[c], pc'[c], did'[c], cmd'[c])]
BY Zenon DEF RemotePhase, RemoteOutcome, Executed, Phase, Outcome1

LEMMA RemoteBecomes ==
  ASSUME NEW c \in Client, Others(c), NEW p, NEW o,
         Phase(todo'[c], pc'[c], did'[c]) = p,
         Outcome1(todo'[c], pc'[c], did'[c], cmd'[c]) = o
  PROVE  Remote!Become(c, p, o)
<1>1. \A d \in Client \ {c} :
        /\ Phase(todo'[d], pc'[d], did'[d]) = Phase(todo[d], pc[d], did[d])
        /\ Outcome1(todo'[d], pc'[d], did'[d], cmd'[d]) =
             Outcome1(todo[d], pc[d], did[d], cmd[d])
  BY Zenon DEF Others
<1>2. RemotePhase' = [RemotePhase EXCEPT ![c] = p]
  BY <1>1, RemoteShape
<1>3. RemoteOutcome' = [RemoteOutcome EXCEPT ![c] = o]
  BY <1>1, RemoteShape
<1> QED BY <1>2, <1>3 DEF Remote!Become

LEMMA RemoteStutters ==
  ASSUME NEW c \in Client, Others(c), result' = result,
         Phase(todo'[c], pc'[c], did'[c]) = Phase(todo[c], pc[c], did[c]),
         Outcome1(todo'[c], pc'[c], did'[c], cmd'[c]) =
           Outcome1(todo[c], pc[c], did[c], cmd[c])
  PROVE  UNCHANGED Remote!remoteVars
<1>1. \A d \in Client :
        /\ Phase(todo'[d], pc'[d], did'[d]) = Phase(todo[d], pc[d], did[d])
        /\ Outcome1(todo'[d], pc'[d], did'[d], cmd'[d]) =
             Outcome1(todo[d], pc[d], did[d], cmd[d])
  BY Zenon DEF Others
<1>2. RemotePhase' = RemotePhase /\ RemoteOutcome' = RemoteOutcome
  BY <1>1, RemoteShape
<1> QED BY <1>2 DEF Remote!remoteVars

\* A failing command fails there too; while nxt_open_net asks for motors nothing
\* is seen.
LEMMA RemoteFails ==
  ASSUME Types, NEW c \in Client, NEW e, Fails(c, e), pc[c] \in {"busy", "sent"},
         UNCHANGED <<linked, handle, own>>, \A d \in Client \ {c} : mine'[d] = mine[d]
  PROVE  [Remote!RemoteNext]_Remote!remoteVars
<1>1. /\ Others(c) /\ pc'[c] = "idle"
      /\ todo'[c] = (IF todo[c] > 0 THEN todo[c] - 1 ELSE 0)
  BY FailsOthers DEF Types
<1>2. result' = [result EXCEPT ![c] = IF todo[c] > 0 THEN @ ELSE "fail"]
  BY Zenon DEF Fails, Ends
<1>3. /\ Phase(todo'[c], pc'[c], did'[c]) = "none"
      /\ Outcome1(todo'[c], pc'[c], did'[c], cmd'[c]) = "none"
  BY <1>1 DEF Phase, Outcome1
<1>4. CASE todo[c] > 0
  <2>1. result' = result
    BY <1>2, <1>4 DEF Types, ProgramTypes
  <2>2. /\ Phase(todo[c], pc[c], did[c]) = "none"
        /\ Outcome1(todo[c], pc[c], did[c], cmd[c]) = "none"
    BY <1>4 DEF Phase, Outcome1
  <2> QED BY <1>1, <1>3, <2>1, <2>2, RemoteStutters
<1>5. CASE ~(todo[c] > 0)
  <2>1. Remote!Become(c, "none", "none")
    BY <1>1, <1>3, RemoteBecomes
  <2>2. result' = [result EXCEPT ![c] = "fail"]
    BY <1>2, <1>5
  <2>3. RemotePhase[c] # "none"
    BY <1>5, RemoteShape DEF Phase
  <2>4. Remote!Fail(c)
    BY <2>1, <2>2, <2>3 DEF Remote!Fail
  <2> QED BY <2>4 DEF Remote!RemoteNext
<1> QED BY <1>4, <1>5

LEMMA RemoteSends ==
  ASSUME CInv, OneBrick, NEW c \in Client, NEW n \in Int,
         NEW d \in Status \cup {"none"}, pc[c] = "busy", Sent(c, n, d)
  PROVE  [Remote!RemoteNext]_Remote!remoteVars
<1>1. /\ Others(c) /\ UNCHANGED <<linked, handle, own, mine>>
      /\ \/ Fails(c, "connection")
         \/ /\ pc'[c] = "sent" /\ did'[c] = d /\ todo'[c] = todo[c] /\ cmd'[c] = cmd[c]
            /\ result' = result
  <2>1. /\ Others(c) /\ UNCHANGED <<linked, handle, own>>
        /\ \/ Fails(c, "connection")
           \/ /\ pc'[c] = "sent" /\ did'[c] = d /\ todo'[c] = todo[c]
              /\ cmd'[c] = cmd[c]
    BY SentOthers, Zenon DEF CInv, Types
  <2>2. mine' = mine
    BY Zenon DEF Sent
  <2>3. Fails(c, "connection") \/ result' = result
    BY Zenon DEF Sent
  <2> QED BY <2>1, <2>2, <2>3
<1>2. CASE Fails(c, "connection")
  <2>1. \A e \in Client \ {c} : mine'[e] = mine[e]
    BY <1>1
  <2> QED BY <1>1, <1>2, <2>1, RemoteFails DEF CInv
<1>3. CASE /\ pc'[c] = "sent" /\ did'[c] = d /\ todo'[c] = todo[c] /\ cmd'[c] = cmd[c]
           /\ result' = result
  <2> DEFINE t == todo[c]
             m == cmd[c]
  <2>1. CASE t > 0 \/ d = "none"
    <3>1. "none" \notin Status
      BY DEF Status
    <3>2. Phase(t, "sent", d) = Phase(t, "busy", did[c])
          /\ Outcome1(t, "sent", d, m) = Outcome1(t, "busy", did[c], m)
      BY <2>1, <3>1 DEF Phase, Outcome1
    <3> QED BY <1>1, <1>3, <3>2, RemoteStutters
  <2>2. CASE ~(t > 0) /\ d \in Status
    <3> DEFINE o == IF d = "error" /\ m \in IgnoresError THEN "ok" ELSE d
    <3>1. Phase(t, "sent", d) = "executed" /\ Outcome1(t, "sent", d, m) = o
      BY <2>2 DEF Phase, Outcome1
    <3>2. o \in Remote!Outcome
      BY <2>2 DEF Remote!Outcome, Status
    <3> HIDE DEF o
    <3>3. Remote!Become(c, "executed", o)
      BY <1>1, <1>3, <3>1, RemoteBecomes
    <3>4. RemotePhase[c] = "asked"
      BY <2>2, RemoteShape DEF Phase
    <3>5. Remote!Execute(c, o)
      BY <1>3, <3>3, <3>4 DEF Remote!Execute
    <3> QED BY <3>2, <3>5 DEF Remote!RemoteNext
  <2> QED BY <2>1, <2>2
<1> QED BY <1>1, <1>2, <1>3

LEMMA RemoteReceives ==
  ASSUME CInv, OneBrick, NEW c \in Client, Takes1(c)
  PROVE  [Remote!RemoteNext]_Remote!remoteVars
<1> PICK n \in Int : \E r :
      /\ Got(c, n, r) /\ (n \in {-1, 0} \/ r \in Reply)
      /\ pc[c] = "sent"
      /\ n \notin {-1, 0} => /\ linked[c] /\ Slot(c) \in Brick
                             /\ pipe[Slot(c)] # <<>> /\ r = pipe[Slot(c)][1]
  BY Zenon DEF Takes1
<1> PICK r :
      /\ Got(c, n, r) /\ (n \in {-1, 0} \/ r \in Reply)
      /\ pc[c] = "sent"
      /\ n \notin {-1, 0} => /\ linked[c] /\ Slot(c) \in Brick
                             /\ pipe[Slot(c)] # <<>> /\ r = pipe[Slot(c)][1]
  OBVIOUS
<1>1. Types /\ ProgramTypes /\ result[c] = "none" /\ todo[c] \in Nat
  BY CommandTypes, NoneTypes DEF CInv, Types, ProgramTypes
<1>2. UNCHANGED <<linked, handle, own>>
  BY Zenon DEF Got
<1>3. /\ Others(c)
      /\ \/ n \notin {-1, 0} /\ Unpack(c, r)
         \/ Fails(c, "connection") \/ Fails(c, "same")
         \/ /\ pc'[c] = "crashed" /\ todo'[c] = todo[c] /\ did'[c] = "none"
            /\ result'[c] = result[c]
  BY <1>1, GotOthers
<1>4. ASSUME NEW e, Fails(c, e)  PROVE [Remote!RemoteNext]_Remote!remoteVars
  <2>1. \A d \in Client \ {c} : mine'[d] = mine[d]
    BY <1>3 DEF Others
  <2> QED BY <1>1, <1>2, <1>4, <2>1, RemoteFails
<1>5. ASSUME \A e : ~Fails(c, e), n \notin {-1, 0}, Unpack(c, r)
      PROVE  [Remote!RemoteNext]_Remote!remoteVars
  <2>1. r \in Reply
    BY <1>5
  <2>2. \/ /\ pc'[c] = "idle" /\ Ends(c, "ok")
        \/ /\ pc'[c] = "busy" /\ todo'[c] = todo[c] /\ result'[c] = result[c]
           /\ r.status = "again" /\ did'[c] = "none"
    BY <1>1, <1>2, <1>5, <2>1, UnpackOthers
  <2>3. CASE pc'[c] = "idle" /\ Ends(c, "ok")
    <3>1. result' = [result EXCEPT ![c] = IF todo[c] > 0 THEN @ ELSE "ok"]
      BY <2>3, Zenon DEF Ends
    <3>2. /\ Phase(todo'[c], pc'[c], did'[c]) = "none"
          /\ Outcome1(todo'[c], pc'[c], did'[c], cmd'[c]) = "none"
      BY <2>3 DEF Phase, Outcome1
    <3>3. CASE todo[c] > 0
      <4>1. result' = result
        BY <1>1, <3>1, <3>3 DEF ProgramTypes
      <4>2. /\ Phase(todo[c], pc[c], did[c]) = "none"
            /\ Outcome1(todo[c], pc[c], did[c], cmd[c]) = "none"
        BY <3>3 DEF Phase, Outcome1
      <4> QED BY <1>3, <3>2, <4>1, <4>2, RemoteStutters
    <3>4. CASE ~(todo[c] > 0)
      <4>1. result' = [result EXCEPT ![c] = "ok"] /\ result'[c] = "ok"
        BY <1>1, <3>1, <3>4 DEF ProgramTypes
      <4>2. linked[c] /\ Slot(c) \in Brick /\ own[c] \in Brick
        BY <1>1, <4>1, Succeeds, SlotTypes
      <4>3. Slot(c) = own[c]
        BY <4>2 DEF OneBrick
      <4>4. did[c] \in {"ok", "error"} /\ (did[c] = "error" => cmd[c] \in IgnoresError)
        BY <4>1, <4>3, Succeeds
      <4>5. RemotePhase[c] = "executed" /\ RemoteOutcome[c] = "ok"
        BY <3>4, <4>4, RemoteShape DEF Phase, Outcome1, Status
      <4>6. Remote!Become(c, "none", "none")
        BY <1>3, <3>2, RemoteBecomes
      <4>7. Remote!Succeed(c)
        BY <4>1, <4>5, <4>6 DEF Remote!Succeed
      <4> QED BY <4>7 DEF Remote!RemoteNext
    <3> QED BY <3>3, <3>4
  <2>4. CASE /\ pc'[c] = "busy" /\ todo'[c] = todo[c] /\ result'[c] = result[c]
             /\ r.status = "again" /\ did'[c] = "none"
    <3>1. result' = result
      <4>1. Ends(c, "ok") \/ result' = result
        BY <1>5, Zenon DEF Unpack
      <4>2. Ends(c, "ok") => pc'[c] = "idle"
        BY <1>1 DEF Ends, ProgramTypes
      <4> QED BY <2>4, <4>1, <4>2
    <3>2. CASE todo[c] > 0
      <4>1. /\ Phase(todo'[c], pc'[c], did'[c]) = Phase(todo[c], pc[c], did[c])
            /\ Outcome1(todo'[c], pc'[c], did'[c], cmd'[c]) =
                 Outcome1(todo[c], pc[c], did[c], cmd[c])
        BY <2>4, <3>2 DEF Phase, Outcome1
      <4> QED BY <1>3, <3>1, <4>1, RemoteStutters
    <3>3. CASE ~(todo[c] > 0)
      <4>1. todo[c] = 0 /\ linked[c] /\ Slot(c) \in Brick /\ own[c] \in Brick
        BY <1>1, <1>5, <3>3, SlotTypes
      <4>2. did[c] = "again"
        <5>1. Slot(c) = own[c]
          BY <4>1 DEF OneBrick
        <5> QED BY <1>5, <2>4, <4>1, <5>1, FirstIsOwn
      <4>3. RemotePhase[c] = "executed" /\ RemoteOutcome[c] = "again"
        BY <3>3, <4>2, RemoteShape DEF Phase, Outcome1, Status
      <4>4. /\ Phase(todo'[c], pc'[c], did'[c]) = "asked"
            /\ Outcome1(todo'[c], pc'[c], did'[c], cmd'[c]) = "none"
        BY <2>4, <3>3 DEF Phase, Outcome1
      <4>5. Remote!Become(c, "asked", "none")
        BY <1>3, <4>4, RemoteBecomes
      <4>6. Remote!Repeat(c)
        BY <3>1, <4>3, <4>5 DEF Remote!Repeat
      <4> QED BY <4>6 DEF Remote!RemoteNext
    <3> QED BY <3>2, <3>3
  <2> QED BY <2>2, <2>3, <2>4
<1>6. CASE /\ pc'[c] = "crashed" /\ todo'[c] = todo[c] /\ did'[c] = "none"
           /\ result'[c] = result[c]
  <2>1. /\ Phase(todo'[c], pc'[c], did'[c]) = "none"
        /\ Outcome1(todo'[c], pc'[c], did'[c], cmd'[c]) = "none"
    BY <1>6 DEF Phase, Outcome1
  <2>2. Remote!Become(c, "none", "none")
    BY <1>3, <2>1, RemoteBecomes
  <2>3. result' \in [Client -> {"none", "ok", "fail"}]
    <3>1. (n \in {-1, 0} \/ r \in Reply) /\ pc[c] = "sent"
      OBVIOUS
    <3> QED BY <1>1, <3>1, GotTypes DEF Types, ProgramTypes
  <2>4. result' = [result EXCEPT ![c] = "none"]
    BY <1>1, <1>3, <1>6, <2>3 DEF ProgramTypes, Others
  <2>5. Remote!Leave(c)
    BY <2>2, <2>4 DEF Remote!Leave
  <2> QED BY <2>5 DEF Remote!RemoteNext
<1> QED BY <1>3, <1>4, <1>5, <1>6

LEMMA RemoteStarts ==
  ASSUME Types, NEW c \in Client, NEW m, NEW n, Start(c, m, n)
  PROVE  [Remote!RemoteNext]_Remote!remoteVars
<1>1. /\ pc[c] = "idle" /\ pc'[c] = "busy" /\ todo' = todo /\ did'[c] = "none"
      /\ result' = [result EXCEPT ![c] = "none"] /\ linked' = linked /\ handle' = handle
      /\ own' = own
  BY DEF Start, Types, ProgramTypes, nxtVars
<1>2. Others(c)
  <2>1. \A d \in Client \ {c} : mine'[d] = mine[d]
    BY Zenon DEF Start, Types, ProgramTypes
  <2> QED BY <1>1, <2>1 DEF Start, Types, ProgramTypes, Others
<1>3. CASE todo[c] > 0
  <2>1. result[c] = "none"
    BY <1>3 DEF Types, Locals
  <2>2. result' = result
    BY <1>1, <2>1 DEF Types, ProgramTypes
  <2>3. /\ Phase(todo'[c], pc'[c], did'[c]) = Phase(todo[c], pc[c], did[c])
        /\ Outcome1(todo'[c], pc'[c], did'[c], cmd'[c]) =
             Outcome1(todo[c], pc[c], did[c], cmd[c])
    BY <1>1, <1>3 DEF Phase, Outcome1
  <2> QED BY <1>2, <2>2, <2>3, RemoteStutters
<1>4. CASE ~(todo[c] > 0)
  <2>1. /\ Phase(todo'[c], pc'[c], did'[c]) = "asked"
        /\ Outcome1(todo'[c], pc'[c], did'[c], cmd'[c]) = "none"
    BY <1>1, <1>4 DEF Phase, Outcome1
  <2>2. Remote!Become(c, "asked", "none")
    BY <1>2, <2>1, RemoteBecomes
  <2>3. RemotePhase[c] = "none"
    BY <1>1, <1>4, RemoteShape DEF Phase
  <2>4. Remote!Command(c)
    BY <1>1, <2>2, <2>3 DEF Remote!Command
  <2> QED BY <2>4 DEF Remote!RemoteNext
<1> QED BY <1>3, <1>4

LEMMA RemoteLeaves ==
  ASSUME Types, NEW c \in Client, Leave(c)
  PROVE  [Remote!RemoteNext]_Remote!remoteVars
<1>1. pc'[c] = "closed" /\ result' = [result EXCEPT ![c] = "none"]
  BY DEF Leave, Types, ProgramTypes
<1>2. Others(c)
  <2>1. \A d \in Client \ {c} : linked'[d] = linked[d] /\ mine'[d] = mine[d]
    BY Zenon DEF Leave, Types, ProgramTypes
  <2>2. \A d \in Client \ {c} :
          /\ pc'[d] = pc[d] /\ handle'[d] = handle[d]
          /\ own'[d] = own[d] /\ todo'[d] = todo[d] /\ cmd'[d] = cmd[d] /\ to'[d] = to[d]
          /\ did'[d] = did[d] /\ result'[d] = result[d]
    BY DEF Leave, Types, ProgramTypes
  <2> QED BY <2>1, <2>2, Zenon DEF Others
<1>3. /\ Phase(todo'[c], pc'[c], did'[c]) = "none"
      /\ Outcome1(todo'[c], pc'[c], did'[c], cmd'[c]) = "none"
  BY <1>1 DEF Phase, Outcome1
<1>4. Remote!Become(c, "none", "none")
  BY <1>2, <1>3, RemoteBecomes
<1>5. Remote!Leave(c)
  BY <1>1, <1>4 DEF Remote!Leave
<1> QED BY <1>5 DEF Remote!RemoteNext

LEMMA RemoteUnseen ==
  ASSUME pc' = pc, todo' = todo, did' = did, cmd' = cmd, result' = result
  PROVE  UNCHANGED Remote!remoteVars
BY RemoteShape DEF Remote!remoteVars

LEMMA RemoteOpens ==
  ASSUME Types, NEW c \in Client, NEW want, NEW mute, Open(c, want, mute)
  PROVE  UNCHANGED Remote!remoteVars
<1>1. \/ UNCHANGED <<pc, linked, nxtVars, runVars>>
      \/ \E h \in Handle : /\ pc' = [pc EXCEPT ![c] = "idle"]
                           /\ todo' = [todo EXCEPT ![c] = Motors]
                           /\ UNCHANGED <<error, cmd, to, ret, result, did, mine>>
  BY Zenon DEF Open
<1>2. CASE UNCHANGED <<pc, linked, nxtVars, runVars>>
  BY <1>2, RemoteUnseen DEF runVars
<1>3. CASE \E h \in Handle : /\ pc' = [pc EXCEPT ![c] = "idle"]
                             /\ todo' = [todo EXCEPT ![c] = Motors]
                             /\ UNCHANGED <<error, cmd, to, ret, result, did, mine>>
  <2>1. /\ pc' = [pc EXCEPT ![c] = "idle"] /\ todo' = [todo EXCEPT ![c] = Motors]
        /\ cmd' = cmd /\ did' = did /\ result' = result
    BY <1>3
  <2>2. \A d \in Client :
          \/ pc'[d] = pc[d] /\ todo'[d] = todo[d]
          \/ d = c /\ pc'[d] = "idle" /\ pc[d] = "closed"
    BY <2>1 DEF Open, Types, ProgramTypes
  <2>3. \A d \in Client :
          /\ Phase(todo'[d], pc'[d], did'[d]) = Phase(todo[d], pc[d], did[d])
          /\ Outcome1(todo'[d], pc'[d], did'[d], cmd'[d]) =
               Outcome1(todo[d], pc[d], did[d], cmd[d])
    BY <2>1, <2>2 DEF Phase, Outcome1
  <2>4. RemotePhase' = RemotePhase /\ RemoteOutcome' = RemoteOutcome
    BY <2>3, RemoteShape
  <2> QED BY <2>1, <2>4 DEF Remote!remoteVars
<1> QED BY <1>1, <1>2, <1>3

LEMMA RemoteStep ==
  ASSUME CInv, OneBrick, [Next]_vars  PROVE [Remote!RemoteNext]_Remote!remoteVars
<1>1. ASSUME NEW c \in Client, Program(c)
      PROVE  [Remote!RemoteNext]_Remote!remoteVars
  <2>1. CASE \E want \in {None} \cup Name \cup Brick, mute \in SUBSET Brick :
               Open(c, want, mute)
    BY <2>1, RemoteOpens DEF CInv
  <2>2. CASE Leave(c)
    BY <2>2, RemoteLeaves DEF CInv
  <2>3. CASE \E m \in Cmd \cup {"motor_get"}, n \in Name \cup {None} : Start(c, m, n)
    BY <2>3, RemoteStarts DEF CInv
  <2>4. CASE NoAnswer(c)
    <3>1. /\ Fails(c, "connection") /\ pc[c] \in {"busy", "sent"}
          /\ UNCHANGED <<linked, handle, own>> /\ mine' = mine
      BY <2>4, Zenon DEF NoAnswer
    <3>2. \A d \in Client \ {c} : mine'[d] = mine[d]
      BY <3>1
    <3> QED BY <3>1, <3>2, RemoteFails DEF CInv
  <2>5. CASE SendNowhere(c)
    <3>1. Sent(c, -1, "none") /\ pc[c] = "busy"
      BY <2>5, Zenon DEF SendNowhere
    <3>2. -1 \in Int
      OBVIOUS
    <3> QED BY <3>1, <3>2, RemoteSends
  <2>6. ASSUME NEW n \in {-1, 0}, SendFails(c, n)
        PROVE  [Remote!RemoteNext]_Remote!remoteVars
    <3>1. Sent(c, n, "none") /\ pc[c] = "busy"
      BY <2>6, Zenon DEF SendFails
    <3>2. n \in Int
      OBVIOUS
    <3> QED BY <3>1, <3>2, RemoteSends
  <2>7. ASSUME NEW st \in Status, NEW short \in BOOLEAN, SendDone(c, st, short)
        PROVE  [Remote!RemoteNext]_Remote!remoteVars
    <3>1. /\ Sent(c, 2, IF Slot(c) = own[c] THEN st ELSE "elsewhere")
          /\ pc[c] = "busy" /\ linked[c]
      BY <2>7, Zenon DEF SendDone
    <3>2. Slot(c) = own[c]
      BY <2>7, <3>1, SendDoneShape, SlotTypes DEF CInv, OneBrick
    <3>3. 2 \in Int /\ Sent(c, 2, st)
      BY <3>1, <3>2
    <3> QED BY <3>1, <3>3, RemoteSends
  <2>8. CASE RecvNowhere(c) \/ RecvDone(c) \/ \E mute \in BOOLEAN : RecvFails(c, mute)
    BY <2>8, ReceiveShape, RemoteReceives DEF CInv
  <2> QED BY <1>1, <2>1, <2>2, <2>3, <2>4, <2>5, <2>6, <2>7, <2>8, Zenon DEF Program
<1>2. CASE \/ \E b \in Brick : \/ Plug(b) \/ Unplug(b)
                               \/ \E h \in Handle : Scan(b, h)
           \/ Restart
  <2>1. UNCHANGED <<pc, runVars>>
    BY <1>2, Zenon DEF Plug, Unplug, Scan, Restart
  <2> QED BY <2>1, RemoteUnseen DEF runVars
<1>3. CASE UNCHANGED vars
  BY <1>3, RemoteUnseen DEF vars, runVars
<1> QED BY <1>1, <1>2, <1>3, Zenon DEF Next

\* A command is executed by the brick at most once, its success is believed only
\* when the brick has executed it without an error, whatever programs, bricks and
\* nxtd that come and go do to its telegram and its reply.
THEOREM CommandsAreRemote == Exclusive /\ OneBrick => (Spec => IsRemote)
<1> SUFFICES ASSUME Exclusive, OneBrick  PROVE Spec => IsRemote
  OBVIOUS
<1>1. Init => Remote!RemoteInit
  <2> SUFFICES ASSUME Init  PROVE Remote!RemoteInit
    OBVIOUS
  <2>1. \A c \in Client :
          /\ Phase(todo[c], pc[c], did[c]) = "none"
          /\ Outcome1(todo[c], pc[c], did[c], cmd[c]) = "none"
    BY DEF Init, Phase, Outcome1
  <2>2. /\ RemotePhase = [c \in Client |-> "none"]
        /\ RemoteOutcome = [c \in Client |-> "none"]
    BY <2>1, RemoteShape
  <2> QED BY <2>2 DEF Init, Remote!RemoteInit
<1>2. CInv /\ [Next]_vars => [Remote!RemoteNext]_Remote!remoteVars
  BY RemoteStep
<1> QED BY <1>1, <1>2, Invariant, PTL DEF Spec, IsRemote, Remote!RemoteSpec
=============================================================================
