------------------------ MODULE NxtCommandProperties ------------------------
(***************************************************************************)
(* What must be true of the commands of libanxt.                           *)
(***************************************************************************)
EXTENDS NxtCommand

AnyCmd == Cmd \cup {FollowUp(m) : m \in Cmd} \cup {"motor_get"}
Reply == [cmd : AnyCmd \cup {"keep_alive"}, size : 3 .. 64, status : Status,
          by : Client \cup {None}]
Errors == {"none", "brick", "connection"}

TypeOK ==
  /\ bt \in SUBSET Brick /\ here \in SUBSET Brick /\ bname \in [Brick -> Held]
  /\ pipe \in [Brick -> Seq(Reply)]
  /\ table \in [Handle -> Brick \cup {None}]
  /\ rname \in [Handle -> Held \cup {None}]
  /\ pc \in [Client -> PC] /\ linked \in [Client -> BOOLEAN]
  /\ handle \in [Client -> Handle \cup {None}]
  /\ name \in [Client -> Name \cup {None}] /\ error \in [Client -> Errors]
  /\ todo \in [Client -> 0 .. Motors]
  /\ cmd \in [Client -> AnyCmd \cup {None}] /\ to \in [Client -> Name \cup {None}]
  /\ ret \in [Client -> Int] /\ result \in [Client -> {"none", "ok", "fail"}]
  /\ own \in [Client -> Brick \cup {None}]
  /\ did \in [Client -> Status \cup {"none", "elsewhere"}]
  /\ mine \in [Client -> BOOLEAN]

\* When nxt_open_net has returned, no reply to a program that died between
\* SEND and RECV is left where the next command would find it: the keepalive
\* of LIST and the motor states that are asked for either use it up or make
\* nxtd drop the brick.
Tidy ==
  \A c \in Client : pc[c] = "idle" /\ todo[c] = 0 /\ linked[c] =>
    Slot(c) = None \/ pipe[Slot(c)] = <<>>

\* A command succeeds with the reply to its own telegram.
OwnReply == \A c \in Client : result[c] = "ok" => mine[c]

\* When nxt_set_name returns success the brick has the name that it was given
\* and that the handle has now, as far as a telegram holds it.  Not more: of a
\* string over 15 characters the handle keeps all and the brick the first 15.
NameSet ==
  [][\A c \in Client : cmd[c] = "set_name" /\ result'[c] = "ok" =>
       name'[c] = to[c] /\ bname[own[c]] = Packed[to[c]]]_vars

\* A brick executes a command at most once and an answer is believed only
\* when the brick has executed the command, whatever fails in between.
Executed(c) == pc[c] = "sent" /\ did[c] \in Status
RemotePhase == [c \in Client |->
  IF todo[c] > 0 THEN "none"
  ELSE IF Executed(c) THEN "executed"
  ELSE IF pc[c] \in {"busy", "sent"} THEN "asked" ELSE "none"]
RemoteOutcome == [c \in Client |->
  IF todo[c] > 0 \/ ~Executed(c) THEN "none"
  ELSE IF did[c] = "error" /\ cmd[c] \in IgnoresError THEN "ok" ELSE did[c]]

Remote == INSTANCE NxtRemote WITH phase <- RemotePhase, outcome <- RemoteOutcome

IsRemote == Remote!RemoteSpec

=============================================================================
