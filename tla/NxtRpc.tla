------------------------------- MODULE NxtRpc -------------------------------
(***************************************************************************)
(* What libanxt_net promises to a program that uses it: a call is executed *)
(* by nxtd at most once, only for a client that may use nxtd, and the call *)
(* returns either what that execution returned or a failure.  Sockets,     *)
(* packets and the shared buffer of the server are not visible here;       *)
(* NxtNet has them, and implements this specification.                     *)
(***************************************************************************)
CONSTANTS Client,
          Trusted,        \* the clients nxtd answers
          Op,             \* operations a client can call
          Value,          \* what an execution can return
          Unknown, Failed \* not returned yet; what a failed call returns

VARIABLES phase,     \* where the call of a client is
          call,      \* the call under way: what was called and its value
          got        \* what the last call of a client returned, if it has

rpcVars == <<phase, call, got>>

Phase == {"idle", "asked", "executed", "ignored"}
NoCall == [op |-> "none", n |-> Unknown]
Failure == [op |-> "none", n |-> Failed]

RpcInit == /\ phase = [c \in Client |-> "idle"]
           /\ call = [c \in Client |-> NoCall]
           /\ got = [c \in Client |-> Failure]

Step(c, from, to, new) == /\ phase[c] \in from
                          /\ phase' = [phase EXCEPT ![c] = to]
                          /\ call' = [call EXCEPT ![c] = new]

Call(c, o) == /\ Step(c, {"idle"}, "asked", [op |-> o, n |-> Unknown])
              /\ got' = [got EXCEPT ![c] = Failure]

\* The connection was closed before.
CallLost(c) == /\ Step(c, {"idle"}, "ignored", NoCall)
               /\ got' = [got EXCEPT ![c] = Failure]

Execute(c, n) == /\ c \in Trusted
                 /\ Step(c, {"asked"}, "executed", [op |-> call[c].op, n |-> n])
                 /\ UNCHANGED got

Return(c) == /\ Step(c, {"executed"}, "idle", NoCall)
             /\ got' = [got EXCEPT ![c] = call[c]]

\* The calls of these clients are not executed, and nobody says so.
Ignore(C) == /\ \A c \in C : phase[c] = "asked"
             /\ phase' = [c \in Client |-> IF c \in C THEN "ignored" ELSE phase[c]]
             /\ call' = [c \in Client |-> IF c \in C THEN NoCall ELSE call[c]]
             /\ UNCHANGED got

\* The connection is closed under a call that will not be executed any more.
Fail(c) == /\ Step(c, {"ignored"}, "idle", NoCall)
           /\ got' = [got EXCEPT ![c] = Failure]

\* The client has gone and nobody waits for the call any more.
Forget(c) == /\ Step(c, Phase \ {"idle"}, "idle", NoCall)
             /\ UNCHANGED got

RpcNext ==
  \/ \E c \in Client : \/ \E o \in Op : Call(c, o)
                       \/ \E n \in Value : Execute(c, n)
                       \/ CallLost(c) \/ Return(c) \/ Fail(c) \/ Forget(c)
  \/ \E C \in SUBSET Client : Ignore(C)

RpcSpec == RpcInit /\ [][RpcNext]_rpcVars
=============================================================================
