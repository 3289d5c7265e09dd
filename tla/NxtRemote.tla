----------------------------- MODULE NxtRemote -----------------------------
(***************************************************************************)
(* What libanxt promises to a program that is the only one to use a brick: *)
(* a command is executed by the brick at most once, it succeeds only when   *)
(* the brick has executed it without an error, and an error the brick       *)
(* reports is what nxt_error returns.  Telegrams, replies and nxtd are not  *)
(* visible here; NxtCommand has them.                                       *)
(***************************************************************************)
CONSTANT Client

VARIABLES phase,    \* where the command of a program is
          outcome,  \* what the brick made of it
          result    \* what the last command returned to the program

remoteVars == <<phase, outcome, result>>

Outcome == {"ok", "again", "error"}

RemoteInit == /\ phase = [c \in Client |-> "none"]
              /\ outcome = [c \in Client |-> "none"]
              /\ result = [c \in Client |-> "none"]

Become(c, p, o) == /\ phase' = [phase EXCEPT ![c] = p]
                   /\ outcome' = [outcome EXCEPT ![c] = o]

Command(c) == /\ phase[c] = "none" /\ Become(c, "asked", "none")
              /\ result' = [result EXCEPT ![c] = "none"]

Execute(c, o) == /\ phase[c] = "asked" /\ Become(c, "executed", o)
                 /\ UNCHANGED result

\* The brick had nothing to say yet, or the command has a second part.
Repeat(c) == /\ phase[c] = "executed" /\ outcome[c] = "again"
             /\ Become(c, "asked", "none")
             /\ UNCHANGED result

Succeed(c) == /\ phase[c] = "executed" /\ outcome[c] = "ok"
              /\ Become(c, "none", "none")
              /\ result' = [result EXCEPT ![c] = "ok"]

\* Whether it was executed is not known.
Fail(c) == /\ phase[c] # "none" /\ Become(c, "none", "none")
           /\ result' = [result EXCEPT ![c] = "fail"]

\* The program ends, in the middle of a command or not.
Leave(c) == /\ Become(c, "none", "none")
            /\ result' = [result EXCEPT ![c] = "none"]

RemoteNext == \E c \in Client :
  \/ Command(c) \/ Repeat(c) \/ Succeed(c) \/ Fail(c) \/ Leave(c)
  \/ \E o \in Outcome : Execute(c, o)

RemoteSpec == RemoteInit /\ [][RemoteNext]_remoteVars
=============================================================================
