---------------------- MODULE NxtServerToolProperties ----------------------
(***************************************************************************)
(* What must be true of nxt_server.                                        *)
(***************************************************************************)
EXTENDS NxtServerTool

TypeOK ==
  /\ each \in BOOLEAN /\ DOMAIN text = Pipe
  /\ {text["err"][i] : i \in DOMAIN text["err"]} \subseteq {"error", Blank}
  /\ {text["out"][i] : i \in DOMAIN text["out"]} \subseteq Data \cup {Blank}
  /\ srv \in [Pipe -> {"closed", "opening", "open"}]
  /\ cli \in [Pipe -> {"closed", "opening", "open"}]
  /\ spc \in {"start", "read", "err", "out", "gone"}
  /\ cpc \in {"start", "write", "err", "out", "done"}
  /\ opts \subseteq Opt /\ error \in BOOLEAN /\ print \in Data \cup {Nothing}
  /\ command \in Cmd \cup {Nothing}
  /\ asked \in Request /\ got \in Answer \cup {Nothing}
  /\ ran \in Execution \cup {Nothing}
  /\ failed \in BOOLEAN
  /\ each => Len(text["err"]) <= 1

\* A command is executed once, with the options that were given for it, and
\* the program reads the result and the error of that execution: with -o of all
\* commands but pollcmd, with open pipes if it is careful.
Shell == INSTANCE NxtShell WITH
  whole <- IF each THEN Cmd \ Raw ELSE Prints,
  request <- IF asked.cmd = Nothing THEN Nothing ELSE asked,
  result <- ran,
  answer <- IF asked.cmd = Nothing THEN got ELSE Nothing
IsShell == Shell!ShellSpec

\* nxt_server and the program run; a program that waits for an answer reads on.
FairSpec == /\ Spec /\ WF_vars(Tool) /\ WF_vars(Program)
            /\ \A p \in Pipe : WF_vars(Meet(p))

\* The two sides never wait for each other for ever: every command is answered,
\* unless nxt_server has crashed in pollcmd.
Answered == cpc # "write" ~> cpc \in {"write", "done"} \/ spc = "gone"
=============================================================================
