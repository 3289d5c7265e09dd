------------------------------ MODULE NxtShell ------------------------------
(***************************************************************************)
(* What nxt_server promises a program: the command it asks for is executed  *)
(* once, with the options it has given for this command and no others, and  *)
(* the program gets the answer of that execution.  An error that a command  *)
(* sets stays, so it may be reported for later commands, too.               *)
(***************************************************************************)
EXTENDS FiniteSets

CONSTANTS Cmd, Opt,
          Data,     \* what a command may print
          Nothing

VARIABLES whole,    \* commands whose result and error the program gets
          request,  \* what it asks for, or Nothing
          result,   \* of its execution, or Nothing
          failed,   \* some command has set an error
          answer    \* what the program got last

shellVars == <<whole, request, result, failed, answer>>

ShellInit == /\ whole \in SUBSET Cmd
             /\ request = Nothing /\ result = Nothing /\ failed = FALSE
             /\ answer = Nothing

Ask == /\ request = Nothing
       /\ request' \in [cmd : Cmd, opts : SUBSET Opt]
       /\ answer' = Nothing
       /\ UNCHANGED <<whole, result, failed>>

\* The options are those of the request.
Execute == /\ request # Nothing /\ result = Nothing
           /\ \E data \in Data \cup {Nothing}, e \in BOOLEAN :
                /\ result' = [cmd |-> request.cmd, opts |-> request.opts,
                              data |-> data, error |-> e]
                /\ failed' = (failed \/ e)
           /\ UNCHANGED <<whole, request, answer>>

Take == /\ result # Nothing
        /\ \E data \in Data \cup {Nothing}, e \in BOOLEAN :
             /\ result.cmd \in whole => /\ data = result.data
                                        /\ (result.error => e)
                                        /\ (e => failed)
             /\ answer' = [data |-> data, error |-> e]
        /\ request' = Nothing /\ result' = Nothing
        /\ UNCHANGED <<whole, failed>>

ShellNext == Ask \/ Execute \/ Take
ShellSpec == ShellInit /\ [][ShellNext]_shellVars
=============================================================================
