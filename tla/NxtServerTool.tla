--------------------------- MODULE NxtServerTool ---------------------------
(***************************************************************************)
(* nxt_server and a program that uses it as its manual page says, over      *)
(* three named pipes: command lines in, error messages and results out.     *)
(* Both keep the pipes open, or, with -o, open and close them for every     *)
(* command as a shell does.  Opening a pipe waits for the other side.       *)
(***************************************************************************)
EXTENDS Naturals, Sequences

CONSTANTS Cmd, Opt, Data, Nothing,
          Lists,    \* commands that list files or modules
          Talks,    \* those that write to stderr: these, upload and download
          Raw,      \* pollcmd, that writes what it gets itself
          Bare,     \* recv without v
          Prints,   \* those that always print, such as tacho
          Careful   \* programs with open pipes use only those

Pipe == {"in", "err", "out"}
NoOpts == {}
Blank == "blank"
NewRequest == [cmd |-> Nothing, opts |-> NoOpts]
NewAnswer == [data |-> Nothing, error |-> FALSE]
Request == [cmd : Cmd \cup {Nothing}, opts : SUBSET Opt]
Answer == [data : Data \cup {Nothing}, error : BOOLEAN]
Execution == [cmd : Cmd, opts : SUBSET Opt, data : Data \cup {Nothing}, error : BOOLEAN]

ASSUME ToolAssumption ==
  /\ Nothing \notin Cmd \cup Data \cup Request \cup Answer \cup Execution
  /\ Blank \notin Data /\ Careful \in BOOLEAN
  /\ Prints \subseteq Cmd /\ Lists \subseteq Talks /\ Prints \cap Talks = {}

VARIABLES
  each,         \* open_each_command
  text,         \* lines in the pipes
  srv, cli,     \* ends of the pipes: closed, opening, open
  spc, cpc,     \* what nxt_server and the program do
  opts, error,  \* options since the last reset; nxt->error is set
  command,      \* the command that nxt_server executes
  print,        \* its output
  asked, got,   \* what the program has asked for; what it has read
  ran, failed   \* for the properties: the execution of that; some command
                \*   has set an error

pipeVars == <<text, srv, cli>>
toolVars == <<spc, opts, error, command, print>>
progVars == <<cpc, asked, got>>
ghostVars == <<ran, failed>>
vars == <<each, pipeVars, toolVars, progVars, ghostVars>>

\* Both open the pipe of commands first, or a shell opens it when it writes.
Init == /\ each \in BOOLEAN
        /\ text = [p \in Pipe |-> <<>>]
        /\ srv = [p \in Pipe |-> IF p = "in" THEN "opening" ELSE "closed"]
        /\ cli = [p \in Pipe |-> IF p = "in" /\ ~each THEN "opening" ELSE "closed"]
        /\ spc = "start" /\ opts = NoOpts /\ error = FALSE
        /\ command = Nothing /\ print = Nothing
        /\ cpc = (IF each THEN "write" ELSE "start")
        /\ asked = NewRequest /\ got = Nothing
        /\ ran = Nothing /\ failed = FALSE

-----------------------------------------------------------------------------
(* Named pipes.                                                            *)

\* open returns when the other side has opened, too.
Meet(p) ==
  /\ {srv[p], cli[p]} \in {{"opening"}, {"opening", "open"}}
  /\ srv' = [srv EXCEPT ![p] = "open"] /\ cli' = [cli EXCEPT ![p] = "open"]
  /\ UNCHANGED <<each, text, toolVars, progVars, ghostVars>>

Put(p, lines) == text' = [text EXCEPT ![p] = @ \o lines]
Opens(side, p) == [side EXCEPT ![p] = "opening"]
Closes(side, p) == [side EXCEPT ![p] = "closed"]

-----------------------------------------------------------------------------
(* nxt_server.                                                             *)

\* main: the pipes in turn; with -o only that of commands.
OpenNext ==
  /\ spc = "start"
  /\ \/ /\ srv["in"] = "open" /\ each
        /\ spc' = "read" /\ UNCHANGED srv
     \/ /\ srv["in"] = "open" /\ ~each /\ srv["err"] = "closed"
        /\ srv' = Opens(srv, "err") /\ UNCHANGED spc
     \/ /\ srv["err"] = "open" /\ srv["out"] = "closed"
        /\ srv' = Opens(srv, "out") /\ UNCHANGED spc
     \/ /\ srv["out"] = "open"
        /\ spc' = "read" /\ UNCHANGED srv
  /\ UNCHANGED <<each, text, cli, opts, error, command, print, progVars, ghostVars>>

\* At the end of the file main tries again.
Given(kind) == /\ spc = "read" /\ text["in"] # <<>>
               /\ Head(text["in"]).kind = kind
Reads(kind) == Given(kind) /\ text' = [text EXCEPT !["in"] = Tail(@)]
Line == Head(text["in"]).what

Option == /\ Reads("option")
          /\ opts' = opts \cup {Line}
          /\ UNCHANGED <<each, srv, cli, spc, error, command, print, progVars, ghostVars>>

\* A command prints something or not and may set the error of the NXT, which
\* only a listing clears that ends as it should.  Those that come from
\* libanxt_tools also write to stderr when they fail.
Outcome(c) ==
  {r \in [data : Data \cup {Nothing}, error : BOOLEAN, message : BOOLEAN] :
     /\ c \in Prints => r.data # Nothing
     /\ r.message => c \in Talks
     /\ c \in Lists => (r.error => r.message)}
Clears(c, r) == c \in Lists /\ ~r.message

\* stderr is the error pipe if that is open; else the message is lost.  pollcmd
\* writes to the pipe of results, which is not open with -o: undefined.
Command ==
  LET c == Line IN
  /\ Given("command")
  /\ command' = c
  /\ \E r \in Outcome(c) :
       /\ error' = (r.error \/ (error /\ ~Clears(c, r)))
       /\ ran' = [cmd |-> c, opts |-> opts, data |-> r.data, error |-> r.error]
       /\ failed' = (failed \/ r.error)
       /\ \/ /\ ~(each /\ c \in Raw /\ r.data # Nothing)
             /\ print' = r.data /\ spc' = "err"
          \/ /\ each /\ c \in Raw /\ r.data # Nothing
             /\ print' = Nothing /\ spc' \in {"err", "gone"}
       /\ text' = [text EXCEPT !["in"] = Tail(@),
                               !["err"] = IF r.message /\ ~each
                                          THEN Append(@, "error") ELSE @]
       /\ srv' = IF each THEN Opens(srv, "err") ELSE srv
  /\ UNCHANGED <<each, cli, opts, progVars>>

\* An answer is the error of the NXT and then what the command has printed,
\* each in its pipe.
Say(p, lines, pc) ==
  /\ spc = p /\ srv[p] = "open"
  /\ Put(p, lines) /\ spc' = pc
  /\ UNCHANGED <<each, cli, error, progVars, ghostVars>>

ErrorLine == IF error THEN <<"error">> ELSE IF each THEN <<>> ELSE <<Blank>>
ErrClosed == IF each THEN Opens(Closes(srv, "err"), "out") ELSE srv
\* Faulty: the newline is written after an error, too.
SayErrTwoLines == /\ Say("err", Append(ErrorLine, Blank), "out")
                  /\ srv' = ErrClosed /\ UNCHANGED <<opts, command, print>>
\* Faulty: the pipe stays open.
SayErrKeepsOpen == /\ Say("err", ErrorLine, "out")
                   /\ srv' = (IF each THEN Opens(srv, "out") ELSE srv)
                   /\ UNCHANGED <<opts, command, print>>
SayErr == /\ Say("err", ErrorLine, "out")
          /\ srv' = ErrClosed /\ UNCHANGED <<opts, command, print>>

\* If the pipes stay open an empty line follows, and a command that prints
\* nothing prints an empty line.  A received message has no newline.
Printed == IF print = Nothing THEN (IF each THEN <<>> ELSE <<Blank>>) ELSE <<print>>
EndOfAnswer == IF each \/ (print # Nothing /\ command \in Bare) THEN <<>> ELSE <<Blank>>
OutClosed == IF each THEN Closes(srv, "out") ELSE srv
\* Faulty: options are not reset.
SayOutKeepsOptions == /\ Say("out", Printed \o EndOfAnswer, "read")
                      /\ srv' = OutClosed /\ print' = Nothing /\ command' = Nothing
                      /\ UNCHANGED opts
SayOut == /\ Say("out", Printed \o EndOfAnswer, "read")
          /\ srv' = OutClosed /\ print' = Nothing /\ command' = Nothing
          /\ opts' = NoOpts

Exit == /\ Reads("exit")
        /\ srv' = [p \in Pipe |-> "closed"] /\ spc' = "gone"
        /\ UNCHANGED <<each, cli, opts, error, command, print, progVars, ghostVars>>

Tool == OpenNext \/ Option \/ Command \/ SayErr \/ SayOut \/ Exit

-----------------------------------------------------------------------------
(* The program.                                                            *)

OpenPipes ==
  /\ cpc = "start"
  /\ \/ \E p \in {"err", "out"} :
          /\ cli[p] = "closed" /\ cli[IF p = "err" THEN "in" ELSE "err"] = "open"
          /\ cli' = Opens(cli, p) /\ UNCHANGED cpc
     \/ cli["out"] = "open" /\ cpc' = "write" /\ UNCHANGED cli
  /\ UNCHANGED <<each, text, srv, toolVars, asked, got, ghostVars>>

\* A line to the pipe of commands; a shell opens it for the line, which meets
\* an nxt_server that has just started.
Writes(kind, what) ==
  /\ cpc = "write" /\ spc # "gone"
  /\ Put("in", <<[kind |-> kind, what |-> what]>>)
  /\ srv' = [srv EXCEPT !["in"] = "open"]

GiveOption(o) ==
  /\ o \notin asked.opts
  /\ Writes("option", o)
  /\ asked' = [asked EXCEPT !.opts = @ \cup {o}]
  /\ UNCHANGED <<each, cli, toolVars, cpc, got, ghostVars>>

GiveCommand(c) ==
  /\ each \/ ~Careful \/ c \in Prints
  /\ Writes("command", c)
  /\ asked' = [asked EXCEPT !.cmd = c] /\ got' = NewAnswer
  /\ cpc' = "err"
  /\ cli' = IF each THEN Opens(cli, "err") ELSE cli
  /\ UNCHANGED <<each, toolVars, ghostVars>>

GiveExit == /\ Writes("exit", Nothing)
            /\ cpc' = "done" /\ cli' = [p \in Pipe |-> "closed"]
            /\ UNCHANGED <<each, toolVars, asked, got, ghostVars>>

Heard(p, l) == IF l = Blank THEN got
               ELSE IF p = "err" THEN [got EXCEPT !.error = TRUE]
               ELSE [got EXCEPT !.data = l]
Ready == /\ cpc' = "write" /\ asked' = NewRequest /\ ran' = Nothing

\* A line of p, the end of the file if nxt_server has closed it.  One line is
\* the error message, an empty line ends the result.
ReadLine(p) ==
  LET l == Head(text[p]) IN
  /\ cpc = p /\ cli[p] = "open" /\ text[p] # <<>>
  /\ text' = [text EXCEPT ![p] = Tail(@)]
  /\ got' = Heard(p, l)
  /\ IF each \/ (p = "out" /\ l # Blank)
     THEN UNCHANGED <<cpc, asked, ran>>
     ELSE IF p = "err" THEN cpc' = "out" /\ UNCHANGED <<asked, ran>>
     ELSE Ready
  /\ UNCHANGED <<each, srv, cli, toolVars, failed>>

ReadEnd(p) ==
  /\ cpc = p /\ each /\ cli[p] = "open" /\ text[p] = <<>> /\ srv[p] # "open"
  /\ IF p = "err"
     THEN /\ cli' = Opens(Closes(cli, "err"), "out") /\ cpc' = "out"
          /\ UNCHANGED <<asked, ran>>
     ELSE cli' = Closes(cli, "out") /\ Ready
  /\ UNCHANGED <<each, text, srv, toolVars, got, failed>>

Program == OpenPipes \/ \E p \in {"err", "out"} : ReadLine(p) \/ ReadEnd(p)

-----------------------------------------------------------------------------
Next == \/ \E p \in Pipe : Meet(p)
        \/ Tool \/ Program
        \/ \E o \in Opt : GiveOption(o)
        \/ \E c \in Cmd : GiveCommand(c)
        \/ GiveExit

Spec == Init /\ [][Next]_vars
=============================================================================
