---------------------------- MODULE NxtToolProofs ----------------------------
(***************************************************************************)
(* Proofs about programs of tools/.                                        *)
(*                                                                         *)
(* nxt_server and a program over three named pipes (NxtServerTool), for all *)
(* commands, options and outputs: the variables keep their types, and with  *)
(* -o, or if the program is careful, the program gets the answer to its     *)
(* own command.                                                            *)
(*                                                                         *)
(* rsoc, ricc and calibrate (NxtConvert), for bytes of any width and all    *)
(* files of users: what the formats keep, and that a file made by any number *)
(* of conversions is the sound or the picture that it was.                  *)
(***************************************************************************)
EXTENDS NxtServerToolProperties, NxtConvertProperties, FiniteSetTheorems, SequenceTheorems,
        WellFoundedInduction, TLAPS

-----------------------------------------------------------------------------
(* Types.                                                                  *)

Ends == {"closed", "opening", "open"}

OptionLine == [kind : {"option"}, what : Opt]
CommandLine == [kind : {"command"}, what : Cmd]
ExitLine == [kind |-> "exit", what |-> Nothing]
\* What the pipes may hold, and that a program reads only what it has asked for
Types ==
  /\ each \in BOOLEAN
  /\ DOMAIN text = Pipe
  /\ text["in"] \in Seq(OptionLine \cup CommandLine \cup {ExitLine})
  /\ text["err"] \in Seq({"error", Blank})
  /\ text["out"] \in Seq(Data \cup {Blank})
  /\ srv \in [Pipe -> Ends] /\ cli \in [Pipe -> Ends]
  /\ spc \in {"start", "read", "err", "out", "gone"}
  /\ cpc \in {"start", "write", "err", "out", "done"}
  /\ opts \in SUBSET Opt /\ error \in BOOLEAN /\ print \in Data \cup {Nothing}
  /\ command \in Cmd \cup {Nothing}
  /\ asked \in Request /\ got \in Answer \cup {Nothing}
  /\ ran \in Execution \cup {Nothing} /\ failed \in BOOLEAN
  /\ cpc \in {"err", "out"} => got \in Answer
  /\ (asked.cmd # Nothing) <=> cpc \in {"err", "out"}
  /\ error => failed

-----------------------------------------------------------------------------
(* With -o, or when the program is careful: whose turn it is.              *)

\* The last line that the program has written, as long as it is in the pipe
Owed == (asked.cmd # Nothing /\ ran = Nothing) \/ (cpc = "done" /\ spc # "gone")
LastLine == IF cpc = "done" THEN ExitLine ELSE [kind |-> "command", what |-> asked.cmd]
OptionsIn(s) == {s[i].what : i \in {j \in DOMAIN s : s[j].kind = "option"}}

\* Before the last line there are options, and with those that nxt_server has
\* read they are the options that were given for the next command.
Asking ==
  LET s == text["in"] n == Len(text["in"]) IN
  /\ \A i \in 1 .. n : s[i].kind = "option" \/ (i = n /\ Owed)
  /\ Owed => n > 0 /\ s[n] = LastLine
  /\ ran # Nothing \/ spc = "gone" => s = <<>>
  /\ ran = Nothing /\ cpc # "done" => opts \cup OptionsIn(s) = asked.opts

\* What nxt_server writes for a command that has printed d, and what is left
\* when the program has read d
Said(d) == IF each THEN (IF d = Nothing THEN <<>> ELSE <<d>>)
           ELSE IF ran.cmd \in Bare THEN <<d>> ELSE <<d, Blank>>
Rest == IF each \/ ran.cmd \in Bare THEN <<>> ELSE <<Blank>>

\* pollcmd with -o
Odd == each /\ ran.cmd \in Raw

ErrorTold ==
  \/ /\ spc \in {"err", "gone"} /\ cpc = "err" /\ text["err"] = <<>> /\ got = NewAnswer
  \/ /\ spc \in {"out", "read"} /\ cpc = "err" /\ text["err"] = ErrorLine /\ got = NewAnswer
  \/ /\ spc \in {"out", "read"} /\ cpc = "err" /\ each /\ error /\ text["err"] = <<>>
     /\ got = [NewAnswer EXCEPT !.error = TRUE]
  \/ /\ spc \in {"out", "read"} /\ cpc = "out" /\ text["err"] = <<>> /\ got.error = error
DataTold(d) ==
  \/ /\ spc # "read" /\ print = d /\ text["out"] = <<>> /\ got.data = Nothing
  \/ /\ spc = "read" /\ print = Nothing /\ text["out"] = Said(d) /\ got.data = Nothing
  \/ /\ spc = "read" /\ print = Nothing /\ cpc = "out" /\ d # Nothing /\ text["out"] = Rest
     /\ got.data = d

\* An executed command is that of the program; its error and what it has
\* printed are still to be told, or in the pipes, or read.
Answering ==
  IF ran = Nothing
  THEN /\ text["err"] = <<>> /\ text["out"] = <<>> /\ print = Nothing
       /\ spc \notin {"err", "out"} /\ cpc # "out"
       /\ spc = "gone" => cpc = "done"
       /\ cpc = "err" => got = NewAnswer
  ELSE /\ cpc \in {"err", "out"} /\ spc # "start"
       /\ spc \in {"err", "out"} => command = ran.cmd
       /\ ran.cmd = asked.cmd /\ ran.opts = asked.opts /\ (ran.error => error)
       /\ spc = "read" => opts = {}
       /\ spc = "gone" => Odd /\ cpc = "err"
       /\ ErrorTold
       /\ \E d \in Data \cup {Nothing} :
            (d = ran.data \/ Odd) /\ (~each => d # Nothing) /\ DataTold(d)

\* With -o a pipe is open on both sides or on none while the answer is awaited.
Opening ==
  /\ cpc # "start"
  /\ cpc \in {"write", "done"} => cli["err"] = "closed" /\ cli["out"] = "closed"
  /\ cpc = "err" => cli["err"] # "closed" /\ cli["out"] = "closed"
  /\ cpc = "out" => cli["err"] = "closed" /\ cli["out"] # "closed" /\ spc \in {"out", "read"}
  /\ spc \in {"start", "read"} => srv["err"] = "closed" /\ srv["out"] = "closed"
  /\ spc = "err" => srv["err"] # "closed" /\ srv["out"] = "closed"
  /\ spc = "out" => srv["err"] = "closed" /\ srv["out"] # "closed"
  /\ spc = "gone" => srv["out"] = "closed"
  /\ cpc = "err" /\ spc = "gone" => srv["err"] # "closed"
  /\ cpc = "err" /\ spc \in {"start", "read"} => cli["err"] = "opening" /\ ran = Nothing
  /\ cpc = "err" /\ spc \in {"err", "gone"} => srv["err"] = cli["err"]
  /\ cpc = "err" /\ spc = "out" => cli["err"] = "open" /\ srv["out"] = "opening"
  /\ cpc = "out" /\ spc = "out" => srv["out"] = cli["out"]
  /\ cpc = "out" /\ spc = "read" => cli["out"] = "open"

Turns == /\ ~each /\ asked.cmd # Nothing => asked.cmd \in Prints
         /\ Asking /\ Answering
         /\ each => Opening
SInv == Types /\ (each \/ Careful => Turns)
-----------------------------------------------------------------------------
(* Both keep their types.                                                  *)

LEMMA InitTypes == Init => Types
<1> SUFFICES ASSUME Init PROVE Types
  OBVIOUS
<1>1. NewRequest \in Request /\ NewRequest.cmd = Nothing
  BY DEF NewRequest, Request, NoOpts
<1>2. text = [p \in Pipe |-> <<>>] /\ asked = NewRequest
  BY DEF Init
<1>3. srv \in [Pipe -> Ends] /\ cli \in [Pipe -> Ends]
  BY DEF Init, Ends
<1>4. cpc \in {"start", "write"}
  BY DEF Init
<1>5. /\ each \in BOOLEAN /\ spc = "start" /\ opts = {} /\ error = FALSE /\ failed = FALSE
      /\ print = Nothing /\ command = Nothing /\ got = Nothing /\ ran = Nothing
  BY DEF Init, NoOpts
<1>6. /\ DOMAIN text = Pipe
      /\ text["in"] = <<>> /\ text["err"] = <<>> /\ text["out"] = <<>>
  BY <1>2 DEF Pipe
<1>7. /\ text["in"] \in Seq(OptionLine \cup CommandLine \cup {ExitLine})
      /\ text["err"] \in Seq({"error", Blank}) /\ text["out"] \in Seq(Data \cup {Blank})
  BY <1>6
<1>8. asked \in Request /\ asked.cmd = Nothing
  BY <1>1, <1>2
<1> HIDE DEF Pipe
<1> QED BY <1>3, <1>4, <1>5, <1>6, <1>7, <1>8 DEF Types

\* Lines that are put are lines.
LEMMA OneLine == \A S : \A x \in S : <<x>> \in Seq(S)
OBVIOUS

LEMMA TwoLines == \A x, y : <<x>> \o <<y>> = <<x, y>>
<1> SUFFICES ASSUME NEW x, NEW y PROVE <<x>> \o <<y>> = <<x, y>>
  OBVIOUS
<1> DEFINE t == <<x>> \o <<y>>
           u == <<x, y>>
<1>1. <<x>> \in Seq({x, y}) /\ <<y>> \in Seq({x, y}) /\ u \in Seq({x, y})
  OBVIOUS
<1>2. t \in Seq({x, y}) /\ Len(t) = 2 /\ Len(u) = 2
  BY <1>1
<1>3. t[1] = x /\ t[2] = y /\ u[1] = x /\ u[2] = y
  BY <1>1
<1> HIDE DEF t, u
<1>4. t = u
  BY <1>1, <1>2, <1>3, SeqEqual
<1> QED BY <1>4 DEF t, u

LEMMA ErrorLines == Types => ErrorLine \in Seq({"error", Blank})
<1>1. <<"error">> \in Seq({"error", Blank}) /\ <<Blank>> \in Seq({"error", Blank})
  BY OneLine
<1>2. <<>> \in Seq({"error", Blank})
  OBVIOUS
<1> QED BY <1>1, <1>2 DEF ErrorLine

LEMMA OutLines == Types => Printed \o EndOfAnswer \in Seq(Data \cup {Blank})
<1> SUFFICES ASSUME Types PROVE Printed \o EndOfAnswer \in Seq(Data \cup {Blank})
  OBVIOUS
<1>1. <<>> \in Seq(Data \cup {Blank}) /\ <<Blank>> \in Seq(Data \cup {Blank})
  BY OneLine
<1>2. print # Nothing => <<print>> \in Seq(Data \cup {Blank})
  BY OneLine DEF Types
<1>3. Printed \in Seq(Data \cup {Blank})
  BY <1>1, <1>2 DEF Printed
<1>4. EndOfAnswer \in Seq(Data \cup {Blank})
  BY <1>1 DEF EndOfAnswer
<1> QED BY <1>3, <1>4

LEMMA NextTypes == Types /\ [Next]_vars => Types'
<1> SUFFICES ASSUME Types, [Next]_vars PROVE Types'
  OBVIOUS
<1> USE ToolAssumption DEF toolVars, progVars, ghostVars, Pipe, Ends, Types
<1>1. ASSUME NEW p \in Pipe, Meet(p) PROVE Types'
  BY <1>1 DEF Meet
<1>2. CASE OpenNext
  BY <1>2 DEF OpenNext, Opens
<1>3. CASE Option
  <2>1. /\ Head(text["in"]) \in OptionLine
        /\ Tail(text["in"]) \in Seq(OptionLine \cup CommandLine \cup {ExitLine})
    BY <1>3 DEF Option, Reads, Given, OptionLine, CommandLine, ExitLine
  <2>2. Line \in Opt
    BY <2>1 DEF Line, OptionLine
  <2> QED BY <1>3, <2>1, <2>2 DEF Option, Reads, Given
<1>4. CASE Command
  <2>1. /\ Head(text["in"]) \in CommandLine
        /\ Tail(text["in"]) \in Seq(OptionLine \cup CommandLine \cup {ExitLine})
    BY <1>4 DEF Command, Given, OptionLine, CommandLine, ExitLine
  <2>2. Line \in Cmd
    BY <2>1 DEF Line, CommandLine
  <2>3. PICK r \in [data : Data \cup {Nothing}, error : BOOLEAN, message : BOOLEAN] :
          /\ error' = (r.error \/ (error /\ ~Clears(Line, r)))
          /\ ran' = [cmd |-> Line, opts |-> opts, data |-> r.data, error |-> r.error]
          /\ failed' = (failed \/ r.error)
          /\ print' \in {r.data, Nothing} /\ spc' \in {"err", "gone"}
          /\ text' = [text EXCEPT !["in"] = Tail(@),
                                  !["err"] = IF r.message /\ ~each
                                             THEN Append(@, "error") ELSE @]
          /\ srv' = IF each THEN Opens(srv, "err") ELSE srv
    BY <1>4 DEF Command, Outcome
  <2>4. error' \in BOOLEAN /\ failed' \in BOOLEAN /\ (error' => failed')
    BY <2>3, Zenon
  <2>5. ran' \in Execution
    BY <2>2, <2>3 DEF Execution
  <2>6. /\ text'["in"] \in Seq(OptionLine \cup CommandLine \cup {ExitLine})
        /\ text'["err"] \in Seq({"error", Blank}) /\ text'["out"] = text["out"]
        /\ DOMAIN text' = Pipe
    <3>1. /\ DOMAIN text' = Pipe /\ text'["in"] = Tail(text["in"]) /\ text'["out"] = text["out"]
          /\ text'["err"] \in {text["err"], Append(text["err"], "error")}
      BY <2>3
    <3>2. Append(text["err"], "error") \in Seq({"error", Blank})
      OBVIOUS
    <3> QED BY <2>1, <3>1, <3>2
  <2>7. srv' \in [Pipe -> Ends]
    BY <2>3 DEF Opens
  <2>8. UNCHANGED <<each, cli, opts, cpc, asked, got>> /\ command' = Line
    BY <1>4 DEF Command
  <2> QED BY <2>2, <2>3, <2>4, <2>5, <2>6, <2>7, <2>8
<1>5. CASE SayErr
  BY <1>5, ErrorLines DEF SayErr, Say, Put, ErrClosed, Opens, Closes
<1>6. CASE SayOut
  BY <1>6, OutLines DEF SayOut, Say, Put, OutClosed, Closes, NoOpts
<1>7. CASE Exit
  BY <1>7 DEF Exit, Reads, Given
<1>8. CASE OpenPipes
  BY <1>8 DEF OpenPipes, Opens
<1>9. ASSUME NEW p \in {"err", "out"}, ReadLine(p) PROVE Types'
  <2>1. /\ Head(text[p]) \in Data \cup {Blank, "error"}
        /\ p = "out" => Head(text[p]) \in Data \cup {Blank}
    BY <1>9 DEF ReadLine
  <2>2. got \in Answer /\ got' = Heard(p, Head(text[p]))
    BY <1>9 DEF ReadLine
  <2>3. got' \in Answer
    BY <2>1, <2>2 DEF Heard, Answer
  <2> QED BY <1>9, <2>3 DEF ReadLine, Ready, NewRequest, NoOpts, Request
<1>10. ASSUME NEW p \in {"err", "out"}, ReadEnd(p) PROVE Types'
  BY <1>10 DEF ReadEnd, Ready, NewRequest, NoOpts, Opens, Closes, Request
<1>11. ASSUME NEW o \in Opt, GiveOption(o) PROVE Types'
  <2>1. asked' \in Request /\ asked'.cmd = asked.cmd
    BY <1>11 DEF GiveOption, Request
  <2> QED BY <1>11, <2>1 DEF GiveOption, Writes, Put, OptionLine
<1>12. ASSUME NEW c \in Cmd, GiveCommand(c) PROVE Types'
  <2>1. asked' \in Request /\ asked'.cmd = c /\ c # Nothing
    BY <1>12 DEF GiveCommand, Request
  <2> QED BY <1>12, <2>1 DEF GiveCommand, Writes, Put, CommandLine, NewAnswer, Answer, Opens
<1>13. CASE GiveExit
  BY <1>13 DEF GiveExit, Writes, Put, ExitLine
<1>14. CASE UNCHANGED vars
  BY <1>14 DEF vars, pipeVars
<1> QED BY <1>1, <1>2, <1>3, <1>4, <1>5, <1>6, <1>7, <1>8, <1>9, <1>10, <1>11, <1>12,
           <1>13, <1>14 DEF Next, Tool, Program
-----------------------------------------------------------------------------
(* Lines in the pipe of commands.                                          *)

LineSet == OptionLine \cup CommandLine \cup {ExitLine}

LEMMA OptionsTail ==
  ASSUME NEW s \in Seq(LineSet), s # <<>>, Head(s).kind = "option"
  PROVE  OptionsIn(s) = {Head(s).what} \cup OptionsIn(Tail(s))
<1>1. Len(s) \in Nat \ {0} /\ Len(Tail(s)) = Len(s) - 1 /\ Head(s) = s[1]
  OBVIOUS
<1>2. \A i \in 1 .. Len(Tail(s)) : Tail(s)[i] = s[i + 1]
  OBVIOUS
<1>3. ASSUME NEW x \in OptionsIn(s) PROVE x \in {Head(s).what} \cup OptionsIn(Tail(s))
  <2>1. PICK i \in 1 .. Len(s) : s[i].kind = "option" /\ s[i].what = x
    BY <1>3 DEF OptionsIn
  <2>2. CASE i = 1
    BY <1>1, <2>1, <2>2
  <2>3. CASE i # 1
    <3>1. i - 1 \in 1 .. Len(Tail(s)) /\ Tail(s)[i - 1] = s[i]
      BY <1>1, <1>2, <2>1, <2>3
    <3>2. i - 1 \in DOMAIN Tail(s)
      BY <3>1
    <3>3. Tail(s)[i - 1].kind = "option" /\ Tail(s)[i - 1].what = x
      BY <2>1, <3>1
    <3> QED BY <3>2, <3>3, Zenon DEF OptionsIn
  <2> QED BY <2>2, <2>3
<1>4. ASSUME NEW x \in OptionsIn(Tail(s)) PROVE x \in OptionsIn(s)
  <2>1. PICK i \in 1 .. Len(Tail(s)) : Tail(s)[i].kind = "option" /\ Tail(s)[i].what = x
    BY <1>4 DEF OptionsIn
  <2>2. i + 1 \in 1 .. Len(s) /\ s[i + 1] = Tail(s)[i]
    BY <1>1, <1>2, <2>1
  <2> QED BY <2>1, <2>2 DEF OptionsIn
<1>5. Head(s).what \in OptionsIn(s)
  BY <1>1 DEF OptionsIn
<1> QED BY <1>3, <1>4, <1>5

LEMMA OptionsPut ==
  ASSUME NEW s \in Seq(LineSet), NEW l \in LineSet
  PROVE  OptionsIn(s \o <<l>>)
           = OptionsIn(s) \cup (IF l.kind = "option" THEN {l.what} ELSE {})
<1> DEFINE t == s \o <<l>>
<1>1. Len(t) = Len(s) + 1 /\ t[Len(s) + 1] = l /\ \A i \in 1 .. Len(s) : t[i] = s[i]
  OBVIOUS
<1>2. t \in Seq(LineSet) /\ Len(s) \in Nat
  BY OneLine
<1> HIDE DEF t
<1>3. ASSUME NEW x \in OptionsIn(t), ~(l.kind = "option" /\ x = l.what)
      PROVE  x \in OptionsIn(s)
  <2>1. PICK i \in 1 .. Len(t) : t[i].kind = "option" /\ t[i].what = x
    BY <1>2, <1>3 DEF OptionsIn
  <2>2. i \in 1 .. Len(s)
    BY <1>1, <1>2, <1>3, <2>1
  <2> QED BY <1>1, <2>1, <2>2 DEF OptionsIn
<1>4. ASSUME NEW x \in OptionsIn(s) PROVE x \in OptionsIn(t)
  <2>1. PICK i \in 1 .. Len(s) : s[i].kind = "option" /\ s[i].what = x
    BY <1>4 DEF OptionsIn
  <2>2. i \in 1 .. Len(t) /\ t[i] = s[i]
    BY <1>1, <1>2, <2>1
  <2> QED BY <1>2, <2>1, <2>2 DEF OptionsIn
<1>5. l.kind = "option" => l.what \in OptionsIn(t)
  <2>1. Len(s) + 1 \in 1 .. Len(t)
    BY <1>1, <1>2
  <2> QED BY <1>1, <1>2, <2>1 DEF OptionsIn
<1>6. OptionsIn(t) = OptionsIn(s) \cup (IF l.kind = "option" THEN {l.what} ELSE {})
  BY <1>3, <1>4, <1>5
<1> QED BY <1>6 DEF t

LEMMA NoOptions == OptionsIn(<<>>) = {}
BY DEF OptionsIn

\* A line other than an option is the last one, and the one that is awaited.
LEMMA LastLineRead ==
  ASSUME Types, Asking, text["in"] # <<>>, Head(text["in"]).kind # "option"
  PROVE  /\ Owed /\ Head(text["in"]) = LastLine
         /\ Tail(text["in"]) = <<>> /\ Len(text["in"]) = 1
<1> DEFINE s == text["in"]
<1>1. s \in Seq(LineSet) /\ Len(s) \in Nat \ {0} /\ Head(s) = s[1]
  BY DEF Types, LineSet
<1>2. 1 \in 1 .. Len(s) /\ s[1].kind # "option"
  BY <1>1
<1>3. 1 = Len(s) /\ Owed
  BY <1>2 DEF Asking
<1>4. s[1] = LastLine
  BY <1>3 DEF Asking
<1>5. Tail(s) = <<>>
  <2>1. Tail(s) \in Seq(LineSet) /\ Len(Tail(s)) = 0
    BY <1>1, <1>3
  <2> QED BY <2>1, EmptySeq
<1> HIDE DEF s
<1>6. Owed /\ Head(s) = LastLine /\ Tail(s) = <<>> /\ Len(s) = 1
  BY <1>1, <1>3, <1>4, <1>5
<1> QED BY <1>6 DEF s

LEMMA InitTurns == Init => Turns
<1> SUFFICES ASSUME Init PROVE Turns
  OBVIOUS
<1> USE DEF Init, Pipe
<1>1. asked.cmd = Nothing /\ asked.opts = {} /\ text["in"] = <<>>
  BY DEF NewRequest, NoOpts
<1>2. Asking
  BY <1>1, NoOptions DEF Asking, Owed, NoOpts
<1>3. Answering
  BY DEF Answering
<1>4. each => Opening
  BY DEF Opening
<1> QED BY <1>1, <1>2, <1>3, <1>4 DEF Turns

-----------------------------------------------------------------------------
(* Each step leaves the turns as they should be: the question.             *)

\* What Asking depends on
LEMMA AskingSame ==
  ASSUME Asking, text'["in"] = text["in"], UNCHANGED <<asked, ran>>,
         opts' = opts \/ ran # Nothing,
         cpc' = cpc \/ {cpc, cpc'} \subseteq {"start", "write", "err", "out"},
         spc' = spc \/ {spc, spc'} \subseteq {"start", "read", "err", "out"}
  PROVE  Asking'
<1>1. (cpc' = "done") <=> (cpc = "done")
  OBVIOUS
<1>2. (spc' = "gone") <=> (spc = "gone")
  OBVIOUS
<1>3. (Owed' <=> Owed) /\ LastLine' = LastLine
  BY <1>1, <1>2 DEF Owed, LastLine
<1> QED BY <1>1, <1>2, <1>3 DEF Asking

LEMMA OptionAsking ==
  ASSUME Types, Types', Asking, Option PROVE Asking'
<1> DEFINE s == text["in"]
<1>1. s \in Seq(LineSet) /\ s # <<>> /\ Head(s).kind = "option"
  BY DEF Types, LineSet, Option, Reads, Given
<1>2. text'["in"] = Tail(s) /\ UNCHANGED <<spc, cpc, asked, ran>>
      /\ opts' = opts \cup {Head(s).what}
  BY DEF Option, Reads, Line, progVars, ghostVars, Types, Pipe
<1>3. Len(s) \in Nat \ {0} /\ Len(Tail(s)) = Len(s) - 1
      /\ \A i \in 1 .. Len(Tail(s)) : Tail(s)[i] = s[i + 1]
  BY <1>1
<1>4. OptionsIn(s) = {Head(s).what} \cup OptionsIn(Tail(s))
  BY <1>1, OptionsTail
<1>5. (Owed' <=> Owed) /\ LastLine' = LastLine
  BY <1>2 DEF Owed, LastLine
<1>6. Owed => Len(s) > 1
  <2>1. LastLine.kind # "option"
    BY DEF LastLine, ExitLine
  <2> QED BY <1>1, <1>3, <2>1 DEF Asking
<1>7. \A i \in 1 .. Len(Tail(s)) : Tail(s)[i].kind = "option" \/ (i = Len(Tail(s)) /\ Owed)
  BY <1>3 DEF Asking
<1>8. Owed => Len(Tail(s)) > 0 /\ Tail(s)[Len(Tail(s))] = LastLine
  <2> SUFFICES ASSUME Owed PROVE Len(Tail(s)) > 0 /\ Tail(s)[Len(Tail(s))] = LastLine
    OBVIOUS
  <2>1. Len(Tail(s)) \in 1 .. Len(Tail(s)) /\ Len(Tail(s)) + 1 = Len(s)
    BY <1>3, <1>6
  <2> QED BY <1>3, <2>1 DEF Asking
<1>9. ran = Nothing /\ spc # "gone"
  BY <1>1 DEF Asking
<1>10. ran = Nothing /\ cpc # "done" => opts' \cup OptionsIn(Tail(s)) = asked.opts
  BY <1>2, <1>4 DEF Asking
<1> HIDE DEF s
<1> QED BY <1>2, <1>5, <1>7, <1>8, <1>9, <1>10 DEF Asking

\* A line is put behind options only.
LEMMA PutAsking ==
  ASSUME Types, Types', Asking, cpc = "write", ran = Nothing, spc # "gone",
         NEW l \in LineSet, text'["in"] = text["in"] \o <<l>>, UNCHANGED <<opts, ran, spc>>,
         IF l.kind = "option"
         THEN cpc' = cpc /\ asked'.cmd = asked.cmd /\ asked'.opts = asked.opts \cup {l.what}
         ELSE Owed' /\ l = LastLine' /\ (cpc' # "done" => asked'.opts = asked.opts)
  PROVE  Asking'
<1> DEFINE s == text["in"]
           t == text["in"] \o <<l>>
<1>1. s \in Seq(LineSet) /\ Len(s) \in Nat
  BY DEF Types, LineSet
<1>2. Len(t) = Len(s) + 1 /\ t[Len(s) + 1] = l /\ \A i \in 1 .. Len(s) : t[i] = s[i]
  BY <1>1
<1>3. ~Owed
  BY DEF Owed, Types
<1>4. OptionsIn(t) = OptionsIn(s) \cup (IF l.kind = "option" THEN {l.what} ELSE {})
  BY <1>1, OptionsPut
<1>5. opts \cup OptionsIn(s) = asked.opts /\ \A i \in 1 .. Len(s) : s[i].kind = "option"
  BY <1>3 DEF Asking
<1> HIDE DEF s, t
<1>6. \A i \in 1 .. Len(t) : i \in 1 .. Len(s) \/ i = Len(t)
  <2> DEFINE n == Len(s)
             m == Len(t)
  <2>1. n \in Nat /\ m = n + 1
    BY <1>1, <1>2
  <2> HIDE DEF n, m
  <2>2. \A i \in 1 .. m : i \in 1 .. n \/ i = m
    BY <2>1
  <2> QED BY <2>2 DEF n, m
<1>7. CASE l.kind = "option"
  <2>1. ~Owed'
    BY <1>7, <1>3 DEF Owed
  <2>2. \A i \in 1 .. Len(t) : t[i].kind = "option"
    BY <1>2, <1>5, <1>7, <1>6
  <2>3. opts' \cup OptionsIn(t) = asked'.opts
    BY <1>4, <1>5, <1>7
  <2>4. text'["in"] = t
    BY DEF t
  <2> QED BY <2>1, <2>2, <2>3, <2>4 DEF Asking
<1>8. CASE l.kind # "option"
  <2>1. \A i \in 1 .. Len(t) : t[i].kind = "option" \/ i = Len(t)
    BY <1>2, <1>5, <1>6, Zenon
  <2>2. Len(t) > 0 /\ t[Len(t)] = LastLine'
    BY <1>1, <1>2, <1>8
  <2>3. cpc' # "done" => opts' \cup OptionsIn(t) = asked'.opts
    BY <1>4, <1>5, <1>8
  <2>4. text'["in"] = t
    BY DEF t
  <2> QED BY <1>8, <2>1, <2>2, <2>3, <2>4 DEF Asking
<1> QED BY <1>7, <1>8

\* A program that does not wait for an answer has none to come.
LEMMA NoneToCome == Answering /\ cpc \notin {"err", "out"} => ran = Nothing
BY DEF Answering

\* The command that is executed is that of the program, with its options.
LEMMA CommandAsked ==
  ASSUME Types, Asking, Answering, Command
  PROVE  /\ cpc = "err" /\ spc = "read" /\ ran = Nothing /\ got = NewAnswer
         /\ asked.cmd # Nothing /\ Line = asked.cmd /\ opts = asked.opts
         /\ Tail(text["in"]) = <<>>
         /\ text["err"] = <<>> /\ text["out"] = <<>>
<1> DEFINE s == text["in"]
<1>1. s # <<>> /\ Head(s).kind = "command" /\ spc = "read"
  BY DEF Command, Given
<1>2. Owed /\ Head(s) = LastLine /\ Tail(s) = <<>> /\ Len(s) = 1
  BY <1>1, LastLineRead
<1>3. cpc # "done"
  BY <1>1, <1>2 DEF LastLine, ExitLine
<1>4. asked.cmd # Nothing /\ ran = Nothing /\ Line = asked.cmd
  BY <1>2, <1>3 DEF Owed, LastLine, Line
<1>5. cpc = "err" /\ got = NewAnswer /\ text["err"] = <<>> /\ text["out"] = <<>>
  BY <1>4 DEF Types, Answering
<1>6. OptionsIn(s) = {}
  <2>1. s \in Seq(LineSet) /\ Len(s) = 1 /\ s[1].kind = "command"
    BY <1>1, <1>2 DEF Types, LineSet
  <2>2. \A i \in DOMAIN s : s[i].kind = "command"
    BY <2>1
  <2> QED BY <2>2 DEF OptionsIn
<1>7. opts = asked.opts
  BY <1>3, <1>4, <1>6 DEF Asking
<1> QED BY <1>1, <1>2, <1>4, <1>5, <1>7

\* exit is read when the program is done.
LEMMA ExitAsked ==
  ASSUME Types, Asking, Exit
  PROVE  cpc = "done" /\ ran = Nothing /\ Tail(text["in"]) = <<>> /\ asked.cmd = Nothing
<1>1. text["in"] # <<>> /\ Head(text["in"]).kind = "exit" /\ spc = "read"
  BY DEF Exit, Reads, Given
<1>2. Owed /\ Head(text["in"]) = LastLine /\ Tail(text["in"]) = <<>>
  BY <1>1, LastLineRead
<1>3. cpc = "done" /\ ran = Nothing
  BY <1>1, <1>2 DEF LastLine, Asking
<1> QED BY <1>2, <1>3 DEF Types

\* With -o: the end of the file means that nxt_server has closed the pipe.
LEMMA EndMeans ==
  ASSUME Types, Answering, Opening, NEW p \in {"err", "out"}, ReadEnd(p)
  PROVE  /\ cpc = p /\ ran # Nothing
         /\ spc = IF p = "err" THEN "out" ELSE "read"
<1>1. cpc = p /\ cli[p] = "open" /\ srv[p] # "open"
  BY DEF ReadEnd
<1>2. CASE p = "err"
  <2>1. spc \notin {"start", "read"}
    BY <1>1, <1>2 DEF Opening
  <2>2. spc \notin {"err", "gone"}
    BY <1>1, <1>2 DEF Opening
  <2> QED BY <1>1, <1>2, <2>1, <2>2 DEF Types, Answering
<1>3. CASE p = "out"
  <2>1. spc # "out" /\ spc \in {"out", "read"}
    BY <1>1, <1>3 DEF Opening
  <2> QED BY <1>1, <1>3, <2>1 DEF Answering
<1> QED BY <1>2, <1>3

\* The program is ready for the next command when the tool is.
LEMMA ReadyMeans ==
  ASSUME Types, Answering, each => Opening, NEW p \in {"err", "out"},
         ReadLine(p) \/ ReadEnd(p), Ready
  PROVE  /\ p = "out" /\ cpc = "out" /\ ran # Nothing /\ spc = "read" /\ opts = {}
         /\ print = Nothing /\ text["err"] = <<>>
<1>1. cpc = p /\ cpc' = "write"
  BY DEF ReadLine, ReadEnd, Ready
<1>2. p = "out" /\ ran # Nothing
  BY <1>1 DEF ReadLine, ReadEnd, Answering
<1>3. spc = "read"
  <2>1. CASE ReadLine(p)
    <3>1. text["out"] # <<>>
      BY <1>2, <2>1 DEF ReadLine
    <3> QED BY <1>2, <3>1 DEF Answering, DataTold
  <2>2. CASE ReadEnd(p)
    BY <1>2, <2>2, EndMeans DEF ReadEnd
  <2> QED BY <2>1, <2>2
<1>4. opts = {} /\ print = Nothing
  BY <1>2, <1>3 DEF Answering, DataTold
<1>5. text["err"] = <<>>
  BY <1>1, <1>2, <1>3 DEF Answering, ErrorTold
<1> QED BY <1>1, <1>2, <1>3, <1>4, <1>5

LEMMA NextAsking ==
  ASSUME Types, Types', Asking, Answering, each => Opening, [Next]_vars
  PROVE  Asking'
<1> USE DEF toolVars, progVars, ghostVars
<1>0. DOMAIN text = Pipe /\ "in" \in Pipe /\ "err" \in Pipe /\ "out" \in Pipe
  BY DEF Types, Pipe
<1>1. ASSUME NEW p \in Pipe, Meet(p) PROVE Asking'
  BY <1>1, AskingSame DEF Meet
<1>2. CASE OpenNext
  BY <1>2, AskingSame DEF OpenNext
<1>3. CASE Option
  BY <1>3, OptionAsking
<1>4. CASE Command
  <2>1. /\ cpc = "err" /\ Tail(text["in"]) = <<>>
    BY <1>4, CommandAsked
  <2>2. text'["in"] = <<>> /\ cpc' = "err"
    BY <1>0, <1>4, <2>1 DEF Command
  <2>3. ran' # Nothing
    <3>1. PICK r \in Outcome(Line) :
             ran' = [cmd |-> Line, opts |-> opts, data |-> r.data, error |-> r.error]
      BY <1>4 DEF Command
    <3>2. ran' \in Execution
      <4>1. Line \in Cmd
        BY <1>4, CommandAsked DEF Types, Request
      <4> QED BY <3>1, <4>1 DEF Outcome, Execution, Types
    <3> QED BY <3>2, ToolAssumption
  <2> QED BY <2>2, <2>3 DEF Asking, Owed
<1>5. CASE SayErr
  BY <1>0, <1>5, AskingSame DEF SayErr, Say, Put
<1>6. CASE SayOut
  <2>1. ran # Nothing
    BY <1>6 DEF SayOut, Say, Answering
  <2>2. text'["in"] = text["in"] /\ UNCHANGED <<asked, ran, cpc>> /\ spc = "out" /\ spc' = "read"
    BY <1>0, <1>6 DEF SayOut, Say, Put
  <2> QED BY <2>1, <2>2, AskingSame
<1>7. CASE Exit
  <2>1. cpc = "done" /\ ran = Nothing /\ Tail(text["in"]) = <<>> /\ asked.cmd = Nothing
    BY <1>7, ExitAsked
  <2>2. text'["in"] = <<>> /\ UNCHANGED <<cpc, ran, asked>> /\ spc' = "gone"
    BY <1>0, <1>7, <2>1 DEF Exit, Reads
  <2> QED BY <2>1, <2>2 DEF Asking, Owed
<1>8. CASE OpenPipes
  BY <1>8, AskingSame DEF OpenPipes
<1>9. ASSUME NEW p \in {"err", "out"}, ReadLine(p) \/ ReadEnd(p) PROVE Asking'
  <2>1. text'["in"] = text["in"] /\ UNCHANGED <<spc, opts>> /\ cpc \in {"err", "out"}
    BY <1>0, <1>9 DEF ReadLine, ReadEnd
  <2>2. CASE Ready
    <3>1. /\ ran # Nothing /\ opts = {}
      BY <1>9, <2>2, ReadyMeans
    <3>2. text["in"] = <<>>
      BY <3>1 DEF Asking
    <3>3. cpc' = "write" /\ asked'.cmd = Nothing /\ asked'.opts = {}
      BY <2>2 DEF Ready, NewRequest, NoOpts
    <3> QED BY <2>1, <3>1, <3>2, <3>3, NoOptions DEF Asking, Owed
  <2>3. CASE ~Ready
    <3>1. UNCHANGED <<asked, ran>> /\ cpc' \in {"err", "out"}
      BY <1>9, <2>1, <2>3 DEF ReadLine, ReadEnd
    <3> QED BY <2>1, <3>1, AskingSame
  <2> QED BY <2>2, <2>3
<1>10. ASSUME NEW o \in Opt, GiveOption(o) PROVE Asking'
  <2> DEFINE l == [kind |-> "option", what |-> o]
  <2>1. l \in LineSet /\ l.kind = "option" /\ l.what = o
    BY DEF LineSet, OptionLine
  <2>2. /\ cpc = "write" /\ spc # "gone" /\ text'["in"] = text["in"] \o <<l>>
        /\ UNCHANGED <<opts, ran, spc, cpc>>
    BY <1>0, <1>10 DEF GiveOption, Writes, Put
  <2>3. asked'.cmd = asked.cmd /\ asked'.opts = asked.opts \cup {o}
    BY <1>10 DEF GiveOption, Types, Request
  <2>4. ran = Nothing
    BY <2>2, NoneToCome
  <2> HIDE DEF l
  <2> QED BY <2>1, <2>2, <2>3, <2>4, PutAsking
<1>11. ASSUME NEW c \in Cmd, GiveCommand(c) PROVE Asking'
  <2> DEFINE l == [kind |-> "command", what |-> c]
  <2>1. l \in LineSet /\ l.kind = "command"
    BY DEF LineSet, CommandLine
  <2>2. /\ cpc = "write" /\ spc # "gone" /\ text'["in"] = text["in"] \o <<l>>
        /\ UNCHANGED <<opts, ran, spc>> /\ cpc' = "err"
    BY <1>0, <1>11 DEF GiveCommand, Writes, Put
  <2>3. asked'.cmd = c /\ asked'.opts = asked.opts
    BY <1>11 DEF GiveCommand, Types, Request
  <2>4. ran = Nothing
    BY <2>2, NoneToCome
  <2>5. Owed' /\ l = LastLine'
    BY <2>2, <2>3, <2>4, ToolAssumption DEF Owed, LastLine
  <2> HIDE DEF l
  <2> QED BY <2>1, <2>2, <2>3, <2>4, <2>5, PutAsking
<1>12. CASE GiveExit
  <2>1. ExitLine \in LineSet /\ ExitLine.kind = "exit"
    BY DEF LineSet, ExitLine
  <2>2. /\ cpc = "write" /\ spc # "gone" /\ text'["in"] = text["in"] \o <<ExitLine>>
        /\ UNCHANGED <<opts, ran, spc>> /\ cpc' = "done"
    BY <1>0, <1>12 DEF GiveExit, Writes, Put, ExitLine
  <2>3. ran = Nothing
    BY <2>2, NoneToCome
  <2>4. Owed' /\ ExitLine = LastLine'
    BY <2>2 DEF Owed, LastLine
  <2> QED BY <2>1, <2>2, <2>3, <2>4, PutAsking
<1>13. CASE UNCHANGED vars
  BY <1>13, AskingSame DEF vars, pipeVars
<1> QED BY <1>1, <1>2, <1>3, <1>4, <1>5, <1>6, <1>7, <1>8, <1>9, <1>10, <1>11, <1>12,
           <1>13 DEF Next, Tool, Program
-----------------------------------------------------------------------------
(* The answer.                                                             *)

\* What Answering depends on
LEMMA AnsweringSame ==
  ASSUME Answering, text'["err"] = text["err"], text'["out"] = text["out"],
         UNCHANGED <<each, ran, print, spc, cpc, got, asked, command, error>>,
         opts' = opts \/ ran = Nothing
  PROVE  Answering'
<1>1. Odd' <=> Odd
  BY DEF Odd
<1>2. ErrorTold' <=> ErrorTold
  BY DEF ErrorTold, ErrorLine
<1>3. \A d \in Data \cup {Nothing} : DataTold(d)' <=> DataTold(d)
  BY DEF DataTold, Said, Rest
<1> QED BY <1>1, <1>2, <1>3 DEF Answering

\* Nothing to come before and after
LEMMA AnsweringNone ==
  ASSUME Answering, ran = Nothing, ran' = Nothing, text'["err"] = text["err"],
         text'["out"] = text["out"], UNCHANGED print,
         spc' \notin {"err", "out"}, cpc' # "out", spc' = "gone" => cpc' = "done",
         cpc' = "err" => got' = NewAnswer
  PROVE  Answering'
BY DEF Answering

LEMMA CommandAnswering ==
  ASSUME Types, Types', Asking, Answering, Command,
         ~each /\ asked.cmd # Nothing => asked.cmd \in Prints
  PROVE  Answering'
<1>1. /\ cpc = "err" /\ spc = "read" /\ ran = Nothing /\ got = NewAnswer
      /\ asked.cmd # Nothing /\ Line = asked.cmd /\ opts = asked.opts
      /\ text["err"] = <<>> /\ text["out"] = <<>>
  BY CommandAsked
<1>2. PICK r \in Outcome(Line) :
        /\ error' = (r.error \/ (error /\ ~Clears(Line, r)))
        /\ ran' = [cmd |-> Line, opts |-> opts, data |-> r.data, error |-> r.error]
        /\ \/ /\ ~(each /\ Line \in Raw /\ r.data # Nothing)
              /\ print' = r.data /\ spc' = "err"
           \/ /\ each /\ Line \in Raw /\ r.data # Nothing
              /\ print' = Nothing /\ spc' \in {"err", "gone"}
        /\ text' = [text EXCEPT !["in"] = Tail(@),
                                !["err"] = IF r.message /\ ~each
                                           THEN Append(@, "error") ELSE @]
  BY DEF Command
<1>3. UNCHANGED <<each, cpc, opts, asked, got>> /\ command' = Line
  BY DEF Command, progVars
<1>4. r.data \in Data \cup {Nothing}
  BY <1>2 DEF Outcome
<1>5. ~each => ~r.message /\ r.data # Nothing
  BY <1>1, <1>2, ToolAssumption DEF Outcome
<1>6. text'["err"] = <<>> /\ text'["out"] = <<>>
  BY <1>1, <1>2, <1>5 DEF Types, Pipe
<1>7. ran' # Nothing
  <2>1. ran' \in Execution
    BY <1>1, <1>2, <1>4 DEF Outcome, Execution, Types, Request
  <2> QED BY <2>1, ToolAssumption
<1>8. ErrorTold'
  BY <1>1, <1>2, <1>3, <1>6 DEF ErrorTold
<1>9. got'.data = Nothing
  BY <1>1, <1>3 DEF NewAnswer
<1>10. PICK d \in Data \cup {Nothing} : d = print'
  BY <1>2, <1>4
<1>11. spc' \in {"err", "gone"} /\ DataTold(d)'
  BY <1>2, <1>6, <1>9, <1>10 DEF DataTold
<1>12. each /\ Line \in Raw => Odd'
  BY <1>2, <1>3 DEF Odd
<1>13. /\ d = ran'.data \/ Odd'
       /\ ~each' => d # Nothing
       /\ spc' = "gone" => Odd'
  BY <1>2, <1>3, <1>5, <1>10, <1>12
<1>14. ran'.cmd = asked'.cmd /\ ran'.opts = asked'.opts /\ (ran'.error => error')
  BY <1>1, <1>2, <1>3, Zenon
<1>15. cpc' = "err" /\ command' = ran'.cmd
  BY <1>1, <1>2, <1>3
<1> QED BY <1>7, <1>8, <1>11, <1>13, <1>14, <1>15 DEF Answering

LEMMA SayErrAnswering ==
  ASSUME Types, Answering, SayErr PROVE Answering'
<1>1. /\ spc = "err" /\ spc' = "out" /\ text'["err"] = text["err"] \o ErrorLine
      /\ text'["out"] = text["out"]
      /\ UNCHANGED <<each, cpc, error, asked, got, ran, opts, command, print>>
  BY DEF SayErr, Say, Put, progVars, ghostVars, Types, Pipe
<1>2. ran # Nothing /\ cpc = "err" /\ text["err"] = <<>> /\ got = NewAnswer
  BY <1>1 DEF Answering, ErrorTold
<1>3. text'["err"] = ErrorLine
  BY <1>1, <1>2 DEF ErrorLine
<1>4. ErrorTold'
  BY <1>1, <1>2, <1>3 DEF ErrorTold, ErrorLine
<1>5. \A d \in Data \cup {Nothing} : DataTold(d) => DataTold(d)'
  BY <1>1 DEF DataTold
<1> QED BY <1>1, <1>2, <1>4, <1>5 DEF Answering, Odd

LEMMA SayOutAnswering ==
  ASSUME Types, Answering, SayOut PROVE Answering'
<1>1. /\ spc = "out" /\ spc' = "read" /\ text'["out"] = text["out"] \o (Printed \o EndOfAnswer)
      /\ text'["err"] = text["err"] /\ print' = Nothing /\ opts' = {}
      /\ UNCHANGED <<each, cpc, error, asked, got, ran>>
  BY DEF SayOut, Say, Put, progVars, ghostVars, Types, Pipe, NoOpts
<1>2. ran # Nothing /\ command = ran.cmd
  BY <1>1 DEF Answering
<1>3. ErrorTold'
  BY <1>1, <1>2 DEF Answering, ErrorTold, ErrorLine
<1>4. ASSUME NEW d \in Data \cup {Nothing}, ~each => d # Nothing, DataTold(d)
      PROVE  DataTold(d)'
  <2>1. print = d /\ text["out"] = <<>> /\ got.data = Nothing
    BY <1>1, <1>4 DEF DataTold
  <2>2. Printed \o EndOfAnswer = Said(d)
    <3>1. CASE each
      BY <2>1, <3>1 DEF Printed, EndOfAnswer, Said
    <3>2. CASE ~each
      <4>1. /\ Printed = <<d>>
            /\ EndOfAnswer = IF ran.cmd \in Bare THEN <<>> ELSE <<Blank>>
        BY <1>2, <1>4, <2>1, <3>2 DEF Printed, EndOfAnswer
      <4>2. <<d>> \o <<>> = <<d>>
        BY OneLine, ConcatEmptySeq
      <4>3. <<d>> \o <<Blank>> = <<d, Blank>>
        BY TwoLines
      <4> QED BY <3>2, <4>1, <4>2, <4>3 DEF Said
    <3> QED BY <3>1, <3>2
  <2>3. text'["out"] = Said(d)
    BY <1>1, <2>1, <2>2 DEF Said
  <2> QED BY <1>1, <2>1, <2>3 DEF DataTold, Said
<1> QED BY <1>1, <1>2, <1>3, <1>4 DEF Answering, Odd

LEMMA AnswerKept == [NewAnswer EXCEPT !.error = FALSE] = NewAnswer
<1> DEFINE a == [NewAnswer EXCEPT !.error = FALSE]
<1>1. NewAnswer \in [data : {Nothing}, error : BOOLEAN] /\ NewAnswer.error = FALSE
  BY DEF NewAnswer
<1>2. a \in [data : {Nothing}, error : BOOLEAN] /\ a.error = FALSE
  BY <1>1
<1>3. a.data = NewAnswer.data
  BY <1>1
<1> QED BY <1>1, <1>2, <1>3

LEMMA ErrReadAnswering ==
  ASSUME Types, Answering, ReadLine("err") PROVE Answering'
<1>1. /\ cpc = "err" /\ text["err"] # <<>>
      /\ text'["err"] = Tail(text["err"]) /\ text'["out"] = text["out"]
      /\ got' = Heard("err", Head(text["err"]))
      /\ UNCHANGED <<each, spc, opts, error, command, print, asked, ran>>
      /\ cpc' = IF each THEN "err" ELSE "out"
  BY DEF ReadLine, toolVars, Types, Pipe
<1>2. ran # Nothing
  BY <1>1 DEF Answering
<1>3. spc \in {"out", "read"} /\ text["err"] = ErrorLine /\ got = NewAnswer
  BY <1>1, <1>2 DEF Answering, ErrorTold
<1>4. /\ text'["err"] = <<>>
      /\ Head(text["err"]) = IF error THEN "error" ELSE Blank
      /\ each => error
  BY <1>1, <1>3 DEF ErrorLine
<1>5. got' = [NewAnswer EXCEPT !.error = error]
  <2>1. CASE error = TRUE
    BY <1>1, <1>3, <1>4, <2>1 DEF Heard, Blank
  <2>2. CASE error = FALSE
    <3>1. got' = NewAnswer
      BY <1>1, <1>3, <1>4, <2>2 DEF Heard
    <3> QED BY <2>2, <3>1, AnswerKept
  <2> QED BY <2>1, <2>2 DEF Types
<1>6. ErrorTold'
  <2>1. CASE each
    <3>1. error = TRUE
      BY <1>4, <2>1 DEF Types
    <3> QED BY <1>1, <1>3, <1>4, <1>5, <2>1, <3>1 DEF ErrorTold
  <2>2. CASE ~each
    BY <1>1, <1>3, <1>4, <1>5, <2>2 DEF ErrorTold, NewAnswer
  <2> QED BY <2>1, <2>2
<1>7. got'.data = Nothing
  BY <1>5 DEF NewAnswer
<1>8. \A d \in Data \cup {Nothing} : DataTold(d) => DataTold(d)'
  BY <1>1, <1>7 DEF DataTold, Said
<1> QED BY <1>1, <1>2, <1>3, <1>6, <1>8 DEF Answering, Odd

LEMMA OutReadAnswering ==
  ASSUME Types, Answering, each => Opening, ReadLine("out")
  PROVE  Answering'
<1>1. /\ cpc = "out" /\ text["out"] # <<>>
      /\ text'["out"] = Tail(text["out"]) /\ text'["err"] = text["err"]
      /\ got' = Heard("out", Head(text["out"]))
      /\ UNCHANGED <<each, spc, opts, error, command, print>>
  BY DEF ReadLine, toolVars, Types, Pipe
<1>2. ran # Nothing
  BY <1>1 DEF Answering
<1>3. PICK d \in Data \cup {Nothing} :
        (d = ran.data \/ Odd) /\ (~each => d # Nothing) /\ DataTold(d)
  BY <1>2 DEF Answering
<1>4. spc = "read" /\ d # Nothing
  BY <1>1, <1>3 DEF DataTold, Said
<1>5. /\ print = Nothing /\ opts = {} /\ text["err"] = <<>> /\ got.error = error
  BY <1>1, <1>2, <1>3, <1>4 DEF Answering, ErrorTold, DataTold
<1>6. CASE each \/ Head(text["out"]) # Blank
  <2>1. UNCHANGED <<cpc, asked, ran>>
    BY <1>6 DEF ReadLine
  <2>2. text["out"] = Said(d)
    <3>1. CASE text["out"] = Rest
      BY <1>1, <1>6, <3>1 DEF Rest
    <3> QED BY <1>3, <1>4, <3>1 DEF DataTold
  <2>3. Head(text["out"]) = d /\ Tail(text["out"]) = Rest
    <3>1. /\ Head(<<d>>) = d /\ Tail(<<d>>) = <<>>
          /\ Head(<<d, Blank>>) = d /\ Tail(<<d, Blank>>) = <<Blank>>
      OBVIOUS
    <3> QED BY <1>4, <2>2, <3>1 DEF Said, Rest
  <2>4. got' = [got EXCEPT !.data = d]
    BY <1>1, <1>4, <2>3, ToolAssumption DEF Heard
  <2>5. got'.error = error /\ got'.data = d
    BY <1>1, <1>5, <2>4 DEF Types, Answer
  <2>6. ErrorTold'
    BY <1>1, <1>4, <1>5, <2>1, <2>5 DEF ErrorTold
  <2>7. DataTold(d)'
    BY <1>1, <1>4, <1>5, <2>1, <2>3, <2>5 DEF DataTold, Rest
  <2> QED BY <1>1, <1>2, <1>3, <1>4, <1>5, <2>1, <2>6, <2>7 DEF Answering, Odd
<1>7. CASE ~each /\ Head(text["out"]) = Blank
  <2>1. text["out"] = <<Blank>>
    BY <1>1, <1>3, <1>4, <1>7, ToolAssumption DEF DataTold, Said, Rest
  <2>2. ran' = Nothing /\ cpc' = "write" /\ text'["out"] = <<>>
    BY <1>1, <1>7, <2>1 DEF ReadLine, Ready
  <2> QED BY <1>1, <1>4, <1>5, <2>2 DEF Answering
<1> QED BY <1>6, <1>7

LEMMA EndAnswering ==
  ASSUME Types, Answering, each => Opening, NEW p \in {"err", "out"}, ReadEnd(p)
  PROVE  Answering'
<1>1. /\ each /\ text[p] = <<>> /\ cpc = p
      /\ UNCHANGED <<each, text, spc, opts, error, command, print, got>>
  BY DEF ReadEnd, toolVars
<1>2. ran # Nothing /\ spc = IF p = "err" THEN "out" ELSE "read"
  BY <1>1, EndMeans
<1>3. CASE p = "err"
  <2>1. cpc' = "out" /\ UNCHANGED <<asked, ran>>
    BY <1>3 DEF ReadEnd
  <2>2. got.error = error /\ text["err"] = <<>>
    <3>1. ErrorTold /\ spc = "out" /\ cpc = "err" /\ text["err"] = <<>> /\ error \in BOOLEAN
      BY <1>1, <1>2, <1>3 DEF Answering, Types
    <3>2. CASE text["err"] = ErrorLine /\ got = NewAnswer
      <4>1. error = FALSE
        BY <3>1, <3>2 DEF ErrorLine
      <4> QED BY <3>1, <3>2, <4>1 DEF NewAnswer
    <3>3. CASE error /\ got = [NewAnswer EXCEPT !.error = TRUE]
      <4>1. error = TRUE
        BY <3>1, <3>3
      <4> QED BY <3>1, <3>3, <4>1 DEF NewAnswer
    <3> QED BY <3>1, <3>2, <3>3 DEF ErrorTold
  <2>3. ErrorTold'
    BY <1>1, <1>2, <1>3, <2>1, <2>2 DEF ErrorTold
  <2>4. \A d \in Data \cup {Nothing} : DataTold(d) => DataTold(d)'
    BY <1>1, <1>2, <1>3, <2>1 DEF DataTold
  <2> QED BY <1>1, <1>2, <1>3, <2>1, <2>3, <2>4 DEF Answering, Odd
<1>4. CASE p = "out"
  <2>1. Ready
    BY <1>4 DEF ReadEnd
  <2>2. print = Nothing /\ text["err"] = <<>>
    BY <1>4, <2>1, ReadyMeans
  <2>3. ran' = Nothing /\ cpc' = "write"
    BY <2>1 DEF Ready
  <2> QED BY <1>1, <1>2, <1>4, <2>2, <2>3 DEF Answering
<1> QED BY <1>3, <1>4

LEMMA NextAnswering ==
  ASSUME Types, Types', Turns, [Next]_vars PROVE Answering'
<1> USE DEF toolVars, progVars, ghostVars
<1>0. /\ Asking /\ Answering
      /\ each => Opening
      /\ ~each /\ asked.cmd # Nothing => asked.cmd \in Prints
      /\ DOMAIN text = Pipe /\ "in" \in Pipe /\ "err" \in Pipe /\ "out" \in Pipe
  BY DEF Types, Turns, Pipe
<1>1. ASSUME NEW p \in Pipe, Meet(p) PROVE Answering'
  BY <1>0, <1>1, AnsweringSame DEF Meet
<1>2. CASE OpenNext
  <2>1. spc = "start" /\ spc' \in {"start", "read"}
        /\ UNCHANGED <<text, print, cpc, got, ran>>
    BY <1>2 DEF OpenNext
  <2>2. ran = Nothing
    BY <1>0, <2>1 DEF Answering
  <2> QED BY <1>0, <2>1, <2>2 DEF Answering
<1>3. CASE Option
  <2>1. ran = Nothing
    BY <1>0, <1>3 DEF Option, Reads, Given, Asking
  <2> QED BY <1>0, <1>3, <2>1, AnsweringSame DEF Option, Reads
<1>4. CASE Command
  BY <1>0, <1>4, CommandAnswering
<1>5. CASE SayErr
  BY <1>0, <1>5, SayErrAnswering
<1>6. CASE SayOut
  BY <1>0, <1>6, SayOutAnswering
<1>7. CASE Exit
  <2>1. cpc = "done" /\ ran = Nothing
    BY <1>0, <1>7, ExitAsked
  <2>2. text'["err"] = text["err"] /\ text'["out"] = text["out"] /\ UNCHANGED <<cpc, ran, print>>
        /\ spc' = "gone"
    BY <1>0, <1>7 DEF Exit, Reads
  <2> QED BY <1>0, <2>1, <2>2, AnsweringNone
<1>8. CASE OpenPipes
  <2>1. cpc = "start" /\ cpc' \in {"start", "write"} /\ UNCHANGED <<text, ran, print, spc>>
    BY <1>8 DEF OpenPipes
  <2>2. ran = Nothing
    BY <1>0, <2>1, NoneToCome
  <2> QED BY <1>0, <2>1, <2>2 DEF Answering
<1>9. ASSUME NEW p \in {"err", "out"}, ReadLine(p) PROVE Answering'
  BY <1>0, <1>9, ErrReadAnswering, OutReadAnswering
<1>10. ASSUME NEW p \in {"err", "out"}, ReadEnd(p) PROVE Answering'
  BY <1>0, <1>10, EndAnswering
<1>11. ASSUME NEW o \in Opt, GiveOption(o) PROVE Answering'
  <2>1. cpc = "write" /\ text'["err"] = text["err"] /\ text'["out"] = text["out"]
        /\ UNCHANGED <<cpc, ran, print, spc>>
    BY <1>0, <1>11 DEF GiveOption, Writes, Put
  <2>2. ran = Nothing
    BY <1>0, <2>1, NoneToCome
  <2> QED BY <1>0, <2>1, <2>2 DEF Answering
<1>12. ASSUME NEW c \in Cmd, GiveCommand(c) PROVE Answering'
  <2>1. cpc = "write" /\ text'["err"] = text["err"] /\ text'["out"] = text["out"]
        /\ UNCHANGED <<ran, print, spc>> /\ spc # "gone" /\ cpc' = "err" /\ got' = NewAnswer
    BY <1>0, <1>12 DEF GiveCommand, Writes, Put
  <2>2. ran = Nothing
    BY <1>0, <2>1, NoneToCome
  <2> QED BY <1>0, <2>1, <2>2 DEF Answering
<1>13. CASE GiveExit
  <2>1. cpc = "write" /\ text'["err"] = text["err"] /\ text'["out"] = text["out"]
        /\ UNCHANGED <<ran, print, spc>> /\ spc # "gone" /\ cpc' = "done"
    BY <1>0, <1>13 DEF GiveExit, Writes, Put
  <2>2. ran = Nothing
    BY <1>0, <2>1, NoneToCome
  <2> QED BY <1>0, <2>1, <2>2 DEF Answering
<1>14. CASE UNCHANGED vars
  BY <1>0, <1>14, AnsweringSame DEF vars, pipeVars
<1> QED BY <1>1, <1>2, <1>3, <1>4, <1>5, <1>6, <1>7, <1>8, <1>9, <1>10, <1>11, <1>12,
           <1>13, <1>14 DEF Next, Tool, Program
-----------------------------------------------------------------------------
(* The pipes of an answer with -o.                                         *)

LEMMA MeetOpening ==
  ASSUME Types, Opening, NEW p \in Pipe, Meet(p) PROVE Opening'
<1>1. /\ {srv[p], cli[p]} \in {{"opening"}, {"opening", "open"}}
      /\ srv' = [srv EXCEPT ![p] = "open"] /\ cli' = [cli EXCEPT ![p] = "open"]
      /\ UNCHANGED <<spc, cpc, ran>>
  BY DEF Meet, toolVars, progVars, ghostVars
<1>2. srv[p] # "closed" /\ cli[p] # "closed"
  <2>1. "closed" \notin {"opening"} /\ "closed" \notin {"opening", "open"}
    OBVIOUS
  <2>2. srv[p] \in {srv[p], cli[p]} /\ cli[p] \in {srv[p], cli[p]}
    OBVIOUS
  <2> QED BY <1>1, <2>1, <2>2
<1>3. /\ DOMAIN srv = Pipe /\ DOMAIN cli = Pipe
      /\ cpc \in {"start", "write", "err", "out", "done"}
      /\ spc \in {"start", "read", "err", "out", "gone"}
  BY DEF Types
<1>4. CASE p = "in"
  <2>1. srv'["err"] = srv["err"] /\ srv'["out"] = srv["out"]
        /\ cli'["err"] = cli["err"] /\ cli'["out"] = cli["out"]
    BY <1>1, <1>3, <1>4 DEF Pipe
  <2> QED BY <1>1, <2>1 DEF Opening
<1>5. CASE p = "err"
  <2>1. cpc = "err" /\ spc \in {"err", "gone"}
    BY <1>2, <1>3, <1>5 DEF Opening
  <2>2. /\ srv'["err"] = "open" /\ cli'["err"] = "open"
        /\ srv'["out"] = srv["out"] /\ cli'["out"] = cli["out"]
    BY <1>1, <1>3, <1>5 DEF Pipe
  <2> QED BY <1>1, <2>1, <2>2 DEF Opening
<1>6. CASE p = "out"
  <2>1. cpc = "out" /\ spc = "out"
    BY <1>2, <1>3, <1>6 DEF Opening
  <2>2. /\ srv'["out"] = "open" /\ cli'["out"] = "open"
        /\ srv'["err"] = srv["err"] /\ cli'["err"] = cli["err"]
    BY <1>1, <1>3, <1>6 DEF Pipe
  <2> QED BY <1>1, <2>1, <2>2 DEF Opening
<1> QED BY <1>4, <1>5, <1>6 DEF Pipe

LEMMA NextOpening ==
  ASSUME Types, Types', Turns, each, [Next]_vars PROVE Opening'
<1> USE DEF toolVars, progVars, ghostVars
<1>0. /\ Asking /\ Answering /\ Opening
      /\ DOMAIN srv = Pipe /\ DOMAIN cli = Pipe
      /\ "in" \in Pipe /\ "err" \in Pipe /\ "out" \in Pipe
      /\ cpc \in {"start", "write", "err", "out", "done"}
      /\ spc \in {"start", "read", "err", "out", "gone"}
  BY DEF Types, Turns, Pipe
<1>1. ASSUME NEW p \in Pipe, Meet(p) PROVE Opening'
  BY <1>0, <1>1, MeetOpening
<1>2. CASE OpenNext
  <2>1. spc = "start" /\ spc' = "read" /\ UNCHANGED <<srv, cli, cpc, ran>>
    BY <1>0, <1>2 DEF OpenNext, Opening
  <2> QED BY <1>0, <2>1 DEF Opening
<1>3. CASE Option
  BY <1>0, <1>3 DEF Option, Opening
<1>4. CASE Command
  <2>1. cpc = "err" /\ spc = "read"
    BY <1>0, <1>4, CommandAsked
  <2>2. /\ srv' = [srv EXCEPT !["err"] = "opening"] /\ spc' \in {"err", "gone"}
        /\ UNCHANGED <<cli, cpc>>
    BY <1>4 DEF Command, Opens
  <2>3. srv'["err"] = "opening" /\ srv'["out"] = "closed" /\ cli["err"] = "opening"
        /\ cli["out"] = "closed"
    BY <1>0, <2>1, <2>2 DEF Opening
  <2> QED BY <2>1, <2>2, <2>3 DEF Opening
<1>5. CASE SayErr
  <2>1. /\ spc = "err" /\ spc' = "out" /\ srv["err"] = "open" /\ UNCHANGED <<cli, cpc>>
        /\ srv'["err"] = "closed" /\ srv'["out"] = "opening"
    BY <1>0, <1>5 DEF SayErr, Say, ErrClosed, Opens, Closes
  <2>2. cpc = "err"
    BY <1>0, <2>1 DEF Answering, ErrorTold
  <2>3. cli["err"] = "open" /\ cli["out"] = "closed"
    BY <1>0, <2>1, <2>2 DEF Opening
  <2> QED BY <2>1, <2>2, <2>3 DEF Opening
<1>6. CASE SayOut
  <2>1. /\ spc = "out" /\ spc' = "read" /\ srv["out"] = "open" /\ UNCHANGED <<cli, cpc>>
        /\ srv'["err"] = srv["err"] /\ srv'["out"] = "closed"
    BY <1>0, <1>6 DEF SayOut, Say, OutClosed, Closes
  <2>2. cpc \in {"err", "out"}
    BY <1>0, <2>1 DEF Answering
  <2>3. cpc = "out"
    BY <1>0, <2>1, <2>2 DEF Opening
  <2>4. cli["out"] = "open" /\ cli["err"] = "closed" /\ srv["err"] = "closed"
    BY <1>0, <2>1, <2>3 DEF Opening
  <2> QED BY <2>1, <2>3, <2>4 DEF Opening
<1>7. CASE Exit
  <2>1. cpc = "done"
    BY <1>0, <1>7, ExitAsked
  <2>2. srv' = [p \in Pipe |-> "closed"] /\ spc' = "gone" /\ UNCHANGED <<cli, cpc>>
    BY <1>7 DEF Exit
  <2>3. cli["err"] = "closed" /\ cli["out"] = "closed" /\ srv'["out"] = "closed"
    BY <1>0, <2>1, <2>2 DEF Opening
  <2> QED BY <2>1, <2>2, <2>3 DEF Opening
<1>8. CASE OpenPipes
  BY <1>0, <1>8 DEF OpenPipes, Opening
<1>9. ASSUME NEW p \in {"err", "out"}, ReadLine(p) PROVE Opening'
  BY <1>0, <1>9 DEF ReadLine, Opening
<1>10. ASSUME NEW p \in {"err", "out"}, ReadEnd(p) PROVE Opening'
  <2>1. cpc = p /\ spc = (IF p = "err" THEN "out" ELSE "read") /\ UNCHANGED <<srv, spc>>
    BY <1>0, <1>10, EndMeans DEF ReadEnd
  <2>2. CASE p = "err"
    <3>1. cli'["err"] = "closed" /\ cli'["out"] = "opening" /\ cpc' = "out"
      BY <1>0, <1>10, <2>2 DEF ReadEnd, Opens, Closes
    <3>2. srv["err"] = "closed" /\ srv["out"] = "opening"
      BY <1>0, <2>1, <2>2 DEF Opening
    <3> QED BY <2>1, <2>2, <3>1, <3>2 DEF Opening
  <2>3. CASE p = "out"
    <3>1. cli'["err"] = cli["err"] /\ cli'["out"] = "closed" /\ cpc' = "write"
      BY <1>0, <1>10, <2>3 DEF ReadEnd, Ready, Closes
    <3>2. cli["err"] = "closed" /\ srv["err"] = "closed" /\ srv["out"] = "closed"
      BY <1>0, <2>1, <2>3 DEF Opening
    <3> QED BY <2>1, <2>3, <3>1, <3>2 DEF Opening
  <2> QED BY <2>2, <2>3
<1>11. ASSUME NEW o \in Opt, GiveOption(o) PROVE Opening'
  <2>1. srv'["err"] = srv["err"] /\ srv'["out"] = srv["out"] /\ UNCHANGED <<cli, cpc, spc, ran>>
    BY <1>0, <1>11 DEF GiveOption, Writes
  <2> QED BY <1>0, <2>1 DEF Opening
<1>12. ASSUME NEW c \in Cmd, GiveCommand(c) PROVE Opening'
  <2>1. /\ srv'["err"] = srv["err"] /\ srv'["out"] = srv["out"] /\ UNCHANGED <<spc, ran>>
        /\ cli'["err"] = "opening" /\ cli'["out"] = cli["out"]
        /\ cpc = "write" /\ cpc' = "err" /\ spc # "gone"
    BY <1>0, <1>12 DEF GiveCommand, Writes, Opens
  <2>2. ran = Nothing /\ spc \in {"start", "read"}
    BY <1>0, <2>1 DEF Answering
  <2>3. cli["out"] = "closed" /\ srv["err"] = "closed" /\ srv["out"] = "closed"
    BY <1>0, <2>1, <2>2 DEF Opening
  <2> QED BY <2>1, <2>2, <2>3 DEF Opening
<1>13. CASE GiveExit
  <2>1. /\ srv'["err"] = srv["err"] /\ srv'["out"] = srv["out"] /\ UNCHANGED spc
        /\ cli'["err"] = "closed" /\ cli'["out"] = "closed" /\ cpc' = "done"
        /\ cpc = "write" /\ spc # "gone"
    BY <1>0, <1>13 DEF GiveExit, Writes
  <2>2. spc \in {"start", "read"}
    BY <1>0, <2>1 DEF Answering
  <2>3. srv["err"] = "closed" /\ srv["out"] = "closed"
    BY <1>0, <2>2 DEF Opening
  <2> QED BY <2>1, <2>2, <2>3 DEF Opening
<1>14. CASE UNCHANGED vars
  BY <1>0, <1>14 DEF vars, pipeVars, Opening
<1> QED BY <1>1, <1>2, <1>3, <1>4, <1>5, <1>6, <1>7, <1>8, <1>9, <1>10, <1>11, <1>12,
           <1>13, <1>14 DEF Next, Tool, Program

\* A careful program with open pipes asks only for commands that always print.
LEMMA NextCareful ==
  ASSUME each \/ Careful, ~each /\ asked.cmd # Nothing => asked.cmd \in Prints,
         Types, [Next]_vars
  PROVE  each' = each /\ (~each /\ asked'.cmd # Nothing => asked'.cmd \in Prints)
<1> USE DEF toolVars, progVars, ghostVars
<1>1. ASSUME NEW c \in Cmd, GiveCommand(c) PROVE each' = each /\ (~each => asked'.cmd \in Prints)
  <2>1. asked'.cmd = c
    BY <1>1 DEF GiveCommand, Types, Request
  <2> QED BY <1>1, <2>1, ToolAssumption DEF GiveCommand
<1>2. ASSUME NEW o \in Opt, GiveOption(o) PROVE each' = each /\ asked'.cmd = asked.cmd
  BY <1>2 DEF GiveOption, Types, Request
<1>3. ASSUME NEW p \in {"err", "out"}, ReadLine(p) \/ ReadEnd(p)
      PROVE  each' = each /\ asked'.cmd \in {asked.cmd, Nothing}
  BY <1>3 DEF ReadLine, ReadEnd, Ready, NewRequest
<1>4. ASSUME \/ \E p \in Pipe : Meet(p)
             \/ Tool \/ OpenPipes \/ GiveExit \/ UNCHANGED vars
      PROVE  UNCHANGED <<each, asked>>
  BY <1>4 DEF Meet, Tool, OpenNext, Option, Reads, Command, SayErr, SayOut, Say, Exit,
              OpenPipes, GiveExit, vars
<1> QED BY <1>1, <1>2, <1>3, <1>4 DEF Next, Program

LEMMA NextTurns == SInv /\ [Next]_vars => SInv'
<1> SUFFICES ASSUME SInv, [Next]_vars PROVE SInv'
  OBVIOUS
<1>1. Types /\ Types'
  BY NextTypes DEF SInv
<1>2. CASE each \/ Careful
  <2>1. Turns
    BY <1>2 DEF SInv
  <2>2. each' = each /\ (~each /\ asked'.cmd # Nothing => asked'.cmd \in Prints)
    BY <1>1, <1>2, <2>1, NextCareful DEF Turns
  <2>3. Asking'
    BY <1>1, <2>1, NextAsking DEF Turns
  <2>4. Answering'
    BY <1>1, <2>1, NextAnswering
  <2>5. each => Opening'
    BY <1>1, <2>1, NextOpening
  <2> QED BY <1>1, <2>2, <2>3, <2>4, <2>5 DEF SInv, Turns
<1>3. CASE ~(each \/ Careful)
  <2>1. each' = each
    BY <1>3 DEF Next, Meet, Tool, OpenNext, Option, Reads, Command, SayErr, SayOut, Say, Exit,
                Program, OpenPipes, ReadLine, ReadEnd, GiveOption, GiveCommand, GiveExit, vars
  <2> QED BY <1>1, <1>3, <2>1 DEF SInv
<1> QED BY <1>2, <1>3

LEMMA Turn == Spec => []SInv
<1>1. Init => SInv
  BY InitTypes, InitTurns DEF SInv
<1> QED BY <1>1, NextTurns, PTL DEF Spec
-----------------------------------------------------------------------------
(* What follows.                                                           *)

LEMMA ErrShort == SInv /\ each => Len(text["err"]) <= 1
<1> SUFFICES ASSUME SInv, each PROVE Len(text["err"]) <= 1
  OBVIOUS
<1>1. text["err"] \in {<<>>, ErrorLine}
  BY DEF SInv, Turns, Answering, ErrorTold
<1>2. text["err"] = <<>> \/ text["err"] = <<"error">>
  BY <1>1 DEF ErrorLine
<1>3. CASE text["err"] = <<>>
  BY <1>3
<1>4. CASE text["err"] = <<"error">>
  BY <1>4
<1> QED BY <1>2, <1>3, <1>4

\* The variables have their types for all commands, options and outputs,
\* whether the program is careful or not; with -o nxt_server never leaves more
\* than one line in the pipe of errors (tools/server.c, main and run_command).
THEOREM ServerTypes == Spec => []TypeOK
<1>1. SInv => TypeOK
  <2> SUFFICES ASSUME SInv PROVE TypeOK
    OBVIOUS
  <2>1. Types
    BY DEF SInv
  <2>2. {text["err"][i] : i \in DOMAIN text["err"]} \subseteq {"error", Blank}
    BY <2>1 DEF Types
  <2>3. {text["out"][i] : i \in DOMAIN text["out"]} \subseteq Data \cup {Blank}
    BY <2>1 DEF Types
  <2>4. each => Len(text["err"]) <= 1
    BY ErrShort
  <2> QED BY <2>1, <2>2, <2>3, <2>4 DEF Types, Ends, TypeOK
<1> QED BY <1>1, Turn, PTL

\* The first state of a shell
LEMMA InitShell == Init => Shell!ShellInit
<1> SUFFICES ASSUME Init PROVE Shell!ShellInit
  OBVIOUS
<1>1. asked.cmd = Nothing /\ got = Nothing /\ ran = Nothing /\ failed = FALSE
  BY DEF Init, NewRequest
<1>2. (IF each THEN Cmd \ Raw ELSE Prints) \in SUBSET Cmd
  BY ToolAssumption
<1> QED BY <1>1, <1>2 DEF Shell!ShellInit

\* Steps that a shell does not see
LEMMA NoShell ==
  UNCHANGED <<each, ran, failed>> /\ asked'.cmd = asked.cmd
    /\ (asked.cmd # Nothing => asked' = asked) /\ (asked.cmd = Nothing => got' = got)
  => UNCHANGED Shell!shellVars
BY DEF Shell!shellVars

LEMMA CommandShell ==
  ASSUME SInv, SInv', each \/ Careful, Command PROVE Shell!Execute
<1>1. /\ ran = Nothing /\ asked.cmd # Nothing /\ Line = asked.cmd /\ opts = asked.opts
  BY CommandAsked DEF SInv, Turns
<1>2. PICK r \in Outcome(Line) :
        /\ ran' = [cmd |-> Line, opts |-> opts, data |-> r.data, error |-> r.error]
        /\ failed' = (failed \/ r.error)
  BY DEF Command
<1>3. r.data \in Data \cup {Nothing} /\ r.error \in BOOLEAN
  BY <1>2 DEF Outcome
<1>4. UNCHANGED <<each, asked, got>>
  BY DEF Command, progVars
<1>5. asked # Nothing
  BY ToolAssumption DEF SInv, Types
<1> QED BY <1>1, <1>2, <1>3, <1>4, <1>5 DEF Shell!Execute

\* What the program has got when it is ready is what its command has printed.
LEMMA ReadyShell ==
  ASSUME SInv, SInv', each \/ Careful, NEW p \in {"err", "out"},
         ReadLine(p) \/ ReadEnd(p), Ready
  PROVE  Shell!Take
<1>1. Types /\ Turns
  BY DEF SInv
<1>2. /\ p = "out" /\ cpc = "out" /\ ran # Nothing /\ spc = "read"
  BY <1>1, ReadyMeans DEF Turns
<1>3. got.error = error /\ (ran.error => error) /\ ran.cmd = asked.cmd
  BY <1>1, <1>2 DEF Turns, Answering, ErrorTold
<1>4. PICK d \in Data \cup {Nothing} :
        (d = ran.data \/ Odd) /\ (~each => d # Nothing) /\ DataTold(d)
  BY <1>1, <1>2 DEF Turns, Answering
<1>5. got' = got
  <2>1. CASE ReadEnd(p)
    BY <2>1 DEF ReadEnd
  <2>2. CASE ReadLine(p)
    <3>1. cpc' # cpc
      BY <1>2 DEF Ready
    <3>2. Head(text["out"]) = Blank
      BY <1>2, <2>2, <3>1 DEF ReadLine
    <3> QED BY <1>2, <2>2, <3>2 DEF ReadLine, Heard
  <2> QED BY <2>1, <2>2
<1>6. got.data = d
  <2>1. CASE text["out"] = <<>>
    BY <1>2, <1>4, <2>1 DEF DataTold, Said
  <2>2. CASE text["out"] # <<>>
    <3>1. ReadLine("out") /\ ~each /\ Head(text["out"]) = Blank
      <4>1. ReadLine("out")
        BY <1>2, <2>2 DEF ReadEnd
      <4> QED BY <1>2, <4>1 DEF ReadLine, Ready
    <3>2. d \in Data /\ Head(<<d>>) = d /\ Head(<<d, Blank>>) = d
      BY <1>4, <3>1
    <3>3. text["out"] # Said(d)
      BY <3>1, <3>2, ToolAssumption DEF Said
    <3> QED BY <1>2, <1>4, <3>3 DEF DataTold
  <2> QED BY <2>1, <2>2
<1>7. got \in Answer /\ got.error \in BOOLEAN /\ got.data \in Data \cup {Nothing}
      /\ got = [data |-> got.data, error |-> got.error]
  BY <1>1, <1>2 DEF Types, Answer
<1>8. error => failed
  BY <1>1 DEF Types
<1>9. asked.cmd # Nothing /\ asked'.cmd = Nothing /\ ran' = Nothing
      /\ UNCHANGED <<each, failed>>
  BY <1>1, <1>2 DEF Types, ReadLine, ReadEnd, Ready, NewRequest
<1>10. ran.cmd \in (IF each THEN Cmd \ Raw ELSE Prints)
         => /\ got.data = ran.data
            /\ (ran.error => got.error)
            /\ (got.error => failed)
  <2>1. ran.cmd \in (IF each THEN Cmd \ Raw ELSE Prints) => ~Odd
    BY DEF Odd
  <2> QED BY <1>3, <1>4, <1>6, <1>8, <2>1
<1> QED BY <1>2, <1>5, <1>7, <1>9, <1>10 DEF Shell!Take

LEMMA NextShell ==
  SInv /\ SInv' /\ (each \/ Careful) /\ [Next]_vars => [Shell!ShellNext]_(Shell!shellVars)
<1> SUFFICES ASSUME SInv, SInv', each \/ Careful, [Next]_vars
             PROVE  Shell!ShellNext \/ UNCHANGED Shell!shellVars
  OBVIOUS
<1> USE DEF toolVars, progVars, ghostVars
<1>0. Types /\ Turns
  BY DEF SInv
<1>1. ASSUME \/ \E p \in Pipe : Meet(p)
             \/ OpenNext \/ Option \/ SayErr \/ SayOut \/ Exit \/ OpenPipes
             \/ UNCHANGED vars
      PROVE  UNCHANGED Shell!shellVars
  <2>1. UNCHANGED <<each, asked, got, ran, failed>>
    BY <1>1 DEF Meet, OpenNext, Option, Reads, SayErr, SayOut, Say, Exit, OpenPipes, vars
  <2> QED BY <2>1, NoShell
<1>2. CASE Command
  BY <1>2, CommandShell DEF Shell!ShellNext
<1>3. ASSUME NEW p \in {"err", "out"}, ReadLine(p) \/ ReadEnd(p)
      PROVE  Shell!ShellNext \/ UNCHANGED Shell!shellVars
  <2>1. CASE Ready
    BY <1>3, <2>1, ReadyShell DEF Shell!ShellNext
  <2>2. CASE ~Ready
    <3>1. UNCHANGED <<each, asked, ran, failed>>
      BY <1>3, <2>2 DEF ReadLine, ReadEnd
    <3>2. asked.cmd # Nothing
      BY <1>0, <1>3 DEF Types, ReadLine, ReadEnd
    <3> QED BY <3>1, <3>2, NoShell
  <2> QED BY <2>1, <2>2
<1>4. ASSUME NEW o \in Opt, GiveOption(o) PROVE UNCHANGED Shell!shellVars
  <2>1. UNCHANGED <<each, got, ran, failed>> /\ asked'.cmd = asked.cmd
    BY <1>0, <1>4 DEF GiveOption, Types, Request
  <2>2. asked.cmd = Nothing
    BY <1>0, <1>4 DEF GiveOption, Writes, Types
  <2> QED BY <2>1, <2>2, NoShell
<1>5. ASSUME NEW c \in Cmd, GiveCommand(c) PROVE Shell!Ask
  <2>1. asked.cmd = Nothing
    BY <1>0, <1>5 DEF GiveCommand, Writes, Types
  <2>2. asked' \in [cmd : Cmd, opts : SUBSET Opt] /\ asked'.cmd = c /\ c # Nothing
    BY <1>0, <1>5, ToolAssumption DEF GiveCommand, Types, Request
  <2>3. UNCHANGED <<each, ran, failed>>
    BY <1>5 DEF GiveCommand
  <2> QED BY <2>1, <2>2, <2>3 DEF Shell!Ask
<1>6. CASE GiveExit
  BY <1>6, NoShell DEF GiveExit
<1> QED BY <1>1, <1>2, <1>3, <1>4, <1>5, <1>6 DEF Next, Tool, Program, Shell!ShellNext

\* nxt_server with -o, or with open pipes and a careful program, is a shell for
\* all commands, options and outputs: each command is executed once, with its
\* own options, and the program gets its result and its error, of pollcmd with
\* -o only the end (tools/server.c, main, run_command and the commands).
THEOREM ServerIsShell == Spec /\ (each \/ Careful) => IsShell
<1>1. SInv /\ SInv' /\ (each \/ Careful) /\ [Next]_vars => (each \/ Careful)'
  BY NextCareful DEF SInv, Turns
<1> QED BY <1>1, InitShell, Turn, NextShell, PTL DEF Spec, IsShell, Shell!ShellSpec

-----------------------------------------------------------------------------
(* Induction and recursion over numbers: the library's theorems about them   *)
(* take operators as parameters, these take sets and functions.             *)

\* A set of natural numbers has a least element.
LEMMA Least ==
  ASSUME NEW T, T \subseteq Nat, T # {}
  PROVE  \E n \in T : \A m \in T : n <= m
<1> DEFINE Below(n) == 0 .. (n - 1)
           Belows == {Below(n) : n \in T}
<1>1. Belows \subseteq FiniteSubsetsOf(Nat)
  <2>1. ASSUME NEW n \in T PROVE Below(n) \in FiniteSubsetsOf(Nat)
    <3>1. IsFiniteSet(Below(n)) BY FS_Interval
    <3>2. Below(n) \subseteq Nat BY SMT
    <3> QED BY <3>1, <3>2 DEF FiniteSubsetsOf
  <2> QED BY <2>1
<1>2. PICK b \in Belows : \A y \in Belows : ~ (<<y, b>> \in StrictSubsetOrdering(Nat))
  <2>1. Belows # {} OBVIOUS
  <2> HIDE DEF Belows
  <2> QED BY <1>1, <2>1, FS_StrictSubsetOrderingWellFounded, WFMin
<1>3. PICK n \in T : b = Below(n) OBVIOUS
<1>4. ASSUME NEW m \in T, m < n PROVE FALSE
  <2>1. Below(m) \subseteq Below(n) /\ Below(n) \subseteq Nat BY <1>4, SMT
  <2>2. m \in Below(n) /\ m \notin Below(m) BY <1>4, SMT
  <2>3. <<Below(m), Below(n)>> \in StrictSubsetOrdering(Nat)
    <3> HIDE DEF Below
    <3> QED BY <2>1, <2>2 DEF StrictSubsetOrdering
  <2> QED BY <1>2, <1>3, <2>3
<1>5. \A m \in T : n <= m BY <1>4, SMT
<1> QED BY <1>5

\* What holds of 0 and of the successor of a number of which it holds.
LEMMA Induction ==
  ASSUME NEW P, 0 \in P, \A n \in Nat : n \in P => n + 1 \in P
  PROVE  Nat \subseteq P
<1> SUFFICES ASSUME Nat \ P # {} PROVE FALSE OBVIOUS
<1>1. PICK n \in Nat \ P : \A m \in Nat \ P : n <= m BY Least
<1>2. n # 0 /\ n \in Nat BY <1>1
<1>3. n - 1 \in Nat BY <1>2, SMT
<1>4. n - 1 \in P BY <1>1, <1>3, SMT
<1>5. (n - 1) + 1 = n BY <1>2, SMT
<1> QED BY <1>1, <1>3, <1>4, <1>5

\* A function on numbers: its first value, and F that gives each next one.
Recursive(f, S, c, F) == /\ f \in [Nat -> S]
                         /\ f[0] = c
                         /\ \A n \in Nat : f[n + 1] = F[n][f[n]]

\* There is a function with a first value and a step from each value to the next.
LEMMA Recursion ==
  ASSUME NEW S, NEW c \in S, NEW F \in [Nat -> [S -> S]]
  PROVE  \E f : Recursive(f, S, c, F)
<1> DEFINE Good(g, k) == /\ g[0] = c
                         /\ \A n \in Nat : n < k => g[n + 1] = F[n][g[n]]
           P == {k \in Nat : \E g \in [Nat -> S] : Good(g, k)}
           G(k) == CHOOSE g \in [Nat -> S] : Good(g, k)
           f == [n \in Nat |-> G(n)[n]]
<1>1. 0 \in P
  <2>1. [n \in Nat |-> c] \in [Nat -> S] /\ Good([n \in Nat |-> c], 0) BY SMT
  <2> QED BY <2>1
<1>2. ASSUME NEW k \in Nat, k \in P PROVE k + 1 \in P
  <2>1. PICK g \in [Nat -> S] : Good(g, k) BY <1>2
  <2> DEFINE h == [g EXCEPT ![k + 1] = F[k][g[k]]]
  <2>2. h \in [Nat -> S] BY <2>1
  <2>3. h[0] = c BY <2>1, SMT
  <2>4. ASSUME NEW n \in Nat, n < k + 1 PROVE h[n + 1] = F[n][h[n]]
    <3>1. h[n] = g[n] BY <2>4, SMT
    <3>2. CASE n = k BY <3>1, <3>2, SMT
    <3>3. CASE n < k
      <4>1. h[n + 1] = g[n + 1] BY <3>3, SMT
      <4> QED BY <2>1, <3>1, <3>3, <4>1
    <3> QED BY <2>4, <3>2, <3>3, SMT
  <2> HIDE DEF h
  <2>5. Good(h, k + 1) BY <2>3, <2>4
  <2>6. k + 1 \in Nat BY SMT
  <2> HIDE DEF Good
  <2> QED BY <2>2, <2>5, <2>6
<1>3. ASSUME NEW k \in Nat PROVE G(k) \in [Nat -> S] /\ Good(G(k), k)
  <2>1. k \in P
    <3> HIDE DEF P
    <3> QED BY <1>1, <1>2, Induction
  <2>2. \E g \in [Nat -> S] : Good(g, k) BY <2>1
  <2> HIDE DEF Good
  <2> QED BY <2>2
<1>4. ASSUME NEW k \in Nat, NEW l \in Nat, NEW g, NEW h, Good(g, k), Good(h, l), k <= l,
             NEW n \in Nat, n <= k
      PROVE  g[n] = h[n]
  <2> DEFINE Q == {m \in Nat : m <= k => g[m] = h[m]}
  <2>1. 0 \in Q BY <1>4
  <2>2. ASSUME NEW m \in Nat, m \in Q PROVE m + 1 \in Q
    <3>1. SUFFICES ASSUME m + 1 <= k PROVE g[m + 1] = h[m + 1] BY SMT
    <3>2. m < k /\ m < l BY <1>4, <3>1, SMT
    <3>3. g[m] = h[m] BY <2>2, <3>2, SMT
    <3> QED BY <1>4, <3>2, <3>3
  <2>3. n \in Q
    <3> HIDE DEF Q
    <3> QED BY <2>1, <2>2, Induction
  <2> QED BY <1>4, <2>3
<1> HIDE DEF G
<1>5. f \in [Nat -> S] BY <1>3
<1>6. f[0] = c BY <1>3
<1>7. ASSUME NEW n \in Nat PROVE f[n + 1] = F[n][f[n]]
  <2>1. Good(G(n), n) /\ Good(G(n + 1), n + 1) BY <1>3
  <2>2. G(n)[n] = G(n + 1)[n]
    <3> HIDE DEF Good
    <3>1. n <= n + 1 /\ n <= n /\ n + 1 \in Nat BY SMT
    <3> QED BY <1>4, <2>1, <3>1
  <2>3. G(n + 1)[n + 1] = F[n][G(n + 1)[n]] BY <2>1, SMT
  <2> QED BY <2>2, <2>3
<1>8. Recursive(f, S, c, F) BY <1>5, <1>6, <1>7 DEF Recursive
<1> QED BY <1>8

\* The powers of two.
LEMMA Powers ==
  /\ PowerOf2[0] = 1
  /\ \A n \in Nat : PowerOf2[n + 1] = 2 * PowerOf2[n]
  /\ \A n \in Nat : PowerOf2[n] \in Nat
<1> DEFINE F == [n \in Nat |-> [v \in Nat |-> 2 * v]]
           Is(g) == g = [n \in Nat |-> IF n = 0 THEN 1 ELSE 2 * g[n - 1]]
<1>1. F \in [Nat -> [Nat -> Nat]] BY SMT
<1>2. PICK f : Recursive(f, Nat, 1, F)
  <2>1. 1 \in Nat BY SMT
  <2> HIDE DEF F
  <2> QED BY <1>1, <2>1, Recursion
<1>3. ASSUME NEW n \in Nat PROVE f[n] = IF n = 0 THEN 1 ELSE 2 * f[n - 1]
  <2>1. CASE n = 0 BY <1>2, <2>1 DEF Recursive
  <2>2. CASE n # 0
    <3>1. n - 1 \in Nat /\ (n - 1) + 1 = n BY <2>2, SMT
    <3>2. f[(n - 1) + 1] = 2 * f[n - 1] BY <1>2, <3>1 DEF Recursive
    <3> QED BY <2>2, <3>1, <3>2
  <2> QED BY <2>1, <2>2
<1>4. Is(f) BY <1>2, <1>3 DEF Recursive
<1>5. Is(PowerOf2) BY <1>4 DEF PowerOf2
<1>6. PowerOf2[0] = 1 BY <1>5
<1>7. ASSUME NEW n \in Nat PROVE PowerOf2[n + 1] = 2 * PowerOf2[n]
  BY <1>5, SMT
<1>8. \A n \in Nat : PowerOf2[n] \in Nat
  <2> DEFINE P == {n \in Nat : PowerOf2[n] \in Nat}
  <2>1. 0 \in P BY <1>6
  <2>2. ASSUME NEW n \in Nat, n \in P PROVE n + 1 \in P BY <1>7, <2>2, SMT
  <2>3. Nat \subseteq P
    <3> HIDE DEF P
    <3> QED BY <2>1, <2>2, Induction
  <2> QED BY <2>3
<1> QED BY <1>6, <1>7, <1>8

\* The values of a byte.
LEMMA BaseIs ==
  Base \in Nat /\ Base > 8 /\ Base % 2 = 0 /\ Base \div 2 \in Nat /\ Base = 2 * (Base \div 2)
<1> DEFINE P == {n \in Nat : PowerOf2[n + 4] >= 16}
<1>1. PowerOf2[1] = 2 /\ PowerOf2[2] = 4 /\ PowerOf2[3] = 8 /\ PowerOf2[4] = 16
  <2>1. PowerOf2[0 + 1] = 2 BY Powers
  <2>2. PowerOf2[1 + 1] = 4 BY <2>1, Powers
  <2>3. PowerOf2[2 + 1] = 8 BY <2>2, Powers
  <2>4. PowerOf2[3 + 1] = 16 BY <2>3, Powers
  <2> QED BY <2>1, <2>2, <2>3, <2>4
<1>2. 0 \in P BY <1>1
<1>3. ASSUME NEW n \in Nat, n \in P PROVE n + 1 \in P
  <2>1. PowerOf2[(n + 4) + 1] = 2 * PowerOf2[n + 4] /\ PowerOf2[n + 4] \in Nat BY Powers
  <2>2. (n + 1) + 4 = (n + 4) + 1 BY SMT
  <2> QED BY <1>3, <2>1, <2>2, SMT
<1>4. Nat \subseteq P
  <2> HIDE DEF P
  <2> QED BY <1>2, <1>3, Induction
<1>5. Bits - 4 \in Nat /\ (Bits - 4) + 4 = Bits BY FormatsAssumption, SMT
<1>6. Base >= 16 BY <1>4, <1>5 DEF Base
<1>7. Bits - 1 \in Nat /\ (Bits - 1) + 1 = Bits BY FormatsAssumption, SMT
<1>8. Base = 2 * PowerOf2[Bits - 1] /\ PowerOf2[Bits - 1] \in Nat
  BY <1>7, Powers DEF Base
<1> HIDE DEF P
<1> QED BY <1>6, <1>8, SMT

-----------------------------------------------------------------------------
(* The file formats.                                                       *)

\* A word that is stored comes back without what is above its bits.
LEMMA Split ==
  ASSUME NEW v \in Nat
  PROVE  /\ High(v) \in 0 .. (Base - 1) /\ v % Base \in 0 .. (Base - 1)
         /\ High(v) * Base + (v % Base) = v % Word
<1> DEFINE b == Base
           q == v \div b
           r == v % b
           k == q \div b
           s == q % b
<1>1. b \in Nat /\ b > 8 BY BaseIs
<1> HIDE DEF b
<1>2. q \in Nat /\ r \in 0 .. (b - 1) /\ v = q * b + r BY <1>1, SMT
<1> HIDE DEF q, r
<1>3. k \in Nat /\ s \in 0 .. (b - 1) /\ q = k * b + s BY <1>1, <1>2, SMT DEF k, s
<1> HIDE DEF k, s
<1>4. s * b + r \in 0 .. (b * b - 1)
  <2>1. s * b + r >= 0 BY <1>1, <1>2, <1>3, SMT
  <2>2. s * b <= (b - 1) * b BY <1>1, <1>3, SMT
  <2>3. (b - 1) * b = b * b - b BY <1>1, SMT
  <2> QED BY <1>1, <1>2, <1>3, <2>1, <2>2, <2>3, SMT
<1>5. v = k * (b * b) + (s * b + r)
  <2>1. (k * b + s) * b = k * (b * b) + s * b BY <1>1, <1>3, SMT
  <2> QED BY <1>1, <1>2, <1>3, <2>1, SMT
<1>6. ASSUME NEW w \in Nat, NEW m \in Nat, NEW n \in Nat, NEW t \in 0 .. (n - 1),
             w = m * n + t
      PROVE  w % n = t
  BY <1>6, SMT
<1>7. v % (b * b) = s * b + r
  <2>1. b * b \in Nat BY <1>1, SMT
  <2>2. s * b + r \in Nat BY <1>4
  <2> QED BY <1>3, <1>4, <1>5, <1>6, <2>1, <2>2
<1>8. High(v) = s BY <1>2, SMT DEF High, s, q, b
<1>9. Word = b * b BY DEF Word, b
<1> QED BY <1>1, <1>2, <1>3, <1>7, <1>8, <1>9 DEF r, b

\* A code of rmd_encode fits into its low byte: the high byte is 0.
LEMMA HighZero == ASSUME NEW v \in 0 .. 8 PROVE High(v) = 0 /\ v % Base = v
<1>1. v \div Base = 0 /\ v % Base = v BY BaseIs, SMT
<1>2. 0 % Base = 0 BY BaseIs, SMT
<1> QED BY <1>1, <1>2 DEF High

\* A number below the size of a word is stored as it is.
LEMMA WordSmall == ASSUME NEW v \in 0 .. (Word - 1) PROVE v % Word = v
<1>1. Word \in Nat BY BaseIs, SMT DEF Word
<1> QED BY <1>1, SMT

\* A sound file begins with a head of eight bytes, and the samples follow.
LEMMA RsoLayout ==
  ASSUME NEW rate \in RateMin .. RateMax, NEW data, data \in Seq(0 .. (Base - 1)),
         NEW s, s = rso_encode(rate, data)
  PROVE  /\ s[1] = 1 /\ s[2] = 0
         /\ s[3] = High(Len(data)) /\ s[4] = Len(data) % Base
         /\ s[5] = High(rate) /\ s[6] = rate % Base
         /\ Len(s) = 8 + Len(data)
         /\ \A i \in 1 .. Len(data) : s[8 + i] = data[i]
<1>1. ~ (rate > RateMax \/ rate < RateMin) BY FormatsAssumption, SMT
<1>2. High(1) = 0 /\ 1 % Base = 1 BY HighZero
<1> DEFINE head == <<1, 0, High(Len(data)), Len(data) % Base, High(rate), rate % Base,
                     Unset, Unset>>
<1>3. s = head \o data
  BY <1>1, <1>2, SMTT(30) DEF rso_encode, LITTLEENDIAN_SET_WORD, BIGENDIAN_SET_WORD
<1>4. Len(head) = 8 OBVIOUS
<1> QED BY <1>3, <1>4, SMTT(30)

\* A sound that a brick can play comes back from rso_encode and rso_decode
\* (rso.c:43, 65) with its rate and its samples when there are fewer than a
\* word can count; of a longer one only as many as the length modulo a word.
THEOREM RsoKept ==
  ASSUME NEW rate \in RateMin .. RateMax, NEW data, data \in Seq(0 .. (Base - 1))
  PROVE  LET sound == rso_decode(rso_encode(rate, data))
         IN /\ sound.rate = rate
            /\ sound.data = [i \in 1 .. (Len(data) % Word) |-> data[i]]
            /\ Len(data) < Word => sound.data = data
<1> DEFINE s == rso_encode(rate, data)
           n == Len(data)
<1>1. /\ s[1] = 1 /\ s[2] = 0
      /\ s[3] = High(n) /\ s[4] = n % Base
      /\ s[5] = High(rate) /\ s[6] = rate % Base
      /\ Len(s) = 8 + n
      /\ \A i \in 1 .. n : s[8 + i] = data[i]
  BY RsoLayout
<1> HIDE DEF s
<1>2. n \in Nat /\ rate \in Nat /\ rate \in 0 .. (Word - 1)
  <2>1. n \in Nat OBVIOUS
  <2>2. Word \in Nat BY BaseIs, SMT DEF Word
  <2> QED BY <2>1, <2>2, FormatsAssumption, SMT
<1>3. High(n) * Base + (n % Base) = n % Word BY <1>2, Split
<1>4. High(rate) * Base + (rate % Base) = rate
  BY <1>2, Split, WordSmall, Zenon
<1>5. LITTLEENDIAN_GET_WORD(s, 1) = 1
  BY <1>1, BaseIs, SMT DEF LITTLEENDIAN_GET_WORD
<1>6. BIGENDIAN_GET_WORD(s, 3) = n % Word BY <1>1, <1>3, SMT DEF BIGENDIAN_GET_WORD
<1>7. BIGENDIAN_GET_WORD(s, 5) = rate BY <1>1, <1>4, SMT DEF BIGENDIAN_GET_WORD
<1>8. n % Word \in 0 .. n
  <2>1. Word \in Nat \ {0} BY BaseIs, SMT DEF Word
  <2> QED BY <1>2, <2>1, SMT
<1>9. rso_decode(s) = [rate |-> rate,
                       data |-> [i \in 1 .. (n % Word) |-> At(s, RsoHead + i)]]
  BY <1>5, <1>6, <1>7 DEF rso_decode
<1>10. ASSUME NEW i \in 1 .. (n % Word) PROVE At(s, RsoHead + i) = data[i]
  BY <1>1, <1>2, <1>8, SMT DEF At, RsoHead
<1>11. rso_decode(s).data = [i \in 1 .. (n % Word) |-> data[i]] BY <1>9, <1>10
<1>12. n < Word => [i \in 1 .. (n % Word) |-> data[i]] = data
  <2>1. n < Word => n % Word = n
    <3>1. Word \in Nat BY BaseIs, SMT DEF Word
    <3> QED BY <1>2, <3>1, WordSmall, SMT
  <2> QED BY <2>1
<1> QED BY <1>9, <1>11, <1>12 DEF s

\* What cal_decode (cal.c:75) makes of what cal_encode wrote: the macro takes
\* words for bytes, so the minimum has the maximum above it, and the maximum
\* a word that is behind the structure.
THEOREM CalibrationMixed ==
  ASSUME NEW low \in 0 .. (Word - 1), NEW high \in 0 .. (Word - 1), NEW behind \in Nat
  PROVE  cal_decode(cal_encode(low, high), behind)
           = [min |-> high * Base + low, max |-> behind * Base + high]
<1> DEFINE s == cal_encode(low, high)
<1>1. Word \in Nat BY BaseIs, SMT DEF Word
<1>2. low \in Nat /\ high \in Nat BY <1>1, SMT
<1>3. ASSUME NEW a, NEW b, NEW c, NEW d, NEW t, t = <<a, b>> \o <<c, d>>
      PROVE  t[1] = a /\ t[2] = b /\ t[3] = c /\ t[4] = d
  BY <1>3, SMTT(30)
<1>4. s[1] = low % Base /\ s[2] = High(low) /\ s[3] = high % Base /\ s[4] = High(high)
  <2>1. s = <<low % Base, High(low)>> \o <<high % Base, High(high)>>
    BY DEF cal_encode, LITTLEENDIAN_SET_WORD
  <2> HIDE DEF s
  <2> QED BY <1>3, <2>1
<1> HIDE DEF s
<1>5. High(low) * Base + (low % Base) = low BY <1>2, Split, WordSmall, Zenon
<1>6. High(high) * Base + (high % Base) = high BY <1>2, Split, WordSmall, Zenon
<1>7. LITTLEENDIAN_GET_WORD(s, 1) = low BY <1>4, <1>5, SMT DEF LITTLEENDIAN_GET_WORD
<1>8. LITTLEENDIAN_GET_WORD(s, 3) = high BY <1>4, <1>6, SMT DEF LITTLEENDIAN_GET_WORD
<1> QED BY <1>7, <1>8 DEF cal_decode, s

\* A reading that failed is -1; cal_encode (cal.c:63) stores it as the largest
\* byte and not as the largest word, so it looks like a value of a sensor.
THEOREM FailureLooksValid ==
  ASSUME NEW high \in Int
  PROVE  cal_encode(-1, high) = <<Base - 1, 0>> \o LITTLEENDIAN_SET_WORD(high)
<1>1. (-1) % Base = Base - 1 BY BaseIs, SMT
<1>2. High(-1) = 0
  <2>1. (-(-1)) \div Base = 0 BY BaseIs, SMT
  <2>2. (-0) % Base = 0 BY BaseIs, SMT
  <2> QED BY <2>1, <2>2, SMT DEF High
<1> QED BY <1>1, <1>2 DEF cal_encode, LITTLEENDIAN_SET_WORD

\* rmd_decode (rmd.c:76) finds no note in any melody that rmd_encode made: it
\* takes the length for a part of the format.
THEOREM MelodyLost ==
  ASSUME NEW notes \in Nat, NEW src, src \in Seq(0 .. (Base - 1))
  PROVE  rmd_decode(rmd_encode(notes, src)) = 0
<1> DEFINE s == rmd_encode(notes, src)
           format == LITTLEENDIAN_GET_WORD(s, 1)
           datalen == LITTLEENDIAN_GET_WORD(s, 3)
<1>1. High(6) = 0 /\ 6 % Base = 6 BY HighZero
<1>2. 4 * notes \in Nat BY SMT
<1>3. High(4 * notes) \in 0 .. (Base - 1) /\ (4 * notes) % Base \in 0 .. (Base - 1)
  BY <1>2, Split
<1> DEFINE head == <<6, 0, High(4 * notes), (4 * notes) % Base, 0, 0, 0, 0>>
<1>4. s = head \o src
  BY <1>1, SMTT(30) DEF rmd_encode, LITTLEENDIAN_SET_WORD, BIGENDIAN_SET_WORD
<1>5. s[1] = 6 /\ s[2] = 0 /\ s[3] = High(4 * notes) /\ s[4] = (4 * notes) % Base
  BY <1>4, SMTT(30)
<1> HIDE DEF s
<1>6. format = 6 BY <1>5, BaseIs, SMT DEF LITTLEENDIAN_GET_WORD
<1>7. datalen \in Nat
  <2>1. datalen = ((4 * notes) % Base) * Base + High(4 * notes)
    BY <1>5, SMT DEF LITTLEENDIAN_GET_WORD
  <2>2. (4 * notes) % Base \in Nat /\ High(4 * notes) \in Nat /\ Base \in Nat
    BY <1>3, BaseIs, SMT
  <2> QED BY <2>1, <2>2, SMT
<1> HIDE DEF format, datalen
<1>8. datalen * Base + format = 6 => datalen = 0 BY <1>6, <1>7, BaseIs, SMT
<1>9. datalen = 0 => datalen \div 4 = 0 BY SMT
<1> QED BY <1>8, <1>9, Zenon DEF rmd_decode, format, datalen, s

\* The settings byte (nvconfig.c:26, 36) gives back both fields of three bits.
THEOREM SettingsKept ==
  ASSUME NEW sleep \in 0 .. 7, NEW volume \in 0 .. 7
  PROVE  nvconfig_get(nvconfig_set(sleep, volume)) = [sleep |-> sleep, volume |-> volume]
BY SMT DEF nvconfig_get, nvconfig_set

-----------------------------------------------------------------------------
(* Sounds.                                                                 *)

\* A quotient and a remainder are unique.
Divided(v, n, q, r) ==
  v \in Int /\ n \in Nat \ {0} /\ q \in Int /\ r \in 0 .. (n - 1) /\ v = q * n + r
LEMMA Division ==
  ASSUME NEW n, NEW q, NEW r, NEW v, Divided(v, n, q, r)
  PROVE  v \div n = q /\ v % n = r
<1>1. q * n \in Int BY SMT DEF Divided
<1> QED BY <1>1, SMT DEF Divided

\* The remainder of a natural number is below the divisor and the number.
LEMMA Remainder ==
  ASSUME NEW v \in Nat, NEW n \in Nat \ {0}
  PROVE  v % n \in 0 .. (n - 1) /\ v % n \in Nat /\ v % n <= v
<1>1. v = n * (v \div n) + (v % n) /\ v % n \in 0 .. (n - 1) /\ v \div n \in Nat BY SMT
<1>2. n * (v \div n) >= 0 BY <1>1, SMT
<1>3. n * (v \div n) \in Int BY <1>1, SMT
<1> QED BY <1>1, <1>2, <1>3, SMT

\* A word is twice half a word, which is half a byte's values times all of them.
LEMMA HalfWord ==
  LET h == Base \div 2
  IN /\ h \in Nat \ {0} /\ Base = 2 * h /\ Word \div 2 = h * Base /\ Word = 2 * (h * Base)
     /\ h * Base \in Nat
<1> DEFINE h == Base \div 2
<1>1. h \in Nat \ {0} /\ Base = 2 * h BY BaseIs, SMT
<1> HIDE DEF h
<1>2. h * Base \in Nat BY <1>1, BaseIs, SMT
<1>3. Word = 2 * (h * Base)
  <2>1. (2 * h) * Base = 2 * (h * Base) BY <1>1, BaseIs, SMT
  <2> QED BY <1>1, <2>1 DEF Word
<1>4. Word \div 2 = h * Base BY <1>2, <1>3, SMT
<1> QED BY <1>1, <1>2, <1>3, <1>4 DEF h

\* A sample of two bytes becomes one byte that says the same level.
LEMMA SampleByte ==
  ASSUME NEW v \in 0 .. (Word - 1)
  PROVE  LET byte == (v \div Base - Base \div 2) % Base
         IN byte \in 0 .. (Base - 1) /\ byte - Base \div 2 = Signed(v) \div Base
<1> DEFINE b == Base
           h == Base \div 2
           q == v \div b
           r == v % b
<1>1. b \in Nat /\ b > 8 /\ b \in Nat \ {0} /\ h \in Nat \ {0} /\ b = 2 * h
  BY BaseIs, SMT
<1>2. Word = b * b /\ Word \div 2 = h * b /\ h * b \in Nat BY HalfWord DEF Word
<1>3. v \in Nat /\ v < b * b
  <2>1. b * b \in Nat BY <1>1, SMT
  <2> QED BY <1>2, <2>1, SMT
<1> HIDE DEF b, h
<1>4. q \in Nat /\ r \in 0 .. (b - 1) /\ v = q * b + r BY <1>1, <1>3, SMT
<1> HIDE DEF q, r
<1>5. q < b
  <2>1. ASSUME q >= b PROVE FALSE
    <3>1. q * b >= b * b BY <1>1, <1>4, <2>1, SMT
    <3>2. q * b \in Nat /\ b * b \in Nat BY <1>1, <1>4, SMT
    <3> QED BY <1>3, <1>4, <3>1, <3>2, SMT
  <2> QED BY <1>1, <1>4, <2>1, SMT
<1>6. CASE q < h
  <2>1. (q - h) % b = q + h
    <3>1. q - h = (-1) * b + (q + h) BY <1>1, <1>4, SMT
    <3>2. q + h \in 0 .. (b - 1) BY <1>1, <1>4, <1>6, SMT
    <3>3. Divided(q - h, b, -1, q + h) BY <1>1, <1>4, <3>1, <3>2, SMT DEF Divided
    <3> QED BY <3>3, Division
  <2>2. v < h * b
    <3>1. (q + 1) * b <= h * b BY <1>1, <1>4, <1>6, SMT
    <3>2. (q + 1) * b = q * b + b BY <1>1, <1>4, SMT
    <3>3. q * b \in Nat BY <1>1, <1>4, SMT
    <3> QED BY <1>1, <1>2, <1>4, <3>1, <3>2, <3>3, SMT
  <2>3. Signed(v) = v BY <1>2, <2>2 DEF Signed
  <2> QED BY <1>1, <1>4, <1>5, <1>6, <2>1, <2>3, SMT DEF q, b, h
<1>7. CASE q >= h
  <2>1. (q - h) % b = q - h
    <3>1. q - h = 0 * b + (q - h) BY <1>1, <1>4, SMT
    <3>2. q - h \in 0 .. (b - 1) BY <1>1, <1>4, <1>5, <1>7, SMT
    <3>3. Divided(q - h, b, 0, q - h) BY <1>1, <1>4, <3>1, <3>2, SMT DEF Divided
    <3> QED BY <3>3, Division
  <2>2. ~ (v < h * b)
    <3>1. q * b >= h * b BY <1>1, <1>4, <1>7, SMT
    <3>2. q * b \in Nat BY <1>1, <1>4, SMT
    <3> QED BY <1>1, <1>2, <1>4, <3>1, <3>2, SMT
  <2>3. Signed(v) = (q - b) * b + r
    <3>1. (q - b) * b = q * b - b * b BY <1>1, <1>4, SMT
    <3>2. q * b \in Nat /\ b * b \in Nat BY <1>1, <1>4, SMT
    <3>3. Signed(v) = v - b * b BY <1>2, <2>2 DEF Signed
    <3> QED BY <1>4, <3>1, <3>2, <3>3, SMT
  <2>4. Signed(v) \div b = q - b
    <3>1. (q - b) * b \in Int BY <1>1, <1>4, SMT
    <3>2. Divided(Signed(v), b, q - b, r) BY <1>1, <1>4, <2>3, <3>1, SMT DEF Divided
    <3> QED BY <3>2, Division
  <2> QED BY <1>1, <1>4, <1>5, <1>7, <2>1, <2>4, SMT DEF q, b, h
<1> QED BY <1>1, <1>4, <1>6, <1>7, SMT

\* A byte becomes a sample that says the same level.
LEMMA ByteSample ==
  ASSUME NEW d \in 0 .. (Base - 1)
  PROVE  LET sample == ((d + Base \div 2) * Base) % Word
         IN sample \in 0 .. (Word - 1) /\ Signed(sample) \div Base = d - Base \div 2
<1> DEFINE b == Base
           h == Base \div 2
           w == ((d + h) * b) % Word
<1>1. b \in Nat /\ b > 8 /\ b \in Nat \ {0} /\ h \in Nat \ {0} /\ b = 2 * h
  BY BaseIs, SMT
<1>2. /\ Word = 2 * (h * b) /\ Word \div 2 = h * b /\ h * b \in Nat
      /\ Word \in Nat \ {0}
  <2>1. h * b > 0 BY <1>1, SMT
  <2> QED BY <2>1, HalfWord, SMT
<1>3. d \in Nat /\ d < b BY <1>1, SMT
<1> HIDE DEF b, h
<1>4. (d + h) * b = d * b + h * b /\ d * b \in Nat BY <1>1, <1>3, SMT
<1>5. CASE d < h
  <2>1. d * b + b <= h * b
    <3>1. (d + 1) * b <= h * b BY <1>1, <1>3, <1>5, SMT
    <3> QED BY <1>1, <1>3, <3>1, SMT
  <2>2. d * b + h * b \in 0 .. (Word - 1) BY <1>1, <1>2, <1>4, <2>1, SMT
  <2>3. w = d * b + h * b
    <3>1. (d + h) * b = 0 * Word + (d * b + h * b) BY <1>2, <1>4, SMT
    <3>2. Divided((d + h) * b, Word, 0, d * b + h * b)
      BY <1>2, <1>4, <2>2, <3>1, SMT DEF Divided
    <3> QED BY <3>2, Division
  <2>4. Signed(w) = (d - h) * b + 0
    <3>1. ~ (w < Word \div 2) BY <1>2, <1>4, <2>3, SMT
    <3>2. Signed(w) = w - Word BY <3>1 DEF Signed
    <3>3. (d - h) * b = d * b - h * b BY <1>1, <1>3, SMT
    <3> QED BY <1>2, <1>4, <2>3, <3>2, <3>3, SMT
  <2>5. Signed(w) \div b = d - h
    <3>1. (d - h) * b \in Int BY <1>1, <1>3, SMT
    <3>2. Divided(Signed(w), b, d - h, 0) BY <1>1, <1>3, <2>4, <3>1, SMT DEF Divided
    <3> QED BY <3>2, Division
  <2> QED BY <2>2, <2>3, <2>5 DEF b, h
<1>6. CASE d >= h
  <2>1. d * b >= h * b BY <1>1, <1>3, <1>6, SMT
  <2>2. d * b + b <= 2 * (h * b)
    <3>1. (d + 1) * b <= (2 * h) * b BY <1>1, <1>3, SMT
    <3>2. (2 * h) * b = 2 * (h * b) BY <1>1, SMT
    <3> QED BY <1>1, <1>3, <3>1, <3>2, SMT
  <2>3. d * b - h * b \in 0 .. (h * b - 1) BY <1>1, <1>2, <1>4, <2>1, <2>2, SMT
  <2>4. w = d * b - h * b
    <3>1. (d + h) * b = 1 * Word + (d * b - h * b) BY <1>2, <1>4, SMT
    <3>2. d * b - h * b \in 0 .. (Word - 1) BY <1>2, <2>3, SMT
    <3>3. Divided((d + h) * b, Word, 1, d * b - h * b)
      BY <1>2, <1>4, <3>1, <3>2, SMT DEF Divided
    <3> QED BY <3>3, Division
  <2>5. Signed(w) = (d - h) * b + 0
    <3>1. w < Word \div 2 BY <1>2, <2>3, <2>4, SMT
    <3>2. Signed(w) = w BY <3>1 DEF Signed
    <3>3. (d - h) * b = d * b - h * b BY <1>1, <1>3, SMT
    <3> QED BY <1>2, <1>4, <2>4, <3>2, <3>3, SMT
  <2>6. Signed(w) \div b = d - h
    <3>1. (d - h) * b \in Int BY <1>1, <1>3, SMT
    <3>2. Divided(Signed(w), b, d - h, 0) BY <1>1, <1>3, <2>5, <3>1, SMT DEF Divided
    <3> QED BY <3>2, Division
  <2>7. w \in 0 .. (Word - 1) BY <1>2, <2>3, <2>4, SMT
  <2> QED BY <2>6, <2>7 DEF b, h
<1> QED BY <1>1, <1>3, <1>5, <1>6, SMT

\* A function on the numbers up to n is a sequence.
LEMMA SeqOf ==
  ASSUME NEW n \in Nat, NEW S, NEW f, f \in [1 .. n -> S]
  PROVE  f \in Seq(S) /\ Len(f) = n
OBVIOUS

\* The bytes of words, low byte first.
LEMMA WordsIs ==
  ASSUME NEW s, s \in Seq(0 .. (Word - 1))
  PROVE  /\ Words(s) \in Seq(0 .. (Base - 1)) /\ Len(Words(s)) = 2 * Len(s)
         /\ \A k \in 1 .. Len(s) : /\ Words(s)[2 * k - 1] = s[k] % Base
                                   /\ Words(s)[2 * k] = High(s[k])
                                   /\ LITTLEENDIAN_GET_WORD(Words(s), 2 * k - 1) = s[k]
<1> DEFINE n == Len(s)
           w == Words(s)
<1>1. n \in Nat OBVIOUS
<1>2. ASSUME NEW k \in 1 .. n
      PROVE  /\ s[k] \in Nat /\ s[k] % Base \in 0 .. (Base - 1) /\ High(s[k]) \in 0 .. (Base - 1)
             /\ High(s[k]) * Base + (s[k] % Base) = s[k]
  <2>1. s[k] \in 0 .. (Word - 1) BY <1>2, ElementOfSeq
  <2>2. s[k] \in Nat BY <2>1, SMT
  <2> QED BY <2>1, <2>2, Split, WordSmall, Zenon
<1>3. w = [i \in 1 .. (2 * n) |->
             IF i % 2 = 1 THEN s[(i + 1) \div 2] % Base ELSE High(s[(i + 1) \div 2])]
  BY DEF Words, LITTLEENDIAN_SET_WORD
<1>4. ASSUME NEW i \in 1 .. (2 * n) PROVE w[i] \in 0 .. (Base - 1)
  <2>1. (i + 1) \div 2 \in 1 .. n BY <1>1, SMT
  <2> QED BY <1>2, <1>3, <2>1
<1>5. ASSUME NEW k \in 1 .. n
      PROVE  w[2 * k - 1] = s[k] % Base /\ w[2 * k] = High(s[k])
  <2>1. /\ 2 * k - 1 \in 1 .. (2 * n) /\ (2 * k - 1) % 2 = 1 /\ ((2 * k - 1) + 1) \div 2 = k
        /\ 2 * k \in 1 .. (2 * n) /\ (2 * k) % 2 # 1 /\ (2 * k + 1) \div 2 = k
    BY <1>1, SMT
  <2> QED BY <1>3, <2>1
<1> HIDE DEF w
<1>6. w \in Seq(0 .. (Base - 1)) /\ Len(w) = 2 * n
  <2>1. 2 * n \in Nat BY <1>1, SMT
  <2>2. w \in [1 .. (2 * n) -> 0 .. (Base - 1)] BY <1>3, <1>4
  <2> QED BY <2>1, <2>2, SeqOf
<1>7. ASSUME NEW k \in 1 .. n PROVE LITTLEENDIAN_GET_WORD(w, 2 * k - 1) = s[k]
  <2>1. (2 * k - 1) + 1 = 2 * k BY <1>1, SMT
  <2> QED BY <1>2, <1>5, <2>1 DEF LITTLEENDIAN_GET_WORD
<1> QED BY <1>5, <1>6, <1>7 DEF w

\* No sample is read after a byte was written over it: what comes out is made
\* of the samples of the first channel.
LEMMA InPlaceIs ==
  ASSUME NEW samples, samples \in Seq(0 .. (Word - 1)), NEW channels \in Nat \ {0},
         NEW frames \in Nat, frames * channels <= Len(samples)
  PROVE  InPlace(frames, channels, samples)
           = [i \in 1 .. frames |->
                (samples[(i - 1) * channels + 1] \div Base - Base \div 2) % Base]
<1> DEFINE size == 2 * Len(samples)
           w == Words(samples)
           byte(i) == (samples[(i - 1) * channels + 1] \div Base - Base \div 2) % Base
           next(m, i) == [m EXCEPT ![i] = (LITTLEENDIAN_GET_WORD(m, 2 * (i - 1) * channels + 1)
                                             \div Base - Base \div 2) % Base]
           Is(g) == g = [i \in 0 .. frames |-> IF i = 0 THEN w ELSE next(g[i - 1], i)]
           after == CHOOSE g : Is(g)
           A(i) == [j \in 1 .. size |-> IF j <= i THEN byte(j) ELSE w[j]]
<1>1. /\ w \in Seq(0 .. (Base - 1)) /\ Len(w) = size /\ size \in Nat
      /\ \A k \in 1 .. Len(samples) : LITTLEENDIAN_GET_WORD(w, 2 * k - 1) = samples[k]
  BY WordsIs
<1>2. ASSUME NEW i \in 1 .. frames
      PROVE  LET k == (i - 1) * channels + 1
             IN /\ k \in 1 .. Len(samples) /\ 2 * (i - 1) * channels + 1 = 2 * k - 1
                /\ 2 * k - 1 \in 1 .. size /\ 2 * k \in 1 .. size /\ i <= 2 * k - 1
                /\ i <= size
  <2> DEFINE p == (i - 1) * channels
  <2>1. p \in Nat /\ p >= i - 1
    <3>1. (i - 1) * channels >= (i - 1) * 1 BY SMT
    <3> QED BY <3>1, SMT
  <2>2. p + channels <= Len(samples)
    <3>1. i * channels <= frames * channels BY SMT
    <3>2. i * channels = p + channels BY SMT
    <3>3. frames * channels \in Nat /\ i * channels \in Nat BY SMT
    <3> QED BY <3>1, <3>2, <3>3, SMT
  <2>3. 2 * (i - 1) * channels = 2 * p BY SMT
  <2> HIDE DEF p
  <2>4. p + 1 \in 1 .. Len(samples) BY <2>1, <2>2, SMT
  <2> QED BY <2>1, <2>3, <2>4, SMT DEF p
<1> HIDE DEF size, w
<1>3. ASSUME NEW i \in 1 .. frames PROVE next(A(i - 1), i) = A(i)
  <2> DEFINE k == (i - 1) * channels + 1
             m == A(i - 1)
  <2>1. /\ k \in 1 .. Len(samples) /\ 2 * (i - 1) * channels + 1 = 2 * k - 1
        /\ 2 * k - 1 \in 1 .. size /\ 2 * k \in 1 .. size /\ i <= 2 * k - 1 /\ i <= size
    BY <1>2
  <2>2. byte(i) = (samples[k] \div Base - Base \div 2) % Base OBVIOUS
  <2> HIDE DEF k, byte
  <2>3. m[2 * k - 1] = w[2 * k - 1] /\ m[2 * k] = w[2 * k] BY <2>1, SMT
  <2>4. LITTLEENDIAN_GET_WORD(m, 2 * k - 1) = samples[k]
    <3>1. (2 * k - 1) + 1 = 2 * k BY <2>1, SMT
    <3>2. LITTLEENDIAN_GET_WORD(w, 2 * k - 1) = samples[k] BY <1>1, <2>1
    <3> HIDE DEF m
    <3> QED BY <2>3, <3>1, <3>2 DEF LITTLEENDIAN_GET_WORD
  <2>5. next(m, i) = [m EXCEPT ![i] = byte(i)]
    <3> HIDE DEF m
    <3> QED BY <2>1, <2>2, <2>4
  <2>6. i \in 1 .. size BY <1>1, <2>1, SMT
  <2>7. [m EXCEPT ![i] = byte(i)] = A(i)
    <3> DEFINE a == [m EXCEPT ![i] = byte(i)]
    <3>1. a = [j \in 1 .. size |-> IF j = i THEN byte(i) ELSE m[j]] OBVIOUS
    <3>2. ASSUME NEW j \in 1 .. size
          PROVE  (IF j = i THEN byte(i) ELSE m[j]) = IF j <= i THEN byte(j) ELSE w[j]
      <4>1. m[j] = IF j <= i - 1 THEN byte(j) ELSE w[j] OBVIOUS
      <4>2. j <= i - 1 <=> j <= i /\ j # i BY <1>1, <2>6, SMT
      <4> HIDE DEF m
      <4>3. i <= i BY <2>6, SMT
      <4> QED BY <4>1, <4>2, <4>3, Zenon
    <3> QED BY <3>1, <3>2
  <2> QED BY <2>5, <2>7
<1>4. A(0) = w
  <2>1. \A j \in 1 .. size : A(0)[j] = w[j] BY <1>1, SMT
  <2>2. w = [j \in 1 .. size |-> w[j]] BY <1>1
  <2> QED BY <2>1, <2>2
<1> HIDE DEF A, next
<1>5. \E g : Is(g)
  <2> DEFINE g == [i \in 0 .. frames |-> A(i)]
  <2>1. ASSUME NEW i \in 0 .. frames PROVE g[i] = IF i = 0 THEN w ELSE next(g[i - 1], i)
    <3>1. CASE i = 0 BY <1>4, <3>1
    <3>2. CASE i # 0
      <4>1. i \in 1 .. frames /\ i - 1 \in 0 .. frames BY <3>2, SMT
      <4> QED BY <1>3, <3>2, <4>1
    <3> QED BY <3>1, <3>2
  <2>2. g = [i \in 0 .. frames |-> IF i = 0 THEN w ELSE next(g[i - 1], i)] BY <2>1
  <2> HIDE DEF g
  <2> QED BY <2>2
<1>6. Is(after) BY <1>5
<1>7. InPlace(frames, channels, samples) = SubSeq(after[frames], 1, frames)
  BY DEF InPlace, next, w
<1> HIDE DEF after
<1>8. after[frames] = A(frames)
  <2> DEFINE P == {i \in Nat : i <= frames => after[i] = A(i)}
  <2>1. 0 \in P BY <1>4, <1>6, SMT
  <2>2. ASSUME NEW i \in Nat, i \in P PROVE i + 1 \in P
    <3>1. SUFFICES ASSUME i + 1 <= frames PROVE after[i + 1] = A(i + 1) BY SMT
    <3>2. i + 1 \in 1 .. frames /\ i + 1 \in 0 .. frames /\ (i + 1) - 1 = i /\ i <= frames
          /\ i + 1 # 0
      BY <3>1, SMT
    <3>3. after[i] = A(i) BY <2>2, <3>2
    <3>4. after[i + 1] = next(after[i], i + 1) BY <1>6, <3>2
    <3>5. next(A(i), i + 1) = A(i + 1) BY <1>3, <3>2
    <3> QED BY <3>3, <3>4, <3>5
  <2>3. Nat \subseteq P
    <3> HIDE DEF P
    <3> QED BY <2>1, <2>2, Induction
  <2> QED BY <2>3
<1>9. frames <= size
  <2>1. CASE frames = 0 BY <1>1, <2>1, SMT
  <2>2. CASE frames # 0
    <3>1. frames \in 1 .. frames BY <2>2, SMT
    <3> QED BY <1>2, <3>1
  <2> QED BY <2>1, <2>2
<1>10. SubSeq(A(frames), 1, frames) = [i \in 1 .. frames |-> byte(i)]
  <2> HIDE DEF byte
  <2>1. A(frames) = [j \in 1 .. size |-> IF j <= frames THEN byte(j) ELSE w[j]] BY DEF A
  <2>2. SubSeq(A(frames), 1, frames) = [i \in 1 .. frames |-> A(frames)[i]]
    <3> DEFINE S == {A(frames)[j] : j \in 1 .. size}
    <3>1. A(frames) \in [1 .. size -> S] BY <2>1
    <3> HIDE DEF S
    <3>2. A(frames) \in Seq(S) /\ Len(A(frames)) = size BY <1>1, <3>1, SeqOf
    <3> QED BY <1>1, <1>9, <3>2, SMT
  <2> QED BY <1>1, <1>9, <2>1, <2>2, SMT
<1> QED BY <1>7, <1>8, <1>10

\* A sound whose rate and samples a program can read.
GoodRso(s) ==
  LET sound == rso_decode(s)
  IN /\ Starts(s, Magic["rso"])
     /\ sound.rate \in Nat /\ sound.data \in Seq(0 .. (Base - 1))

\* A sound of the PC or of a brick that can be read.
GoodSound(file) ==
  \/ file.form = "wav" /\ file.head \in Nat \X (Nat \ {0}) /\ file.data \in Seq(0 .. (Word - 1))
  \/ file.form = "bytes" /\ GoodRso(file.data)

\* What a sequence begins with, element by element.
LEMMA StartsIs ==
  ASSUME NEW S, NEW s, Len(s) \in Nat, NEW magic \in Seq(S),
         Len(s) >= Len(magic), \A i \in 1 .. Len(magic) : s[i] = magic[i]
  PROVE  Starts(s, magic)
<1> DEFINE n == Len(magic)
           t == SubSeq(s, 1, n)
<1>1. n \in Nat /\ magic \in [1 .. n -> S] /\ \A i \in 1 .. n : magic[i] \in S
  BY LenProperties, ElementOfSeq
<1>2. t \in Seq(S) /\ Len(t) = n /\ \A i \in 1 .. n : t[i] = s[i]
  <2>1. \A i \in 1 .. n : s[i] \in S BY <1>1
  <2> HIDE DEF n
  <2>2. /\ SubSeq(s, 1, n) \in Seq(S)
        /\ Len(SubSeq(s, 1, n)) = IF 1 <= n THEN n - 1 + 1 ELSE 0
        /\ \A i \in 1 .. n - 1 + 1 : SubSeq(s, 1, n)[i] = s[1 + i - 1]
    BY <1>1, <2>1, SubSeqProperties
  <2>3. n - 1 + 1 = n /\ \A i \in 1 .. n : 1 + i - 1 = i BY <1>1, SMT
  <2> QED BY <1>1, <2>2, <2>3, SMT
<1> HIDE DEF t
<1>3. t = magic
  <2>1. t \in [1 .. n -> S] BY <1>2, LenProperties
  <2> QED BY <1>1, <1>2, <2>1
<1> QED BY <1>3 DEF Starts, t

\* The first elements of a sequence are elements of its beginning.
LEMMA StartIs ==
  ASSUME NEW s, NEW n \in Nat
  PROVE  \A i \in 1 .. n : SubSeq(s, 1, n)[i] = s[i]
<1> DEFINE S == {s[i] : i \in 1 .. n}
<1>1. \A i \in 1 .. n : s[i] \in S OBVIOUS
<1> HIDE DEF S
<1>2. \A i \in 1 .. n - 1 + 1 : SubSeq(s, 1, n)[i] = s[1 + i - 1]
  BY <1>1, SubSeqProperties
<1>3. n - 1 + 1 = n /\ \A i \in 1 .. n : 1 + i - 1 = i BY SMT
<1> QED BY <1>2, <1>3

\* What begins with the mark of a sound file, or with that of a picture file.
LEMMA RsoStarts ==
  ASSUME NEW s, Starts(s, Magic["rso"])
  PROVE  s[1] = 1 /\ s[2] = 0 /\ LITTLEENDIAN_GET_WORD(s, 1) = 1
<1>1. Magic["rso"] = <<1, 0>> BY DEF Magic
<1>2. SubSeq(s, 1, 2) = <<1, 0>> BY <1>1 DEF Starts
<1> DEFINE t == SubSeq(s, 1, 2)
<1>3. t[1] = s[1] /\ t[2] = s[2]
  <2>1. 2 \in Nat /\ 1 \in 1 .. 2 /\ 2 \in 1 .. 2 BY SMT
  <2> QED BY <2>1, StartIs, Zenon
<1> HIDE DEF t
<1>4. t = <<1, 0>> BY <1>2 DEF t
<1>5. s[1] = 1 /\ s[2] = 0 BY <1>3, <1>4, SMT
<1> QED BY <1>5, BaseIs, SMT DEF LITTLEENDIAN_GET_WORD

\* The same of a picture of a brick.
LEMMA RicStarts ==
  ASSUME NEW s, Starts(s, Magic["ric"])
  PROVE  s[1] = 8 /\ s[2] = 0 /\ LITTLEENDIAN_GET_WORD(s, 1) = 8
<1>1. Magic["ric"] = <<8, 0, 0, 0, 0, 0>> BY DEF Magic
<1>2. SubSeq(s, 1, 6) = <<8, 0, 0, 0, 0, 0>> BY <1>1 DEF Starts
<1> DEFINE t == SubSeq(s, 1, 6)
<1>3. t[1] = s[1] /\ t[2] = s[2]
  <2>1. 6 \in Nat /\ 1 \in 1 .. 6 /\ 2 \in 1 .. 6 BY SMT
  <2> QED BY <2>1, StartIs, Zenon
<1> HIDE DEF t
<1>4. t = <<8, 0, 0, 0, 0, 0>> BY <1>2 DEF t
<1>5. s[1] = 8 /\ s[2] = 0 BY <1>3, <1>4, SMT
<1> QED BY <1>5, BaseIs, SMT DEF LITTLEENDIAN_GET_WORD

\* A file is not a sound and a picture.
LEMMA Exclusive ==
  ASSUME NEW file, IsSound(file), IsPicture(file)
  PROVE  FALSE
<1>1. ASSUME Starts(file.data, Magic["rso"]), Starts(file.data, Magic["ric"]) PROVE FALSE
  <2>1. file.data[1] = 1 BY <1>1, RsoStarts
  <2>2. file.data[1] = 8 BY <1>1, RicStarts
  <2> QED BY <2>1, <2>2
<1> QED BY <1>1 DEF IsSound, IsPicture, Images

\* The levels of a sound are a sequence.
LEMMA LevelsSeq ==
  ASSUME NEW file, GoodSound(file)
  PROVE  \E S : Played(file).levels \in Seq(S)
<1>1. CASE file.form = "wav" /\ file.head \in Nat \X (Nat \ {0}) /\ file.data \in Seq(0 .. (Word - 1))
  <2> DEFINE n == Len(file.data) \div file.head[2]
             level(i) == Signed(file.data[(i - 1) * file.head[2] + 1]) \div Base
             S == {level(i) : i \in 1 .. n}
             f == [i \in 1 .. n |-> level(i)]
  <2>1. n \in Nat
    <3>1. Len(file.data) \in Nat /\ file.head[2] \in Nat \ {0} BY <1>1, LenProperties
    <3> QED BY <3>1, SMT
  <2>2. f \in [1 .. n -> S]
    <3> HIDE DEF level, n
    <3> QED OBVIOUS
  <2>3. Played(file).levels = f BY <1>1 DEF Played
  <2> HIDE DEF f, S, n
  <2> QED BY <2>1, <2>2, <2>3, SeqOf
<1>2. CASE file.form = "bytes" /\ GoodRso(file.data)
  <2> DEFINE data == rso_decode(file.data).data
             S == {data[i] - Base \div 2 : i \in DOMAIN data}
             f == [i \in DOMAIN data |-> data[i] - Base \div 2]
  <2>1. Len(data) \in Nat /\ DOMAIN data = 1 .. Len(data) BY <1>2, LenProperties DEF GoodRso
  <2>2. f \in [DOMAIN data -> S] OBVIOUS
  <2>3. Played(file).levels = f BY <1>2 DEF Played
  <2> HIDE DEF f, S, data
  <2> QED BY <2>1, <2>2, <2>3, SeqOf
<1> QED BY <1>1, <1>2 DEF GoodSound

\* Cutting twice is cutting once.
LEMMA FittingIs ==
  ASSUME NEW S, NEW s \in Seq(S)
  PROVE  /\ Fitting(s) \in Seq(S) /\ Len(Fitting(s)) = Len(s) % Word
         /\ Fitting(s) = [i \in 1 .. (Len(s) % Word) |-> s[i]]
         /\ Fitting(Fitting(s)) = Fitting(s)
<1> DEFINE n == Len(s)
           m == n % Word
           t == Fitting(s)
<1>1. Word \in Nat \ {0} BY BaseIs, SMT DEF Word
<1>2. n \in Nat /\ DOMAIN s = 1 .. n /\ \A i \in 1 .. n : s[i] \in S
  BY LenProperties, ElementOfSeq
<1>3. m \in Nat /\ m <= n /\ m \in 0 .. (Word - 1) BY <1>1, <1>2, SMT
<1>4. ASSUME NEW k, k \in Nat, NEW u, \A i \in 1 .. k : u[i] \in S
      PROVE  SubSeq(u, 1, k) = [i \in 1 .. k |-> u[i]]
  <2> DEFINE v == SubSeq(u, 1, k)
  <2>1. v \in Seq(S) /\ Len(v) = k
    <3>1. 1 \in Int /\ k \in Int /\ (IF 1 <= k THEN k - 1 + 1 ELSE 0) = k BY <1>4, SMT
    <3>2. SubSeq(u, 1, k) \in Seq(S) /\ Len(SubSeq(u, 1, k)) = IF 1 <= k THEN k - 1 + 1 ELSE 0
      BY <1>4, <3>1, SubSeqProperties
    <3> QED BY <3>1, <3>2
  <2>2. \A i \in 1 .. k : v[i] = u[i] BY <1>4, StartIs
  <2> HIDE DEF v
  <2>3. v \in [1 .. k -> S] BY <2>1, LenProperties
  <2>4. v = [i \in 1 .. k |-> u[i]] BY <2>2, <2>3
  <2> QED BY <2>4 DEF v
<1> HIDE DEF n, m
<1>5. t = [i \in 1 .. m |-> s[i]]
  <2>1. \A i \in 1 .. m : s[i] \in S BY <1>2, <1>3, SMT
  <2> QED BY <1>3, <1>4, <2>1 DEF Fitting, m, n
<1>6. t \in Seq(S) /\ Len(t) = m
  <2>1. t \in [1 .. m -> S] BY <1>2, <1>3, <1>5, SMT
  <2> HIDE DEF t
  <2> QED BY <1>3, <2>1, SeqOf
<1> HIDE DEF t
<1>7. Fitting(t) = t
  <2>1. Len(t) % Word = m BY <1>3, <1>6, WordSmall
  <2>2. \A i \in 1 .. m : t[i] \in S BY <1>6, ElementOfSeq
  <2>3. Fitting(t) = [i \in 1 .. m |-> t[i]] BY <1>3, <1>4, <2>1, <2>2 DEF Fitting
  <2> QED BY <1>5, <2>3
<1> QED BY <1>5, <1>6, <1>7 DEF t, m, n

\* The same as what is the same.
LEMMA SoundThrough ==
  ASSUME NEW file, NEW between, NEW original, GoodSound(original),
         SameSound(between, original), SameSound(file, between)
  PROVE  SameSound(file, original)
<1>1. PICK S : Played(original).levels \in Seq(S) BY LevelsSeq
<1>2. Fitting(Fitting(Played(original).levels)) = Fitting(Played(original).levels)
  BY <1>1, FittingIs
<1> QED BY <1>2 DEF SameSound

\* rsoc: a sound of the PC becomes a file that a brick can play and that says
\* the same.
LEMMA RsoOfWav ==
  ASSUME NEW rate \in RateMin .. RateMax, NEW channels \in Nat \ {0},
         NEW data, data \in Seq(0 .. (Word - 1)), NEW original,
         original.form = "wav", original.head[1] = rate, original.head[2] = channels,
         original.data = data, NEW file,
         file = File("bytes", <<>>,
                     rso_encode(rate, InPlace(Len(data) \div channels, channels, data)))
  PROVE  GoodSound(file) /\ IsSound(file) /\ SameSound(file, original)
<1> DEFINE n == Len(data)
           frames == n \div channels
           at(i) == (i - 1) * channels + 1
           byte(v) == (v \div Base - Base \div 2) % Base
           bytes == InPlace(frames, channels, data)
           s == rso_encode(rate, bytes)
           levels == [i \in 1 .. frames |-> Signed(data[at(i)]) \div Base]
<1>1. n \in Nat /\ \A k \in 1 .. n : data[k] \in 0 .. (Word - 1)
  BY LenProperties, ElementOfSeq
<1> HIDE DEF n
<1>2. frames \in Nat /\ frames * channels <= n
  <2>1. n = channels * frames + (n % channels) /\ n % channels \in 0 .. (channels - 1)
        /\ frames \in Nat
    BY <1>1, SMT
  <2>2. frames * channels = channels * frames /\ channels * frames \in Nat
    <3>1. frames \in Nat BY <2>1
    <3> QED BY <3>1, SMT
  <2> QED BY <1>1, <2>1, <2>2, SMT
<1> HIDE DEF frames
<1>3. ASSUME NEW i \in 1 .. frames PROVE at(i) \in 1 .. n
  <2> DEFINE p == (i - 1) * channels
  <2>1. p \in Nat BY <1>2, SMT
  <2>2. p + channels = i * channels BY <1>2, SMT
  <2>3. i * channels <= frames * channels BY <1>2, SMT
  <2>4. i * channels \in Nat /\ frames * channels \in Nat BY <1>2, SMT
  <2> HIDE DEF p
  <2>5. p + 1 \in 1 .. n BY <1>1, <1>2, <2>1, <2>2, <2>3, <2>4, SMT
  <2> QED BY <2>5 DEF p
<1>4. bytes = [i \in 1 .. frames |-> byte(data[at(i)])] BY <1>2, InPlaceIs DEF n
<1> HIDE DEF bytes
<1>5. ASSUME NEW i \in 1 .. frames
      PROVE  /\ bytes[i] = byte(data[at(i)]) /\ bytes[i] \in 0 .. (Base - 1)
             /\ bytes[i] - Base \div 2 = Signed(data[at(i)]) \div Base
  <2>1. data[at(i)] \in 0 .. (Word - 1) BY <1>1, <1>3
  <2>2. bytes[i] = byte(data[at(i)]) BY <1>4
  <2> QED BY <2>1, <2>2, SampleByte
<1> HIDE DEF at, byte
<1>6. bytes \in Seq(0 .. (Base - 1)) /\ Len(bytes) = frames
  <2>1. bytes \in [1 .. frames -> 0 .. (Base - 1)] BY <1>4, <1>5
  <2> QED BY <1>2, <2>1, SeqOf
<1>7. /\ rso_decode(s).rate = rate
      /\ rso_decode(s).data = [i \in 1 .. (frames % Word) |-> bytes[i]]
  BY <1>6, RsoKept
<1>8. frames % Word \in Nat /\ frames % Word <= frames
  <2>1. Word \in Nat \ {0} BY BaseIs, SMT DEF Word
  <2>2. frames \in Nat BY <1>2
  <2> QED BY <2>1, <2>2, Remainder
<1>9. Starts(s, Magic["rso"])
  <2>1. s[1] = 1 /\ s[2] = 0 /\ Len(s) = 8 + frames BY <1>6, RsoLayout
  <2> HIDE DEF s
  <2>2. <<1, 0>> \in Seq(Nat) /\ Len(<<1, 0>>) = 2 OBVIOUS
  <2>3. \A i \in 1 .. 2 : s[i] = <<1, 0>>[i] BY <2>1, SMT
  <2>4. Len(s) \in Nat /\ Len(s) >= 2 BY <1>2, <2>1, SMT
  <2>5. Starts(s, <<1, 0>>) BY <2>2, <2>3, <2>4, StartsIs
  <2> QED BY <2>5 DEF Magic
<1> HIDE DEF s
<1>10. rso_decode(s).data \in Seq(0 .. (Base - 1))
  <2>1. rso_decode(s).data \in [1 .. (frames % Word) -> 0 .. (Base - 1)]
    BY <1>2, <1>5, <1>7, <1>8, SMT
  <2> QED BY <1>8, <2>1, SeqOf
<1>11. rate \in Nat BY FormatsAssumption, SMT
<1>12. file.form = "bytes" /\ file.data = s BY DEF File, s, bytes, frames, n
<1>13. GoodSound(file) /\ IsSound(file)
  BY <1>7, <1>9, <1>10, <1>11, <1>12 DEF GoodSound, GoodRso, IsSound
<1>14. Played(original) = [rate |-> rate, levels |-> levels]
  BY DEF Played, levels, at, frames, n
<1>15. Played(file) = [rate |-> rate,
                       levels |-> [i \in 1 .. (frames % Word) |-> bytes[i] - Base \div 2]]
  <2>1. DOMAIN rso_decode(s).data = 1 .. (frames % Word) BY <1>7
  <2>2. Played(file) = [rate |-> rso_decode(s).rate,
                        levels |-> [i \in DOMAIN rso_decode(s).data |->
                                      rso_decode(s).data[i] - Base \div 2]]
    BY <1>12 DEF Played
  <2> QED BY <1>7, <2>1, <2>2
<1>16. Fitting(levels) = [i \in 1 .. (frames % Word) |-> levels[i]]
  <2> DEFINE S == {levels[i] : i \in 1 .. frames}
  <2>1. levels \in [1 .. frames -> S] OBVIOUS
  <2> HIDE DEF S, levels
  <2>2. levels \in Seq(S) /\ Len(levels) = frames BY <1>2, <2>1, SeqOf
  <2> QED BY <2>2, FittingIs
<1>17. \A i \in 1 .. (frames % Word) : levels[i] = bytes[i] - Base \div 2
  <2>1. 1 .. (frames % Word) \subseteq 1 .. frames BY <1>2, <1>8, SMT
  <2> QED BY <1>5, <2>1
<1>18. Played(file).levels = Fitting(levels)
  <2> DEFINE is == [i \in 1 .. (frames % Word) |-> bytes[i] - Base \div 2]
  <2>1. is = Fitting(levels)
    <3> HIDE DEF levels
    <3> QED BY <1>16, <1>17, Zenon
  <2>2. Played(file) = [rate |-> rate, levels |-> is] BY <1>15
  <2> HIDE DEF is, levels
  <2> QED BY <2>1, <2>2
<1> QED BY <1>13, <1>14, <1>15, <1>18 DEF SameSound

\* rsoc: a sound of a brick becomes one of the PC that says the same.
LEMMA WavOfRso ==
  ASSUME NEW original, original.form = "bytes", GoodRso(original.data), NEW file,
         LET sound == rso_decode(original.data)
         IN file = File("wav", <<sound.rate, 1>>,
                        [i \in 1 .. Len(sound.data) |->
                           ((sound.data[i] + Base \div 2) * Base) % Word])
  PROVE  GoodSound(file) /\ IsSound(file) /\ SameSound(file, original)
<1> DEFINE sound == rso_decode(original.data)
           data == sound.data
           n == Len(data)
           sample(v) == ((v + Base \div 2) * Base) % Word
           s == [i \in 1 .. n |-> sample(data[i])]
<1>1. /\ n \in Nat /\ DOMAIN data = 1 .. n /\ sound.rate \in Nat
      /\ \A i \in 1 .. n : data[i] \in 0 .. (Base - 1)
  BY LenProperties, ElementOfSeq DEF GoodRso
<1>2. file.form = "wav" /\ file.head = <<sound.rate, 1>> /\ file.data = s BY DEF File
<1> HIDE DEF sound, n
<1>3. ASSUME NEW i \in 1 .. n
      PROVE  /\ s[i] \in 0 .. (Word - 1)
             /\ Signed(s[i]) \div Base = data[i] - Base \div 2
  BY <1>1, ByteSample
<1> HIDE DEF sample
<1>4. s \in Seq(0 .. (Word - 1)) /\ Len(s) = n
  <2>1. s \in [1 .. n -> 0 .. (Word - 1)] BY <1>3
  <2> HIDE DEF s
  <2> QED BY <1>1, <2>1, SeqOf
<1> HIDE DEF s
<1>5. GoodSound(file) /\ IsSound(file) BY <1>1, <1>2, <1>4, SMT DEF GoodSound, IsSound
<1>6. Played(file).levels = [i \in 1 .. n |-> data[i] - Base \div 2]
  <2> DEFINE channels == file.head[2]
  <2>1. channels = 1 /\ Len(file.data) = n BY <1>2, <1>4
  <2>2. /\ n \div 1 = n /\ \A i \in 1 .. n : (i - 1) * 1 + 1 = i BY <1>1, SMT
  <2>3. Played(file).levels = [i \in 1 .. n |->
                                 Signed(file.data[(i - 1) * file.head[2] + 1]) \div Base]
    BY <1>2, <2>1, <2>2 DEF Played
  <2>4. \A i \in 1 .. n : (i - 1) * file.head[2] + 1 = i BY <2>1, <2>2
  <2>5. \A i \in 1 .. n : Signed(file.data[(i - 1) * file.head[2] + 1]) \div Base
                           = data[i] - Base \div 2
    BY <1>2, <1>3, <2>4
  <2> QED BY <2>3, <2>5
<1>7. Played(file).rate = sound.rate BY <1>2 DEF Played
<1>8. Played(original) = [rate |-> sound.rate,
                          levels |-> [i \in 1 .. n |-> data[i] - Base \div 2]]
  BY <1>1 DEF Played, sound
<1> QED BY <1>5, <1>6, <1>7, <1>8 DEF SameSound

\* The sounds that users have can be read.
LEMMA OriginalSound ==
  ASSUME NEW file, Whole(file), IsSound(file)
  PROVE  GoodSound(file) /\ SameSound(file, file)
<1>1. ASSUME file.form = "wav" PROVE GoodSound(file)
  BY <1>1 DEF Whole, GoodSound, Images
<1>2. ASSUME file.form = "bytes", Starts(file.data, Magic["rso"]) PROVE GoodSound(file)
  <2> DEFINE s == file.data
             n == BIGENDIAN_GET_WORD(s, 3)
  <2>1. s \in Seq(0 .. (Base - 1)) /\ 8 <= Len(s) /\ 8 + n <= Len(s)
    BY <1>2 DEF Whole, Images, RsoHead
  <2> HIDE DEF s
  <2>2. Len(s) \in Nat /\ \A i \in 1 .. Len(s) : s[i] \in 0 .. (Base - 1)
    BY <2>1, LenProperties, ElementOfSeq
  <2>3. ASSUME NEW i \in 1 .. 7
        PROVE  s[i] \in Nat /\ BIGENDIAN_GET_WORD(s, i) \in Nat
    <3>1. i \in 1 .. Len(s) /\ i + 1 \in 1 .. Len(s) BY <2>1, <2>2, SMT
    <3>2. s[i] \in Nat /\ s[i + 1] \in Nat /\ Base \in Nat BY <2>2, <3>1, BaseIs, SMT
    <3> QED BY <3>2, SMT DEF BIGENDIAN_GET_WORD
  <2>4. n \in Nat /\ BIGENDIAN_GET_WORD(s, 5) \in Nat BY <2>3, SMT
  <2> HIDE DEF n
  <2>5. \A i \in 1 .. n : At(s, RsoHead + i) \in 0 .. (Base - 1)
    BY <2>1, <2>2, <2>4, SMT DEF At, RsoHead
  <2>6. rso_decode(s) = [rate |-> BIGENDIAN_GET_WORD(s, 5),
                         data |-> [i \in 1 .. n |-> At(s, RsoHead + i)]]
    BY <1>2, RsoStarts DEF rso_decode, n, s
  <2>7. rso_decode(s).data \in Seq(0 .. (Base - 1))
    <3>1. rso_decode(s).data \in [1 .. n -> 0 .. (Base - 1)] BY <2>5, <2>6
    <3> QED BY <2>4, <3>1, SeqOf
  <2>8. rso_decode(s).rate \in Nat BY <2>4, <2>6
  <2> QED BY <1>2, <2>7, <2>8 DEF GoodSound, GoodRso, s
<1>3. GoodSound(file) BY <1>1, <1>2 DEF IsSound
<1> QED BY <1>3 DEF SameSound

-----------------------------------------------------------------------------
(* Pictures.                                                               *)

\* A byte that was made of bits still tells them.
LEMMA PackedIs ==
  ASSUME NEW f, f \in [0 .. (Bits - 1) -> BOOLEAN]
  PROVE  /\ Packed(f) \in 0 .. (Base - 1)
         /\ \A n \in 0 .. (Bits - 1) : BitSet(Packed(f), n) <=> f[n]
<1> DEFINE bit(n) == IF f[n] THEN 1 ELSE 0
           Is(g) == g = [n \in 0 .. Bits |-> IF n = 0 THEN 0 ELSE 2 * g[n - 1] + bit(n - 1)]
           upto == CHOOSE g : Is(g)
           F == [n \in Nat |-> [v \in Nat |-> 2 * v + (IF n < Bits /\ f[n] THEN 1 ELSE 0)]]
<1>1. Bits \in Nat /\ Bits >= 4 BY FormatsAssumption
<1>2. \E g : Is(g)
  <2>1. F \in [Nat -> [Nat -> Nat]] /\ 0 \in Nat BY SMT
  <2>2. PICK r : Recursive(r, Nat, 0, F)
    <3> HIDE DEF F
    <3> QED BY <2>1, Recursion
  <2> DEFINE g == [n \in 0 .. Bits |-> r[n]]
  <2>3. ASSUME NEW n \in 0 .. Bits
        PROVE  g[n] = IF n = 0 THEN 0 ELSE 2 * g[n - 1] + bit(n - 1)
    <3>1. CASE n = 0 BY <2>2, <3>1 DEF Recursive
    <3>2. CASE n # 0
      <4>1. n - 1 \in Nat /\ n - 1 \in 0 .. Bits /\ n - 1 < Bits /\ (n - 1) + 1 = n
        BY <1>1, <3>2, SMT
      <4>2. r[n - 1] \in Nat /\ r[(n - 1) + 1] = F[n - 1][r[n - 1]]
        BY <2>2, <4>1 DEF Recursive
      <4>3. F[n - 1][r[n - 1]] = 2 * r[n - 1] + bit(n - 1) BY <4>1, <4>2
      <4> HIDE DEF F, bit
      <4> QED BY <3>2, <4>1, <4>2, <4>3
    <3> QED BY <3>1, <3>2
  <2>4. g = [n \in 0 .. Bits |-> IF n = 0 THEN 0 ELSE 2 * g[n - 1] + bit(n - 1)] BY <2>3
  <2> HIDE DEF g
  <2> QED BY <2>4
<1>3. Is(upto) BY <1>2
<1>4. Packed(f) = upto[Bits] BY DEF Packed
<1> HIDE DEF upto, F
<1>5. upto[0] = 0 BY <1>1, <1>3, SMT
<1>6. ASSUME NEW n \in Nat, n < Bits
      PROVE  upto[n + 1] = 2 * upto[n] + bit(n) /\ bit(n) \in {0, 1}
  <2>1. n + 1 \in 0 .. Bits /\ n + 1 # 0 /\ (n + 1) - 1 = n BY <1>1, <1>6, SMT
  <2>2. upto[n + 1] = IF n + 1 = 0 THEN 0 ELSE 2 * upto[(n + 1) - 1] + bit((n + 1) - 1)
    BY <1>3, <2>1
  <2>3. upto[n + 1] = 2 * upto[n] + bit(n) BY <2>1, <2>2
  <2> QED BY <2>3
<1> HIDE DEF Is
<1>7. ASSUME NEW n \in Nat, n <= Bits PROVE upto[n] \in 0 .. (PowerOf2[n] - 1)
  <2> DEFINE P == {m \in Nat : m <= Bits => upto[m] \in 0 .. (PowerOf2[m] - 1)}
  <2>1. 0 \in P BY <1>5, Powers, SMT
  <2>2. ASSUME NEW m \in Nat, m \in P PROVE m + 1 \in P
    <3>1. SUFFICES ASSUME m + 1 <= Bits PROVE upto[m + 1] \in 0 .. (PowerOf2[m + 1] - 1)
      BY SMT
    <3>2. m < Bits /\ m <= Bits BY <1>1, <3>1, SMT
    <3>3. upto[m + 1] = 2 * upto[m] + bit(m) /\ bit(m) \in {0, 1} BY <1>6, <3>2
    <3>4. upto[m] \in 0 .. (PowerOf2[m] - 1) BY <2>2, <3>2
    <3>5. PowerOf2[m + 1] = 2 * PowerOf2[m] /\ PowerOf2[m] \in Nat BY Powers
    <3> HIDE DEF bit
    <3> QED BY <3>3, <3>4, <3>5, SMT
  <2>3. n \in P
    <3> HIDE DEF P
    <3> QED BY <2>1, <2>2, Induction
  <2> QED BY <1>7, <2>3
<1>8. ASSUME NEW n \in Nat, n < Bits, NEW k \in Nat, n + 1 + k <= Bits
      PROVE  \E r \in 0 .. (PowerOf2[k] - 1) : upto[n + 1 + k] = upto[n + 1] * PowerOf2[k] + r
  <2> DEFINE Above(m) == \E r \in 0 .. (PowerOf2[m] - 1) :
                           upto[n + 1 + m] = upto[n + 1] * PowerOf2[m] + r
             P == {m \in Nat : n + 1 + m <= Bits => Above(m)}
  <2>0. upto[n + 1] \in Nat
    <3>1. n + 1 \in Nat /\ n + 1 <= Bits BY <1>1, <1>8, SMT
    <3>2. upto[n + 1] \in 0 .. (PowerOf2[n + 1] - 1) BY <1>7, <3>1
    <3> QED BY <3>2, SMT
  <2>1. 0 \in P
    <3>1. upto[n + 1 + 0] = upto[n + 1] * 1 + 0 /\ 0 \in 0 .. (1 - 1) BY <2>0, SMT
    <3> QED BY <3>1, Powers
  <2>2. ASSUME NEW m \in Nat, m \in P PROVE m + 1 \in P
    <3>1. SUFFICES ASSUME n + 1 + (m + 1) <= Bits PROVE Above(m + 1)
      <4>1. m + 1 \in Nat BY SMT
      <4> HIDE DEF Above
      <4> QED BY <4>1
    <3>2. /\ n + 1 + m \in Nat /\ n + 1 + m < Bits /\ n + 1 + m <= Bits
          /\ n + 1 + (m + 1) = (n + 1 + m) + 1
      BY <1>1, <3>1, SMT
    <3>3. Above(m)
      <4> HIDE DEF Above
      <4> QED BY <2>2, <3>2
    <3>4. PICK r \in 0 .. (PowerOf2[m] - 1) : upto[n + 1 + m] = upto[n + 1] * PowerOf2[m] + r
      BY <3>3
    <3> DEFINE b == bit(n + 1 + m)
               t == 2 * r + b
    <3>5. upto[n + 1 + (m + 1)] = 2 * upto[n + 1 + m] + b /\ b \in {0, 1} BY <1>6, <3>2
    <3>6. PowerOf2[m + 1] = 2 * PowerOf2[m] /\ PowerOf2[m] \in Nat BY Powers
    <3> HIDE DEF bit, b
    <3>7. t \in 0 .. (PowerOf2[m + 1] - 1) BY <3>4, <3>5, <3>6, SMT
    <3>8. upto[n + 1] * PowerOf2[m] \in Nat BY <2>0, <3>6, SMT
    <3>9. upto[n + 1] * (2 * PowerOf2[m]) = 2 * (upto[n + 1] * PowerOf2[m]) BY <2>0, <3>6, SMT
    <3>10. r \in Nat /\ b \in Nat BY <3>4, <3>5, <3>6, SMT
    <3>11. 2 * (upto[n + 1] * PowerOf2[m] + r) + b = 2 * (upto[n + 1] * PowerOf2[m]) + t
      BY <3>8, <3>10, SMT
    <3>12. upto[n + 1 + (m + 1)] = upto[n + 1] * PowerOf2[m + 1] + t
      BY <3>4, <3>5, <3>6, <3>9, <3>11
    <3> QED BY <3>7, <3>12
  <2>3. k \in P
    <3> HIDE DEF P
    <3> QED BY <2>1, <2>2, Induction
  <2> QED BY <1>8, <2>3
<1>9. Packed(f) \in 0 .. (Base - 1)
  <2>1. Bits <= Bits BY <1>1, SMT
  <2> QED BY <1>1, <1>4, <1>7, <2>1 DEF Base
<1>10. ASSUME NEW n \in 0 .. (Bits - 1) PROVE BitSet(Packed(f), n) <=> f[n]
  <2> DEFINE k == Bits - 1 - n
             u == upto[n + 1]
  <2>1. n \in Nat /\ n < Bits /\ k \in Nat /\ n + 1 + k = Bits /\ n + 1 + k <= Bits
        /\ n + 1 \in Nat /\ n + 1 <= Bits /\ n <= Bits
    BY <1>1, SMT
  <2>2. PICK r \in 0 .. (PowerOf2[k] - 1) : upto[n + 1 + k] = u * PowerOf2[k] + r
    <3> HIDE DEF k
    <3> QED BY <1>8, <2>1
  <2>3. Packed(f) = u * PowerOf2[k] + r BY <1>4, <2>1, <2>2
  <2>4. /\ upto[n] \in Nat /\ u = 2 * upto[n] + bit(n) /\ bit(n) \in {0, 1} /\ u \in Nat
    <3>1. upto[n] \in 0 .. (PowerOf2[n] - 1) BY <1>7, <2>1
    <3>2. upto[n] \in Nat BY <3>1, SMT
    <3>3. u = 2 * upto[n] + bit(n) /\ bit(n) \in {0, 1} BY <1>6, <2>1
    <3> HIDE DEF bit, u
    <3> QED BY <3>2, <3>3, SMT
  <2>5. PowerOf2[k] \in Nat \ {0}
    <3>1. PowerOf2[k] \in Nat BY <2>1, Powers
    <3> QED BY <2>2, <3>1, SMT
  <2> HIDE DEF k, u, bit
  <2>6. Divided(Packed(f), PowerOf2[k], u, r)
    <3>1. u * PowerOf2[k] \in Nat BY <2>4, <2>5, SMT
    <3>2. Packed(f) \in Int BY <2>2, <2>3, <2>5, <3>1, SMT
    <3> QED BY <2>2, <2>3, <2>4, <2>5, <3>2 DEF Divided
  <2>7. Packed(f) \div PowerOf2[k] = u BY <2>6, Division
  <2>8. u % 2 = bit(n)
    <3>1. Divided(u, 2, upto[n], bit(n)) BY <2>4, SMT DEF Divided
    <3> QED BY <3>1, Division
  <2>9. BitSet(Packed(f), n) <=> bit(n) = 1 BY <2>7, <2>8 DEF BitSet, k
  <2> QED BY <2>9 DEF bit
<1> QED BY <1>9, <1>10

\* A dot and the place of its byte in a table of rows.
LEMMA Position ==
  ASSUME NEW w \in Nat \ {0}, NEW h \in Nat, NEW i \in 1 .. (w * h)
  PROVE  LET x == (i - 1) % w
             y == (i - 1) \div w
         IN x \in 0 .. (w - 1) /\ y \in 0 .. (h - 1) /\ x + y * w + 1 = i
<1> DEFINE x == (i - 1) % w
           y == (i - 1) \div w
<1>1. w * h \in Nat BY SMT
<1>2. i - 1 \in Nat /\ i - 1 < w * h BY <1>1, SMT
<1>3. i - 1 = w * y + x /\ x \in 0 .. (w - 1) /\ y \in Nat
  <2> DEFINE v == i - 1
  <2>1. v \in Nat BY <1>2
  <2> HIDE DEF v
  <2>2. v = w * (v \div w) + (v % w) /\ v % w \in 0 .. (w - 1) /\ v \div w \in Nat
    BY <2>1, SMT
  <2> QED BY <2>2 DEF v
<1> HIDE DEF x, y
<1>4. w * y = y * w /\ w * y \in Nat BY <1>3, SMT
<1>5. y < h
  <2>1. ASSUME y >= h PROVE FALSE
    <3>1. w * y >= w * h BY <1>3, <2>1, SMT
    <3> QED BY <1>1, <1>2, <1>3, <1>4, <3>1, SMT
  <2> QED BY <1>3, <2>1, SMT
<1>6. x + y * w + 1 = i BY <1>2, <1>3, <1>4, SMT
<1> QED BY <1>3, <1>5, <1>6, SMT DEF x, y

\* A picture's row has a byte for every dot.
LEMMA RowIs ==
  ASSUME NEW w \in Nat \ {0}
  PROVE  /\ RowBytes(w) \in Nat \ {0}
         /\ \A x \in 0 .. (w - 1) : /\ x \div Bits \in 0 .. (RowBytes(w) - 1)
                                    /\ x % Bits \in 0 .. (Bits - 1)
                                    /\ (x \div Bits) * Bits + (x % Bits) = x
<1> DEFINE q(v) == v \div Bits
           r(v) == v % Bits
<1>1. Bits \in Nat /\ Bits >= 4 BY FormatsAssumption
<1>2. ASSUME NEW v \in Nat
      PROVE  q(v) \in Nat /\ r(v) \in 0 .. (Bits - 1) /\ v = q(v) * Bits + r(v)
  BY <1>1, SMT
<1>3. w - 1 \in Nat BY SMT
<1>4. ASSUME NEW x \in 0 .. (w - 1) PROVE x \in Nat /\ q(x) <= q(w - 1)
  <2>1. x \in Nat BY SMT
  <2>2. /\ q(x) \in Nat /\ r(x) \in 0 .. (Bits - 1) /\ x = q(x) * Bits + r(x)
        /\ q(w - 1) \in Nat /\ r(w - 1) \in 0 .. (Bits - 1)
        /\ w - 1 = q(w - 1) * Bits + r(w - 1)
    BY <1>2, <1>3, <2>1
  <2> HIDE DEF q, r
  <2>3. ASSUME q(x) >= q(w - 1) + 1 PROVE FALSE
    <3>1. q(x) * Bits >= (q(w - 1) + 1) * Bits BY <1>1, <2>2, <2>3, SMT
    <3>2. (q(w - 1) + 1) * Bits = q(w - 1) * Bits + Bits BY <1>1, <2>2, SMT
    <3>3. q(w - 1) * Bits \in Nat /\ q(x) * Bits \in Nat BY <1>1, <2>2, SMT
    <3> QED BY <1>1, <2>2, <3>1, <3>2, <3>3, SMT
  <2> QED BY <2>1, <2>2, <2>3, SMT
<1>5. RowBytes(w) = q(w - 1) + 1 BY DEF RowBytes
<1>6. RowBytes(w) \in Nat \ {0} BY <1>2, <1>3, <1>5, SMT
<1>7. ASSUME NEW x \in 0 .. (w - 1)
      PROVE  /\ q(x) \in 0 .. (RowBytes(w) - 1) /\ r(x) \in 0 .. (Bits - 1)
             /\ q(x) * Bits + r(x) = x
  <2>1. x \in Nat /\ q(x) <= q(w - 1) BY <1>4
  <2>2. q(x) \in Nat /\ r(x) \in 0 .. (Bits - 1) /\ x = q(x) * Bits + r(x) BY <1>2, <2>1
  <2>3. q(w - 1) \in Nat BY <1>2, <1>3
  <2> HIDE DEF q, r
  <2> QED BY <1>5, <2>1, <2>2, <2>3, SMT
<1> QED BY <1>6, <1>7

\* The bytes of a sprite: how many, and that each dot is one of their bits.
LEMMA SpriteIs ==
  ASSUME NEW w \in Nat \ {0}, NEW h \in Nat \ {0}, NEW bitmap,
         NEW data, data = SpriteData(w, h, bitmap)
  PROVE  LET row == RowBytes(w)
         IN /\ data \in Seq(0 .. (Base - 1)) /\ Len(data) = MAKE_EVEN(row * h)
            /\ row * h \in Nat \ {0} /\ row <= row * h
            /\ row * h <= Len(data) /\ Len(data) % 2 = 0 /\ Len(data) \in Nat
            /\ \A x \in 0 .. (w - 1), y \in 0 .. (h - 1) :
                 LET i == y * row + x \div Bits + 1
                 IN /\ i \in 1 .. Len(data)
                    /\ BitSet(data[i], x % Bits) <=> Dark(bitmap[x + y * w + 1])
<1> DEFINE row == RowBytes(w)
           size == MAKE_EVEN(row * h)
           at(i, n) == ((i - 1) % row) * Bits + n
           bits(i) == [n \in 0 .. (Bits - 1) |->
                         at(i, n) < w /\ Dark(bitmap[at(i, n) + ((i - 1) \div row) * w + 1])]
<1>1. row \in Nat \ {0} BY RowIs
<1>2. row * h \in Nat \ {0} /\ row <= row * h
  <2> HIDE DEF row
  <2>1. row * 1 <= row * h BY <1>1, SMT
  <2>2. row * h \in Nat BY <1>1, SMT
  <2> QED BY <1>1, <2>1, <2>2, SMT
<1>3. size \in Nat /\ row * h <= size /\ size % 2 = 0
  <2> DEFINE v == row * h
  <2>1. v \in Nat BY <1>2
  <2> HIDE DEF v
  <2>2. v + (v % 2) \in Nat /\ v <= v + (v % 2) /\ (v + (v % 2)) % 2 = 0 BY <2>1, SMT
  <2> QED BY <2>2 DEF v, MAKE_EVEN
<1>4. data = [i \in 1 .. size |-> IF i > row * h THEN 0 ELSE Packed(bits(i))]
  BY DEF SpriteData
<1>5. ASSUME NEW i PROVE bits(i) \in [0 .. (Bits - 1) -> BOOLEAN] OBVIOUS
<1> HIDE DEF row, size, bits
<1>6. data \in [1 .. size -> 0 .. (Base - 1)]
  <2>1. 0 \in 0 .. (Base - 1) BY BaseIs, SMT
  <2>2. \A i : Packed(bits(i)) \in 0 .. (Base - 1) BY <1>5, PackedIs
  <2> QED BY <1>4, <2>1, <2>2
<1>7. data \in Seq(0 .. (Base - 1)) /\ Len(data) = size BY <1>3, <1>6, SeqOf
<1>8. ASSUME NEW x \in 0 .. (w - 1), NEW y \in 0 .. (h - 1),
             NEW i, i = y * row + x \div Bits + 1
      PROVE  i \in 1 .. size /\ (BitSet(data[i], x % Bits) <=> Dark(bitmap[x + y * w + 1]))
  <2> DEFINE q == x \div Bits
             r == x % Bits
  <2>1. q \in 0 .. (row - 1) /\ r \in 0 .. (Bits - 1) /\ q * Bits + r = x BY RowIs DEF row
  <2>2. i = y * row + q + 1 BY <1>8
  <2> HIDE DEF q, r
  <2>3. y * row \in Nat /\ y \in Nat BY <1>1, SMT
  <2>4. Divided(i - 1, row, y, q)
    <3>1. i - 1 = y * row + q /\ i - 1 \in Int BY <1>1, <2>1, <2>2, <2>3, SMT
    <3> QED BY <1>1, <2>1, <2>3, <3>1, SMT DEF Divided
  <2>5. (i - 1) \div row = y /\ (i - 1) % row = q BY <2>4, Division
  <2>6. i <= row * h
    <3>1. (y + 1) * row <= h * row BY <1>1, <2>3, SMT
    <3>2. (y + 1) * row = y * row + row /\ h * row = row * h BY <1>1, <2>3, SMT
    <3> QED BY <1>1, <1>2, <2>1, <2>2, <2>3, <3>1, <3>2, SMT
  <2>7. i \in 1 .. size BY <1>1, <1>2, <1>3, <2>1, <2>2, <2>3, <2>6, SMT
  <2>8. data[i] = Packed(bits(i))
    <3>1. ~ (i > row * h) BY <1>2, <2>6, <2>7, SMT
    <3> QED BY <1>4, <2>7, <3>1
  <2>9. BitSet(data[i], r) <=> bits(i)[r] BY <1>5, <2>1, <2>8, PackedIs
  <2>10. bits(i)[r] <=> x < w /\ Dark(bitmap[x + y * w + 1])
    BY <2>1, <2>5, Zenon DEF bits
  <2>11. x < w BY SMT
  <2> QED BY <2>7, <2>9, <2>10, <2>11 DEF r
<1> QED BY <1>1, <1>2, <1>3, <1>7, <1>8 DEF row, size

\* Four sequences in a row, element by element.
InRow(S, a, b, c, d, s) ==
  /\ s \in Seq(S) /\ Len(s) = Len(a) + Len(b) + Len(c) + Len(d)
  /\ \A i \in 1 .. Len(a) : s[i] = a[i]
  /\ \A i \in 1 .. Len(b) : s[Len(a) + i] = b[i]
  /\ \A i \in 1 .. Len(c) : s[Len(a) + Len(b) + i] = c[i]
  /\ \A i \in 1 .. Len(d) : s[Len(a) + Len(b) + Len(c) + i] = d[i]
LEMMA Parts ==
  ASSUME NEW S, NEW a \in Seq(S), NEW b \in Seq(S), NEW c \in Seq(S), NEW d \in Seq(S),
         NEW s, s = a \o b \o c \o d
  PROVE  InRow(S, a, b, c, d, s)
<1> DEFINE Joined(t, u, v) == /\ v \in Seq(S) /\ Len(v) = Len(t) + Len(u)
                              /\ \A i \in 1 .. Len(t) : v[i] = t[i]
                              /\ \A i \in 1 .. Len(u) : v[Len(t) + i] = u[i]
<1>1. ASSUME NEW t \in Seq(S), NEW u \in Seq(S) PROVE Joined(t, u, t \o u)
  <2>1. Len(t) \in Nat /\ Len(u) \in Nat BY LenProperties
  <2>2. /\ t \o u \in Seq(S) /\ Len(t \o u) = Len(t) + Len(u)
        /\ \A i \in 1 .. Len(t) + Len(u) :
             (t \o u)[i] = IF i <= Len(t) THEN t[i] ELSE u[i - Len(t)]
    BY ConcatProperties
  <2> DEFINE v == t \o u
             m == Len(t)
             n == Len(u)
  <2> HIDE DEF v, m, n
  <2>3. \A i \in 1 .. m + n : v[i] = IF i <= m THEN t[i] ELSE u[i - m] BY <2>2 DEF v, m, n
  <2>4. m \in Nat /\ n \in Nat BY <2>1 DEF m, n
  <2>5. \A i \in 1 .. m : v[i] = t[i] BY <2>3, <2>4, SMT
  <2>6. ASSUME NEW i \in 1 .. n PROVE v[m + i] = u[i]
    <3>1. m + i \in 1 .. m + n /\ ~ (m + i <= m) /\ (m + i) - m = i BY <2>4, SMT
    <3> QED BY <2>3, <3>1
  <2> QED BY <2>2, <2>5, <2>6 DEF v, m, n
<1>2. Joined(a, b, a \o b) /\ a \o b \in Seq(S) BY <1>1
<1>3. Joined(a \o b, c, a \o b \o c) /\ a \o b \o c \in Seq(S)
  <2>1. Joined(a \o b, c, (a \o b) \o c) BY <1>1, <1>2
  <2> QED BY <2>1
<1>4. Joined(a \o b \o c, d, s)
  <2> HIDE DEF Joined
  <2> QED BY <1>1, <1>3
<1> DEFINE k == Len(a)
           l == Len(b)
           m == Len(c)
           n == Len(d)
           t == a \o b
           u == a \o b \o c
<1>5. k \in Nat /\ l \in Nat /\ m \in Nat /\ n \in Nat BY LenProperties
<1>6. Len(t) = k + l /\ Len(u) = k + l + m /\ Len(s) = k + l + m + n /\ s \in Seq(S)
  BY <1>2, <1>3, <1>4
<1>7. (\A i \in 1 .. k : t[i] = a[i]) /\ (\A i \in 1 .. l : t[k + i] = b[i]) BY <1>2
<1>8. (\A i \in 1 .. k + l : u[i] = t[i]) /\ (\A i \in 1 .. m : u[k + l + i] = c[i])
  BY <1>3, <1>6
<1>9. /\ \A i \in 1 .. k + l + m : s[i] = u[i]
      /\ \A i \in 1 .. n : s[k + l + m + i] = d[i]
  BY <1>4, <1>6
<1> HIDE DEF k, l, m, n, t, u
<1>10. \A i \in 1 .. k : s[i] = a[i]
  <2>1. \A i \in 1 .. k : i \in 1 .. k + l /\ i \in 1 .. k + l + m BY <1>5, SMT
  <2> QED BY <1>7, <1>8, <1>9, <2>1
<1>11. \A i \in 1 .. l : s[k + i] = b[i]
  <2>1. \A i \in 1 .. l : k + i \in 1 .. k + l /\ k + i \in 1 .. k + l + m BY <1>5, SMT
  <2> QED BY <1>7, <1>8, <1>9, <2>1
<1>12. \A i \in 1 .. m : s[k + l + i] = c[i]
  <2>1. \A i \in 1 .. m : k + l + i \in 1 .. k + l + m BY <1>5, SMT
  <2> QED BY <1>8, <1>9, <2>1
<1> QED BY <1>6, <1>9, <1>10, <1>11, <1>12 DEF InRow, k, l, m, n

\* A picture file has a description, a sprite and a command to copy it.
LEMMA RicLayout ==
  ASSUME NEW w, NEW h, Fits(w, h), NEW bitmap,
         NEW data, data = SpriteData(w, h, bitmap), NEW s, s = ric_encode(w, h, bitmap)
  PROVE  LET n == Len(data)
             word(i) == LITTLEENDIAN_GET_WORD(s, i)
         IN /\ s \in Seq(0 .. (Base - 1)) /\ Len(s) = 40 + n /\ Starts(s, Magic["ric"])
            /\ \A i \in 1 .. n : s[20 + i] = data[i]
            /\ word(1) = 8 /\ word(3) = DESCRIPTION
            /\ word(11) = 8 + n /\ word(13) = SPRITE /\ word(19) = RowBytes(w)
            /\ word(21 + n) = 18 /\ word(23 + n) = COPYBITS
            /\ word(33 + n) = w /\ word(35 + n) = h
<1> DEFINE n == Len(data)
           row == RowBytes(w)
           a == <<8, DESCRIPTION, 0, w, h>>
           b == <<8 + n, SPRITE, 1, h, row>>
           c == <<18, COPYBITS, 0, 1, 0, 0, w, h, 0, 0>>
           W == 0 .. (Word - 1)
           S == 0 .. (Base - 1)
           head == Words(a)
           sprite == Words(b)
           copy == Words(c)
           word(t, i) == LITTLEENDIAN_GET_WORD(t, i)
<1>1. Word \in Nat /\ Word > 64
  <2>1. 8 * 8 <= Base * Base /\ Base * Base \in Nat
    <3>1. Base \in Nat /\ Base > 8 BY BaseIs
    <3>2. Base * Base > 8 * 8 BY <3>1, SMT
    <3> QED BY <3>1, <3>2, SMT
  <2>2. Base * Base # 64
    <3>1. Base \in Nat /\ Base > 8 BY BaseIs
    <3>2. Base * Base >= 9 * 9
      <4>1. Base >= 9 BY <3>1, SMT
      <4> QED BY <3>1, <4>1, SMT
    <3> QED BY <3>2, SMT
  <2> QED BY <2>1, <2>2, SMT DEF Word
<1>2. w \in Nat \ {0} /\ h \in Nat \ {0} /\ w \in W /\ h \in W
      /\ 8 + MAKE_EVEN(row * h) < Word
  <2>1. {w, h} \subseteq 1 .. (Word \div 2 - 1) /\ 8 + MAKE_EVEN(row * h) < Word BY DEF Fits
  <2> HIDE DEF row
  <2> QED BY <1>1, <2>1, SMT
<1>3. /\ data \in Seq(S) /\ n = MAKE_EVEN(row * h) /\ n \in Nat /\ n % 2 = 0
      /\ row \in Nat /\ row <= n
  <2>1. /\ data \in Seq(S) /\ n = MAKE_EVEN(row * h) /\ n \in Nat /\ n % 2 = 0
        /\ row * h \in Nat \ {0} /\ row <= row * h /\ row * h <= n
    BY <1>2, SpriteIs
  <2>2. row \in Nat BY <1>2, RowIs
  <2> HIDE DEF row, n
  <2>3. row <= n BY <2>1, <2>2, SMT
  <2> QED BY <2>1, <2>2, <2>3
<1>4. 8 + n \in W /\ row \in W BY <1>1, <1>2, <1>3, SMT
<1>5. /\ 8 \in W /\ 0 \in W /\ 1 \in W /\ 3 \in W /\ 18 \in W BY <1>1, SMT
<1> HIDE DEF W, S, n, row
<1>6. a \in Seq(W) /\ Len(a) = 5 BY <1>2, <1>5 DEF DESCRIPTION
<1>7. b \in Seq(W) /\ Len(b) = 5 BY <1>2, <1>4, <1>5 DEF SPRITE
<1>8. c \in Seq(W) /\ Len(c) = 10 BY <1>2, <1>5 DEF COPYBITS
<1>9. ASSUME NEW t, t \in Seq(W)
      PROVE  /\ Words(t) \in Seq(S) /\ Len(Words(t)) = 2 * Len(t)
             /\ \A k \in 1 .. Len(t) : word(Words(t), 2 * k - 1) = t[k]
                                       /\ Words(t)[2 * k - 1] = t[k] % Base
                                       /\ Words(t)[2 * k] = High(t[k])
  BY <1>9, WordsIs DEF W, S
<1>10. s = head \o sprite \o data \o copy BY DEF ric_encode, n, row
<1>11. /\ head \in Seq(S) /\ Len(head) = 10 /\ sprite \in Seq(S) /\ Len(sprite) = 10
       /\ copy \in Seq(S) /\ Len(copy) = 20
  <2>1. 2 * 5 = 10 /\ 2 * 10 = 20 BY SMT
  <2> QED BY <1>6, <1>7, <1>8, <1>9, <2>1, Zenon
<1>12. /\ word(head, 1) = 8 /\ word(head, 3) = DESCRIPTION
       /\ head[1] = 8 /\ head[2] = 0 /\ head[3] = 0 /\ head[4] = 0 /\ head[5] = 0 /\ head[6] = 0
  <2>1. /\ 1 \in 1 .. 5 /\ 2 \in 1 .. 5 /\ 3 \in 1 .. 5
        /\ 2 * 1 - 1 = 1 /\ 2 * 2 - 1 = 3 /\ 2 * 3 - 1 = 5
        /\ 2 * 1 = 2 /\ 2 * 2 = 4 /\ 2 * 3 = 6
    BY SMT
  <2>2. a[1] = 8 /\ a[2] = 0 /\ a[2] = DESCRIPTION /\ a[3] = 0 BY DEF DESCRIPTION
  <2>3. /\ 8 % Base = 8 /\ High(8) = 0 /\ 0 % Base = 0 /\ High(0) = 0
    <3>1. 8 \in 0 .. 8 /\ 0 \in 0 .. 8 BY SMT
    <3> QED BY <3>1, HighZero
  <2>4. /\ word(head, 2 * 1 - 1) = a[1] /\ head[2 * 1 - 1] = a[1] % Base /\ head[2 * 1] = High(a[1])
        /\ word(head, 2 * 2 - 1) = a[2] /\ head[2 * 2 - 1] = a[2] % Base /\ head[2 * 2] = High(a[2])
        /\ head[2 * 3 - 1] = a[3] % Base /\ head[2 * 3] = High(a[3])
    <3> HIDE DEF a, word
    <3> QED BY <1>6, <1>9, <2>1, Zenon
  <2> HIDE DEF a, head, word
  <2> QED BY <2>1, <2>2, <2>3, <2>4
<1>13. word(sprite, 1) = 8 + n /\ word(sprite, 3) = SPRITE /\ word(sprite, 9) = row
  <2>1. /\ 1 \in 1 .. 5 /\ 2 \in 1 .. 5 /\ 5 \in 1 .. 5
        /\ 2 * 1 - 1 = 1 /\ 2 * 2 - 1 = 3 /\ 2 * 5 - 1 = 9
    BY SMT
  <2>2. b[1] = 8 + n /\ b[2] = SPRITE /\ b[5] = row OBVIOUS
  <2>3. /\ word(sprite, 2 * 1 - 1) = b[1] /\ word(sprite, 2 * 2 - 1) = b[2]
        /\ word(sprite, 2 * 5 - 1) = b[5]
    <3> HIDE DEF b, word
    <3> QED BY <1>7, <1>9, <2>1, Zenon
  <2> HIDE DEF b, sprite, word
  <2> QED BY <2>1, <2>2, <2>3
<1>14. word(copy, 1) = 18 /\ word(copy, 3) = COPYBITS /\ word(copy, 13) = w /\ word(copy, 15) = h
  <2>1. /\ 1 \in 1 .. 10 /\ 2 \in 1 .. 10 /\ 7 \in 1 .. 10 /\ 8 \in 1 .. 10
        /\ 2 * 1 - 1 = 1 /\ 2 * 2 - 1 = 3 /\ 2 * 7 - 1 = 13 /\ 2 * 8 - 1 = 15
    BY SMT
  <2>2. c[1] = 18 /\ c[2] = COPYBITS /\ c[7] = w /\ c[8] = h OBVIOUS
  <2>3. /\ word(copy, 2 * 1 - 1) = c[1] /\ word(copy, 2 * 2 - 1) = c[2]
        /\ word(copy, 2 * 7 - 1) = c[7] /\ word(copy, 2 * 8 - 1) = c[8]
    <3> HIDE DEF c, word
    <3> QED BY <1>8, <1>9, <2>1, Zenon
  <2> HIDE DEF c, copy, word
  <2> QED BY <2>1, <2>2, <2>3
<1> HIDE DEF head, sprite, copy
<1>15. /\ s \in Seq(S) /\ Len(s) = 10 + 10 + n + 20
       /\ \A i \in 1 .. 10 : s[i] = head[i]
       /\ \A i \in 1 .. 10 : s[10 + i] = sprite[i]
       /\ \A i \in 1 .. n : s[10 + 10 + i] = data[i]
       /\ \A i \in 1 .. 20 : s[10 + 10 + n + i] = copy[i]
  <2>1. /\ s \in Seq(S) /\ Len(s) = Len(head) + Len(sprite) + Len(data) + Len(copy)
        /\ \A i \in 1 .. Len(head) : s[i] = head[i]
        /\ \A i \in 1 .. Len(sprite) : s[Len(head) + i] = sprite[i]
        /\ \A i \in 1 .. Len(data) : s[Len(head) + Len(sprite) + i] = data[i]
        /\ \A i \in 1 .. Len(copy) : s[Len(head) + Len(sprite) + Len(data) + i] = copy[i]
    <3>1. InRow(S, head, sprite, data, copy, s) BY <1>3, <1>10, <1>11, Parts, Zenon
    <3> QED BY <3>1 DEF InRow
  <2>2. Len(data) = n BY DEF n
  <2> QED BY <1>11, <2>1, <2>2
<1>16. /\ s \in Seq(S) /\ Len(s) = 40 + n
       /\ \A i \in 1 .. n : s[20 + i] = data[i]
  BY <1>3, <1>15, SMT
<1>17. /\ s[1] = head[1] /\ s[2] = head[2] /\ s[3] = head[3]
       /\ s[4] = head[4] /\ s[5] = head[5] /\ s[6] = head[6]
       /\ s[11] = sprite[1] /\ s[12] = sprite[2] /\ s[13] = sprite[3] /\ s[14] = sprite[4]
       /\ s[19] = sprite[9] /\ s[20] = sprite[10]
  BY <1>15, SMT
<1>18. \A i \in 1 .. 20 : s[20 + n + i] = copy[i]
  <2>1. 10 + 10 + n = 20 + n BY <1>3, SMT
  <2> QED BY <1>15, <2>1
<1>19. /\ s[21 + n] = copy[1] /\ s[22 + n] = copy[2] /\ s[23 + n] = copy[3]
       /\ s[24 + n] = copy[4] /\ s[33 + n] = copy[13] /\ s[34 + n] = copy[14]
       /\ s[35 + n] = copy[15] /\ s[36 + n] = copy[16]
  <2>1. ASSUME NEW i \in 1 .. 20, NEW j, j = 20 + i PROVE s[j + n] = copy[i]
    <3>1. j + n = 20 + n + i BY <1>3, <2>1, SMT
    <3> QED BY <1>18, <3>1
  <2> QED BY <2>1, SMT
<1>20. Starts(s, Magic["ric"])
  <2> DEFINE m == <<8, 0, 0, 0, 0, 0>>
  <2>1. m \in Seq(Nat) /\ Len(m) = 6 OBVIOUS
  <2>2. \A i \in 1 .. 6 : s[i] = m[i] BY <1>12, <1>17, SMT
  <2>3. Len(s) \in Nat /\ Len(s) >= 6 BY <1>3, <1>16, SMT
  <2>4. Starts(s, m)
    <3> HIDE DEF m
    <3> QED BY <2>1, <2>2, <2>3, StartsIs
  <2> QED BY <2>4 DEF Magic
<1>21. /\ word(s, 1) = 8 /\ word(s, 3) = DESCRIPTION
       /\ word(s, 11) = 8 + n /\ word(s, 13) = SPRITE /\ word(s, 19) = row
  BY <1>12, <1>13, <1>17 DEF LITTLEENDIAN_GET_WORD
<1>22. /\ word(s, 21 + n) = 18 /\ word(s, 23 + n) = COPYBITS
       /\ word(s, 33 + n) = w /\ word(s, 35 + n) = h
  <2>1. /\ (21 + n) + 1 = 22 + n /\ (23 + n) + 1 = 24 + n
        /\ (33 + n) + 1 = 34 + n /\ (35 + n) + 1 = 36 + n
    BY <1>3, SMT
  <2> QED BY <1>14, <1>19, <2>1 DEF LITTLEENDIAN_GET_WORD
<1> QED BY <1>16, <1>20, <1>21, <1>22 DEF n, row, S

\* A file of three commands: where they begin.
LEMMA CommandsIs ==
  ASSUME NEW s, NEW n \in Nat, Len(s) = 40 + n, LITTLEENDIAN_GET_WORD(s, 1) = 8,
         LITTLEENDIAN_GET_WORD(s, 11) = 8 + n, LITTLEENDIAN_GET_WORD(s, 21 + n) = 18
  PROVE  Commands(s) = {1, 11, 21 + n}
<1> DEFINE word(i) == LITTLEENDIAN_GET_WORD(s, i)
           next(p) == IF p > Len(s) THEN p ELSE p + word(p) + 2
           Is(g) == g = [k \in Nat |-> IF k = 0 THEN 1 ELSE next(g[k - 1])]
           start == CHOOSE g : Is(g)
           at(k) == IF k = 0 THEN 1 ELSE IF k = 1 THEN 11 ELSE IF k = 2 THEN 21 + n ELSE 41 + n
           limit == Len(s) \div 2
<1>1. next(1) = 11 /\ next(11) = 21 + n /\ next(21 + n) = 41 + n /\ next(41 + n) = 41 + n
  <2> HIDE DEF word
  <2>1. word(1) = 8 /\ word(11) = 8 + n /\ word(21 + n) = 18 BY DEF word
  <2> QED BY <2>1, SMT
<1> HIDE DEF next
<1>2. ASSUME NEW k \in Nat PROVE next(at(k)) = at(k + 1)
  <2>1. CASE k = 0 BY <1>1, <2>1
  <2>2. CASE k = 1 BY <1>1, <2>2
  <2>3. CASE k = 2 BY <1>1, <2>3
  <2>4. CASE k > 2
    <3>1. k # 0 /\ k # 1 /\ k # 2 /\ k + 1 # 0 /\ k + 1 # 1 /\ k + 1 # 2 BY <2>4, SMT
    <3> QED BY <1>1, <3>1
  <2> QED BY <2>1, <2>2, <2>3, <2>4, SMT
<1>3. at(0) = 1 /\ at(1) = 11 /\ at(2) = 21 + n OBVIOUS
<1>4. ASSUME NEW k \in Nat, k > 2 PROVE at(k) = 41 + n BY <1>4, SMT
<1> HIDE DEF at
<1>5. \E g : Is(g)
  <2> DEFINE g == [k \in Nat |-> at(k)]
  <2>1. ASSUME NEW k \in Nat PROVE g[k] = IF k = 0 THEN 1 ELSE next(g[k - 1])
    <3>1. CASE k = 0 BY <1>3, <3>1
    <3>2. CASE k # 0
      <4>1. k - 1 \in Nat /\ (k - 1) + 1 = k BY <3>2, SMT
      <4> QED BY <1>2, <3>2, <4>1
    <3> QED BY <3>1, <3>2
  <2>2. g = [k \in Nat |-> IF k = 0 THEN 1 ELSE next(g[k - 1])] BY <2>1
  <2> HIDE DEF g
  <2> QED BY <2>2
<1>6. Is(start) BY <1>5
<1>7. Commands(s) = {start[k] : k \in 0 .. limit} \cap (1 .. Len(s))
  BY DEF Commands, next
<1> HIDE DEF start
<1>8. ASSUME NEW k \in Nat PROVE start[k] = at(k)
  <2> DEFINE P == {m \in Nat : start[m] = at(m)}
  <2>1. 0 \in P BY <1>3, <1>6
  <2>2. ASSUME NEW m \in Nat, m \in P PROVE m + 1 \in P
    <3>1. m + 1 \in Nat /\ m + 1 # 0 /\ (m + 1) - 1 = m BY SMT
    <3>2. start[m + 1] = next(start[m]) BY <1>6, <3>1
    <3> QED BY <1>2, <2>2, <3>1, <3>2
  <2>3. k \in P
    <3> HIDE DEF P
    <3> QED BY <2>1, <2>2, Induction
  <2> QED BY <2>3
<1> HIDE DEF Is
<1>9. limit \in Nat /\ limit >= 20 BY SMT
<1> HIDE DEF limit
<1>10. ASSUME NEW p \in Commands(s) PROVE p \in {1, 11, 21 + n}
  <2>1. PICK k \in 0 .. limit : p = start[k] BY <1>7
  <2>2. p \in 1 .. Len(s) /\ k \in Nat BY <1>7, <1>9, SMT
  <2>3. p = at(k) BY <1>8, <2>1, <2>2
  <2>4. ~ (k > 2) BY <1>4, <2>2, <2>3, SMT
  <2>5. k = 0 \/ k = 1 \/ k = 2 BY <2>2, <2>4, SMT
  <2> QED BY <1>3, <2>3, <2>5
<1>11. ASSUME NEW k \in {0, 1, 2} PROVE at(k) \in Commands(s)
  <2>1. k \in Nat /\ k \in 0 .. limit BY <1>9, SMT
  <2>2. at(k) = start[k] BY <1>8, <2>1
  <2>3. at(k) \in 1 .. Len(s) BY <1>3, SMT
  <2> QED BY <1>7, <2>1, <2>2, <2>3
<1> QED BY <1>3, <1>10, <1>11

\* The first and the last of few positions.
LEMMA OnlyOne ==
  ASSUME NEW p \in Nat
  PROVE  First({p}) = p /\ Last({p}) = p
BY SMT DEF First, Last

\* A picture that users have, or that a program has made, comes back from
\* ric_encode and ric_decode (ric.c:53, 112) with its size and, where it was
\* dark, the darkest colour, elsewhere the lightest.
THEOREM RicKept ==
  ASSUME NEW w, NEW h, Fits(w, h), NEW bitmap
  PROVE  ric_decode(ric_encode(w, h, bitmap))
           = [width |-> w, height |-> h,
              data |-> [i \in 1 .. (w * h) |-> IF Dark(bitmap[i]) THEN 0 ELSE Base - 1]]
<1> DEFINE data == SpriteData(w, h, bitmap)
           s == ric_encode(w, h, bitmap)
           n == Len(data)
           row == RowBytes(w)
           word(i) == LITTLEENDIAN_GET_WORD(s, i)
           byte(x, y) == s[11 + 10 + y * row + x \div Bits]
<1>1. w \in Nat \ {0} /\ h \in Nat \ {0}
  <2>1. {w, h} \subseteq 1 .. (Word \div 2 - 1) BY DEF Fits
  <2>2. Word \div 2 \in Nat BY HalfWord
  <2> QED BY <2>1, <2>2, SMT
<1>2. n \in Nat /\ row \in Nat BY <1>1, SpriteIs, RowIs
<1>3. /\ Len(s) = 40 + n
      /\ \A i \in 1 .. n : s[20 + i] = data[i]
      /\ word(1) = 8 /\ word(3) = DESCRIPTION
      /\ word(11) = 8 + n /\ word(13) = SPRITE /\ word(19) = row
      /\ word(21 + n) = 18 /\ word(23 + n) = COPYBITS
      /\ word(33 + n) = w /\ word(35 + n) = h
  BY RicLayout
<1>4. ASSUME NEW x \in 0 .. (w - 1), NEW y \in 0 .. (h - 1)
      PROVE  BitSet(byte(x, y), x % Bits) <=> Dark(bitmap[x + y * w + 1])
  <2> DEFINE i == y * row + x \div Bits + 1
  <2>1. i \in 1 .. n /\ (BitSet(data[i], x % Bits) <=> Dark(bitmap[x + y * w + 1]))
    BY <1>1, SpriteIs
  <2>2. 20 + i = 11 + 10 + y * row + x \div Bits
    <3>1. y * row \in Nat /\ x \div Bits \in Nat
      <4>1. y \in Nat BY <1>1, SMT
      <4>2. y * row \in Nat BY <1>2, <4>1, SMT
      <4>3. x \div Bits \in 0 .. (row - 1) BY <1>1, RowIs
      <4>4. x \div Bits \in Nat BY <1>2, <4>3, SMT
      <4> QED BY <4>2, <4>4
    <3> QED BY <3>1, SMT
  <2>3. byte(x, y) = data[i]
    <3> HIDE DEF i, data, s
    <3> QED BY <1>3, <2>1, <2>2
  <2> QED BY <2>1, <2>3
<1> HIDE DEF data, s, n, row
<1> DEFINE of(opcode) == {p \in Commands(s) : word(p + 2) = opcode}
<1>5. Commands(s) = {1, 11, 21 + n} BY <1>2, <1>3, CommandsIs
<1>6. of(SPRITE) = {11} /\ of(COPYBITS) = {21 + n}
  <2>1. 1 + 2 = 3 /\ 11 + 2 = 13 /\ (21 + n) + 2 = 23 + n /\ 21 + n # 11 BY <1>2, SMT
  <2>2. word(1 + 2) = DESCRIPTION /\ word(11 + 2) = SPRITE /\ word((21 + n) + 2) = COPYBITS
    BY <1>3, <2>1
  <2>3. SPRITE # DESCRIPTION /\ COPYBITS # DESCRIPTION /\ SPRITE # COPYBITS
    BY DEF SPRITE, COPYBITS, DESCRIPTION
  <2> HIDE DEF word
  <2> QED BY <1>5, <2>2, <2>3
<1>7. First(of(SPRITE)) = 11 /\ First(of(COPYBITS)) = 21 + n
  <2>1. 11 \in Nat /\ 21 + n \in Nat BY <1>2, SMT
  <2> QED BY <1>6, <2>1, OnlyOne
<1> DEFINE end == IF First(of(SPRITE)) < First(of(COPYBITS))
                  THEN First(of(COPYBITS)) ELSE First(of(SPRITE))
           sprite == Last({p \in of(SPRITE) : p <= end})
           copy == Last({p \in of(COPYBITS) : p <= end})
<1>8. end = 21 + n
  <2>1. 11 < 21 + n BY <1>2, SMT
  <2> QED BY <1>7, <2>1
<1>9. sprite = 11 /\ copy = 21 + n
  <2>1. 11 \in Nat /\ 21 + n \in Nat /\ 11 <= 21 + n /\ 21 + n <= 21 + n BY <1>2, SMT
  <2>2. {p \in of(SPRITE) : p <= end} = {11} /\ {p \in of(COPYBITS) : p <= end} = {21 + n}
    <3> HIDE DEF of, end
    <3> QED BY <1>6, <1>8, <2>1
  <2> QED BY <2>1, <2>2, OnlyOne
<1> HIDE DEF of, end, sprite, copy
<1>10. ~ (of(SPRITE) = {} \/ of(COPYBITS) = {}) BY <1>6
<1>11. /\ word(sprite + 8) = row /\ word(copy + 12) = w /\ word(copy + 14) = h
       /\ sprite + 10 = 11 + 10
  <2>1. 11 + 8 = 19 /\ (21 + n) + 12 = 33 + n /\ (21 + n) + 14 = 35 + n BY <1>2, SMT
  <2> QED BY <1>3, <1>9, <2>1
<1> DEFINE r == word(sprite + 8)
           width == word(copy + 12)
           height == word(copy + 14)
           dot(x, y) == s[sprite + 10 + y * r + x \div Bits]
           colour(i) == IF BitSet(dot((i - 1) % width, (i - 1) \div width), ((i - 1) % width) % Bits)
                        THEN 0 ELSE Base - 1
<1>12. ric_decode(s) = [width |-> width, height |-> height,
                        data |-> [i \in 1 .. (width * height) |-> colour(i)]]
  BY <1>10 DEF ric_decode, of, end, sprite, copy
<1>13. ASSUME NEW i \in 1 .. (w * h)
       PROVE  colour(i) = IF Dark(bitmap[i]) THEN 0 ELSE Base - 1
  <2> DEFINE x == (i - 1) % w
             y == (i - 1) \div w
  <2>1. x \in 0 .. (w - 1) /\ y \in 0 .. (h - 1) /\ x + y * w + 1 = i BY <1>1, Position
  <2> HIDE DEF x, y
  <2>2. dot(x, y) = byte(x, y) BY <1>9, <1>11
  <2>3. BitSet(byte(x, y), x % Bits) <=> Dark(bitmap[x + y * w + 1]) BY <1>4, <2>1
  <2>4. colour(i) = IF BitSet(dot(x, y), x % Bits) THEN 0 ELSE Base - 1 BY <1>11 DEF x, y
  <2> HIDE DEF dot, byte, colour
  <2> QED BY <2>1, <2>2, <2>3, <2>4
<1> HIDE DEF colour
<1> QED BY <1>11, <1>12, <1>13 DEF s

\* A picture that a program can read.
GoodPicture(file) ==
  \/ /\ file.form \in Images
     /\ file.head \in Nat \X Nat /\ Fits(file.head[1], file.head[2])
     /\ file.data \in [1 .. (file.head[1] * file.head[2]) -> [1 .. 3 -> 0 .. (Base - 1)]]
  \/ /\ file.form = "bytes" /\ Starts(file.data, Magic["ric"])
     /\ LET picture == ric_decode(file.data)
        IN picture = NoPicture \/ Fits(picture.width, picture.height)

\* The colours of a picture of the PC as grey, and what is dark of them.
LEMMA GrayIs ==
  ASSUME NEW c, c \in [1 .. 3 -> 0 .. (Base - 1)]
  PROVE  Gray(c) \in 0 .. (Base - 1)
<1>1. c[1] \in 0 .. (Base - 1) /\ c[2] \in 0 .. (Base - 1) /\ c[3] \in 0 .. (Base - 1)
  <2>1. 1 \in 1 .. 3 /\ 2 \in 1 .. 3 /\ 3 \in 1 .. 3 BY SMT
  <2> QED BY <2>1
<1>2. Base \in Nat BY BaseIs
<1> QED BY <1>1, <1>2, SMT DEF Gray

\* Gray of one shade is that shade.
LEMMA GrayOne ==
  ASSUME NEW v \in Nat, NEW c, c = [k \in 1 .. 3 |-> v]
  PROVE  Gray(c) = v
<1>1. c[1] = v /\ c[2] = v /\ c[3] = v BY SMT
<1>2. (v + v + v) \div 3 = v BY SMT
<1> QED BY <1>1, <1>2 DEF Gray

\* What is dark, and that inverting a shade exchanges dark and light.
LEMMA DarkIs ==
  /\ Dark(0) /\ Dark(1) /\ ~ Dark(Base - 1) /\ ~ Dark(Base - 2)
  /\ 0 \in Nat /\ 1 \in Nat /\ Base - 1 \in Nat /\ Base - 2 \in Nat
  /\ \A v \in 0 .. (Base - 1) : (Dark(Base - 1 - v) <=> ~ Dark(v)) /\ Base - 1 - v \in 0 .. (Base - 1)
<1>1. Base \in Nat /\ Base > 8 /\ Base = 2 * (Base \div 2) /\ Base \div 2 \in Nat BY BaseIs
<1> QED BY <1>1, SMT DEF Dark

\* Inverting turns dark into light.
LEMMA InvertIs ==
  ASSUME NEW p, p.invert \in BOOLEAN, NEW v \in 0 .. (Base - 1)
  PROVE  /\ InvertOf(p, v) \in 0 .. (Base - 1)
         /\ Dark(InvertOf(p, v)) <=> (Dark(v) /\ ~ p.invert) \/ (~ Dark(v) /\ p.invert)
<1>1. CASE p.invert
  <2>1. InvertOf(p, v) = Base - 1 - v BY <1>1 DEF InvertOf
  <2> QED BY <1>1, <2>1, DarkIs
<1>2. CASE ~ p.invert
  <2>1. InvertOf(p, v) = v BY <1>2 DEF InvertOf
  <2> QED BY <1>2, <2>1
<1> QED BY <1>1, <1>2

\* The dots that are seen are dark or not.
LEMMA DotsIs ==
  ASSUME NEW file
  PROVE  LET dots == Seen(file).dots
         IN dots = [i \in DOMAIN dots |-> dots[i]] /\ \A i \in DOMAIN dots : dots[i] \in BOOLEAN
<1>1. CASE file.form \in Images
  <2> DEFINE D == DOMAIN file.data
             dots == [i \in D |-> Dark(Gray(file.data[i]))]
  <2>1. Seen(file) = [size |-> file.head, dots |-> dots] BY <1>1 DEF Seen
  <2>2. \A i \in D : Dark(Gray(file.data[i])) \in BOOLEAN BY DEF Dark
  <2>3. dots \in [D -> BOOLEAN] BY <2>2
  <2> HIDE DEF dots, D
  <2> QED BY <2>1, <2>3
<1>2. CASE file.form \notin Images
  <2> DEFINE picture == ric_decode(file.data)
             D == DOMAIN picture.data
             dots == [i \in D |-> Dark(picture.data[i])]
  <2>1. Seen(file) = [size |-> <<picture.width, picture.height>>, dots |-> dots]
    BY <1>2 DEF Seen
  <2>2. \A i \in D : Dark(picture.data[i]) \in BOOLEAN BY DEF Dark
  <2>3. dots \in [D -> BOOLEAN] BY <2>2
  <2> HIDE DEF dots, D
  <2> QED BY <2>1, <2>3
<1> QED BY <1>1, <1>2

\* Two pictures of one size are the same, but for being inverted.
Alike(dots, was, invert) ==
  /\ DOMAIN dots = DOMAIN was
  /\ \A i \in DOMAIN was : dots[i] <=> (was[i] /\ ~ invert) \/ (~ was[i] /\ invert)
LEMMA AlikeIs ==
  ASSUME NEW file, NEW original, NEW invert \in BOOLEAN
  PROVE  SamePicture(file, original, invert)
           <=> /\ Seen(file).size = Seen(original).size
               /\ Alike(Seen(file).dots, Seen(original).dots, invert)
<1> DEFINE dots == Seen(file).dots
           was == Seen(original).dots
           D == DOMAIN was
           turned == [i \in D |-> was[i] # invert]
<1>1. /\ dots = [i \in DOMAIN dots |-> dots[i]] /\ \A i \in DOMAIN dots : dots[i] \in BOOLEAN
      /\ \A i \in D : was[i] \in BOOLEAN
  BY DotsIs
<1>2. SamePicture(file, original, invert)
        <=> Seen(file).size = Seen(original).size /\ dots = turned
  BY DEF SamePicture, SameSize
<1> HIDE DEF dots, was
<1>3. ASSUME NEW i \in D
      PROVE  turned[i] \in BOOLEAN /\ (turned[i] <=> (was[i] /\ ~ invert) \/ (~ was[i] /\ invert))
  <2>1. turned[i] = (was[i] # invert) OBVIOUS
  <2>2. was[i] \in BOOLEAN BY <1>1
  <2> HIDE DEF turned, D
  <2> QED BY <2>1, <2>2
<1>4. ASSUME Alike(dots, was, invert) PROVE dots = turned
  <2>1. DOMAIN dots = D BY <1>4 DEF Alike
  <2>2. ASSUME NEW i \in D PROVE dots[i] = turned[i]
    <3>1. dots[i] \in BOOLEAN /\ turned[i] \in BOOLEAN BY <1>1, <1>3, <2>1
    <3>2. dots[i] <=> turned[i]
      <4> HIDE DEF turned
      <4> QED BY <1>3, <1>4 DEF Alike
    <3> HIDE DEF turned
    <3> QED BY <3>1, <3>2
  <2>3. turned = [i \in D |-> turned[i]] OBVIOUS
  <2> HIDE DEF turned, D
  <2> QED BY <1>1, <2>1, <2>2, <2>3
<1>5. ASSUME dots = turned PROVE Alike(dots, was, invert)
  <2>1. DOMAIN turned = D OBVIOUS
  <2> HIDE DEF turned
  <2> QED BY <1>3, <1>5, <2>1 DEF Alike
<1> QED BY <1>2, <1>4, <1>5 DEF dots, was

\* The same as what is the same, inverted when one of the two is.
LEMMA PictureThrough ==
  ASSUME NEW file, NEW between, NEW original, NEW first \in BOOLEAN, NEW second \in BOOLEAN,
         SamePicture(between, original, first), SamePicture(file, between, second)
  PROVE  SamePicture(file, original, first # second)
<1> DEFINE a == Seen(original).dots
           b == Seen(between).dots
           c == Seen(file).dots
           both == (first # second)
<1>1. /\ Seen(between).size = Seen(original).size /\ Alike(b, a, first)
      /\ Seen(file).size = Seen(between).size /\ Alike(c, b, second)
  BY AlikeIs
<1>2. both \in BOOLEAN /\ (both <=> (first /\ ~ second) \/ (~ first /\ second)) OBVIOUS
<1> HIDE DEF a, b, c, both
<1>3. Alike(c, a, both) BY <1>1, <1>2 DEF Alike
<1>4. SamePicture(file, original, both) BY <1>1, <1>2, <1>3, AlikeIs DEF a, c
<1> QED BY <1>4 DEF both

\* A picture is the same as itself.
LEMMA PictureItself ==
  ASSUME NEW file
  PROVE  SamePicture(file, file, FALSE) /\ SameSize(file, file)
<1>1. Alike(Seen(file).dots, Seen(file).dots, FALSE) BY DEF Alike
<1> QED BY <1>1, AlikeIs DEF SameSize

\* ricc: a picture of the PC becomes one of a brick in which the same is dark.
LEMMA RicOfImage ==
  ASSUME NEW original, original.form \in Images, GoodPicture(original),
         NEW p, p.invert \in BOOLEAN, NEW file,
         file = File("bytes", <<>>, ric_encode(original.head[1], original.head[2],
                  [i \in DOMAIN original.data |-> InvertOf(p, Gray(original.data[i]))]))
  PROVE  GoodPicture(file) /\ IsPicture(file) /\ SamePicture(file, original, p.invert)
<1> DEFINE w == original.head[1]
           h == original.head[2]
           bitmap == [i \in DOMAIN original.data |-> InvertOf(p, Gray(original.data[i]))]
           s == ric_encode(w, h, bitmap)
           I == 1 .. (w * h)
           data == [i \in I |-> IF Dark(bitmap[i]) THEN 0 ELSE Base - 1]
           picture == ric_decode(s)
<1>1. original.form # "bytes" BY DEF Images
<1>2. /\ original.head \in Nat \X Nat /\ Fits(w, h)
      /\ original.data \in [I -> [1 .. 3 -> 0 .. (Base - 1)]]
  BY <1>1 DEF GoodPicture
<1>3. picture = [width |-> w, height |-> h, data |-> data]
  <2> HIDE DEF w, h, bitmap
  <2> QED BY <1>2, RicKept
<1>4. Starts(s, Magic["ric"]) BY <1>2, RicLayout
<1>5. ASSUME NEW i \in I
      PROVE  LET g == Gray(original.data[i])
             IN Dark(bitmap[i]) <=> (Dark(g) /\ ~ p.invert) \/ (~ Dark(g) /\ p.invert)
  <2> DEFINE g == Gray(original.data[i])
  <2>1. g \in 0 .. (Base - 1)
    <3>1. original.data[i] \in [1 .. 3 -> 0 .. (Base - 1)] BY <1>2
    <3> QED BY <3>1, GrayIs
  <2>2. bitmap[i] = InvertOf(p, g) BY <1>2
  <2> HIDE DEF g, bitmap
  <2>3. Dark(InvertOf(p, g)) <=> (Dark(g) /\ ~ p.invert) \/ (~ Dark(g) /\ p.invert)
    BY <2>1, InvertIs
  <2> QED BY <2>2, <2>3 DEF g
<1> HIDE DEF bitmap
<1>6. file.form = "bytes" /\ file.data = s BY DEF File, s, bitmap
<1> HIDE DEF s
<1>7. GoodPicture(file)
  <2>1. picture.width = w /\ picture.height = h BY <1>3
  <2> QED BY <1>2, <1>4, <1>6, <2>1 DEF GoodPicture
<1>8. IsPicture(file) BY <1>4, <1>6 DEF IsPicture
<1>9. Seen(file) = [size |-> <<w, h>>, dots |-> [i \in I |-> Dark(data[i])]]
  <2>1. "bytes" \notin Images BY DEF Images
  <2>2. DOMAIN picture.data = I /\ picture.width = w /\ picture.height = h
        /\ picture.data = data
    BY <1>3
  <2> HIDE DEF picture, data, I
  <2>3. Seen(file) = [size |-> <<picture.width, picture.height>>,
                      dots |-> [i \in DOMAIN picture.data |-> Dark(picture.data[i])]]
    BY <1>6, <2>1 DEF Seen, picture
  <2> QED BY <2>2, <2>3
<1>10. Seen(original) = [size |-> original.head,
                         dots |-> [i \in DOMAIN original.data |-> Dark(Gray(original.data[i]))]]
  BY DEF Seen
<1>11. Seen(file).size = Seen(original).size
  <2>1. original.head = <<w, h>> BY <1>2
  <2> HIDE DEF w, h
  <2> QED BY <1>9, <1>10, <2>1
<1>12. Alike(Seen(file).dots, Seen(original).dots, p.invert)
  <2> DEFINE dots == Seen(file).dots
             was == Seen(original).dots
  <2>1. was = [i \in I |-> Dark(Gray(original.data[i]))] BY <1>2, <1>10
  <2>2. dots = [i \in I |-> Dark(data[i])]
    <3> HIDE DEF data, I
    <3> QED BY <1>9
  <2> HIDE DEF dots, was
  <2>3. ASSUME NEW i \in I
        PROVE  dots[i] <=> (was[i] /\ ~ p.invert) \/ (~ was[i] /\ p.invert)
    <3>1. data[i] = IF Dark(bitmap[i]) THEN 0 ELSE Base - 1 OBVIOUS
    <3>2. Dark(data[i]) <=> Dark(bitmap[i])
      <4> HIDE DEF data
      <4>1. CASE Dark(bitmap[i]) BY <3>1, <4>1, DarkIs
      <4>2. CASE ~ Dark(bitmap[i]) BY <3>1, <4>2, DarkIs
      <4> QED BY <4>1, <4>2
    <3>3. dots[i] = Dark(data[i]) /\ was[i] = Dark(Gray(original.data[i])) BY <2>1, <2>2
    <3> HIDE DEF data, I
    <3> QED BY <1>5, <3>2, <3>3
  <2>4. DOMAIN dots = I /\ DOMAIN was = I BY <2>1, <2>2
  <2> HIDE DEF I
  <2>5. Alike(dots, was, p.invert) BY <2>3, <2>4 DEF Alike
  <2> QED BY <2>5 DEF dots, was
<1>13. SamePicture(file, original, p.invert) BY <1>11, <1>12, AlikeIs
<1> QED BY <1>7, <1>8, <1>13

\* What ric_decode returns is nothing or the darkest and the lightest colour.
LEMMA PictureIs ==
  ASSUME NEW s, NEW picture, picture = ric_decode(s), picture # NoPicture
  PROVE  picture.data \in [1 .. (picture.width * picture.height) -> {0, Base - 1}]
<1> DEFINE word(i) == LITTLEENDIAN_GET_WORD(s, i)
           of(opcode) == {p \in Commands(s) : word(p + 2) = opcode}
           end == IF First(of(SPRITE)) < First(of(COPYBITS))
                  THEN First(of(COPYBITS)) ELSE First(of(SPRITE))
           sprite == Last({p \in of(SPRITE) : p <= end})
           copy == Last({p \in of(COPYBITS) : p <= end})
           row == word(sprite + 8)
           w == word(copy + 12)
           h == word(copy + 14)
           byte(x, y) == s[sprite + 10 + y * row + x \div Bits]
           colour(i) == IF BitSet(byte((i - 1) % w, (i - 1) \div w), ((i - 1) % w) % Bits)
                        THEN 0 ELSE Base - 1
<1>1. ~ (of(SPRITE) = {} \/ of(COPYBITS) = {})
  <2>1. ASSUME of(SPRITE) = {} \/ of(COPYBITS) = {} PROVE ric_decode(s) = NoPicture
    BY <2>1 DEF ric_decode
  <2> HIDE DEF of
  <2> QED BY <2>1
<1>2. ric_decode(s) = [width |-> w, height |-> h, data |-> [i \in 1 .. (w * h) |-> colour(i)]]
  BY <1>1 DEF ric_decode
<1>3. \A i : colour(i) \in {0, Base - 1} OBVIOUS
<1> HIDE DEF w, h, colour
<1> QED BY <1>2, <1>3

\* What ricc makes of a picture of a brick.
ImageOf(original, p, to, loss, wrong) ==
  LET picture == ric_decode(original.data)
  IN File(to, <<picture.width, picture.height>>,
          [i \in DOMAIN picture.data |->
             [c \in 1 .. 3 |->
                IF Dark(InvertOf(p, picture.data[i])) <=> i \notin wrong THEN loss
                ELSE Base - 1 - loss]])

\* ricc: a picture of a brick becomes one of the PC of the same size in which
\* the same is dark, unless a JPEG shows dots wrong.
LEMMA ImageOfRic ==
  ASSUME NEW original, original.form = "bytes", GoodPicture(original),
         NEW p, p.invert \in BOOLEAN, NEW to \in Images, NEW loss \in {0, 1},
         NEW wrong, ric_decode(original.data) # NoPicture,
         NEW file, file = ImageOf(original, p, to, loss, wrong)
  PROVE  /\ GoodPicture(file) /\ IsPicture(file) /\ SameSize(file, original)
         /\ wrong = {} => SamePicture(file, original, p.invert)
<1> DEFINE picture == ric_decode(original.data)
           w == picture.width
           h == picture.height
           I == 1 .. (w * h)
           colour(i) == IF Dark(InvertOf(p, picture.data[i])) <=> i \notin wrong THEN loss
                        ELSE Base - 1 - loss
           data == [i \in I |-> [c \in 1 .. 3 |-> colour(i)]]
<1>1. "bytes" \notin Images BY DEF Images
<1>2. Fits(w, h) BY <1>1 DEF GoodPicture
<1>3. w \in Nat /\ h \in Nat
  <2>1. {w, h} \subseteq 1 .. (Word \div 2 - 1) BY <1>2 DEF Fits
  <2>2. Word \div 2 \in Nat BY HalfWord
  <2> HIDE DEF w, h
  <2> QED BY <2>1, <2>2, SMT
<1>4. picture.data \in [I -> {0, Base - 1}] BY PictureIs
<1>5. file.form = to /\ file.head = <<w, h>> /\ file.data = data
  <2>1. DOMAIN picture.data = I BY <1>4
  <2> QED BY <2>1 DEF File, ImageOf
<1> HIDE DEF picture
<1>6. /\ loss \in 0 .. (Base - 1) /\ Base - 1 - loss \in 0 .. (Base - 1)
      /\ loss \in Nat /\ Base - 1 - loss \in Nat /\ Dark(loss) /\ ~ Dark(Base - 1 - loss)
  <2>1. CASE loss = 0
    <3>1. Base - 1 - loss = Base - 1 /\ loss \in 0 .. (Base - 1)
          /\ Base - 1 \in 0 .. (Base - 1)
      BY <2>1, BaseIs, SMT
    <3> QED BY <2>1, <3>1, DarkIs
  <2>2. CASE loss = 1
    <3>1. Base - 1 - loss = Base - 2 /\ loss \in 0 .. (Base - 1)
          /\ Base - 2 \in 0 .. (Base - 1)
      BY <2>2, BaseIs, SMT
    <3> QED BY <2>2, <3>1, DarkIs
  <2> QED BY <2>1, <2>2
<1>7. ASSUME NEW i \in I
      PROVE  /\ colour(i) \in 0 .. (Base - 1) /\ colour(i) \in Nat
             /\ wrong = {} => (Dark(colour(i)) <=> Dark(InvertOf(p, picture.data[i])))
  <2>1. wrong = {} => i \notin wrong OBVIOUS
  <2>2. Dark(InvertOf(p, picture.data[i])) \in BOOLEAN BY DEF Dark
  <2> QED BY <1>6, <2>1, <2>2
<1> HIDE DEF colour
<1>8. GoodPicture(file)
  <2>1. data \in [I -> [1 .. 3 -> 0 .. (Base - 1)]] BY <1>7
  <2>2. <<w, h>> \in Nat \X Nat /\ <<w, h>>[1] = w /\ <<w, h>>[2] = h BY <1>3
  <2> HIDE DEF data, w, h
  <2> QED BY <1>2, <1>5, <2>1, <2>2 DEF GoodPicture
<1>9. IsPicture(file) BY <1>5 DEF IsPicture
<1>10. Seen(file) = [size |-> <<w, h>>, dots |-> [i \in I |-> Dark(Gray(data[i]))]]
  <2>1. DOMAIN data = I OBVIOUS
  <2> HIDE DEF data, w, h
  <2> QED BY <1>5, <2>1 DEF Seen
<1>11. Seen(original) = [size |-> <<w, h>>,
                         dots |-> [i \in DOMAIN picture.data |-> Dark(picture.data[i])]]
  BY <1>1 DEF Seen, picture
<1>12. Seen(file).size = Seen(original).size BY <1>10, <1>11
<1>13. ASSUME wrong = {} PROVE Alike(Seen(file).dots, Seen(original).dots, p.invert)
  <2> DEFINE dots == Seen(file).dots
             was == Seen(original).dots
  <2>1. was = [i \in I |-> Dark(picture.data[i])] BY <1>4, <1>11
  <2>2. dots = [i \in I |-> Dark(Gray(data[i]))]
    <3> HIDE DEF data, I
    <3> QED BY <1>10
  <2> HIDE DEF dots, was
  <2>3. ASSUME NEW i \in I
        PROVE  dots[i] <=> (was[i] /\ ~ p.invert) \/ (~ was[i] /\ p.invert)
    <3>1. data[i] = [c \in 1 .. 3 |-> colour(i)] OBVIOUS
    <3> HIDE DEF data
    <3>2. Gray(data[i]) = colour(i) BY <1>7, <3>1, GrayOne
    <3>3. picture.data[i] \in 0 .. (Base - 1)
      <4>1. 0 \in 0 .. (Base - 1) /\ Base - 1 \in 0 .. (Base - 1) BY BaseIs, SMT
      <4> QED BY <1>4, <4>1
    <3>4. dots[i] = Dark(Gray(data[i])) /\ was[i] = Dark(picture.data[i]) BY <2>1, <2>2
    <3> HIDE DEF I
    <3> QED BY <1>7, <1>13, <3>2, <3>3, <3>4, InvertIs
  <2>4. DOMAIN dots = I /\ DOMAIN was = I BY <2>1, <2>2
  <2> HIDE DEF I
  <2>5. Alike(dots, was, p.invert) BY <2>3, <2>4 DEF Alike
  <2> QED BY <2>5 DEF dots, was
<1>14. wrong = {} => SamePicture(file, original, p.invert) BY <1>12, <1>13, AlikeIs
<1> QED BY <1>8, <1>9, <1>12, <1>14 DEF SameSize

\* The pictures that users have can be read.
LEMMA OriginalPicture ==
  ASSUME NEW file, Whole(file), IsPicture(file)
  PROVE  GoodPicture(file) /\ SamePicture(file, file, FALSE) /\ SameSize(file, file)
<1>1. ASSUME file.form \in Images PROVE GoodPicture(file)
  BY <1>1 DEF Whole, GoodPicture, Images
<1>2. ASSUME file.form = "bytes", Starts(file.data, Magic["ric"]) PROVE GoodPicture(file)
  <2>1. LET picture == ric_decode(file.data)
        IN picture = NoPicture \/ Fits(picture.width, picture.height)
    BY <1>2 DEF Whole, Images
  <2> QED BY <1>2, <2>1 DEF GoodPicture
<1> QED BY <1>1, <1>2, PictureItself DEF IsPicture

-----------------------------------------------------------------------------
(* The invariant of the converters and of calibrate.                       *)

\* A file with an origin is one that the programs can read, and is the same
\* as its origin.
Descends(f) ==
  source[f] # None =>
    LET original == Originals[source[f]]
    IN /\ source[f] \in DOMAIN Originals
       /\ IsSound(original) =>
            GoodSound(disk[f]) /\ IsSound(disk[f]) /\ SameSound(disk[f], original)
       /\ IsPicture(original) =>
            /\ GoodPicture(disk[f]) /\ IsPicture(disk[f]) /\ SameSize(disk[f], original)
            /\ blurred[f] \/ SamePicture(disk[f], original, inverted[f])

\* A converter works on files that users have named.
Converts ==
  prog = Idle \/ prog.tool = "calibrate" \/
    /\ prog = [tool |-> prog.tool, at |-> prog.at, in |-> prog.in, out |-> prog.out,
               kind |-> prog.kind, to |-> prog.to, invert |-> prog.invert]
    /\ {prog.in, prog.out} \subseteq Name /\ prog.invert \in BOOLEAN
    /\ prog.kind = "ric" => prog.to \in Images

\* The files: each with an origin descends from it.
FilesInv ==
  /\ DOMAIN disk = Name /\ DOMAIN source = Name
  /\ inverted \in [Name -> BOOLEAN] /\ blurred \in [Name -> BOOLEAN]
  /\ \A f \in Name : Descends(f)
  /\ Converts

\* No telegram of calibrate has failed when it could have been obeyed, or
\* nxt->error does not say that one has failed.
Clean == mute = 0 /\ (err = 0 \/ trouble = 0)
\* What calibrate has values by each of its steps.
Sensed(step) ==
  CASE step = "mode" -> prog.got = <<>>
    [] step = "min" -> prog.got = <<>> /\ port = "raw"
    [] step = "max" -> prog.got = <<<<min, "raw">>>> /\ min \in Readings /\ port = "raw"
    [] step = "off" -> /\ prog.got = <<<<min, "raw">>, <<max, "raw">>>>
                       /\ {min, max} \subseteq Readings
    [] OTHER -> /\ prog.got = <<<<min, "raw">>, <<max, "raw">>>>
                /\ {min, max} \subseteq Readings /\ port = "none"
\* How many handles are open and what is on the brick by each of its steps.
Opened(step) ==
  CASE step \in {"mode", "min", "max", "off", "find", "remove"} -> trouble = 0 => held = 0
    [] step = "close found" -> trouble = 0 => held = 1
    [] step = "open" -> held = 0 /\ stored = NoFile
    [] step = "write" -> held = 1
    [] step = "close" -> held = 1 /\ stored = cal_encode(min, max)
    [] OTHER -> held = 0 /\ stored = cal_encode(min, max)

\* calibrate runs, at one of its steps.
Running == prog # Idle /\ prog.tool = "calibrate"
Steps == {"mode", "min", "max", "off", "find", "close found", "remove", "open", "write",
          "close", "end"}

\* calibrate: as long as it is clean it knows what it has got; when main
\* returns, what it returned is true.
CalibrateInv ==
  /\ mute \in Nat /\ trouble \in Nat
  /\ err \in {0, NXT_ERR_CONNECTION, NXT_ERR_FILE_NOT_FOUND, NXT_ERR_FILE_IS_BUSY}
  /\ mute = 0 => err # NXT_ERR_CONNECTION
  /\ Running => /\ prog = [tool |-> "calibrate", at |-> prog.at, got |-> prog.got]
                /\ prog.at \in Steps /\ exit = NoExit
                /\ Clean => Sensed(prog.at) /\ Opened(prog.at)
  /\ exit # NoExit /\ mute = 0 /\ (exit.code = 0 \/ trouble = 0) => Calibrated(exit.got)

\* The inductive invariant: what the two kinds of programs keep.
KeptInv == FilesInv /\ CalibrateInv

(* The files of the PC *)

\* A step that leaves the files alone keeps what they are.
LEMMA FilesStay ==
  ASSUME FilesInv, UNCHANGED diskVars, Converts'
  PROVE  FilesInv'
<1>1. disk' = disk /\ source' = source /\ inverted' = inverted /\ blurred' = blurred
  BY DEF diskVars
<1>2. ASSUME NEW f \in Name PROVE Descends(f)' BY <1>1 DEF FilesInv, Descends
<1> QED BY <1>1, <1>2 DEF FilesInv

\* A file that a user puts somewhere is the same as itself.
LEMMA PlaceKeeps ==
  ASSUME FilesInv, Converts', NEW g \in Name, NEW file, NEW from, Place(g, file, from),
         from = None \/ (from \in DOMAIN Originals /\ file = Originals[from])
  PROVE  FilesInv'
<1>1. /\ DOMAIN disk = Name /\ DOMAIN source = Name
      /\ inverted \in [Name -> BOOLEAN] /\ blurred \in [Name -> BOOLEAN]
      /\ disk' = [disk EXCEPT ![g] = file] /\ source' = [source EXCEPT ![g] = from]
      /\ inverted' = [inverted EXCEPT ![g] = FALSE] /\ blurred' = [blurred EXCEPT ![g] = FALSE]
  BY DEF FilesInv, Place
<1>2. /\ DOMAIN disk' = Name /\ DOMAIN source' = Name
      /\ inverted' \in [Name -> BOOLEAN] /\ blurred' \in [Name -> BOOLEAN]
      /\ disk'[g] = file /\ source'[g] = from /\ inverted'[g] = FALSE /\ blurred'[g] = FALSE
      /\ \A f \in Name \ {g} : /\ disk'[f] = disk[f] /\ source'[f] = source[f]
                               /\ inverted'[f] = inverted[f] /\ blurred'[f] = blurred[f]
  BY <1>1
<1>3. ASSUME from # None
      PROVE  /\ IsSound(file) => GoodSound(file) /\ SameSound(file, file)
             /\ IsPicture(file) => /\ GoodPicture(file) /\ SameSize(file, file)
                                   /\ SamePicture(file, file, FALSE)
  <2>1. Whole(file) BY <1>3, ConvertAssumption
  <2> QED BY <2>1, OriginalSound, OriginalPicture
<1>4. Descends(g)'
  <2>1. SUFFICES ASSUME from # None PROVE Descends(g)' BY <1>2 DEF Descends
  <2>2. from \in DOMAIN Originals /\ file = Originals[from] BY <2>1
  <2> QED BY <1>2, <1>3, <2>1, <2>2 DEF Descends
<1>5. ASSUME NEW f \in Name \ {g} PROVE Descends(f)' BY <1>2 DEF FilesInv, Descends
<1> QED BY <1>2, <1>4, <1>5 DEF FilesInv

\* What is made of a file is the same as the file's origin, as far as it is the
\* same as the file.
LEMMA OutputKeeps ==
  ASSUME FilesInv, Converts', prog.in \in Name, prog.out \in Name, prog.invert \in BOOLEAN,
         NEW file, NEW blurs \in BOOLEAN, Output(file, blurs),
         GoodSound(In) /\ IsSound(In) => /\ GoodSound(file) /\ IsSound(file)
                                         /\ SameSound(file, In),
         GoodPicture(In) /\ IsPicture(In) =>
           /\ GoodPicture(file) /\ IsPicture(file) /\ SameSize(file, In)
           /\ blurs \/ SamePicture(file, In, prog.invert)
  PROVE  FilesInv'
<1>0. PICK f \in Name, g \in Name : f = prog.in /\ g = prog.out OBVIOUS
<1> DEFINE turned == (inverted[f] # prog.invert)
           bad == (blurred[f] \/ blurs)
<1>1. /\ DOMAIN disk = Name /\ DOMAIN source = Name
      /\ inverted \in [Name -> BOOLEAN] /\ blurred \in [Name -> BOOLEAN]
      /\ disk' = [disk EXCEPT ![g] = file] /\ source' = [source EXCEPT ![g] = source[f]]
      /\ inverted' = [inverted EXCEPT ![g] = turned]
      /\ blurred' = [blurred EXCEPT ![g] = bad]
  BY <1>0 DEF FilesInv, Output
<1>2. turned \in BOOLEAN /\ bad \in BOOLEAN OBVIOUS
<1>3. inverted[f] \in BOOLEAN /\ blurred[f] \in BOOLEAN BY <1>1
<1>4. Descends(f) BY DEF FilesInv
<1>5. In = disk[f] BY <1>0 DEF In
<1>6. /\ IsSound(Originals[source[f]]) /\ source[f] # None
           => GoodSound(file) /\ IsSound(file) /\ SameSound(file, Originals[source[f]])
      /\ IsPicture(Originals[source[f]]) /\ source[f] # None
           => /\ GoodPicture(file) /\ IsPicture(file) /\ SameSize(file, Originals[source[f]])
              /\ bad \/ SamePicture(file, Originals[source[f]], turned)
  <2> DEFINE original == Originals[source[f]]
  <2>1. ASSUME IsSound(original), source[f] # None
        PROVE  GoodSound(file) /\ IsSound(file) /\ SameSound(file, original)
    <3>1. /\ source[f] \in DOMAIN Originals /\ GoodSound(In) /\ IsSound(In)
          /\ SameSound(In, original)
      BY <1>4, <1>5, <2>1 DEF Descends
    <3>2. GoodSound(original) BY <2>1, <3>1, ConvertAssumption, OriginalSound
    <3>3. SameSound(file, In) BY <3>1
    <3>4. SameSound(file, original)
      <4> HIDE DEF original
      <4> QED BY <3>1, <3>2, <3>3, SoundThrough
    <3> QED BY <3>1, <3>4
  <2>2. ASSUME IsPicture(original), source[f] # None
        PROVE  /\ GoodPicture(file) /\ IsPicture(file) /\ SameSize(file, original)
               /\ bad \/ SamePicture(file, original, turned)
    <3>1. /\ source[f] \in DOMAIN Originals /\ GoodPicture(In) /\ IsPicture(In)
          /\ SameSize(In, original)
          /\ blurred[f] \/ SamePicture(In, original, inverted[f])
      BY <1>4, <1>5, <2>2 DEF Descends
    <3>2. SameSize(file, In) /\ (blurs \/ SamePicture(file, In, prog.invert)) BY <3>1
    <3>3. SameSize(file, original) BY <3>1, <3>2 DEF SameSize
    <3>4. ASSUME ~ bad PROVE SamePicture(file, original, turned)
      <4>1. SamePicture(In, original, inverted[f]) /\ SamePicture(file, In, prog.invert)
        BY <3>1, <3>2, <3>4
      <4> HIDE DEF original
      <4> QED BY <1>3, <4>1, PictureThrough
    <3> HIDE DEF original, turned, bad
    <3> QED BY <3>1, <3>3, <3>4
  <2> QED BY <2>1, <2>2
<1> HIDE DEF turned, bad
<1>7. /\ DOMAIN disk' = Name /\ DOMAIN source' = Name
      /\ inverted' \in [Name -> BOOLEAN] /\ blurred' \in [Name -> BOOLEAN]
      /\ disk'[g] = file /\ source'[g] = source[f] /\ inverted'[g] = turned
      /\ blurred'[g] = bad
      /\ \A e \in Name \ {g} : /\ disk'[e] = disk[e] /\ source'[e] = source[e]
                               /\ inverted'[e] = inverted[e] /\ blurred'[e] = blurred[e]
  BY <1>1, <1>2, <1>3
<1>8. Descends(g)'
  <2>1. source[f] # None => source[f] \in DOMAIN Originals BY <1>4 DEF Descends
  <2> QED BY <1>6, <1>7, <2>1 DEF Descends
<1>9. ASSUME NEW e \in Name \ {g} PROVE Descends(e)' BY <1>7 DEF FilesInv, Descends
<1> QED BY <1>7, <1>8, <1>9 DEF FilesInv

\* rsoc writes a sound file that says what it read.
LEMMA Wav2RsoKeeps == ASSUME FilesInv, Wav2Rso PROVE FilesInv'
<1>1. prog # Idle /\ prog.tool # "calibrate" /\ prog' = Idle BY DEF Wav2Rso, Converting
<1>2. prog.in \in Name /\ prog.out \in Name /\ prog.invert \in BOOLEAN
  BY <1>1 DEF FilesInv, Converts
<1>3. Converts' BY <1>1 DEF Converts
<1>4. CASE UNCHANGED diskVars BY <1>3, <1>4, FilesStay
<1>5. CASE ~ (~ Readable("wav") \/ In.head[1] < RateMin \/ In.head[1] > RateMax)
  <2>1. PICK file : file = File("bytes", <<>>,
                      rso_encode(In.head[1],
                                 InPlace(Len(In.data) \div In.head[2], In.head[2], In.data)))
    OBVIOUS
  <2>2. Output(file, FALSE) BY <1>5, <2>1 DEF Wav2Rso
  <2>3. In.form = "wav" BY <1>5 DEF Readable
  <2>4. ASSUME GoodSound(In), IsSound(In)
        PROVE  GoodSound(file) /\ IsSound(file) /\ SameSound(file, In)
    <3>1. PICK original : original = In OBVIOUS
    <3>2. /\ original.form = "wav" /\ original.head \in Nat \X (Nat \ {0})
          /\ original.data \in Seq(0 .. (Word - 1))
      BY <2>3, <2>4, <3>1 DEF GoodSound
    <3> DEFINE rate == original.head[1]
               channels == original.head[2]
               data == original.data
    <3>3. rate \in Nat /\ channels \in Nat \ {0} BY <3>2
    <3>4. rate \in RateMin .. RateMax
      <4>1. ~ (rate < RateMin) /\ ~ (rate > RateMax) BY <1>5, <3>1
      <4> HIDE DEF rate
      <4> QED BY <3>3, <4>1, FormatsAssumption, SMT
    <3>5. file = File("bytes", <<>>,
                      rso_encode(rate, InPlace(Len(data) \div channels, channels, data)))
      BY <2>1, <3>1
    <3>6. data \in Seq(0 .. (Word - 1)) /\ original.head[1] = rate
          /\ original.head[2] = channels /\ original.data = data
      BY <3>2
    <3> HIDE DEF rate, channels, data
    <3>7. GoodSound(file) /\ IsSound(file) /\ SameSound(file, original)
      BY <3>2, <3>3, <3>4, <3>5, <3>6, RsoOfWav
    <3> QED BY <3>1, <3>7
  <2>5. ~ (GoodPicture(In) /\ IsPicture(In))
    <3>1. IsSound(In) BY <2>3 DEF IsSound
    <3>2. PICK read : read = In OBVIOUS
    <3> QED BY <3>1, <3>2, Exclusive
  <2> QED BY <1>2, <1>3, <2>2, <2>4, <2>5, OutputKeeps
<1> QED BY <1>4, <1>5 DEF Wav2Rso

\* rsoc writes a sound of the PC that says what it read.
LEMMA Rso2WavKeeps == ASSUME FilesInv, Rso2Wav PROVE FilesInv'
<1>1. prog # Idle /\ prog.tool # "calibrate" /\ prog' = Idle BY DEF Rso2Wav, Converting
<1>2. prog.in \in Name /\ prog.out \in Name /\ prog.invert \in BOOLEAN
  BY <1>1 DEF FilesInv, Converts
<1>3. Converts' BY <1>1 DEF Converts
<1>4. CASE Anything
  <2>1. PICK file : Place(prog.out, file, None) BY <1>4 DEF Anything
  <2>2. PICK g \in Name : g = prog.out BY <1>2
  <2> QED BY <1>3, <2>1, <2>2, PlaceKeeps
<1>5. CASE Readable("bytes") /\ rso_decode(In.data) # NoSound
  <2>1. PICK original : original = In OBVIOUS
  <2> DEFINE sound == rso_decode(original.data)
  <2>2. PICK file : file = File("wav", <<sound.rate, 1>>,
                      [i \in 1 .. Len(sound.data) |->
                         ((sound.data[i] + Base \div 2) * Base) % Word])
    OBVIOUS
  <2>3. Output(file, FALSE) BY <1>5, <2>1, <2>2 DEF Rso2Wav
  <2>4. original.form = "bytes" /\ sound # NoSound BY <1>5, <2>1 DEF Readable
  <2>5. ASSUME GoodSound(original)
        PROVE  GoodSound(file) /\ IsSound(file) /\ SameSound(file, original)
    <3>1. GoodRso(original.data) BY <2>4, <2>5 DEF GoodSound
    <3> HIDE DEF sound
    <3> QED BY <2>2, <2>4, <3>1, WavOfRso DEF sound
  <2>6. ~ IsPicture(original)
    <3>1. LITTLEENDIAN_GET_WORD(original.data, 1) = 1 BY <2>4 DEF rso_decode
    <3>2. ~ Starts(original.data, Magic["ric"]) BY <3>1, RicStarts
    <3> QED BY <2>4, <3>2 DEF IsPicture, Images
  <2> QED BY <1>2, <1>3, <2>1, <2>3, <2>5, <2>6, OutputKeeps
<1> QED BY <1>4, <1>5 DEF Rso2Wav

\* ricc writes a picture file in which the same is dark.
LEMMA Img2RicKeeps == ASSUME FilesInv, Img2Ric PROVE FilesInv'
<1>1. /\ prog # Idle /\ prog.tool # "calibrate" /\ prog' = Idle /\ prog.kind \in Images
  BY DEF Img2Ric, Converting
<1>2. prog.in \in Name /\ prog.out \in Name /\ prog.invert \in BOOLEAN
  BY <1>1 DEF FilesInv, Converts
<1>3. Converts' BY <1>1 DEF Converts
<1>4. CASE UNCHANGED diskVars BY <1>3, <1>4, FilesStay
<1>5. CASE Readable(prog.kind)
  <2>1. PICK original, p : original = In /\ p = prog OBVIOUS
  <2>2. PICK file : file = File("bytes", <<>>, ric_encode(original.head[1], original.head[2],
                      [i \in DOMAIN original.data |-> InvertOf(p, Gray(original.data[i]))]))
    OBVIOUS
  <2>3. Output(file, FALSE) BY <1>5, <2>1, <2>2 DEF Img2Ric
  <2>4. original.form \in Images BY <1>1, <1>5, <2>1 DEF Readable
  <2>5. ASSUME GoodPicture(original)
        PROVE  /\ GoodPicture(file) /\ IsPicture(file) /\ SameSize(file, original)
               /\ SamePicture(file, original, prog.invert)
    <3>1. p.invert \in BOOLEAN BY <1>2, <2>1
    <3>2. GoodPicture(file) /\ IsPicture(file) /\ SamePicture(file, original, p.invert)
      BY <2>2, <2>4, <2>5, <3>1, RicOfImage
    <3>3. SameSize(file, original) BY <3>2 DEF SamePicture
    <3> QED BY <2>1, <3>2, <3>3
  <2>6. ~ IsSound(original)
    <3>1. IsPicture(original) BY <2>4 DEF IsPicture
    <3> QED BY <3>1, Exclusive
  <2> QED BY <1>2, <1>3, <2>1, <2>3, <2>5, <2>6, OutputKeeps
<1> QED BY <1>4, <1>5 DEF Img2Ric

\* ricc writes a picture of the PC in which the same is dark, unless it is a
\* JPEG that shows dots wrong.
LEMMA Ric2ImgKeeps == ASSUME FilesInv, Ric2Img PROVE FilesInv'
<1>1. /\ prog # Idle /\ prog.tool # "calibrate" /\ prog' = Idle /\ prog.kind = "ric"
  BY DEF Ric2Img, Converting
<1>2. /\ prog.in \in Name /\ prog.out \in Name /\ prog.invert \in BOOLEAN
      /\ prog.to \in Images
  BY <1>1 DEF FilesInv, Converts
<1>3. Converts' BY <1>1 DEF Converts
<1>4. CASE Anything
  <2>1. PICK file : Place(prog.out, file, None) BY <1>4 DEF Anything
  <2>2. PICK g \in Name : g = prog.out BY <1>2
  <2> QED BY <1>3, <2>1, <2>2, PlaceKeeps
<1>5. CASE Readable("bytes") /\ Starts(In.data, Magic["ric"]) /\ ric_decode(In.data) # NoPicture
  <2>1. PICK original, p, to : original = In /\ p = prog /\ to = prog.to OBVIOUS
  <2> DEFINE picture == ric_decode(original.data)
  <2>2. PICK loss \in {0, 1}, wrong \in Losses :
          Output(ImageOf(original, p, to, loss, wrong), wrong # {})
    <3>1. PICK loss \in IF to = "jpg" THEN {0, 1} ELSE {0},
               wrong \in IF to = "jpg" THEN Losses ELSE {{}} :
            Output(ImageOf(original, p, to, loss, wrong), wrong # {})
      BY <1>5, <2>1 DEF Ric2Img, ImageOf
    <3>2. loss \in {0, 1} /\ wrong \in Losses BY ConvertAssumption
    <3> QED BY <3>1, <3>2
  <2>3. PICK file, blurs : /\ file = ImageOf(original, p, to, loss, wrong)
                           /\ blurs = (wrong # {})
    OBVIOUS
  <2>4. Output(file, blurs) /\ blurs \in BOOLEAN BY <2>2, <2>3
  <2>5. /\ original.form = "bytes" /\ picture # NoPicture
        /\ Starts(original.data, Magic["ric"])
    BY <1>5, <2>1 DEF Readable
  <2>6. ASSUME GoodPicture(original)
        PROVE  /\ GoodPicture(file) /\ IsPicture(file) /\ SameSize(file, original)
               /\ blurs \/ SamePicture(file, original, prog.invert)
    <3>1. p.invert \in BOOLEAN /\ to \in Images BY <1>2, <2>1
    <3>2. /\ GoodPicture(file) /\ IsPicture(file) /\ SameSize(file, original)
          /\ wrong = {} => SamePicture(file, original, p.invert)
      BY <2>3, <2>5, <2>6, <3>1, ImageOfRic
    <3> QED BY <2>1, <2>3, <3>2
  <2>7. ~ IsSound(original)
    <3>1. IsPicture(original) BY <2>5 DEF IsPicture
    <3> QED BY <3>1, Exclusive
  <2> QED BY <1>2, <1>3, <2>1, <2>4, <2>6, <2>7, OutputKeeps
<1> QED BY <1>4, <1>5 DEF Ric2Img

\* calibrate's record after a step, and after one that has values something.
LEMMA AtNext ==
  ASSUME NEW q, NEW a, NEW b, q = [tool |-> "calibrate", at |-> a, got |-> b],
         NEW next, NEW r, r = [q EXCEPT !.at = next]
  PROVE  r = [tool |-> "calibrate", at |-> next, got |-> b]
OBVIOUS

\* calibrate goes to another step, with another reading.
LEMMA GotNext ==
  ASSUME NEW q, NEW a, NEW b, q = [tool |-> "calibrate", at |-> a, got |-> b],
         NEW next, NEW values, NEW r, r = [q EXCEPT !.at = next, !.got = values]
  PROVE  r = [tool |-> "calibrate", at |-> next, got |-> values]
<1>1. PICK t : t = [tool |-> "calibrate", at |-> next, got |-> b] OBVIOUS
<1>2. [q EXCEPT !.at = next] = t BY <1>1
<1>3. r = [t EXCEPT !.got = values] BY <1>2
<1> QED BY <1>1, <1>3

\* Every step keeps what the files are.
LEMMA FilesStep ==
  ASSUME FilesInv, CalibrateInv, [ConvertNext]_convertVars
  PROVE  FilesInv'
<1>1. ASSUME NEW f \in Name, Change(f) PROVE FilesInv'
  <2>1. prog' = prog BY <1>1 DEF Change
  <2>2. Converts' BY <2>1 DEF FilesInv, Converts
  <2>3. PICK file, from : /\ Place(f, file, from)
                          /\ from = None \/ (from \in DOMAIN Originals /\ file = Originals[from])
    BY <1>1 DEF Change
  <2> QED BY <2>2, <2>3, PlaceKeeps
<1>2. ASSUME NEW tool \in DOMAIN Knows, NEW f \in Name, NEW g \in Name, Run(tool, f, g)
      PROVE  FilesInv'
  <2>1. PICK kind \in recognize_format(tool, disk[f]) \ {None},
             invert \in IF tool = "ricc" THEN BOOLEAN ELSE {FALSE} :
          \E to \in IF kind = "ric" THEN Images ELSE {None} :
            prog' = [tool |-> tool, at |-> "open", in |-> f, out |-> g, kind |-> kind,
                     to |-> to, invert |-> invert]
    BY <1>2 DEF Run
  <2>2. PICK to \in IF kind = "ric" THEN Images ELSE {None} :
          prog' = [tool |-> tool, at |-> "open", in |-> f, out |-> g, kind |-> kind,
                   to |-> to, invert |-> invert]
    BY <2>1
  <2>3. invert \in BOOLEAN /\ (kind = "ric" => to \in Images) OBVIOUS
  <2>4. Converts'
    <3> DEFINE q == prog'
    <3>1. /\ q = [tool |-> q.tool, at |-> q.at, in |-> q.in, out |-> q.out, kind |-> q.kind,
                  to |-> q.to, invert |-> q.invert]
          /\ q.in = f /\ q.out = g /\ q.invert = invert /\ q.kind = kind /\ q.to = to
      BY <2>2
    <3> HIDE DEF q
    <3> QED BY <2>3, <3>1 DEF Converts, q
  <2>5. UNCHANGED diskVars BY <1>2 DEF Run
  <2> QED BY <2>4, <2>5, FilesStay
<1>3. ASSUME Open PROVE FilesInv'
  <2>1. /\ prog # Idle /\ prog.tool # "calibrate"
        /\ prog = [tool |-> prog.tool, at |-> prog.at, in |-> prog.in, out |-> prog.out,
                   kind |-> prog.kind, to |-> prog.to, invert |-> prog.invert]
        /\ prog.in \in Name /\ prog.out \in Name /\ prog.invert \in BOOLEAN
        /\ prog.kind = "ric" => prog.to \in Images
    BY <1>3 DEF Open, FilesInv, Converts
  <2>2. CASE prog' = Idle /\ UNCHANGED diskVars
    <3>1. Converts' BY <2>2 DEF Converts
    <3> QED BY <2>2, <3>1, FilesStay
  <2>3. CASE Place(prog.out, Empty, None) /\ prog' = [prog EXCEPT !.at = "convert"]
    <3>1. Converts'
      <4> DEFINE q == prog'
      <4>1. /\ q = [tool |-> prog.tool, at |-> "convert", in |-> prog.in, out |-> prog.out,
                    kind |-> prog.kind, to |-> prog.to, invert |-> prog.invert]
        BY <2>1, <2>3
      <4>2. /\ q = [tool |-> q.tool, at |-> q.at, in |-> q.in, out |-> q.out, kind |-> q.kind,
                    to |-> q.to, invert |-> q.invert]
            /\ q.in = prog.in /\ q.out = prog.out /\ q.invert = prog.invert
            /\ q.kind = prog.kind /\ q.to = prog.to
        BY <4>1
      <4> HIDE DEF q
      <4> QED BY <2>1, <4>2 DEF Converts, q
    <3>2. PICK g \in Name : g = prog.out BY <2>1
    <3> QED BY <2>3, <3>1, <3>2, PlaceKeeps
  <2> QED BY <1>3, <2>2, <2>3 DEF Open
<1>4. ASSUME Rmdc PROVE FilesInv'
  <2>1. prog' = Idle /\ UNCHANGED diskVars BY <1>4 DEF Rmdc, Converting
  <2>2. Converts' BY <2>1 DEF Converts
  <2> QED BY <2>1, <2>2, FilesStay
<1>5. ASSUME UNCHANGED diskVars,
             \/ prog' = prog \/ prog' = Idle
             \/ prog'.tool = "calibrate"
      PROVE  FilesInv'
  <2>1. Converts' BY <1>5 DEF FilesInv, Converts
  <2> QED BY <1>5, <2>1, FilesStay
<1>6. ASSUME NEW step, Reached(step), UNCHANGED diskVars,
             \/ \E next : GoTo(next)
             \/ \E next, values : prog' = [prog EXCEPT !.at = next, !.got = values]
      PROVE  FilesInv'
  <2>1. prog'.tool = "calibrate"
    <3>1. prog = [tool |-> "calibrate", at |-> prog.at, got |-> prog.got]
      BY <1>6 DEF CalibrateInv, Running, Reached
    <3>2. PICK q, a, b : q = prog /\ q = [tool |-> "calibrate", at |-> a, got |-> b] BY <3>1
    <3>3. ASSUME NEW next, prog' = [q EXCEPT !.at = next] PROVE prog'.tool = "calibrate"
      <4>1. PICK r : r = prog' OBVIOUS
      <4>2. r = [tool |-> "calibrate", at |-> next, got |-> b]
        <5>1. r = [q EXCEPT !.at = next] BY <3>3, <4>1
        <5>2. q = [tool |-> "calibrate", at |-> a, got |-> b] BY <3>2
        <5> QED BY ONLY <5>1, <5>2, AtNext
      <4> QED BY <4>1, <4>2
    <3>4. ASSUME NEW next, NEW values, prog' = [q EXCEPT !.at = next, !.got = values]
          PROVE  prog'.tool = "calibrate"
      <4>1. PICK r : r = prog' OBVIOUS
      <4>2. r = [tool |-> "calibrate", at |-> next, got |-> values]
        <5>1. r = [q EXCEPT !.at = next, !.got = values] BY <3>4, <4>1
        <5>2. q = [tool |-> "calibrate", at |-> a, got |-> b] BY <3>2
        <5> QED BY ONLY <5>1, <5>2, GotNext
      <4> QED BY <4>1, <4>2
    <3> QED BY <1>6, <3>2, <3>3, <3>4 DEF GoTo
  <2> QED BY <1>5, <1>6, <2>1
<1>7. ASSUME Calibrate PROVE FilesInv' BY <1>5, <1>7 DEF Calibrate
<1>8. ASSUME NEW step, NEW mode, NEW next, SetMode(step, mode, next) PROVE FilesInv'
  BY <1>6, <1>8 DEF SetMode
<1>9. ASSUME GetMin \/ GetMax PROVE FilesInv'
  BY <1>6, <1>9 DEF GetMin, GetMax, GetSensor
<1>10. ASSUME FindOld PROVE FilesInv'
  <2>1. Reached("find") /\ UNCHANGED diskVars /\ \E next : GoTo(next)
    BY <1>10 DEF FindOld, NotFound
  <2> QED BY <1>6, <2>1
<1>11. ASSUME CloseFound \/ CloseNew PROVE FilesInv'
  BY <1>6, <1>11 DEF CloseFound, CloseNew, CloseHandle
<1>12. ASSUME RemoveOld PROVE FilesInv' BY <1>6, <1>12 DEF RemoveOld
<1>13. ASSUME OpenNew PROVE FilesInv' BY <1>6, <1>13 DEF OpenNew
<1>14. ASSUME Write PROVE FilesInv' BY <1>6, <1>14 DEF Write
<1>15. ASSUME EndCalibrate PROVE FilesInv' BY <1>5, <1>15 DEF EndCalibrate
<1>16. ASSUME CleanUp PROVE FilesInv' BY <1>5, <1>16 DEF CleanUp
<1>17. ASSUME UNCHANGED convertVars PROVE FilesInv' BY <1>5, <1>17 DEF convertVars
<1> QED
  BY <1>1, <1>2, <1>3, <1>4, <1>7, <1>8, <1>9, <1>10, <1>11, <1>12, <1>13, <1>14, <1>15,
     <1>16, <1>17, Wav2RsoKeeps, Rso2WavKeeps, Img2RicKeeps, Ric2ImgKeeps DEF ConvertNext

(* calibrate *)

\* A telegram that ends calibrate's being clean has failed; one that does not
\* has succeeded, or was rightly refused.
LEMMA TelegramIs ==
  ASSUME CalibrateInv, NEW w \in Ways, NEW can, Telegram(w, can)
  PROVE  /\ mute' \in Nat /\ trouble' \in Nat
         /\ err' \in {0, NXT_ERR_CONNECTION, NXT_ERR_FILE_NOT_FOUND, NXT_ERR_FILE_IS_BUSY}
         /\ mute' = 0 => err' # NXT_ERR_CONNECTION
         /\ Clean' => Clean /\ (w.ok \/ (trouble = 0 /\ w = Refused /\ ~ can))
         /\ trouble' = 0 => trouble = 0
         /\ w.ok => w.done /\ can
<1>1. /\ mute \in Nat /\ trouble \in Nat
      /\ err \in {0, 256, 135, 139} /\ (mute = 0 => err # 256)
  BY DEF CalibrateInv, NXT_ERR_CONNECTION, NXT_ERR_FILE_NOT_FOUND, NXT_ERR_FILE_IS_BUSY
<1>2. MaxTrouble \in Nat /\ MaxTrouble # 0 BY ConvertAssumption
<1>3. /\ w.done => can
      /\ err' = IF w.err = 0 THEN err ELSE w.err
      /\ trouble' = IF w.ok \/ (w = Refused /\ ~ can) \/ trouble = MaxTrouble
                    THEN trouble ELSE trouble + 1
      /\ mute' = IF w.ok \/ Status(w.err) # 0 THEN mute ELSE mute + 1
  BY DEF Telegram
<1>4. CASE w = [done |-> TRUE, ok |-> TRUE, err |-> 0]
  <2>1. w.done /\ w.ok /\ w.err = 0 BY <1>4
  <2>2. err' = err /\ trouble' = trouble /\ mute' = mute BY <1>3, <2>1
  <2> QED
    BY <1>1, <1>3, <2>1, <2>2
    DEF Clean, NXT_ERR_CONNECTION, NXT_ERR_FILE_NOT_FOUND, NXT_ERR_FILE_IS_BUSY
<1>5. CASE w = Refused
  <2>1. ~ w.done /\ ~ w.ok /\ w.err = 139 BY <1>5 DEF Refused, NXT_ERR_FILE_IS_BUSY
  <2>2. Status(139) # 0 BY SMT DEF Status
  <2>3. err' = 139 /\ mute' = mute BY <1>3, <2>1, <2>2
  <2>4. trouble' = IF ~ can \/ trouble = MaxTrouble THEN trouble ELSE trouble + 1
    BY <1>3, <1>5, <2>1
  <2>5. trouble' \in Nat /\ (trouble' = 0 => trouble = 0 /\ ~ can)
    BY <1>1, <1>2, <2>4, SMT
  <2> QED
    BY <1>1, <1>5, <2>1, <2>3, <2>5
    DEF Clean, NXT_ERR_CONNECTION, NXT_ERR_FILE_NOT_FOUND, NXT_ERR_FILE_IS_BUSY
<1>6. CASE w \in [done : BOOLEAN, ok : {FALSE}, err : {NXT_ERR_CONNECTION, 0}]
  <2>1. ~ w.ok /\ w.err \in {256, 0} BY <1>6 DEF NXT_ERR_CONNECTION
  <2>2. Status(256) = 0 /\ Status(0) = 0 BY SMT DEF Status
  <2>3. Status(w.err) = 0 BY <2>1, <2>2
  <2>4. mute' = mute + 1 /\ err' \in {err, 256} BY <1>3, <2>1, <2>3
  <2>5. mute' \in Nat /\ mute' # 0 BY <1>1, <2>4, SMT
  <2>6. trouble' \in {trouble, trouble + 1} BY <1>3
  <2>7. trouble' \in Nat /\ (trouble' = 0 => trouble = 0) BY <1>1, <2>6, SMT
  <2> QED
    BY <1>1, <2>1, <2>4, <2>5, <2>7
    DEF Clean, NXT_ERR_CONNECTION, NXT_ERR_FILE_NOT_FOUND, NXT_ERR_FILE_IS_BUSY
<1> QED BY <1>4, <1>5, <1>6 DEF Ways

\* Where calibrate is.
LEMMA ReachedIs ==
  ASSUME CalibrateInv, NEW step, Reached(step)
  PROVE  /\ prog = [tool |-> "calibrate", at |-> step, got |-> prog.got]
         /\ exit = NoExit /\ (Clean => Sensed(step) /\ Opened(step))
<1>1. prog = [tool |-> "calibrate", at |-> prog.at, got |-> prog.got] /\ prog.at = step
      /\ exit = NoExit /\ (Clean => Sensed(prog.at) /\ Opened(prog.at))
  BY DEF CalibrateInv, Running, Reached
<1> QED BY <1>1

\* The types of what telegrams change.
Numbers ==
  /\ mute \in Nat /\ trouble \in Nat
  /\ err \in {0, NXT_ERR_CONNECTION, NXT_ERR_FILE_NOT_FOUND, NXT_ERR_FILE_IS_BUSY}
  /\ mute = 0 => err # NXT_ERR_CONNECTION

\* Reaching a step keeps the invariant when what is known there holds.
LEMMA GoesTo ==
  ASSUME NEW next \in Steps, NEW values, exit = NoExit, UNCHANGED exit, Numbers',
         prog' = [tool |-> "calibrate", at |-> next, got |-> values],
         Clean' => Sensed(next)' /\ Opened(next)'
  PROVE  CalibrateInv'
<1>1. prog'.at = next /\ prog'.got = values BY Zenon
<1>2. prog' = [tool |-> "calibrate", at |-> prog'.at, got |-> prog'.got] BY <1>1
<1>3. exit' = NoExit OBVIOUS
<1>4. Clean' => Sensed(prog.at)' /\ Opened(prog.at)' BY <1>1 DEF Sensed, Opened
<1> QED BY <1>1, <1>2, <1>3, <1>4 DEF CalibrateInv, Numbers

\* The same of a step that reads nothing.
LEMMA GoToIs ==
  ASSUME CalibrateInv, NEW step, Reached(step), NEW next \in Steps, GoTo(next), Numbers',
         prog'.got = prog.got => (Clean' => Sensed(next)' /\ Opened(next)')
  PROVE  CalibrateInv'
<1>1. PICK q, b : q = prog /\ b = prog.got OBVIOUS
<1>2. q = [tool |-> "calibrate", at |-> step, got |-> b] /\ exit = NoExit
  BY <1>1, ReachedIs
<1>3. prog' = [q EXCEPT !.at = next] /\ UNCHANGED exit BY <1>1 DEF GoTo
<1>4. prog' = [tool |-> "calibrate", at |-> next, got |-> b]
  <2>1. PICK r : r = prog' OBVIOUS
  <2>2. r = [q EXCEPT !.at = next] BY <1>3, <2>1
  <2>3. r = [tool |-> "calibrate", at |-> next, got |-> b]
    BY ONLY <1>2, <2>2, AtNext
  <2> QED BY <2>1, <2>3
<1>5. prog'.got = prog.got BY <1>1, <1>4
<1> QED BY <1>2, <1>3, <1>4, <1>5, GoesTo

\* What is known at each step, of this state and of the next one.
LEMMA SensedIs ==
  /\ (Sensed("mode") <=> prog.got = <<>>)
  /\ (Sensed("mode")' <=> prog'.got = <<>>)
  /\ (Sensed("min") <=> prog.got = <<>> /\ port = "raw")
  /\ (Sensed("min")' <=> prog'.got = <<>> /\ port' = "raw")
  /\ (Sensed("max") <=> prog.got = <<<<min, "raw">>>> /\ min \in Readings /\ port = "raw")
  /\ (Sensed("max")' <=> prog'.got = <<<<min', "raw">>>> /\ min' \in Readings /\ port' = "raw")
  /\ (Sensed("off") <=> prog.got = <<<<min, "raw">>, <<max, "raw">>>> /\ {min, max} \subseteq Readings)
  /\ (Sensed("off")' <=>
        prog'.got = <<<<min', "raw">>, <<max', "raw">>>> /\ {min', max'} \subseteq Readings)
BY DEF Sensed

\* What is open and stored at each step.
LEMMA OpenedIs ==
  /\ \A step \in {"mode", "min", "max", "off", "find", "remove"} :
       /\ Opened(step) <=> (trouble = 0 => held = 0)
       /\ Opened(step)' <=> (trouble' = 0 => held' = 0)
  /\ (Opened("close found") <=> (trouble = 0 => held = 1))
  /\ (Opened("close found")' <=> (trouble' = 0 => held' = 1))
  /\ (Opened("open") <=> (held = 0 /\ stored = NoFile))
  /\ (Opened("open")' <=> (held' = 0 /\ stored' = NoFile))
  /\ (Opened("write") <=> (held = 1))
  /\ (Opened("write")' <=> (held' = 1))
  /\ (Opened("close") <=> (held = 1 /\ stored = cal_encode(min, max)))
  /\ (Opened("close")' <=> (held' = 1 /\ stored' = cal_encode(min', max')))
  /\ (Opened("end") <=> (held = 0 /\ stored = cal_encode(min, max)))
  /\ (Opened("end")' <=> (held' = 0 /\ stored' = cal_encode(min', max')))
BY DEF Opened, cal_encode, LITTLEENDIAN_SET_WORD, High

\* What calibrate has values stays as it is while it works on the file.
Holds == /\ prog.got = <<<<min, "raw">>, <<max, "raw">>>>
         /\ {min, max} \subseteq Readings /\ port = "none"

\* It is all that is known once the port is off.
LEMMA HoldsIs ==
  /\ \A step \in {"find", "close found", "remove", "open", "write", "close", "end"} :
       (Sensed(step) <=> Holds) /\ (Sensed(step)' <=> Holds') /\ step \in Steps
  /\ prog'.got = prog.got /\ UNCHANGED <<min, max, port>> /\ Holds => Holds'
BY DEF Sensed, Holds, Steps

\* The sensor's port is set to raw values, or off.
LEMMA SetModeKeeps ==
  ASSUME CalibrateInv, SetMode("mode", "raw", "min") \/ SetMode("off", "none", "find")
  PROVE  CalibrateInv'
<1>1. CASE SetMode("mode", "raw", "min")
  <2>1. PICK w \in Ways : Telegram(w, TRUE) /\ port' = IF w.done THEN "raw" ELSE port
    BY <1>1 DEF SetMode
  <2>2. Reached("mode") /\ GoTo("min") /\ UNCHANGED <<stored, held, min, max>>
    BY <1>1 DEF SetMode
  <2>3. /\ Numbers' /\ (Clean' => Clean /\ w.ok) /\ (trouble' = 0 => trouble = 0)
        /\ (w.ok => w.done)
    BY <2>1, TelegramIs DEF Numbers
  <2>4. ASSUME prog'.got = prog.got, Clean' PROVE Sensed("min")' /\ Opened("min")'
    <3>1. prog.got = <<>> /\ (trouble = 0 => held = 0)
      BY <2>2, <2>3, <2>4, ReachedIs, SensedIs, OpenedIs
    <3> QED BY <2>1, <2>2, <2>3, <2>4, <3>1, SensedIs, OpenedIs
  <2>5. "min" \in Steps BY DEF Steps
  <2> QED BY <2>2, <2>3, <2>4, <2>5, GoToIs
<1>2. CASE SetMode("off", "none", "find")
  <2>1. PICK w \in Ways : Telegram(w, TRUE) /\ port' = IF w.done THEN "none" ELSE port
    BY <1>2 DEF SetMode
  <2>2. Reached("off") /\ GoTo("find") /\ UNCHANGED <<stored, held, min, max>>
    BY <1>2 DEF SetMode
  <2>3. /\ Numbers' /\ (Clean' => Clean /\ w.ok) /\ (trouble' = 0 => trouble = 0)
        /\ (w.ok => w.done)
    BY <2>1, TelegramIs DEF Numbers
  <2>4. ASSUME prog'.got = prog.got, Clean' PROVE Sensed("find")' /\ Opened("find")'
    <3>1. /\ prog.got = <<<<min, "raw">>, <<max, "raw">>>> /\ {min, max} \subseteq Readings
          /\ (trouble = 0 => held = 0)
      BY <2>2, <2>3, <2>4, ReachedIs, SensedIs, OpenedIs
    <3>2. port' = "none" /\ min' = min /\ max' = max /\ (trouble' = 0 => held' = 0)
      BY <2>1, <2>2, <2>3, <2>4, <3>1
    <3>3. Holds' BY <2>4, <3>1, <3>2 DEF Holds
    <3> QED BY <3>2, <3>3, HoldsIs, OpenedIs
  <2>5. "find" \in Steps BY DEF Steps
  <2> QED BY <2>2, <2>3, <2>4, <2>5, GoToIs
<1> QED BY <1>1, <1>2

\* The second reading is appended to the first.
LEMMA Two == ASSUME NEW x, NEW y PROVE Append(<<x>>, y) = <<x, y>>
<1> DEFINE S == {x, y}
<1> DEFINE s == Append(<<x>>, y)
<1>1. <<x>> \in Seq(S) /\ y \in S OBVIOUS
<1>2. /\ s \in Seq(S) /\ Len(s) = Len(<<x>>) + 1
      /\ \A i \in 1 .. Len(<<x>>) : s[i] = <<x>>[i]
      /\ s[Len(<<x>>) + 1] = y
  BY <1>1, AppendProperties
<1>3. Len(<<x>>) = 1 /\ <<x>>[1] = x OBVIOUS
<1>4. Len(s) = 2 /\ s[1] = x /\ s[2] = y BY <1>2, <1>3
<1>5. x \in S /\ y \in S OBVIOUS
<1> HIDE DEF S, s
<1>6. <<x, y>> \in Seq(S) /\ Len(<<x, y>>) = 2 BY <1>5
<1>7. <<x, y>>[1] = x /\ <<x, y>>[2] = y OBVIOUS
<1>8. s = <<x, y>> BY <1>2, <1>4, <1>6, <1>7
<1> QED BY <1>8 DEF s

\* The first reading.
LEMMA GetMinKeeps == ASSUME CalibrateInv, GetMin PROVE CalibrateInv'
<1>1. PICK w \in Ways : Telegram(w, TRUE) /\ min' \in IF w.ok THEN Readings ELSE {-1}
  BY DEF GetMin, GetSensor
<1>2. Reached("min") /\ UNCHANGED <<exit, port, stored, held, max>>
  BY DEF GetMin, GetSensor, brickVars
<1>3. /\ Numbers' /\ (Clean' => Clean /\ w.ok) /\ (trouble' = 0 => trouble = 0)
  BY <1>1, TelegramIs DEF Numbers
<1>4. PICK q, b, values : q = prog /\ b = prog.got /\ values = Append(prog.got, <<min', port>>)
  OBVIOUS
<1>5. q = [tool |-> "calibrate", at |-> "min", got |-> b] /\ exit = NoExit
  BY <1>2, <1>4, ReachedIs
<1>6. prog' = [tool |-> "calibrate", at |-> "max", got |-> values]
  <2>1. PICK r : r = prog' OBVIOUS
  <2>2. r = [q EXCEPT !.at = "max", !.got = values]
    BY <1>2, <1>4, <2>1 DEF GetMin, GetSensor, Reached
  <2>3. r = [tool |-> "calibrate", at |-> "max", got |-> values]
    BY ONLY <1>5, <2>2, GotNext
  <2> QED BY <2>1, <2>3
<1>7. ASSUME Clean' PROVE Sensed("max")' /\ Opened("max")'
  <2>1. prog.got = <<>> /\ port = "raw" /\ (trouble = 0 => held = 0)
    BY <1>2, <1>3, <1>7, ReachedIs, SensedIs, OpenedIs
  <2>2. values = <<<<min', "raw">>>> BY <1>4, <2>1
  <2>3. prog'.got = values BY <1>6
  <2>4. /\ prog'.got = <<<<min', "raw">>>> /\ min' \in Readings /\ port' = "raw"
        /\ (trouble' = 0 => held' = 0)
    BY <1>1, <1>2, <1>3, <1>7, <2>1, <2>2, <2>3
  <2> QED BY <2>4, SensedIs, OpenedIs
<1>8. "max" \in Steps BY DEF Steps
<1> QED BY <1>2, <1>3, <1>5, <1>6, <1>7, <1>8, GoesTo

\* The second reading.
LEMMA GetMaxKeeps == ASSUME CalibrateInv, GetMax PROVE CalibrateInv'
<1>1. PICK w \in Ways : Telegram(w, TRUE) /\ max' \in IF w.ok THEN Readings ELSE {-1}
  BY DEF GetMax, GetSensor
<1>2. Reached("max") /\ UNCHANGED <<exit, port, stored, held, min>>
  BY DEF GetMax, GetSensor, brickVars
<1>3. /\ Numbers' /\ (Clean' => Clean /\ w.ok) /\ (trouble' = 0 => trouble = 0)
  BY <1>1, TelegramIs DEF Numbers
<1>4. PICK q, b, values : q = prog /\ b = prog.got /\ values = Append(prog.got, <<max', port>>)
  OBVIOUS
<1>5. q = [tool |-> "calibrate", at |-> "max", got |-> b] /\ exit = NoExit
  BY <1>2, <1>4, ReachedIs
<1>6. prog' = [tool |-> "calibrate", at |-> "off", got |-> values]
  <2>1. PICK r : r = prog' OBVIOUS
  <2>2. r = [q EXCEPT !.at = "off", !.got = values]
    BY <1>2, <1>4, <2>1 DEF GetMax, GetSensor, Reached
  <2>3. r = [tool |-> "calibrate", at |-> "off", got |-> values]
    BY ONLY <1>5, <2>2, GotNext
  <2> QED BY <2>1, <2>3
<1>7. ASSUME Clean' PROVE Sensed("off")' /\ Opened("off")'
  <2>1. /\ prog.got = <<<<min, "raw">>>> /\ min \in Readings /\ port = "raw"
        /\ (trouble = 0 => held = 0)
    BY <1>2, <1>3, <1>7, ReachedIs, SensedIs, OpenedIs
  <2>2. values = <<<<min, "raw">>, <<max', "raw">>>>
    <3>1. values = Append(<<<<min, "raw">>>>, <<max', "raw">>) BY <1>4, <2>1
    <3> QED BY ONLY <3>1, Two, Zenon
  <2>3. prog'.got = values BY <1>6
  <2>4. min' = min /\ max' \in Readings /\ (trouble' = 0 => held' = 0)
    BY <1>1, <1>2, <1>3, <1>7, <2>1
  <2>5. prog'.got = <<<<min', "raw">>, <<max', "raw">>>> /\ {min', max'} \subseteq Readings
    BY <2>1, <2>2, <2>3, <2>4
  <2> QED BY <2>4, <2>5, SensedIs, OpenedIs
<1>8. "off" \in Steps BY DEF Steps
<1> QED BY <1>2, <1>3, <1>5, <1>6, <1>7, <1>8, GoesTo

\* The old file is looked for.
LEMMA FindOldKeeps == ASSUME CalibrateInv, FindOld PROVE CalibrateInv'
<1>1. Reached("find") /\ UNCHANGED <<port, stored, min, max>> BY DEF FindOld
<1>2. Clean => Holds /\ (trouble = 0 => held = 0)
  BY <1>1, ReachedIs, HoldsIs, OpenedIs
<1>3. NumHandle \in Nat /\ 0 < NumHandle
  <2>1. NumHandle \in Nat \ {0} BY ConvertAssumption
  <2> QED BY <2>1, SMT
<1>4. CASE NotFound
  <2>1. /\ stored = NoFile /\ err' = NXT_ERR_FILE_NOT_FOUND /\ GoTo("open")
        /\ UNCHANGED <<held, trouble, mute>>
    BY <1>4 DEF NotFound
  <2>2. Numbers' BY <2>1 DEF CalibrateInv, Numbers, NXT_ERR_FILE_NOT_FOUND, NXT_ERR_CONNECTION
  <2>3. ASSUME prog'.got = prog.got, Clean' PROVE Sensed("open")' /\ Opened("open")'
    <3>1. trouble = 0 /\ mute = 0 BY <2>1, <2>3 DEF Clean, NXT_ERR_FILE_NOT_FOUND
    <3>2. Holds /\ held = 0 BY <1>2, <3>1 DEF Clean
    <3>3. Holds' BY <1>1, <2>3, <3>2, HoldsIs
    <3>4. held' = 0 /\ stored' = NoFile BY <1>1, <2>1, <3>2
    <3> QED BY <3>3, <3>4, HoldsIs, OpenedIs
  <2> QED BY <1>1, <2>1, <2>2, <2>3, GoToIs, HoldsIs
<1>5. ASSUME NEW w \in Ways, Telegram(w, stored # NoFile /\ held < NumHandle),
             held' = IF w.done THEN held + 1 ELSE held,
             GoTo(IF w.ok THEN "close found" ELSE "open")
      PROVE  CalibrateInv'
  <2>1. /\ Numbers' /\ (trouble' = 0 => trouble = 0)
        /\ Clean' => Clean /\ (w.ok \/ (trouble = 0 /\ w = Refused
                                           /\ ~ (stored # NoFile /\ held < NumHandle)))
        /\ w.ok => w.done
    BY <1>5, TelegramIs DEF Numbers
  <2>2. CASE w.ok
    <3>1. ASSUME prog'.got = prog.got, Clean'
          PROVE  Sensed("close found")' /\ Opened("close found")'
      <4>1. Holds' BY <1>1, <1>2, <2>1, <3>1, HoldsIs
      <4>2. ASSUME trouble' = 0 PROVE held' = 1
        <5>1. held = 0 /\ held' = held + 1 BY <1>2, <1>5, <2>1, <2>2, <3>1, <4>2
        <5> QED BY <5>1, SMT
      <4> QED BY <4>1, <4>2, HoldsIs, OpenedIs
    <3>2. GoTo("close found") BY <1>5, <2>2
    <3> QED BY <1>1, <2>1, <3>1, <3>2, GoToIs, HoldsIs
  <2>3. CASE ~ w.ok
    <3>1. ASSUME prog'.got = prog.got, Clean' PROVE Sensed("open")' /\ Opened("open")'
      <4>1. /\ Clean /\ trouble = 0 /\ w = Refused
            /\ ~ (stored # NoFile /\ held < NumHandle)
        BY <2>1, <2>3, <3>1
      <4>2. Holds /\ held = 0 BY <1>2, <4>1
      <4>3. stored = NoFile /\ ~ w.done BY <1>3, <4>1, <4>2 DEF Refused
      <4>4. Holds' BY <1>1, <3>1, <4>2, HoldsIs
      <4>5. held' = 0 /\ stored' = NoFile BY <1>1, <1>5, <4>2, <4>3
      <4> QED BY <4>4, <4>5, HoldsIs, OpenedIs
    <3>2. GoTo("open") BY <1>5, <2>3
    <3> QED BY <1>1, <2>1, <3>1, <3>2, GoToIs, HoldsIs
  <2> QED BY <2>2, <2>3
<1> QED BY <1>4, <1>5 DEF FindOld

\* Of one handle none is left when it is closed.
LEMMA NoneLeft == 1 - 1 = 0 OBVIOUS

\* A handle is closed: that of the old file, or that of the new one.
LEMMA CloseKeeps == ASSUME CalibrateInv, CloseFound \/ CloseNew PROVE CalibrateInv'
<1>1. ASSUME NEW step \in {"close found", "close"}, NEW next \in {"remove", "end"},
             CloseHandle(step, GoTo(next)), step = "close" <=> next = "end"
      PROVE  CalibrateInv'
  <2>1. PICK w \in Ways : Telegram(w, TRUE) /\ held' = IF w.done THEN held - 1 ELSE held
    BY <1>1 DEF CloseHandle
  <2>2. Reached(step) /\ GoTo(next) /\ UNCHANGED <<port, stored, min, max>>
    BY <1>1 DEF CloseHandle
  <2>3. /\ Numbers' /\ (Clean' => Clean /\ w.ok) /\ (trouble' = 0 => trouble = 0)
        /\ (w.ok => w.done)
    BY <2>1, TelegramIs DEF Numbers
  <2>4. ASSUME prog'.got = prog.got, Clean' PROVE Sensed(next)' /\ Opened(next)'
    <3>1. Clean /\ held' = held - 1 BY <2>1, <2>3, <2>4
    <3>2. Holds /\ Opened(step) BY <2>2, <3>1, ReachedIs, HoldsIs
    <3>3. Holds' BY <2>2, <2>4, <3>2, HoldsIs
    <3>4. CASE step = "close found"
      <4>1. trouble = 0 => held = 1 BY <3>2, <3>4, OpenedIs
      <4>2. trouble' = 0 => held' = 0
        <5>1. ASSUME trouble' = 0 PROVE held' = 0
          <6>1. held = 1 BY <2>3, <4>1, <5>1
          <6>2. held' = 1 - 1 BY ONLY <3>1, <6>1, Zenon
          <6> QED BY ONLY <6>2, NoneLeft, Zenon
        <5> QED BY <5>1
      <4>3. next = "remove" BY <1>1, <3>4
      <4> QED BY <3>3, <4>2, <4>3, HoldsIs, OpenedIs
    <3>5. CASE step = "close"
      <4>1. held = 1 /\ stored = cal_encode(min, max) BY <3>2, <3>5, OpenedIs
      <4>2. held' = 0
        <5>1. held = 1 BY <4>1
        <5>2. held' = 1 - 1 BY ONLY <3>1, <5>1, Zenon
        <5> QED BY ONLY <5>2, NoneLeft, Zenon
      <4>3. stored' = cal_encode(min', max') BY <2>2, <4>1
      <4>4. next = "end" BY <1>1, <3>5
      <4>5. cal_encode(min, max)' = cal_encode(min', max')
        BY DEF cal_encode, LITTLEENDIAN_SET_WORD, High
      <4> QED BY <3>3, <4>2, <4>3, <4>4, HoldsIs, OpenedIs
    <3> QED BY <3>4, <3>5
  <2> QED BY <2>2, <2>3, <2>4, GoToIs, HoldsIs
<1> QED BY <1>1 DEF CloseFound, CloseNew

\* The old file is removed.
LEMMA RemoveOldKeeps == ASSUME CalibrateInv, RemoveOld PROVE CalibrateInv'
<1>1. PICK w \in Ways : Telegram(w, held = 0) /\ stored' = IF w.done THEN NoFile ELSE stored
  BY DEF RemoveOld
<1>2. Reached("remove") /\ GoTo("open") /\ UNCHANGED <<port, held, min, max>>
  BY DEF RemoveOld
<1>3. /\ Numbers'
      /\ Clean' => Clean /\ (w.ok \/ (trouble = 0 /\ w = Refused /\ ~ (held = 0)))
      /\ w.ok => w.done /\ held = 0
  BY <1>1, TelegramIs DEF Numbers
<1>4. ASSUME prog'.got = prog.got, Clean' PROVE Sensed("open")' /\ Opened("open")'
  <2>1. Holds /\ (trouble = 0 => held = 0)
    BY <1>2, <1>3, <1>4, ReachedIs, HoldsIs, OpenedIs
  <2>2. w.ok BY <1>3, <1>4, <2>1
  <2>3. held' = 0 /\ stored' = NoFile BY <1>1, <1>2, <1>3, <2>2
  <2>4. Holds' BY <1>2, <1>4, <2>1, HoldsIs
  <2> QED BY <2>3, <2>4, HoldsIs, OpenedIs
<1> QED BY <1>2, <1>3, <1>4, GoToIs, HoldsIs

\* A new file is opened.
LEMMA OpenNewKeeps == ASSUME CalibrateInv, OpenNew PROVE CalibrateInv'
<1>1. PICK w \in Ways : /\ Telegram(w, stored = NoFile /\ held < NumHandle)
                        /\ held' = IF w.done THEN held + 1 ELSE held
                        /\ GoTo(IF w.ok THEN "write" ELSE "end")
  BY DEF OpenNew
<1>2. Reached("open") /\ UNCHANGED <<port, min, max>> BY DEF OpenNew
<1>3. /\ Numbers'
      /\ Clean' => Clean /\ (w.ok \/ (trouble = 0 /\ w = Refused
                                         /\ ~ (stored = NoFile /\ held < NumHandle)))
      /\ w.ok => w.done
  BY <1>1, TelegramIs DEF Numbers
<1>4. NumHandle \in Nat /\ 0 < NumHandle
  <2>1. NumHandle \in Nat \ {0} BY ConvertAssumption
  <2> QED BY <2>1, SMT
<1>5. Clean => Holds /\ held = 0 /\ stored = NoFile
  BY <1>2, ReachedIs, HoldsIs, OpenedIs
<1>6. Clean' => Clean /\ w.ok BY <1>3, <1>4, <1>5
<1>7. CASE w.ok
  <2>1. ASSUME prog'.got = prog.got, Clean' PROVE Sensed("write")' /\ Opened("write")'
    <3>1. Holds /\ held = 0 BY <1>5, <1>6, <2>1
    <3>2. held' = held + 1 BY <1>1, <1>3, <1>7
    <3>3. held' = 1 BY <3>1, <3>2, SMT
    <3>4. Holds' BY <1>2, <2>1, <3>1, HoldsIs
    <3> QED BY <3>3, <3>4, HoldsIs, OpenedIs
  <2>2. GoTo("write") BY <1>1, <1>7
  <2> QED BY <1>2, <1>3, <2>1, <2>2, GoToIs, HoldsIs
<1>8. CASE ~ w.ok
  <2>1. ~ Clean' BY <1>6, <1>8
  <2>2. GoTo("end") BY <1>1, <1>8
  <2> QED BY <1>2, <1>3, <2>1, <2>2, GoToIs, HoldsIs
<1> QED BY <1>7, <1>8

\* The values are written.
LEMMA WriteKeeps == ASSUME CalibrateInv, Write PROVE CalibrateInv'
<1>1. PICK w \in Ways : /\ Telegram(w, TRUE)
                        /\ stored' = IF w.done THEN cal_encode(min, max) ELSE stored
  BY DEF Write
<1>2. Reached("write") /\ GoTo("close") /\ UNCHANGED <<port, held, min, max>> BY DEF Write
<1>3. Numbers' /\ (Clean' => Clean /\ w.ok) /\ (w.ok => w.done)
  BY <1>1, TelegramIs DEF Numbers
<1>4. ASSUME prog'.got = prog.got, Clean' PROVE Sensed("close")' /\ Opened("close")'
  <2>1. Holds /\ held = 1 BY <1>2, <1>3, <1>4, ReachedIs, HoldsIs, OpenedIs
  <2>2. held' = 1 /\ stored' = cal_encode(min', max') BY <1>1, <1>2, <1>3, <1>4, <2>1
  <2>3. Holds' BY <1>2, <1>4, <2>1, HoldsIs
  <2> QED BY <2>2, <2>3, HoldsIs, OpenedIs
<1> QED BY <1>2, <1>3, <1>4, GoToIs, HoldsIs

\* Steps of others leave what calibrate knows, and what it told the shell.
LEMMA QuietKeeps ==
  ASSUME CalibrateInv, UNCHANGED <<exit, brickVars, calVars>>,
         prog' = prog \/ prog' = Idle \/ prog'.tool # "calibrate"
  PROVE  CalibrateInv'
<1>1. /\ UNCHANGED <<mute, trouble, err, min, max, port, stored, held, exit>>
  BY DEF brickVars, calVars
<1>2. Numbers /\ Numbers' BY <1>1 DEF CalibrateInv, Numbers
<1>3. /\ exit # NoExit /\ mute = 0 /\ (exit.code = 0 \/ trouble = 0) => Calibrated(exit.got)
  BY DEF CalibrateInv
<1>4. Calibrated(exit.got)' <=> Calibrated(exit.got)
  BY <1>1 DEF Calibrated, LITTLEENDIAN_SET_WORD, High
<1>5. /\ exit' # NoExit /\ mute' = 0 /\ (exit'.code = 0 \/ trouble' = 0)
         => Calibrated(exit.got)'
  BY <1>1, <1>3, <1>4
<1>6. CASE prog' = prog
  <2>1. Running' <=> Running BY <1>6 DEF Running
  <2>2. Running => /\ prog = [tool |-> "calibrate", at |-> prog.at, got |-> prog.got]
                   /\ prog.at \in Steps /\ exit = NoExit
                   /\ Clean => Sensed(prog.at) /\ Opened(prog.at)
    BY DEF CalibrateInv
  <2>3. /\ Clean' <=> Clean
        /\ Sensed(prog.at)' <=> Sensed(prog.at)
        /\ Opened(prog.at)' <=> Opened(prog.at)
    BY <1>1, <1>6 DEF Clean, Sensed, Opened, cal_encode, LITTLEENDIAN_SET_WORD, High
  <2> QED BY <1>1, <1>2, <1>5, <1>6, <2>1, <2>2, <2>3 DEF CalibrateInv, Numbers
<1>7. CASE ~ Running' BY <1>1, <1>2, <1>5, <1>7 DEF CalibrateInv, Numbers
<1> QED BY <1>6, <1>7 DEF Running

\* calibrate begins with nothing known.
LEMMA BeginKeeps == ASSUME CalibrateInv, Calibrate PROVE CalibrateInv'
<1>1. /\ prog' = [tool |-> "calibrate", at |-> "mode", got |-> <<>>] /\ exit' = NoExit
      /\ err' = 0 /\ mute' = 0 /\ trouble' = (IF held = 0 THEN 0 ELSE 1) /\ held' = held
  BY DEF Calibrate, brickVars
<1>2. prog'.at = "mode" /\ prog'.got = <<>> BY <1>1
<1>3. prog' = [tool |-> "calibrate", at |-> prog'.at, got |-> prog'.got] BY <1>1, <1>2
<1>4. "mode" \in Steps BY DEF Steps
<1>5. trouble' = 0 => held' = 0 BY <1>1
<1>6. Sensed(prog.at)' /\ Opened(prog.at)' BY <1>2, <1>5 DEF Sensed, Opened
<1>7. trouble' \in Nat /\ mute' \in Nat BY <1>1
<1>8. Numbers' BY <1>1, <1>7 DEF Numbers, NXT_ERR_CONNECTION
<1> QED BY <1>1, <1>2, <1>3, <1>4, <1>6, <1>8 DEF CalibrateInv, Numbers

\* main of calibrate returns.
LEMMA EndKeeps == ASSUME CalibrateInv, EndCalibrate PROVE CalibrateInv'
<1>1. /\ Reached("end") /\ prog' = Idle /\ exit' = [got |-> prog.got, code |-> Status(err)]
      /\ UNCHANGED <<port, stored, held, min, max, err, trouble, mute>>
  BY DEF EndCalibrate, brickVars, calVars
<1>2. Numbers /\ Numbers' BY <1>1 DEF CalibrateInv, Numbers
<1>3. exit'.got = prog.got /\ exit'.code = Status(err) BY <1>1
<1>4. ASSUME mute' = 0, exit'.code = 0 \/ trouble' = 0 PROVE Calibrated(exit.got)'
  <2>1. err \in {0, 135, 139}
    BY <1>1, <1>2, <1>4
    DEF Numbers, NXT_ERR_CONNECTION, NXT_ERR_FILE_NOT_FOUND, NXT_ERR_FILE_IS_BUSY
  <2>2. Status(135) # 0 /\ Status(139) # 0 BY SMT DEF Status
  <2>3. exit'.code = 0 => err = 0 BY <1>3, <2>1, <2>2
  <2>4. Clean BY <1>1, <1>4, <2>3 DEF Clean
  <2>5. Holds /\ held = 0 /\ stored = cal_encode(min, max)
    BY <1>1, <2>4, ReachedIs, HoldsIs, OpenedIs
  <2>6. PICK values : values = prog.got OBVIOUS
  <2>7. values = <<<<min, "raw">>, <<max, "raw">>>> /\ port = "none" /\ min \in Nat /\ max \in Nat
    BY <2>5, <2>6, ConvertAssumption DEF Holds
  <2>8. values[1][1] = min /\ values[1][2] = "raw" /\ values[2][1] = max /\ values[2][2] = "raw"
    BY <2>7
  <2>9. \A i \in 1 .. 2 : values[i][1] >= 0 /\ values[i][2] = "raw"
    <3>1. \A i \in 1 .. 2 : i = 1 \/ i = 2 OBVIOUS
    <3>2. min >= 0 /\ max >= 0 BY <2>7
    <3> QED BY <2>8, <3>1, <3>2
  <2>10. stored = LITTLEENDIAN_SET_WORD(values[1][1]) \o LITTLEENDIAN_SET_WORD(values[2][1])
    BY <2>5, <2>8 DEF cal_encode
  <2>11. Calibrated(values)' BY <1>1, <2>5, <2>7, <2>9, <2>10 DEF Calibrated
  <2> QED BY <1>3, <2>6, <2>11 DEF Calibrated
<1>5. ~ Running' BY <1>1 DEF Running
<1> QED BY <1>2, <1>4, <1>5 DEF CalibrateInv, Numbers

\* The user cleans up between two runs.
LEMMA CleanUpKeeps == ASSUME CalibrateInv, CleanUp PROVE CalibrateInv'
<1>1. prog' = Idle /\ exit' = NoExit /\ UNCHANGED calVars BY DEF CleanUp
<1>2. Numbers' BY <1>1 DEF CalibrateInv, Numbers, calVars
<1>3. ~ Running' BY <1>1 DEF Running
<1> QED BY <1>1, <1>2, <1>3 DEF CalibrateInv, Numbers

\* What calibrate knows is kept by every step.
LEMMA CalibrateStep ==
  ASSUME FilesInv, CalibrateInv, [ConvertNext]_convertVars
  PROVE  CalibrateInv'
<1>1. ASSUME NEW f, Change(f) PROVE CalibrateInv' BY <1>1, QuietKeeps DEF Change
<1>2. ASSUME NEW tool \in DOMAIN Knows, NEW f, NEW g, Run(tool, f, g) PROVE CalibrateInv'
  <2>1. tool # "calibrate" BY DEF Knows
  <2>2. prog'.tool = tool BY <1>2 DEF Run
  <2> QED BY <1>2, <2>1, <2>2, QuietKeeps DEF Run
<1>3. ASSUME Open PROVE CalibrateInv'
  <2>1. /\ prog # Idle /\ prog.tool # "calibrate" /\ UNCHANGED <<exit, brickVars, calVars>>
        /\ prog' = Idle \/ prog' = [prog EXCEPT !.at = "convert"]
    BY <1>3 DEF Open
  <2>2. prog = [tool |-> prog.tool, at |-> prog.at, in |-> prog.in, out |-> prog.out,
                kind |-> prog.kind, to |-> prog.to, invert |-> prog.invert]
    BY <2>1 DEF FilesInv, Converts
  <2>3. PICK q : q = [prog EXCEPT !.at = "convert"] OBVIOUS
  <2>4. q.tool = prog.tool BY <2>2, <2>3
  <2> QED BY <2>1, <2>3, <2>4, QuietKeeps
<1>4. ASSUME NEW kind, Converting(kind) PROVE CalibrateInv' BY <1>4, QuietKeeps DEF Converting
<1>5. ASSUME Wav2Rso \/ Rso2Wav \/ Img2Ric \/ Ric2Img \/ Rmdc PROVE CalibrateInv'
  BY <1>4, <1>5 DEF Wav2Rso, Rso2Wav, Img2Ric, Ric2Img, Rmdc
<1>6. ASSUME UNCHANGED convertVars PROVE CalibrateInv' BY <1>6, QuietKeeps DEF convertVars
<1> QED
  BY <1>1, <1>2, <1>3, <1>5, <1>6, BeginKeeps, SetModeKeeps, GetMinKeeps, GetMaxKeeps,
     FindOldKeeps, CloseKeeps, RemoveOldKeeps, OpenNewKeeps, WriteKeeps, EndKeeps, CleanUpKeeps
  DEF ConvertNext

-----------------------------------------------------------------------------
(* The theorem.                                                            *)

\* At first no file has an origin and no program runs.
LEMMA KeptStarts == ConvertInit => KeptInv
<1> SUFFICES ASSUME ConvertInit PROVE KeptInv OBVIOUS
<1>1. FilesInv BY DEF ConvertInit, FilesInv, Descends, Converts
<1>2. CalibrateInv
  BY DEF ConvertInit, CalibrateInv, Running, NXT_ERR_CONNECTION
<1> QED BY <1>1, <1>2 DEF KeptInv

\* However often a file is converted from one format to another by rsoc or
\* ricc, it is the sound or the picture that it was, and of a picture that was
\* a JPEG of too low a quality at least the size is; what calibrate says to
\* the shell is true of the brick, unless a telegram failed without a status.
THEOREM FilesAndValuesKept == ConvertSpec => []Kept
<1>1. KeptInv => Kept
  <2> SUFFICES ASSUME KeptInv PROVE Kept OBVIOUS
  <2>1. \A f \in Name : Descends(f) BY DEF KeptInv, FilesInv
  <2>2. exit # NoExit /\ mute = 0 /\ (exit.code = 0 \/ trouble = 0) => Calibrated(exit.got)
    BY DEF KeptInv, CalibrateInv
  <2> QED BY <2>1, <2>2 DEF Kept, Descends
<1>2. KeptInv /\ [ConvertNext]_convertVars => KeptInv'
  BY FilesStep, CalibrateStep DEF KeptInv
<1> QED BY <1>1, <1>2, KeptStarts, PTL DEF ConvertSpec
=============================================================================
