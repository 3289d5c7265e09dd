---------------------------- MODULE NxtModProofs -----------------------------
(***************************************************************************)
(* What is proved of the bytes of I/O maps (NxtMod), which programs on the *)
(* computer read and write while others do.                               *)
(***************************************************************************)
EXTENDS NxtModProperties, FiniteSetTheorems, WellFoundedInduction, TLAPS

-----------------------------------------------------------------------------
(* The steps of the functions.                                             *)

Finders == {"get_volume", "set_volume", "set_button", "turn_off", "refresh", "screenshot",
            "flush", "flush_always"}
Works == Finders \cup FsCalls
Gets == {"get_volume", "refresh", "screenshot", "fs_read", "fs_read_end"}
Lists == {"lsmod", "lsmod_none", "mount"}

\* The transfer that is the last step of a function.
Work(f) ==
  CASE f = "get_volume" -> Get("ui", NXT_UI_VOLUME, 1)
    [] f = "set_volume" -> Put("ui", NXT_UI_VOLUME, 1, 1)
    [] f = "set_button" -> Put("ui", NXT_UI_BUTTON, 1, 1)
    [] f = "turn_off" -> Put("ui", NXT_UI_TURNOFF, 1, 1)
    [] f \in {"refresh", "screenshot"} ->
         Get("display", NXT_DISPLAY_BITMAP, NXT_DISPLAY_BUFSIZE)
    [] f \in {"flush", "flush_always"} ->
         Put("display", NXT_DISPLAY_BITMAP, NXT_DISPLAY_BUFSIZE, Junk)
    [] f = "fs_read" -> Get("ui", 0, Capped("ui", 4096))
    [] f = "fs_read_end" -> Get("ui", 30, Capped("ui", 4096))
    [] OTHER -> Put("ui", NXT_UI_VOLUME, 1, 1)

\* What the steps of a function are.
LEMMA StepsAre ==
  ASSUME NEW f \in Function
  PROVE  /\ f \in Finders => Steps(f) = <<Find(Work(f).mod), Work(f)>>
         /\ f \in FsCalls => Steps(f) = <<Work(f)>>
         /\ f \in {"lsmod", "mount"} => Steps(f) = <<List(All)>>
         /\ f = "lsmod_none" => Steps(f) = <<List(None)>>
         /\ f = "display_open" => Steps(f) = <<Find("display")>>
         /\ f \notin Works \cup Lists \cup {"display_open"} => Steps(f) = <<>>
<1>1. CASE f \in {"get_volume", "set_volume", "set_button", "turn_off"}
  BY <1>1, SMT DEF Steps, Work, Find, Get, Put, Step, Finders, FsCalls, Works, Lists
<1>2. CASE f \in {"refresh", "screenshot", "flush", "flush_always"}
  BY <1>2, SMT DEF Steps, Work, Find, Get, Put, Step, Finders, FsCalls, Works, Lists
<1>3. CASE f \in FsCalls
  BY <1>3, SMT DEF Steps, Work, Get, Put, Step, Finders, FsCalls, Works, Lists
<1>4. CASE f \in Lists \cup {"display_open", "draw"} \cup FsLists
  BY <1>4, SMT DEF Steps, List, Find, Finders, FsCalls, FsLists, Works, Lists
<1> QED BY <1>1, <1>2, <1>3, <1>4 DEF Function, Shows, Lists

\* The numbers of the model.
LEMMA Numbers ==
  /\ NXT_DISPLAY_BUFSIZE \in Nat /\ MapSize["ui"] \in Nat /\ MapSize["display"] \in Nat
  /\ {28, 36, 39} \subseteq Watched["ui"] /\ MapSize["ui"] >= 40 /\ MapSize["ui"] <= 4096
  /\ 119 + NXT_DISPLAY_BUFSIZE <= MapSize["display"]
  /\ Watched["display"] \subseteq 119 .. (119 + NXT_DISPLAY_BUFSIZE - 1)
  /\ 0 \in Handle /\ "ui" \in Mods /\ "display" \in Mods /\ None \notin Mods /\ All \notin Mods
<1>1. Width * Height \in Nat BY ModAssumption, SMT
<1>2. NXT_DISPLAY_BUFSIZE \in Nat BY <1>1, SMT DEF NXT_DISPLAY_BUFSIZE
<1>3. {28, 36, 39} \subseteq Watched["ui"]
  BY ModAssumption DEF NXT_UI_BUTTON, NXT_UI_VOLUME, NXT_UI_TURNOFF
<1>4. /\ "ui" \in Mods /\ "display" \in Mods /\ None \notin Mods /\ All \notin Mods
  BY ModAssumption
<1>5. MapSize["ui"] \in Nat /\ MapSize["display"] \in Nat BY <1>4, ModAssumption
<1>6. Watched["ui"] \subseteq 0 .. (MapSize["ui"] - 1) BY <1>4, ModAssumption
<1>7. 39 \in 0 .. (MapSize["ui"] - 1) BY <1>3, <1>6
<1>8. MapSize["ui"] <= 4096 BY ModAssumption
<1>11. MapSize["ui"] >= 40 BY <1>5, <1>7, SMT
<1>9. 0 \in Handle BY ModAssumption, SMT DEF Handle
<1>10. /\ 119 + NXT_DISPLAY_BUFSIZE <= MapSize["display"]
       /\ Watched["display"] \subseteq 119 .. (119 + NXT_DISPLAY_BUFSIZE - 1)
  BY ModAssumption DEF NXT_DISPLAY_BITMAP
<1> QED BY <1>2, <1>3, <1>4, <1>5, <1>8, <1>9, <1>10, <1>11

Kinds(t) == t.kind = "get" \/ t.kind = "put"
\* A transfer begins in its map and, but for those of modfs, ends there.
LEMMA WorkIs ==
  ASSUME NEW f \in Works
  PROVE  /\ Work(f).kind = (IF f \in Gets THEN "get" ELSE "put")
         /\ Work(f).mod = (IF f \in Shows THEN "display" ELSE "ui")
         /\ Work(f).off \in Nat /\ Work(f).n \in Nat
         /\ Work(f).off <= MapSize[Work(f).mod]
         /\ f \in Finders \cup {"fs_write"} => Work(f).off + Work(f).n <= MapSize[Work(f).mod]
         /\ f \in Shows => Work(f).off = 119 /\ Work(f).n = NXT_DISPLAY_BUFSIZE
         /\ f \in DOMAIN Settings => Work(f).off = Settings[f] /\ Work(f).n = 1 /\ Work(f).byte = 1
         /\ f \notin Gets \cup Shows => f \in DOMAIN Settings
         /\ f \in Gets => f \in DOMAIN Getters /\ Getters[f] = Work(f).mod
         /\ f = "fs_read" => Work(f).off = 0 /\ Work(f).n = MapSize["ui"]
         /\ f = "fs_read_end" => Work(f).off = 30 /\ Work(f).n = MapSize["ui"]
<1> USE DEF Get, Put, Step, Finders, FsCalls, Works, Gets, Shows, Settings, Getters,
            NXT_UI_BUTTON, NXT_UI_VOLUME, NXT_UI_TURNOFF, NXT_DISPLAY_BITMAP
<1>0. MapSize["ui"] \in Nat /\ MapSize["ui"] >= 40 BY Numbers
<1>1. CASE f \in {"get_volume", "set_volume", "set_button", "turn_off", "fs_write"}
  BY <1>0, <1>1, SMT DEF Work
<1>2. CASE f \in {"refresh", "screenshot", "flush", "flush_always"}
  BY <1>2, Numbers, SMT DEF Work
<1>3. CASE f \in {"fs_read", "fs_read_end"}
  <2>1. Capped("ui", 4096) = MapSize["ui"] BY Numbers, SMT DEF Capped
  <2> QED BY <1>0, <1>3, <2>1, SMT DEF Work
<1> QED BY <1>1, <1>2, <1>3

-----------------------------------------------------------------------------
(* Handles.                                                                *)

\* The brick has a first free handle when it has one at all.
LEMMA LowestIsFree ==
  ASSUME Free # {}
  PROVE  Lowest \in Free /\ \A k \in Free : Lowest <= k
<1> DEFINE Below(h) == 0 .. (h - 1)
           T == {Below(h) : h \in Free}
<1>1. Free \subseteq Nat BY DEF Free, Handle
<1>2. T \subseteq FiniteSubsetsOf(Nat)
  <2>1. ASSUME NEW h \in Free PROVE Below(h) \in FiniteSubsetsOf(Nat)
    <3>1. IsFiniteSet(Below(h)) BY <1>1, FS_Interval
    <3>2. Below(h) \subseteq Nat BY <1>1, SMT
    <3> QED BY <3>1, <3>2 DEF FiniteSubsetsOf
  <2> QED BY <2>1
<1>3. T # {} OBVIOUS
<1>4. IsWellFoundedOn(StrictSubsetOrdering(Nat), FiniteSubsetsOf(Nat))
  BY FS_StrictSubsetOrderingWellFounded
<1>5. PICK b \in T : \A y \in T : ~ (<<y, b>> \in StrictSubsetOrdering(Nat))
  <2> HIDE DEF T
  <2> QED BY <1>2, <1>3, <1>4, WFMin
<1>6. PICK h \in Free : b = Below(h) OBVIOUS
<1>7. ASSUME NEW k \in Free PROVE h <= k
  <2>1. h \in Nat /\ k \in Nat BY <1>1
  <2>2. SUFFICES ASSUME k < h PROVE FALSE BY <2>1, SMT
  <2>3. Below(k) \subseteq Below(h) /\ Below(h) \subseteq Nat BY <2>1, <2>2, SMT
  <2>4. k \in Below(h) /\ k \notin Below(k) BY <2>1, <2>2, SMT
  <2>5. <<Below(k), Below(h)>> \in StrictSubsetOrdering(Nat)
    <3> HIDE DEF Below
    <3> QED BY <2>3, <2>4 DEF StrictSubsetOrdering
  <2> QED BY <1>5, <1>6, <2>5
<1>8. \E g \in Free : \A k \in Free : g <= k BY <1>7
<1> QED BY <1>8 DEF Lowest

-----------------------------------------------------------------------------
(* The invariant behind the types: where a program is in its function, and  *)
(* how far a transfer has got.                                             *)

Listing == {"list", "next", "next_close", "listed", "list_close"}
Errors == {None, "connection", "ok", "module_not_found", "no_more_handles",
           "illegal_handle", "out_of_boundary"}

Types ==
  /\ open \in [Handle -> Seq(Mods)]
  /\ maps = [m \in Mods |-> maps[m]] /\ \A m \in Mods : maps[m] \in [Watched[m] -> Bytes]
  /\ script \in [Client -> Seq(Function)] /\ fn \in [Client -> Function \cup {None}]
  /\ todo = [c \in Client |-> todo[c]] /\ buf = [c \in Client |-> buf[c]]
  /\ since = [c \in Client |-> since[c]]
  /\ pc \in [Client -> Places] /\ err \in [Client -> Errors]
  /\ went \in [Client -> {"well", "unfound", "broken"}] /\ res \in [Client -> Int]
  /\ last \in [Client -> Handle \cup {NoHandle}] /\ new \in [Client -> Handle \cup {NoHandle}]
  /\ found \in [Client -> Seq(Mods)]
  /\ at \in [Client -> Nat] /\ left \in [Client -> Nat] /\ moved \in [Client -> Nat]
  /\ screen \in [Client -> [Watched["display"] -> Bytes]]
  /\ before \in [Client -> [Watched["display"] -> Bytes]]
  /\ dirty \in [Client -> BOOLEAN] /\ fine \in [Client -> BOOLEAN]
  /\ missed \in 0 .. MaxMissed /\ calm \in BOOLEAN

Moving(c) == pc[c] \in {"get", "put"}
\* The transfer of the function is over, and went well.
Ended(c) == pc[c] = "return" /\ went[c] = "well" /\ (at[c] > 0 \/ fn[c] \in Gets)

Place(c) ==
  /\ pc[c] = "idle" =>
       /\ fn[c] = None /\ script[c] = <<>> /\ err[c] = None /\ found[c] = <<>>
       /\ last[c] = NoHandle /\ res[c] = 0
  /\ pc[c] \in {"idle", "call"} => todo[c] = <<>>
  /\ pc[c] \notin {"idle", "call"} => fn[c] \in Function
  /\ pc[c] # "return" => went[c] = "well"
  /\ pc[c] \notin {"get", "put", "return"} => at[c] = 0 /\ buf[c] = <<>>
  /\ pc[c] \in {"find", "found"} =>
       fn[c] \in Finders \cup {"display_open"} /\ todo[c] = Steps(fn[c])
  /\ pc[c] \in Listing => fn[c] \in Lists /\ todo[c] = Steps(fn[c])
  /\ pc[c] \in {"next", "next_close"} => last[c] \in Handle
  /\ pc[c] = "next_close" => new[c] \in Handle
  /\ Moving(c) => fn[c] \in Works /\ todo[c] = <<Work(fn[c])>> /\ pc[c] = Work(fn[c]).kind
  /\ Ended(c) => fn[c] \in Works
  /\ pc[c] = "get" \/ (pc[c] = "return" /\ fn[c] \in Gets /\ went[c] # "unfound") =>
       buf[c] \in [Watched[Work(fn[c]).mod] -> Bytes]

\* A transfer goes on until all is moved, or the end of the map.
Progress(c) ==
  /\ Moving(c) \/ Ended(c) =>
       LET t == Work(fn[c]) IN
         /\ at[c] = t.off + moved[c] /\ at[c] <= MapSize[t.mod]
         /\ \/ at[c] + left[c] = t.off + t.n
            \/ at[c] = MapSize[t.mod] /\ MapSize[t.mod] < t.off + t.n
  /\ Ended(c) => left[c] = 0

Control == Types /\ \A c \in Client : Place(c) /\ Progress(c)

\* Where a function begins, and what comes after its first step.
LEMMA FirstStep ==
  ASSUME NEW f \in Function, Steps(f) # <<>>
  PROVE  /\ Head(Steps(f)).kind = (IF f \in Lists THEN "list" ELSE
                                   IF f \in FsCalls THEN Work(f).kind ELSE "find")
         /\ f \in Lists \cup Works \cup {"display_open"}
         /\ f \in FsCalls => Head(Steps(f)) = Work(f)
         /\ f \notin FsCalls => Head(Steps(f)).off = 0 /\ Head(Steps(f)).n = 0
         /\ Tail(Steps(f)) = (IF f \in Finders THEN <<Work(f)>> ELSE <<>>)
         /\ f \in Finders => Head(Steps(f)).mod = Work(f).mod
         /\ f = "display_open" => Head(Steps(f)).mod = "display"
         /\ f \in {"lsmod", "mount"} => Head(Steps(f)).mod = All
         /\ f = "lsmod_none" => Head(Steps(f)).mod = None
<1>1. CASE f \in Finders
  <2>1. Steps(f) = <<Find(Work(f).mod), Work(f)>> BY <1>1, StepsAre
  <2>2. f \notin Lists /\ f \notin FsCalls /\ f # "display_open"
    BY <1>1 DEF Finders, Lists, FsCalls
  <2> QED BY <1>1, <2>1, <2>2, SMT DEF Find, Step, Works, Lists
<1>2. CASE f \in FsCalls
  <2>1. Steps(f) = <<Work(f)>> BY <1>2, StepsAre
  <2>2. f \notin Lists /\ f \notin Finders /\ f # "display_open"
    BY <1>2 DEF Finders, Lists, FsCalls
  <2> QED BY <1>2, <2>1, <2>2, SMT DEF Works, Lists
<1>3. CASE f \in {"lsmod", "mount"}
  <2>1. Steps(f) = <<List(All)>> BY <1>3, StepsAre
  <2>2. f \notin Finders /\ f \notin FsCalls BY <1>3 DEF Finders, FsCalls
  <2> QED BY <1>3, <2>1, <2>2, SMT DEF List, Step, Lists
<1>4. CASE f = "lsmod_none"
  <2>1. Steps(f) = <<List(None)>> BY <1>4, StepsAre
  <2>2. f \notin Finders /\ f \notin FsCalls BY <1>4 DEF Finders, FsCalls
  <2>3. f \in Lists /\ f # "display_open" /\ f \notin {"lsmod", "mount"} BY <1>4 DEF Lists
  <2>4. Head(Steps(f)) = List(None) /\ Tail(Steps(f)) = <<>> BY <2>1, SMT
  <2>5. /\ Head(Steps(f)).kind = "list" /\ Head(Steps(f)).mod = None
        /\ Head(Steps(f)).off = 0 /\ Head(Steps(f)).n = 0
    BY <2>4 DEF List, Step
  <2> QED BY <1>4, <2>2, <2>3, <2>4, <2>5
<1>5. CASE f = "display_open"
  <2>1. Steps(f) = <<Find("display")>> BY <1>5, StepsAre
  <2>2. f \notin Finders /\ f \notin FsCalls BY <1>5 DEF Finders, FsCalls
  <2>3. f \notin Lists /\ f \notin {"lsmod", "mount"} /\ f # "lsmod_none" BY <1>5 DEF Lists
  <2>4. Head(Steps(f)) = Find("display") /\ Tail(Steps(f)) = <<>> BY <2>1, SMT
  <2>5. /\ Head(Steps(f)).kind = "find" /\ Head(Steps(f)).mod = "display"
        /\ Head(Steps(f)).off = 0 /\ Head(Steps(f)).n = 0
    BY <2>4 DEF Find, Step
  <2> QED BY <1>5, <2>2, <2>3, <2>4, <2>5
<1> QED BY <1>1, <1>2, <1>3, <1>4, <1>5, StepsAre DEF Works, Lists

\* What of a program is its own.
Same(d) ==
  /\ script'[d] = script[d] /\ fn'[d] = fn[d] /\ todo'[d] = todo[d] /\ pc'[d] = pc[d]
  /\ err'[d] = err[d] /\ went'[d] = went[d] /\ res'[d] = res[d] /\ last'[d] = last[d]
  /\ new'[d] = new[d] /\ found'[d] = found[d] /\ at'[d] = at[d] /\ left'[d] = left[d]
  /\ moved'[d] = moved[d] /\ buf'[d] = buf[d] /\ screen'[d] = screen[d]
  /\ dirty'[d] = dirty[d] /\ fine'[d] = fine[d] /\ before'[d] = before[d]

ClientStep(c) ==
  \/ \E p \in Programs[c] : Run(c, p)
  \/ Exit(c) \/ Call(c) \/ Return(c) \/ ListEnd(c)
  \/ \E way \in Ways :
       \/ FindFirst(c, way) \/ FindClose(c, way)
       \/ ListFirst(c, way) \/ ListNext(c, way) \/ ListClose(c, way) \/ ListLastClose(c, way)
       \/ Read(c, way) \/ Write(c, way)
BrickStep == \E m \in {"ui", "display"}, v \in Byte :
                \E o \in Watched[m] \cap Changing : BrickSets(m, o, v)

LEMMA NextIs == Next <=> (\E c \in Client : ClientStep(c)) \/ BrickStep
BY DEF Next, ClientStep, BrickStep

\* A variable of one program is set, those of the others stay.
LEMMA SetOne ==
  ASSUME NEW f, f = [x \in Client |-> f[x]], NEW c \in Client, NEW v, NEW d \in Client
  PROVE  Set(f, c, v)[d] = IF d = c THEN v ELSE f[d]
BY DEF Set

\* A step of a program leaves what is another program's own.
LEMMA Others ==
  ASSUME Types, NEW c \in Client, ClientStep(c), NEW d \in Client, d # c
  PROVE  Same(d)
<1> USE DEF Set, Same, Types, vars, brickVars, progVars, listVars, moveVars, shownVars, ghosts
<1>1. ASSUME NEW p \in Programs[c], Run(c, p) PROVE Same(d) BY <1>1 DEF Run
<1>2. CASE Exit(c) BY <1>2 DEF Exit
<1>3. CASE Call(c)
  BY <1>3 DEF Call, Enter
<1>4. CASE Return(c) BY <1>4 DEF Return
<1>5. CASE ListEnd(c) BY <1>5 DEF ListEnd, Done, Fail, Enter
<1>6. ASSUME NEW way \in Ways, FindFirst(c, way) PROVE Same(d)
  BY <1>6 DEF FindFirst, FirstMod, Telegram, Fail
<1>7. ASSUME NEW way \in Ways, FindClose(c, way) PROVE Same(d)
  BY <1>7 DEF FindClose, Close, Telegram, Done, Enter
<1>8. ASSUME NEW way \in Ways, ListFirst(c, way) PROVE Same(d)
  BY <1>8 DEF ListFirst, FirstMod, Telegram
<1>9. ASSUME NEW way \in Ways, ListNext(c, way) PROVE Same(d)
  BY <1>9 DEF ListNext, NextMod, Telegram
<1>10. ASSUME NEW way \in Ways, ListClose(c, way) PROVE Same(d)
  BY <1>10 DEF ListClose, Close, Telegram
<1>11. ASSUME NEW way \in Ways, ListLastClose(c, way) PROVE Same(d)
  BY <1>11 DEF ListLastClose, Close, Telegram, Done, Enter
<1>12. ASSUME NEW way \in Ways, Read(c, way) PROVE Same(d)
  BY <1>12 DEF Read, Telegram, Moved, Advance, Fail
<1>13. ASSUME NEW way \in Ways, Write(c, way) PROVE Same(d)
  <2>1. PICK st \in MoveStatuses(c) :
          Telegram(c, way, st) /\ Moved(c, Good(way, st), buf[c])
    BY <1>13 DEF Write
  <2>2. UNCHANGED <<script, fn, res, listVars, shownVars, before>> BY <1>13 DEF Write
  <2>3. /\ fine'[d] = fine[d] /\ err'[d] = err[d] BY <2>1 DEF Telegram
  <2>4. /\ at'[d] = at[d] /\ left'[d] = left[d] /\ moved'[d] = moved[d] /\ buf'[d] = buf[d]
        /\ pc'[d] = pc[d] /\ todo'[d] = todo[d] /\ went'[d] = went[d]
    BY <2>1 DEF Moved, Advance, Fail
  <2> QED BY <2>2, <2>3, <2>4
<1> QED BY <1>1, <1>2, <1>3, <1>4, <1>5, <1>6, <1>7, <1>8, <1>9, <1>10, <1>11, <1>12, <1>13
        DEF ClientStep

LEMMA SameStays ==
  ASSUME NEW d \in Client, Same(d), Place(d), Progress(d)
  PROVE  Place(d)' /\ Progress(d)'
BY DEF Same, Place, Progress, Moving, Ended

LEMMA InitControl == Init => Control
<1> SUFFICES ASSUME Init PROVE Control OBVIOUS
<1>1. 0 \in Bytes BY ModAssumption DEF Bytes
<1>2. /\ <<>> \in Seq(Mods) /\ <<>> \in Seq(Function) /\ NoHandle \in Handle \cup {NoHandle}
      /\ 0 \in 0 .. MaxMissed
  BY ModAssumption, SMT
<1>3. Screen(0) \in [Watched["display"] -> Bytes] BY <1>1 DEF Screen
<1>4. Types BY <1>1, <1>2, <1>3 DEF Init, Types, Places, Errors
<1>5. ASSUME NEW c \in Client PROVE Place(c) /\ Progress(c)
  BY <1>5 DEF Init, Place, Progress, Moving, Ended, Listing
<1> QED BY <1>4, <1>5 DEF Control

\* A telegram keeps the types, whatever its status.
LEMMA TelegramTypes ==
  ASSUME Types, NEW c \in Client, NEW way \in Ways, NEW status \in Errors,
         Telegram(c, way, status)
  PROVE  /\ err' \in [Client -> Errors] /\ fine' \in [Client -> BOOLEAN]
         /\ missed' \in 0 .. MaxMissed
<1>1. err' \in [Client -> Errors]
  BY DEF Telegram, Types, Set, Errors
<1>2. Good(way, status) \in BOOLEAN BY DEF Good
<1>3. fine' \in [Client -> BOOLEAN] BY <1>2 DEF Telegram, Types, Set
<1>4. missed' \in 0 .. MaxMissed
  <2>1. missed \in Nat /\ missed' \in {missed, missed + 1} /\ missed' <= MaxMissed
    BY DEF Telegram, Types
  <2> QED BY <2>1, ModAssumption, SMT
<1> QED BY <1>1, <1>3, <1>4

\* Handles stay lists of modules.
LEMMA OpenedTypes ==
  ASSUME Types, NEW list \in Seq(Mods), list # <<>>, OpenStatus(list) = "ok"
  PROVE  Opened(list) \in [Handle -> Seq(Mods)] /\ Lowest \in Handle /\ open[Lowest] = <<>>
<1>1. Free # {} BY DEF OpenStatus
<1>2. Lowest \in Free BY <1>1, LowestIsFree
<1> QED BY <1>2 DEF Opened, Free, Types

LEMMA OpenStatusIs ==
  ASSUME NEW list PROVE OpenStatus(list) \in Errors /\ (OpenStatus(list) = "ok" => list # <<>>)
BY DEF OpenStatus, Errors

LEMMA MatchingIs ==
  ASSUME NEW mod PROVE Matching(mod) \in Seq(Mods)
BY ModAssumption, SMT DEF Matching

\* nxt_mod_first and the brick
LEMMA FirstTypes ==
  ASSUME Types, NEW c \in Client, NEW list \in Seq(Mods), NEW way \in Ways, FirstMod(c, list, way)
  PROVE  /\ open' \in [Handle -> Seq(Mods)]
         /\ err' \in [Client -> Errors] /\ fine' \in [Client -> BOOLEAN]
         /\ missed' \in 0 .. MaxMissed
<1>1. open' \in [Handle -> Seq(Mods)]
  BY OpenedTypes, OpenStatusIs DEF FirstMod, Types
<1> QED BY <1>1, TelegramTypes, OpenStatusIs DEF FirstMod

\* nxt_mod_next and the brick
LEMMA NextModTypes ==
  ASSUME Types, NEW c \in Client, NEW way \in Ways, NextMod(c, way), last[c] \in Handle
  PROVE  /\ open' \in [Handle -> Seq(Mods)] /\ After(last[c]) \in Seq(Mods)
         /\ err' \in [Client -> Errors] /\ fine' \in [Client -> BOOLEAN]
         /\ missed' \in 0 .. MaxMissed
         /\ NextStatus(last[c]) = "ok" => OpenStatus(After(last[c])) = "ok"
<1>1. After(last[c]) \in Seq(Mods)
  <2>1. open[last[c]] \in Seq(Mods) BY DEF Types
  <2> QED BY <2>1, SMT DEF After
<1>2. /\ NextStatus(last[c]) \in Errors
      /\ NextStatus(last[c]) = "ok" => OpenStatus(After(last[c])) = "ok"
  BY OpenStatusIs DEF NextStatus, Errors
<1>3. open' \in [Handle -> Seq(Mods)]
  BY <1>1, <1>2, OpenedTypes, OpenStatusIs DEF NextMod, Types
<1> QED BY <1>1, <1>2, <1>3, TelegramTypes DEF NextMod

\* nxt_mod_close and the brick
LEMMA CloseTypes ==
  ASSUME Types, NEW c \in Client, NEW h, NEW way \in Ways, Close(c, h, way)
  PROVE  /\ open' \in [Handle -> Seq(Mods)]
         /\ err' \in [Client -> Errors] /\ fine' \in [Client -> BOOLEAN]
         /\ missed' \in 0 .. MaxMissed
<1>1. open' \in [Handle -> Seq(Mods)]
  <2>1. <<>> \in Seq(Mods) BY SMT
  <2> QED BY <2>1 DEF Close, Types
<1>2. (IF h \in Handle /\ open[h] # <<>> THEN "ok" ELSE "illegal_handle") \in Errors
  BY DEF Errors
<1>3. Telegram(c, way, IF h \in Handle /\ open[h] # <<>> THEN "ok" ELSE "illegal_handle")
  BY DEF Close
<1> QED BY <1>1, <1>2, <1>3, TelegramTypes

-----------------------------------------------------------------------------
(* Every action keeps the types and the program's own place.               *)

Own(c) == Types' /\ Place(c)' /\ Progress(c)'

LEMMA RunOwn ==
  ASSUME Control, NEW c \in Client, NEW p \in Programs[c], Run(c, p)
  PROVE  Own(c)
<1> USE DEF Control, vars, brickVars, progVars, listVars, moveVars, shownVars, ghosts
<1>1. p \in Seq(Function) BY ModAssumption
<1>2. pc' = [pc EXCEPT ![c] = "call"] /\ script' = [script EXCEPT ![c] = p]
  BY DEF Run, Set
<1>3. Types'
  <2>1. calm' \in BOOLEAN BY DEF Run, Types
  <2>2. pc' \in [Client -> Places] /\ script' \in [Client -> Seq(Function)]
    BY <1>1, <1>2 DEF Types, Places
  <2>3. UNCHANGED <<brickVars, fn, todo, err, went, res, listVars, moveVars, shownVars,
                    missed, fine, before, since>>
    BY DEF Run
  <2> QED BY <2>1, <2>2, <2>3 DEF Types
<1>4. pc'[c] = "call" BY <1>2 DEF Types
<1>5. Place(c)' /\ Progress(c)'
  BY <1>4 DEF Run, Place, Progress, Moving, Ended, Listing
<1> QED BY <1>3, <1>5 DEF Own

LEMMA ExitOwn ==
  ASSUME Control, NEW c \in Client, Exit(c)
  PROVE  Own(c)
<1> USE DEF Control, vars, brickVars, progVars, listVars, moveVars, shownVars, ghosts
<1>1. <<>> \in Seq(Mods) /\ <<>> \in Seq(Function) /\ 0 \in Bytes
  BY ModAssumption DEF Bytes
<1>2. Screen(0) \in [Watched["display"] -> Bytes] BY <1>1 DEF Screen
<1>3. Types'
  <2>1. /\ pc' \in [Client -> Places] /\ script' \in [Client -> Seq(Function)]
        /\ fn' \in [Client -> Function \cup {None}] /\ err' \in [Client -> Errors]
        /\ res' \in [Client -> Int]
    BY <1>1 DEF Exit, Set, Types, Places, Errors
  <2>2. /\ screen' \in [Client -> [Watched["display"] -> Bytes]]
        /\ before' \in [Client -> [Watched["display"] -> Bytes]]
        /\ dirty' \in [Client -> BOOLEAN]
    BY <1>2 DEF Exit, Set, Types
  <2>3. /\ found' \in [Client -> Seq(Mods)] /\ last' \in [Client -> Handle \cup {NoHandle}]
        /\ since' = [x \in Client |-> since'[x]]
    BY <1>1 DEF Exit, Set, Types
  <2>4. UNCHANGED <<brickVars, todo, went, new, moveVars, missed, calm, fine>> BY DEF Exit
  <2> QED BY <2>1, <2>2, <2>3, <2>4 DEF Types
<1>4. /\ pc'[c] = "idle" /\ script'[c] = <<>> /\ fn'[c] = None /\ err'[c] = None
      /\ found'[c] = <<>> /\ last'[c] = NoHandle /\ res'[c] = 0
  BY DEF Exit, Set, Types
<1>5. Place(c)' /\ Progress(c)'
  BY <1>4 DEF Exit, Place, Progress, Moving, Ended, Listing
<1> QED BY <1>3, <1>5 DEF Own

\* What beginning a step does.
LEMMA EnterIs ==
  ASSUME Types, NEW c \in Client, NEW steps, Enter(c, steps)
  PROVE  /\ todo' = [x \in Client |-> todo'[x]] /\ todo'[c] = steps
         /\ steps = <<>> => pc'[c] = "return" /\ UNCHANGED <<at, left, moved, buf>>
         /\ steps # <<>> => 
              /\ pc'[c] = Head(steps).kind /\ at'[c] = Head(steps).off
              /\ left'[c] = Head(steps).n /\ moved'[c] = 0
              /\ buf'[c] = IF Head(steps).kind = "get"
                           THEN [o \in Watched[Head(steps).mod] |-> Junk] ELSE buf[c]
         /\ buf' = [x \in Client |-> buf'[x]]
         /\ steps # <<>> /\ Head(steps).kind \in Places
              /\ Head(steps).off \in Nat /\ Head(steps).n \in Nat =>
              /\ pc' \in [Client -> Places] /\ at' \in [Client -> Nat]
              /\ left' \in [Client -> Nat] /\ moved' \in [Client -> Nat]
         /\ steps = <<>> => pc' \in [Client -> Places]
<1> USE DEF Set, Types
<1>1. CASE steps = <<>> BY <1>1 DEF Enter, Places
<1>2. CASE steps # <<>>
  <2> DEFINE s == Head(steps)
  <2>1. /\ todo' = [todo EXCEPT ![c] = steps] /\ pc' = [pc EXCEPT ![c] = s.kind]
        /\ at' = [at EXCEPT ![c] = s.off] /\ left' = [left EXCEPT ![c] = s.n]
        /\ moved' = [moved EXCEPT ![c] = 0]
        /\ buf' = IF s.kind = "get" THEN [buf EXCEPT ![c] = [o \in Watched[s.mod] |-> Junk]]
                  ELSE buf
    BY <1>2 DEF Enter
  <2> HIDE DEF s
  <2>2. /\ todo' = [x \in Client |-> todo'[x]] /\ todo'[c] = steps
        /\ pc'[c] = s.kind /\ at'[c] = s.off /\ left'[c] = s.n /\ moved'[c] = 0
    BY <2>1
  <2>3. /\ buf' = [x \in Client |-> buf'[x]]
        /\ buf'[c] = IF s.kind = "get" THEN [o \in Watched[s.mod] |-> Junk] ELSE buf[c]
    BY <2>1
  <2>4. s.kind \in Places /\ s.off \in Nat /\ s.n \in Nat =>
              /\ pc' \in [Client -> Places] /\ at' \in [Client -> Nat]
              /\ left' \in [Client -> Nat] /\ moved' \in [Client -> Nat]
    BY <2>1
  <2> QED BY <1>2, <2>2, <2>3, <2>4 DEF s
<1> QED BY <1>1, <1>2

\* A transfer that begins has moved nothing.
Started(c) ==
  /\ pc'[c] \in {"get", "put"} => at'[c] = Work(fn'[c]).off
  /\ pc'[c] = "get" => \A o \in Watched[Work(fn'[c]).mod] : buf'[c][o] = Junk
  /\ ~Ended(c)'

LEMMA CallOwn ==
  ASSUME Control, NEW c \in Client, Call(c)
  PROVE  Own(c) /\ Started(c)
<1> USE DEF Control
<1> DEFINE f == Head(script[c])
           steps == IF (f = "flush" /\ ~dirty[c]) \/ Unlisted(c, f) THEN <<>> ELSE Steps(f)
<1>0. script[c] \in Seq(Function) /\ script[c] # <<>> BY DEF Types, Call, Over
<1>1. f \in Function /\ Tail(script[c]) \in Seq(Function) BY <1>0, SMT
<1>2. Enter(c, steps) BY DEF Call
<1>3. pc[c] = "call" BY DEF Call
<1>4. steps # <<>> => steps = Steps(f) /\ Steps(f) # <<>> OBVIOUS
<1>5. /\ script' = [script EXCEPT ![c] = Tail(script[c])] /\ fn' = [fn EXCEPT ![c] = f]
      /\ went' = [went EXCEPT ![c] = IF Unlisted(c, f) THEN "unfound" ELSE "well"]
      /\ res' = [res EXCEPT ![c] = 0] /\ last' = [last EXCEPT ![c] = NoHandle]
  BY DEF Call, Set
<1>6. UNCHANGED <<open, maps, err, new, missed, fine, since>>
  BY DEF Call, brickVars
<1>7. f \in FsCalls => f \in Works /\ Work(f).kind \in {"get", "put"} /\ Work(f).off \in Nat
        /\ Work(f).n \in Nat /\ Work(f).off <= MapSize[Work(f).mod]
  BY WorkIs DEF Works
<1>8. steps # <<>> => /\ Head(steps).kind \in {"list", "find", "get", "put"}
                      /\ Head(steps).off \in Nat /\ Head(steps).n \in Nat
  BY <1>1, <1>4, <1>7, FirstStep
<1> HIDE DEF f, steps
<1>9. Types'
  <2>1. /\ screen' \in [Client -> [Watched["display"] -> Bytes]]
        /\ before' \in [Client -> [Watched["display"] -> Bytes]]
        /\ dirty' \in [Client -> BOOLEAN] /\ found' \in [Client -> Seq(Mods)]
        /\ calm' \in BOOLEAN
    <3>1. 1 \in Bytes /\ Screen(1) \in [Watched["display"] -> Bytes]
      BY ModAssumption DEF Screen, Bytes
    <3>2. maps["display"] \in [Watched["display"] -> Bytes] BY Numbers DEF Types
    <3>3. <<>> \in Seq(Mods) OBVIOUS
    <3> QED BY <3>1, <3>2, <3>3 DEF Call, Set, Types
  <2>2. /\ pc' \in [Client -> Places] /\ at' \in [Client -> Nat]
        /\ left' \in [Client -> Nat] /\ moved' \in [Client -> Nat]
        /\ todo' = [x \in Client |-> todo'[x]] /\ buf' = [x \in Client |-> buf'[x]]
    <3>1. steps # <<>> => Head(steps).kind \in Places BY <1>8 DEF Places
    <3>2. todo' = [x \in Client |-> todo'[x]] /\ buf' = [x \in Client |-> buf'[x]]
      BY <1>2, EnterIs
    <3>3. CASE steps = <<>>
      <4>1. pc' \in [Client -> Places] /\ UNCHANGED <<at, left, moved>> BY <1>2, <3>3, EnterIs
      <4> QED BY <3>2, <4>1 DEF Types
    <3>4. CASE steps # <<>>
      <4>1. Head(steps).kind \in Places /\ Head(steps).off \in Nat /\ Head(steps).n \in Nat
        BY <1>8, <3>1, <3>4
      <4>2. /\ pc' \in [Client -> Places] /\ at' \in [Client -> Nat]
            /\ left' \in [Client -> Nat] /\ moved' \in [Client -> Nat]
        BY <1>2, <3>4, <4>1, EnterIs
      <4> QED BY <3>2, <4>2
    <3> QED BY <3>3, <3>4
  <2>3. /\ script' \in [Client -> Seq(Function)] /\ fn' \in [Client -> Function \cup {None}]
        /\ went' \in [Client -> {"well", "unfound", "broken"}] /\ res' \in [Client -> Int]
        /\ last' \in [Client -> Handle \cup {NoHandle}]
    BY <1>1, <1>5 DEF Types
  <2> QED BY <1>6, <2>1, <2>2, <2>3 DEF Types
<1>10. fn'[c] = f /\ went'[c] = (IF Unlisted(c, f) THEN "unfound" ELSE "well")
  BY <1>5 DEF Types
<1>11. at[c] = 0 /\ buf[c] = <<>> BY <1>3 DEF Place
<1>12. CASE steps = <<>>
  <2>1. pc'[c] = "return" /\ at'[c] = 0 /\ todo'[c] = <<>> BY <1>2, <1>11, <1>12, EnterIs
  <2>2. f \in Gets => went'[c] = "unfound"
    <3>1. f \in Gets => Steps(f) # <<>>
      <4>1. f \in Gets => f \in Finders \/ f \in FsCalls BY DEF Gets, Finders, FsCalls
      <4> QED BY <1>1, <4>1, StepsAre
    <3>2. f \in Gets => Unlisted(c, f) BY <1>12, <3>1 DEF steps, Gets
    <3> QED BY <1>10, <3>2
  <2>3. ~ (0 > 0) BY SMT
  <2>4. ~Ended(c)' BY <1>10, <2>1, <2>2, <2>3 DEF Ended
  <2>5. Place(c)' /\ Progress(c)'
    BY <1>1, <1>10, <2>1, <2>4 DEF Place, Progress, Moving, Listing, Ended
  <2> QED BY <1>9, <2>1, <2>4, <2>5 DEF Own, Started
<1>13. CASE steps # <<>>
  <2>0. ~Unlisted(c, f) BY <1>13 DEF steps
  <2>1. /\ pc'[c] = Head(steps).kind /\ at'[c] = Head(steps).off /\ todo'[c] = Steps(f)
        /\ left'[c] = Head(steps).n /\ moved'[c] = 0 /\ went'[c] = "well"
        /\ buf'[c] = IF Head(steps).kind = "get"
                     THEN [o \in Watched[Head(steps).mod] |-> Junk] ELSE <<>>
    BY <1>2, <1>4, <1>10, <1>11, <1>13, <2>0, EnterIs
  <2>2. CASE f \in FsCalls
    <3>1. Head(steps) = Work(f) /\ Steps(f) = <<Work(f)>>
      BY <1>1, <1>4, <1>13, <2>2, FirstStep, StepsAre
    <3>2. Work(f).kind = "get" => buf'[c] \in [Watched[Work(f).mod] -> Bytes]
      BY <2>1, <3>1 DEF Bytes
    <3>3. Place(c)'
      BY <1>1, <1>7, <1>10, <2>1, <2>2, <3>1, <3>2 DEF Place, Moving, Ended, Listing
    <3>4. Work(f).off = Work(f).off + 0 BY <1>7, <2>2, SMT
    <3>5. Progress(c)'
      BY <1>7, <1>10, <2>1, <2>2, <3>1, <3>4 DEF Progress, Moving, Ended
    <3>6. pc'[c] # "return" BY <1>7, <2>1, <2>2, <3>1
    <3>7. Started(c) BY <1>7, <1>10, <2>1, <2>2, <3>1, <3>6 DEF Started, Ended
    <3> QED BY <1>9, <3>3, <3>5, <3>7 DEF Own
  <2>3. CASE f \notin FsCalls
    <3>1. /\ pc'[c] = (IF f \in Lists THEN "list" ELSE "find") /\ at'[c] = 0
          /\ buf'[c] = <<>> /\ f \in Lists \cup Finders \cup {"display_open"}
      BY <1>1, <1>4, <1>13, <2>1, <2>3, FirstStep DEF Works
    <3>2. Started(c) BY <3>1 DEF Started, Ended
    <3> QED BY <1>1, <1>9, <1>10, <2>1, <3>1, <3>2
            DEF Own, Place, Progress, Moving, Ended, Listing
  <2> QED BY <2>2, <2>3
<1> QED BY <1>12, <1>13

LEMMA ReturnOwn ==
  ASSUME Control, NEW c \in Client, Return(c)
  PROVE  Own(c)
<1> USE DEF Control
<1>1. pc[c] = "return" /\ fn[c] \in Function BY DEF Return, Place
<1>2. PICK r \in Results(c) : res' = [res EXCEPT ![c] = r] BY DEF Return, Set
<1>3. r \in Int
  <2>1. moved[c] \in Int /\ MapSize["ui"] \in Int /\ FsError(err[c]) \in Int
    BY Numbers DEF Types, FsError
  <2>2. Len(found[c]) \in Int
    <3>1. found[c] \in Seq(Mods) BY DEF Types
    <3> QED BY <3>1, SMT
  <2>3. Results(c) \subseteq Int BY <2>1, <2>2 DEF Results
  <2> QED BY <2>3
<1>4. Types'
  <2>1. /\ pc' \in [Client -> Places] /\ went' \in [Client -> {"well", "unfound", "broken"}]
        /\ todo' = [x \in Client |-> todo'[x]] /\ buf' = [x \in Client |-> buf'[x]]
    BY DEF Return, Set, Types, Places
  <2>2. /\ at' \in [Client -> Nat] /\ left' \in [Client -> Nat] /\ moved' \in [Client -> Nat]
        /\ fine' \in [Client -> BOOLEAN] /\ dirty' \in [Client -> BOOLEAN]
    BY DEF Return, Set, Types
  <2>3. screen' \in [Client -> [Watched["display"] -> Bytes]]
    <3>1. CASE fn[c] = "refresh" /\ went[c] # "unfound"
      <4>1. fn[c] \in Gets /\ fn[c] \in Works /\ fn[c] \in Shows
        BY <3>1 DEF Gets, Works, Finders, Shows
      <4>2. buf[c] \in [Watched["display"] -> Bytes] BY <1>1, <3>1, <4>1, WorkIs DEF Place
      <4> QED BY <3>1, <4>2 DEF Return, Set, Types
    <3>2. CASE ~ (fn[c] = "refresh" /\ went[c] # "unfound")
      BY <3>2 DEF Return, Types
    <3> QED BY <3>1, <3>2
  <2>4. res' \in [Client -> Int] BY <1>2, <1>3 DEF Types
  <2>5. UNCHANGED <<brickVars, script, fn, err, listVars, missed, calm, before, since>>
    BY DEF Return
  <2> QED BY <2>1, <2>2, <2>3, <2>4, <2>5 DEF Types, brickVars, listVars
<1>5. /\ pc'[c] = "call" /\ todo'[c] = <<>> /\ went'[c] = "well" /\ buf'[c] = <<>> /\ at'[c] = 0
  BY DEF Return, Set, Types
<1>6. Place(c)' /\ Progress(c)'
  BY <1>5 DEF Place, Progress, Moving, Ended, Listing
<1> QED BY <1>4, <1>6 DEF Own

\* A function that fails before its transfer.
LEMMA FailIs ==
  ASSUME Types, NEW c \in Client, NEW how \in {"unfound", "broken"}, Fail(c, how)
  PROVE  /\ pc' \in [Client -> Places] /\ went' \in [Client -> {"well", "unfound", "broken"}]
         /\ todo' = [x \in Client |-> todo'[x]] /\ UNCHANGED moveVars
         /\ pc'[c] = "return" /\ todo'[c] = <<>> /\ went'[c] = how
<1>1. "return" \in Places BY DEF Places
<1>2. /\ pc' = [pc EXCEPT ![c] = "return"] /\ todo' = [todo EXCEPT ![c] = <<>>]
      /\ went' = [went EXCEPT ![c] = how] /\ UNCHANGED moveVars
  BY DEF Fail, Set
<1> QED BY <1>1, <1>2 DEF Types

LEMMA FailPlace ==
  ASSUME Types, NEW c \in Client, Place(c), Fail(c, "unfound"), fn'[c] \in Function
  PROVE  Place(c)' /\ Progress(c)'
BY FailIs DEF Place, Progress, Moving, Ended, Listing

\* The first step of a function is done, and its transfer begins or it returns.
LEMMA DoneIs ==
  ASSUME Control, NEW c \in Client, pc[c] \in {"found", "listed", "list_close"}, Done(c),
         fn'[c] = fn[c]
  PROVE  /\ Place(c)' /\ Progress(c)'
         /\ pc' \in [Client -> Places] /\ at' \in [Client -> Nat] /\ left' \in [Client -> Nat]
         /\ moved' \in [Client -> Nat] /\ UNCHANGED went
         /\ todo' = [x \in Client |-> todo'[x]] /\ buf' = [x \in Client |-> buf'[x]]
         /\ pc'[c] = IF fn[c] \in Finders THEN Work(fn[c]).kind ELSE "return"
         /\ fn[c] \in Finders =>
              at'[c] = Work(fn[c]).off /\ left'[c] = Work(fn[c]).n /\ moved'[c] = 0
         /\ fn[c] \notin Finders => at'[c] = 0
         /\ Work(fn[c]).kind # "get" => buf'[c] = <<>>
         /\ fn[c] \in Finders /\ Work(fn[c]).kind = "get" =>
              buf'[c] = [o \in Watched[Work(fn[c]).mod] |-> Junk]
<1> USE DEF Control
<1> DEFINE f == fn[c]
           rest == Tail(todo[c])
<1>1. /\ f \in Function /\ todo[c] = Steps(f) /\ f \in Finders \cup Lists \cup {"display_open"}
      /\ at[c] = 0 /\ buf[c] = <<>> /\ went[c] = "well"
  BY DEF Place, Listing
<1>2. Steps(f) # <<>>
  <2>1. f \in Finders \/ f \in {"lsmod", "mount"} \/ f = "lsmod_none" \/ f = "display_open"
    BY <1>1 DEF Lists
  <2> QED BY <1>1, <2>1, StepsAre
<1>3. rest = (IF f \in Finders THEN <<Work(f)>> ELSE <<>>)
  <2>1. rest = Tail(Steps(f)) BY <1>1
  <2>2. Tail(Steps(f)) = (IF f \in Finders THEN <<Work(f)>> ELSE <<>>)
    <3> HIDE DEF f
    <3> QED BY <1>1, <1>2, FirstStep
  <2> QED BY <2>1, <2>2
<1>4. Enter(c, rest) /\ UNCHANGED went BY DEF Done
<1>5. CASE f \in Finders
  <2>1. rest # <<>> /\ Head(rest) = Work(f) /\ rest = <<Work(f)>>
    <3> HIDE DEF f, rest
    <3> QED BY <1>3, <1>5, SMT
  <2>2. /\ f \in Works /\ Work(f).kind \in {"get", "put"} /\ Work(f).off \in Nat
        /\ Work(f).n \in Nat /\ Work(f).off <= MapSize[Work(f).mod]
    BY <1>5, WorkIs DEF Works
  <2> HIDE DEF f, rest
  <2>3. /\ pc'[c] = Work(f).kind /\ at'[c] = Work(f).off /\ left'[c] = Work(f).n
        /\ moved'[c] = 0 /\ todo'[c] = <<Work(f)>>
        /\ buf'[c] = IF Work(f).kind = "get"
                     THEN [o \in Watched[Work(f).mod] |-> Junk] ELSE <<>>
    BY <1>1, <1>4, <2>1, EnterIs
  <2>4. /\ pc' \in [Client -> Places] /\ at' \in [Client -> Nat] /\ left' \in [Client -> Nat]
        /\ moved' \in [Client -> Nat]
        /\ todo' = [x \in Client |-> todo'[x]] /\ buf' = [x \in Client |-> buf'[x]]
    <3>1. Head(rest).kind \in Places /\ Head(rest).off \in Nat /\ Head(rest).n \in Nat
      BY <2>1, <2>2 DEF Places
    <3> QED BY <1>4, <2>1, <3>1, EnterIs
  <2>5. Work(f).kind = "get" => buf'[c] \in [Watched[Work(f).mod] -> Bytes]
    BY <2>3 DEF Bytes
  <2>6. Work(f).off = Work(f).off + 0 BY <2>2, SMT
  <2>7. fn'[c] = f BY DEF f
  <2>8. Place(c)' /\ Progress(c)'
    BY <1>1, <1>4, <2>2, <2>3, <2>5, <2>6, <2>7
       DEF Place, Progress, Moving, Ended, Listing
  <2> QED BY <1>4, <1>5, <2>2, <2>3, <2>4, <2>8 DEF f
<1>6. CASE f \notin Finders
  <2>1. rest = <<>> BY <1>3, <1>6
  <2> HIDE DEF f, rest
  <2>2. pc'[c] = "return" /\ UNCHANGED <<at, left, moved, buf>> /\ todo'[c] = <<>>
    BY <1>4, <2>1, EnterIs
  <2>3. /\ pc' \in [Client -> Places]
        /\ todo' = [x \in Client |-> todo'[x]] /\ buf' = [x \in Client |-> buf'[x]]
    BY <1>4, <2>1, EnterIs
  <2>4. f \notin Gets BY <1>1, <1>6 DEF Finders, Lists, Gets
  <2>5. fn'[c] = f BY DEF f
  <2>6. ~ (0 > 0) BY SMT
  <2>7. Place(c)' /\ Progress(c)'
    BY <1>1, <1>4, <2>2, <2>4, <2>5, <2>6 DEF Place, Progress, Moving, Ended, Listing
  <2> QED BY <1>1, <1>4, <1>6, <2>2, <2>3, <2>7 DEF f, Types
<1> QED BY <1>5, <1>6

LEMMA FindFirstOwn ==
  ASSUME Control, NEW c \in Client, NEW way \in Ways, FindFirst(c, way)
  PROVE  Own(c)
<1> USE DEF Control
<1> DEFINE list == Matching(Head(todo[c]).mod)
<1>1. FirstMod(c, list, way) /\ pc[c] = "find" BY DEF FindFirst
<1>2. /\ open' \in [Handle -> Seq(Mods)] /\ err' \in [Client -> Errors]
      /\ fine' \in [Client -> BOOLEAN] /\ missed' \in 0 .. MaxMissed
  BY <1>1, MatchingIs, FirstTypes
<1>3. UNCHANGED <<maps, script, fn, res, last, new, found, screen, dirty, calm, before, since>>
  BY DEF FindFirst, listVars, shownVars
<1>4. \/ pc' = [pc EXCEPT ![c] = "found"] /\ UNCHANGED <<todo, went, at, left, moved, buf>>
      \/ Fail(c, "unfound")
  BY DEF FindFirst, Set, moveVars
<1>5. CASE pc' = [pc EXCEPT ![c] = "found"] /\ UNCHANGED <<todo, went, at, left, moved, buf>>
  <2>1. pc' \in [Client -> Places] /\ pc'[c] = "found" BY <1>5 DEF Types, Places
  <2>2. Types' BY <1>2, <1>3, <1>5, <2>1 DEF Types
  <2>3. Place(c)' /\ Progress(c)'
    BY <1>1, <1>3, <1>5, <2>1 DEF Place, Progress, Moving, Ended, Listing
  <2> QED BY <2>2, <2>3 DEF Own
<1>6. CASE Fail(c, "unfound")
  <2>1. Types' BY <1>2, <1>3, <1>6, FailIs DEF Types, moveVars
  <2>2. fn'[c] \in Function BY <1>1, <1>3 DEF Place
  <2> QED BY <1>6, <2>1, <2>2, FailPlace DEF Own
<1> QED BY <1>4, <1>5, <1>6

LEMMA FindCloseOwn ==
  ASSUME Control, NEW c \in Client, NEW way \in Ways, FindClose(c, way)
  PROVE  Own(c)
<1> USE DEF Control
<1>1. Close(c, 0, way) /\ pc[c] = "found" /\ Done(c) BY DEF FindClose
<1>2. /\ open' \in [Handle -> Seq(Mods)] /\ err' \in [Client -> Errors]
      /\ fine' \in [Client -> BOOLEAN] /\ missed' \in 0 .. MaxMissed
  BY <1>1, CloseTypes
<1>3. UNCHANGED <<maps, script, fn, res, last, new, found, screen, dirty, calm, before, since>>
  BY DEF FindClose, listVars, shownVars
<1>4. Types' BY <1>1, <1>2, <1>3, DoneIs DEF Types
<1> QED BY <1>1, <1>3, <1>4, DoneIs DEF Own

\* A list is looked through.
LEMMA ListStepOwn ==
  ASSUME Control, NEW c \in Client, pc[c] \in Listing, pc'[c] \in Listing,
         pc' \in [Client -> Places],
         UNCHANGED <<maps, script, fn, todo, went, res, moveVars, shownVars, calm, before, since>>,
         open' \in [Handle -> Seq(Mods)], err' \in [Client -> Errors],
         fine' \in [Client -> BOOLEAN], missed' \in 0 .. MaxMissed,
         last' \in [Client -> Handle \cup {NoHandle}],
         new' \in [Client -> Handle \cup {NoHandle}], found' \in [Client -> Seq(Mods)],
         pc'[c] \in {"next", "next_close"} => last'[c] \in Handle,
         pc'[c] = "next_close" => new'[c] \in Handle
  PROVE  Own(c)
<1> USE DEF Control, moveVars, shownVars
<1>1. Types' BY DEF Types
<1>2. Place(c)' /\ Progress(c)' BY DEF Place, Progress, Moving, Ended, Listing
<1> QED BY <1>1, <1>2 DEF Own

LEMMA ListFirstOwn ==
  ASSUME Control, NEW c \in Client, NEW way \in Ways, ListFirst(c, way)
  PROVE  Own(c)
<1> USE DEF Control
<1> DEFINE list == Matching(Head(todo[c]).mod)
<1>1. FirstMod(c, list, way) /\ pc[c] = "list" BY DEF ListFirst
<1>2. list \in Seq(Mods) BY MatchingIs
<1>3. /\ open' \in [Handle -> Seq(Mods)] /\ err' \in [Client -> Errors]
      /\ fine' \in [Client -> BOOLEAN] /\ missed' \in 0 .. MaxMissed
  BY <1>1, <1>2, FirstTypes
<1>4. /\ UNCHANGED <<maps, script, fn, todo, went, res, moveVars, shownVars, calm, before, since>>
      /\ UNCHANGED new
  BY DEF ListFirst
<1>5. CASE Good(way, OpenStatus(list))
  <2>1. /\ pc' = [pc EXCEPT ![c] = "next"] /\ last' = [last EXCEPT ![c] = Lowest]
        /\ found' = [found EXCEPT ![c] = <<Head(list)>>]
    BY <1>5 DEF ListFirst, Set
  <2>2. OpenStatus(list) = "ok" /\ list # <<>> BY <1>5, OpenStatusIs DEF Good
  <2>3. Lowest \in Handle BY <1>2, <2>2, OpenedTypes
  <2>4. <<Head(list)>> \in Seq(Mods)
    <3> HIDE DEF list
    <3> QED BY <1>2, <2>2, SMT
  <2>5. /\ pc' \in [Client -> Places] /\ pc'[c] = "next" /\ last'[c] \in Handle
        /\ last' \in [Client -> Handle \cup {NoHandle}] /\ found' \in [Client -> Seq(Mods)]
    BY <2>1, <2>3, <2>4 DEF Types, Places
  <2>6. new' \in [Client -> Handle \cup {NoHandle}] BY <1>4 DEF Types
  <2> QED BY <1>1, <1>3, <1>4, <2>5, <2>6, ListStepOwn DEF Listing
<1>6. CASE ~Good(way, OpenStatus(list))
  <2>1. pc' = [pc EXCEPT ![c] = "listed"] /\ UNCHANGED <<last, found>>
    BY <1>6 DEF ListFirst, Set
  <2>2. pc' \in [Client -> Places] /\ pc'[c] = "listed" BY <2>1 DEF Types, Places
  <2>3. /\ new' \in [Client -> Handle \cup {NoHandle}] /\ found' \in [Client -> Seq(Mods)]
        /\ last' \in [Client -> Handle \cup {NoHandle}]
    BY <1>4, <2>1 DEF Types
  <2> QED BY <1>1, <1>3, <1>4, <2>2, <2>3, ListStepOwn DEF Listing
<1> QED BY <1>5, <1>6

LEMMA ListNextOwn ==
  ASSUME Control, NEW c \in Client, NEW way \in Ways, ListNext(c, way)
  PROVE  Own(c)
<1> USE DEF Control
<1> DEFINE list == After(last[c])
<1>1. NextMod(c, way) /\ pc[c] = "next" /\ last[c] \in Handle BY DEF ListNext, Place
<1>2. /\ list \in Seq(Mods) /\ open' \in [Handle -> Seq(Mods)] /\ err' \in [Client -> Errors]
      /\ fine' \in [Client -> BOOLEAN] /\ missed' \in 0 .. MaxMissed
      /\ NextStatus(last[c]) = "ok" => OpenStatus(list) = "ok"
  BY <1>1, NextModTypes
<1>3. /\ UNCHANGED <<maps, script, fn, todo, went, res, moveVars, shownVars, calm, before, since>>
      /\ UNCHANGED last
  BY DEF ListNext
<1>4. CASE Good(way, NextStatus(last[c]))
  <2>1. /\ pc' = [pc EXCEPT ![c] = "next_close"] /\ new' = [new EXCEPT ![c] = Lowest]
        /\ found' = [found EXCEPT ![c] = Append(found[c], Head(list))]
    BY <1>4 DEF ListNext, Set
  <2>2. OpenStatus(list) = "ok" /\ list # <<>> BY <1>2, <1>4, OpenStatusIs DEF Good
  <2>3. Lowest \in Handle BY <1>2, <2>2, OpenedTypes
  <2>4. Append(found[c], Head(list)) \in Seq(Mods)
    <3>1. found[c] \in Seq(Mods) BY DEF Types
    <3> HIDE DEF list
    <3>2. Head(list) \in Mods BY <1>2, <2>2, SMT
    <3> QED BY <3>1, <3>2
  <2>5. /\ pc' \in [Client -> Places] /\ pc'[c] = "next_close" /\ new'[c] \in Handle
        /\ new' \in [Client -> Handle \cup {NoHandle}] /\ found' \in [Client -> Seq(Mods)]
    BY <2>1, <2>3, <2>4 DEF Types, Places
  <2>6. last' \in [Client -> Handle \cup {NoHandle}] /\ last'[c] \in Handle
    BY <1>1, <1>3 DEF Types
  <2> QED BY <1>1, <1>2, <1>3, <2>5, <2>6, ListStepOwn DEF Listing
<1>5. CASE ~Good(way, NextStatus(last[c]))
  <2>1. pc' = [pc EXCEPT ![c] = "listed"] /\ UNCHANGED <<new, found>>
    BY <1>5 DEF ListNext, Set
  <2>2. pc' \in [Client -> Places] /\ pc'[c] = "listed" BY <2>1 DEF Types, Places
  <2>3. /\ new' \in [Client -> Handle \cup {NoHandle}] /\ found' \in [Client -> Seq(Mods)]
        /\ last' \in [Client -> Handle \cup {NoHandle}]
    BY <1>3, <2>1 DEF Types
  <2> QED BY <1>1, <1>2, <1>3, <2>2, <2>3, ListStepOwn DEF Listing
<1> QED BY <1>4, <1>5

LEMMA ListCloseOwn ==
  ASSUME Control, NEW c \in Client, NEW way \in Ways, ListClose(c, way)
  PROVE  Own(c)
<1> USE DEF Control
<1>1. Close(c, last[c], way) /\ pc[c] = "next_close" /\ new[c] \in Handle
  BY DEF ListClose, Place
<1>2. /\ open' \in [Handle -> Seq(Mods)] /\ err' \in [Client -> Errors]
      /\ fine' \in [Client -> BOOLEAN] /\ missed' \in 0 .. MaxMissed
  BY <1>1, CloseTypes
<1>3. /\ UNCHANGED <<maps, script, fn, todo, went, res, moveVars, shownVars, calm, before, since>>
      /\ UNCHANGED found
  BY DEF ListClose
<1>4. /\ pc' = [pc EXCEPT ![c] = "next"] /\ last' = [last EXCEPT ![c] = new[c]]
      /\ new' = [new EXCEPT ![c] = NoHandle]
  BY DEF ListClose, Set
<1>5. /\ pc' \in [Client -> Places] /\ pc'[c] = "next" /\ last'[c] \in Handle
      /\ last' \in [Client -> Handle \cup {NoHandle}] /\ found' \in [Client -> Seq(Mods)]
      /\ new' \in [Client -> Handle \cup {NoHandle}]
  BY <1>1, <1>3, <1>4 DEF Types, Places
<1> QED BY <1>1, <1>2, <1>3, <1>5, ListStepOwn DEF Listing

LEMMA ListEndOwn ==
  ASSUME Control, NEW c \in Client, ListEnd(c)
  PROVE  Own(c)
<1> USE DEF Control
<1>1. /\ pc[c] = "listed"
      /\ UNCHANGED <<open, maps, script, fn, res, last, new, found, screen, dirty, missed, calm,
                     fine, before, since>>
  BY DEF ListEnd, brickVars, listVars, shownVars, ghosts
<1>2. err' \in [Client -> Errors] BY DEF ListEnd, Set, Types, Errors
<1>3. \/ Done(c)
      \/ pc' = [pc EXCEPT ![c] = "list_close"] /\ UNCHANGED <<todo, went, moveVars>>
      \/ Fail(c, "unfound")
  BY DEF ListEnd, Set
<1>4. CASE Done(c)
  <2>1. Types' BY <1>1, <1>2, <1>4, DoneIs DEF Types
  <2> QED BY <1>1, <1>4, <2>1, DoneIs DEF Own
<1>5. CASE pc' = [pc EXCEPT ![c] = "list_close"] /\ UNCHANGED <<todo, went, moveVars>>
  <2>1. pc' \in [Client -> Places] /\ pc'[c] = "list_close" BY <1>5 DEF Types, Places
  <2>2. Types' BY <1>1, <1>2, <1>5, <2>1 DEF Types, moveVars
  <2>3. Place(c)' /\ Progress(c)'
    BY <1>1, <1>5, <2>1 DEF Place, Progress, Moving, Ended, Listing, moveVars
  <2> QED BY <2>2, <2>3 DEF Own
<1>6. CASE Fail(c, "unfound")
  <2>1. Types' BY <1>1, <1>2, <1>6, FailIs DEF Types, moveVars
  <2>2. fn'[c] \in Function BY <1>1 DEF Place
  <2> QED BY <1>6, <2>1, <2>2, FailPlace DEF Own
<1> QED BY <1>3, <1>4, <1>5, <1>6

LEMMA ListLastCloseOwn ==
  ASSUME Control, NEW c \in Client, NEW way \in Ways, ListLastClose(c, way)
  PROVE  Own(c)
<1> USE DEF Control
<1>1. /\ pc[c] = "list_close" /\ Done(c)
      /\ UNCHANGED <<maps, script, fn, res, last, new, found, screen, dirty, calm, before, since>>
  BY DEF ListLastClose, listVars, shownVars
<1>2. PICK h : Close(c, h, way) BY DEF ListLastClose
<1>3. /\ open' \in [Handle -> Seq(Mods)] /\ err' \in [Client -> Errors]
      /\ fine' \in [Client -> BOOLEAN] /\ missed' \in 0 .. MaxMissed
  BY <1>2, CloseTypes
<1>4. Types' BY <1>1, <1>3, DoneIs DEF Types
<1> QED BY <1>1, <1>4, DoneIs DEF Own

\* A piece is part of what is left, and ends in the map.
LEMMA PieceIs ==
  ASSUME Control, NEW c \in Client, Moving(c)
  PROVE  /\ Target(c) = Work(fn[c]).mod /\ MapSize[Target(c)] \in Nat /\ Target(c) \in {"ui", "display"}
         /\ fn[c] \in Works /\ todo[c] = <<Work(fn[c])>>
         /\ Piece(c) \in 0 .. 50 /\ left[c] - Piece(c) \in Nat /\ Count(c) \in Nat
         /\ left[c] < PieceSize => left[c] - Piece(c) = 0
         /\ at[c] + Count(c) <= MapSize[Target(c)]
         /\ \/ (at[c] + Count(c)) + (left[c] - Piece(c)) = Work(fn[c]).off + Work(fn[c]).n
            \/ /\ at[c] + Count(c) = MapSize[Target(c)]
               /\ MapSize[Target(c)] < Work(fn[c]).off + Work(fn[c]).n
         /\ at[c] + Count(c) = Work(fn[c]).off + (moved[c] + Count(c))
         /\ at[c] >= Work(fn[c]).off
<1> USE DEF Control
<1> DEFINE t == Work(fn[c])
<1>1. fn[c] \in Works /\ todo[c] = <<t>> BY DEF Place
<1>2. Target(c) = t.mod BY <1>1, SMT DEF Target
<1>3. /\ t.mod \in {"ui", "display"} /\ MapSize[t.mod] \in Nat /\ t.off \in Nat /\ t.n \in Nat
  BY <1>1, WorkIs, Numbers
<1>4. /\ at[c] = t.off + moved[c] /\ at[c] <= MapSize[t.mod]
      /\ at[c] + left[c] = t.off + t.n \/ (at[c] = MapSize[t.mod] /\ MapSize[t.mod] < t.off + t.n)
  BY DEF Progress
<1>5. at[c] \in Nat /\ left[c] \in Nat /\ moved[c] \in Nat BY DEF Types
<1> HIDE DEF t
<1>6. /\ Piece(c) \in 0 .. 50 /\ left[c] - Piece(c) \in Nat /\ Piece(c) <= left[c]
      /\ left[c] < PieceSize => left[c] - Piece(c) = 0
  BY <1>5, SMT DEF Piece, PieceSize
<1>7. Count(c) \in Nat /\ at[c] + Count(c) <= MapSize[t.mod]
      /\ \/ Count(c) = Piece(c)
         \/ at[c] + Count(c) = MapSize[t.mod] /\ MapSize[t.mod] < at[c] + left[c]
      /\ (at[c] = MapSize[t.mod] => Count(c) = 0)
  BY <1>2, <1>3, <1>4, <1>5, <1>6, SMT DEF Count, InMap, There
<1> DEFINE K == Count(c)
           P == Piece(c)
           M == MapSize[t.mod]
<1>8. /\ (at[c] + K) + (left[c] - P) = t.off + t.n \/ (at[c] + K = M /\ M < t.off + t.n)
      /\ at[c] + K = t.off + (moved[c] + K) /\ at[c] >= t.off
  <2>1. K \in Nat /\ P \in Nat /\ M \in Nat BY <1>3, <1>6, <1>7
  <2>2. K = P \/ (at[c] + K = M /\ M < at[c] + left[c]) BY <1>7
  <2>3. at[c] = M => K = 0 BY <1>7
  <2> HIDE DEF K, P, M
  <2>4. at[c] + left[c] = t.off + t.n \/ (at[c] = M /\ M < t.off + t.n) BY <1>4 DEF M
  <2> QED BY <1>3, <1>4, <1>5, <2>1, <2>2, <2>3, <2>4, SMT
<1> QED BY <1>1, <1>2, <1>3, <1>6, <1>7, <1>8 DEF t

LEMMA MovedOwn ==
  ASSUME Control, NEW c \in Client, Moving(c), NEW good \in BOOLEAN, NEW bytes,
         Moved(c, good, bytes), fn'[c] = fn[c],
         pc[c] = "get" => bytes \in [Watched[Work(fn[c]).mod] -> Bytes]
  PROVE  /\ pc' \in [Client -> Places] /\ went' \in [Client -> {"well", "unfound", "broken"}]
         /\ todo' = [x \in Client |-> todo'[x]] /\ buf' = [x \in Client |-> buf'[x]]
         /\ at' \in [Client -> Nat] /\ left' \in [Client -> Nat] /\ moved' \in [Client -> Nat]
         /\ Place(c)' /\ Progress(c)'
         /\ good => /\ at'[c] = at[c] + Count(c) /\ buf'[c] = bytes /\ went'[c] = "well"
                    /\ pc'[c] = (IF left[c] < PieceSize THEN "return" ELSE pc[c])
         /\ ~good => pc'[c] = "return" /\ went'[c] = "broken" /\ buf'[c] = buf[c]
<1> USE DEF Control
<1> DEFINE t == Work(fn[c])
<1>1. /\ Target(c) = t.mod /\ fn[c] \in Works /\ todo[c] = <<t>>
      /\ left[c] - Piece(c) \in Nat /\ Count(c) \in Nat
      /\ left[c] < PieceSize => left[c] - Piece(c) = 0
      /\ at[c] + Count(c) <= MapSize[t.mod]
      /\ \/ (at[c] + Count(c)) + (left[c] - Piece(c)) = t.off + t.n
         \/ at[c] + Count(c) = MapSize[t.mod] /\ MapSize[t.mod] < t.off + t.n
      /\ at[c] + Count(c) = t.off + (moved[c] + Count(c))
  BY PieceIs
<1>2. /\ pc[c] = t.kind /\ went[c] = "well" /\ fn[c] \in Function
      /\ t.kind = (IF fn[c] \in Gets THEN "get" ELSE "put")
      /\ pc[c] = "get" => buf[c] \in [Watched[t.mod] -> Bytes]
  BY <1>1, WorkIs DEF Place, Moving
<1> HIDE DEF t
<1>3. CASE good
  <2>1. /\ at' = [at EXCEPT ![c] = at[c] + Count(c)]
        /\ moved' = [moved EXCEPT ![c] = moved[c] + Count(c)]
        /\ left' = [left EXCEPT ![c] = left[c] - Piece(c)]
        /\ buf' = [buf EXCEPT ![c] = bytes]
    BY <1>3 DEF Moved, Advance, Set
  <2>2. at[c] + Count(c) \in Nat /\ moved[c] + Count(c) \in Nat
    <3>1. at[c] \in Nat /\ moved[c] \in Nat BY DEF Types
    <3> QED BY <1>1, <3>1, SMT
  <2>3. /\ at' \in [Client -> Nat] /\ left' \in [Client -> Nat] /\ moved' \in [Client -> Nat]
        /\ buf' = [x \in Client |-> buf'[x]]
    BY <1>1, <2>1, <2>2 DEF Types
  <2>4. /\ at'[c] = at[c] + Count(c) /\ moved'[c] = moved[c] + Count(c)
        /\ left'[c] = left[c] - Piece(c) /\ buf'[c] = bytes
    BY <2>1 DEF Types
  <2>5. UNCHANGED <<todo, went>> BY <1>3 DEF Moved
  <2>6. CASE left[c] < PieceSize
    <3>1. pc' = [pc EXCEPT ![c] = "return"] BY <1>3, <2>6 DEF Moved, Set
    <3>2. pc' \in [Client -> Places] /\ pc'[c] = "return" BY <3>1 DEF Types, Places
    <3>3. left'[c] = 0 BY <1>1, <2>4, <2>6
    <3>4. /\ at'[c] = t.off + moved'[c] /\ at'[c] <= MapSize[t.mod]
          /\ at'[c] + left'[c] = t.off + t.n \/ (at'[c] = MapSize[t.mod] /\ MapSize[t.mod] < t.off + t.n)
      BY <1>1, <2>4
    <3>5. Place(c)' BY <1>1, <1>2, <2>4, <2>5, <3>2 DEF Place, Moving, Ended, Listing, t
    <3>6. Progress(c)' BY <3>2, <3>3, <3>4 DEF Progress, Moving, Ended, t
    <3> QED BY <1>2, <1>3, <2>3, <2>4, <2>5, <2>6, <3>2, <3>5, <3>6 DEF Types
  <2>7. CASE ~ (left[c] < PieceSize)
    <3>1. UNCHANGED pc BY <1>3, <2>7 DEF Moved
    <3>2. Place(c)' BY <1>1, <1>2, <2>4, <2>5, <3>1 DEF Place, Moving, Ended, Listing, t
    <3>3. /\ at'[c] = t.off + moved'[c] /\ at'[c] <= MapSize[t.mod]
          /\ at'[c] + left'[c] = t.off + t.n \/ (at'[c] = MapSize[t.mod] /\ MapSize[t.mod] < t.off + t.n)
      BY <1>1, <2>4
    <3>4. Progress(c)' BY <1>2, <3>1, <3>3 DEF Progress, Moving, Ended, t
    <3> QED BY <1>2, <1>3, <2>3, <2>4, <2>5, <2>7, <3>1, <3>2, <3>4 DEF Types
  <2> QED BY <2>6, <2>7
<1>4. CASE ~good
  <2>1. Fail(c, "broken") BY <1>4 DEF Moved
  <2>2. /\ pc' \in [Client -> Places] /\ went' \in [Client -> {"well", "unfound", "broken"}]
        /\ todo' = [x \in Client |-> todo'[x]] /\ UNCHANGED <<at, left, moved, buf>>
        /\ pc'[c] = "return" /\ todo'[c] = <<>> /\ went'[c] = "broken"
    BY <2>1, FailIs DEF moveVars
  <2>3. Place(c)' BY <1>1, <1>2, <2>2 DEF Place, Moving, Ended, Listing, t
  <2>4. Progress(c)' BY <2>2 DEF Progress, Moving, Ended
  <2> QED BY <1>4, <2>2, <2>3, <2>4 DEF Types
<1> QED BY <1>3, <1>4

LEMMA ReadOwn ==
  ASSUME Control, NEW c \in Client, NEW way \in Ways, Read(c, way)
  PROVE  Own(c)
<1> USE DEF Control
<1>1. pc[c] = "get" /\ Moving(c) BY DEF Read, Moving
<1> DEFINE bytes == [o \in DOMAIN buf[c] |-> IF o \in Touched(c) THEN maps[Target(c)][o] ELSE buf[c][o]]
<1>2. PICK st \in MoveStatuses(c) :
        Telegram(c, way, st) /\ Moved(c, Good(way, st), bytes)
  BY DEF Read
<1>3. UNCHANGED <<open, maps, script, fn, res, last, new, found, screen, dirty, calm, before, since>>
  BY DEF Read, brickVars, listVars, shownVars
<1>4. st \in Errors /\ Good(way, st) \in BOOLEAN BY DEF MoveStatuses, Errors, Good
<1>5. /\ err' \in [Client -> Errors] /\ fine' \in [Client -> BOOLEAN]
      /\ missed' \in 0 .. MaxMissed
  BY <1>2, <1>4, TelegramTypes
<1>6. bytes \in [Watched[Work(fn[c]).mod] -> Bytes]
  <2>1. /\ buf[c] \in [Watched[Work(fn[c]).mod] -> Bytes] /\ Target(c) = Work(fn[c]).mod
        /\ Target(c) \in Mods
    BY <1>1, PieceIs, Numbers DEF Place
  <2>2. maps[Target(c)] \in [Watched[Work(fn[c]).mod] -> Bytes] BY <2>1 DEF Types
  <2> QED BY <2>1, <2>2
<1>7. fn'[c] = fn[c] BY <1>3
<1> HIDE DEF bytes
<1>8. /\ pc' \in [Client -> Places] /\ went' \in [Client -> {"well", "unfound", "broken"}]
      /\ todo' = [x \in Client |-> todo'[x]] /\ buf' = [x \in Client |-> buf'[x]]
      /\ at' \in [Client -> Nat] /\ left' \in [Client -> Nat] /\ moved' \in [Client -> Nat]
      /\ Place(c)' /\ Progress(c)'
  BY <1>1, <1>2, <1>4, <1>6, <1>7, MovedOwn
<1>9. Types' BY <1>3, <1>5, <1>8 DEF Types
<1> QED BY <1>8, <1>9 DEF Own

\* What is put in a map are bytes.
LEMMA DataIs ==
  ASSUME Control, NEW c \in Client, pc[c] = "put", NEW o \in Watched[Target(c)]
  PROVE  /\ Data(c, o) \in Bytes
         /\ Data(c, o) = IF Target(c) = "display" THEN screen[c][o] ELSE 1
<1>1. /\ Target(c) = Work(fn[c]).mod /\ fn[c] \in Works /\ todo[c] = <<Work(fn[c])>>
      /\ Work(fn[c]).kind = "put"
  BY PieceIs DEF Control, Place, Moving
<1>2. Head(todo[c]) = Work(fn[c]) BY <1>1, SMT
<1>3. CASE Target(c) = "display"
  <2>1. screen[c] \in [Watched["display"] -> Bytes] BY DEF Control, Types
  <2> QED BY <1>3, <2>1 DEF Data
<1>4. CASE Target(c) # "display"
  <2>1. fn[c] \notin Shows /\ fn[c] \notin Gets BY <1>1, <1>4, WorkIs
  <2>2. Work(fn[c]).byte = 1 BY <1>1, <2>1, WorkIs
  <2>3. 1 \in Bytes BY ModAssumption DEF Bytes
  <2> QED BY <1>2, <1>4, <2>2, <2>3 DEF Data
<1> QED BY <1>3, <1>4

\* What a telegram of nxt_mod_write does to the maps.
WriteMaps(c) ==
  [maps EXCEPT ![Target(c)] =
     [o \in DOMAIN @ |-> IF o \in Touched(c) THEN Data(c, o) ELSE @[o]]]

LEMMA WriteMapsIs ==
  ASSUME Control, NEW c \in Client, pc[c] = "put"
  PROVE  /\ WriteMaps(c) = [m \in Mods |-> WriteMaps(c)[m]]
         /\ \A m \in Mods : WriteMaps(c)[m] \in [Watched[m] -> Bytes]
         /\ \A m \in Mods : \A o \in Watched[m] :
              WriteMaps(c)[m][o] = IF m = Target(c) /\ o \in Touched(c) THEN Data(c, o) ELSE maps[m][o]
<1>1. Target(c) \in Mods BY PieceIs, Numbers DEF Moving
<1>2. maps = [m \in Mods |-> maps[m]] /\ \A m \in Mods : maps[m] \in [Watched[m] -> Bytes]
  BY DEF Control, Types
<1> DEFINE bytes == [o \in Watched[Target(c)] |-> IF o \in Touched(c) THEN Data(c, o) ELSE maps[Target(c)][o]]
<1>3. DOMAIN maps[Target(c)] = Watched[Target(c)] BY <1>1, <1>2
<1>4. WriteMaps(c) = [maps EXCEPT ![Target(c)] = bytes] BY <1>3 DEF WriteMaps
<1>5. bytes \in [Watched[Target(c)] -> Bytes] BY <1>1, <1>2, DataIs
<1>6. \A o \in Watched[Target(c)] :
        bytes[o] = IF o \in Touched(c) THEN Data(c, o) ELSE maps[Target(c)][o]
  OBVIOUS
<1> HIDE DEF bytes
<1> QED BY <1>1, <1>2, <1>4, <1>5, <1>6

LEMMA WriteOwn ==
  ASSUME Control, NEW c \in Client, NEW way \in Ways, Write(c, way)
  PROVE  Own(c)
<1> USE DEF Control
<1>1. pc[c] = "put" /\ Moving(c) BY DEF Write, Moving
<1>2. PICK st \in MoveStatuses(c) :
        /\ Telegram(c, way, st) /\ Moved(c, Good(way, st), buf[c])
        /\ maps' = (IF Carried(way) /\ st = "ok" THEN WriteMaps(c) ELSE maps)
  BY DEF Write, WriteMaps
<1>3. UNCHANGED <<open, script, fn, res, last, new, found, screen, dirty, calm, before>>
  BY DEF Write, listVars, shownVars
<1>4. st \in Errors /\ Good(way, st) \in BOOLEAN BY DEF MoveStatuses, Errors, Good
<1>5. /\ err' \in [Client -> Errors] /\ fine' \in [Client -> BOOLEAN]
      /\ missed' \in 0 .. MaxMissed
  BY <1>2, <1>4, TelegramTypes
<1>6. /\ maps' = [m \in Mods |-> maps'[m]] /\ \A m \in Mods : maps'[m] \in [Watched[m] -> Bytes]
  BY <1>1, <1>2, WriteMapsIs DEF Types
<1>7. since' = [d \in Client |-> since'[d]] BY DEF Write
<1>8. fn'[c] = fn[c] BY <1>3
<1>9. /\ pc' \in [Client -> Places] /\ went' \in [Client -> {"well", "unfound", "broken"}]
      /\ todo' = [x \in Client |-> todo'[x]] /\ buf' = [x \in Client |-> buf'[x]]
      /\ at' \in [Client -> Nat] /\ left' \in [Client -> Nat] /\ moved' \in [Client -> Nat]
      /\ Place(c)' /\ Progress(c)'
  BY <1>1, <1>2, <1>4, <1>8, MovedOwn
<1>10. Types' BY <1>3, <1>5, <1>6, <1>7, <1>9 DEF Types
<1> QED BY <1>9, <1>10 DEF Own

\* What the brick does of its own changes no program.
LEMMA BrickControl ==
  ASSUME Control, BrickStep
  PROVE  /\ Control' /\ \A d \in Client : Same(d)
<1>1. PICK m \in {"ui", "display"}, v \in Byte : \E o \in Watched[m] \cap Changing : BrickSets(m, o, v)
  BY DEF BrickStep
<1>2. PICK o \in Watched[m] : BrickSets(m, o, v) BY <1>1
<1>3. UNCHANGED <<open, script, fn, todo, pc, err, went, res, last, new, found, at, left, moved,
                  buf, screen, dirty, missed, calm, fine, before>>
  BY <1>2 DEF BrickSets, progVars, listVars, moveVars, shownVars
<1>4. m \in Mods /\ v \in Bytes BY Numbers DEF Bytes
<1>5. /\ maps' = [k \in Mods |-> maps'[k]] /\ \A k \in Mods : maps'[k] \in [Watched[k] -> Bytes]
  <2>1. maps' = [maps EXCEPT ![m] = [maps[m] EXCEPT ![o] = v]] BY <1>2 DEF BrickSets
  <2>2. [maps[m] EXCEPT ![o] = v] \in [Watched[m] -> Bytes] BY <1>4 DEF Control, Types
  <2> QED BY <1>4, <2>1, <2>2 DEF Control, Types
<1>6. since' = [d \in Client |-> since'[d]] BY <1>2 DEF BrickSets
<1>7. Types' BY <1>3, <1>5, <1>6 DEF Control, Types
<1>8. \A d \in Client : Same(d) BY <1>3 DEF Same
<1> QED BY <1>7, <1>8, SameStays DEF Control

LEMMA ControlStep == Control /\ [Next]_vars => Control'
<1> SUFFICES ASSUME Control, [Next]_vars PROVE Control' OBVIOUS
<1>1. CASE UNCHANGED vars
  <2>1. Types' BY <1>1 DEF Control, Types, vars, brickVars, progVars, listVars, moveVars,
                           shownVars, ghosts
  <2>2. \A d \in Client : Same(d)
    BY <1>1 DEF Same, vars, brickVars, progVars, listVars, moveVars, shownVars, ghosts
  <2> QED BY <2>1, <2>2, SameStays DEF Control
<1>2. ASSUME NEW c \in Client, ClientStep(c) PROVE Control'
  <2>1. Own(c)
    BY <1>2, RunOwn, ExitOwn, CallOwn, ReturnOwn, ListEndOwn, FindFirstOwn, FindCloseOwn,
       ListFirstOwn, ListNextOwn, ListCloseOwn, ListLastCloseOwn, ReadOwn, WriteOwn
       DEF ClientStep
  <2>2. \A d \in Client : d # c => Place(d)' /\ Progress(d)'
    BY <1>2, Others, SameStays DEF Control
  <2> QED BY <2>1, <2>2 DEF Own, Control
<1>3. CASE BrickStep BY <1>3, BrickControl
<1> QED BY <1>1, <1>2, <1>3, NextIs

THEOREM ModControl == Spec => []Control
<1> QED BY InitControl, ControlStep, PTL DEF Spec

\* In every reachable state the variables have their types, a piece with the
\* head of its telegram is no longer than a telegram, and no transfer has gone
\* beyond the end of its map: TypeOK, of the functions of mod.c, lsmod,
\* display.c and modfs.
THEOREM ModTypes == Spec => []TypeOK
<1>1. Control => TypeOK
  <2> SUFFICES ASSUME Control PROVE TypeOK OBVIOUS
  <2>1. ASSUME NEW c \in Client, pc[c] \in {"get", "put"}
        PROVE 10 + Piece(c) <= 64 /\ at[c] <= MapSize[Target(c)]
    <3>1. Moving(c) BY <2>1 DEF Moving
    <3>2. Piece(c) \in 0 .. 50 /\ Target(c) = Work(fn[c]).mod BY <3>1, PieceIs
    <3>3. at[c] <= MapSize[Work(fn[c]).mod] BY <3>1 DEF Control, Progress
    <3> QED BY <3>2, <3>3, SMT
  <2> QED BY <2>1 DEF Control, Types, TypeOK
<1> QED BY <1>1, ModControl, PTL

-----------------------------------------------------------------------------
(* Bytes get where they belong.                                            *)

\* What a transfer has moved so far is the same in the map and with the
\* program, except where others wrote.
Exact(c) ==
  /\ pc[c] = "get" \/ (Ended(c) /\ fn[c] \in Gets) =>
       \A o \in Watched[Work(fn[c]).mod] :
         buf[c][o] # Junk => InPlace(c, Work(fn[c]).mod, o, buf[c][o])
  /\ pc[c] = "put" \/ (Ended(c) /\ fn[c] \notin Gets) =>
       \A o \in Watched[Work(fn[c]).mod] :
         o >= Work(fn[c]).off /\ o < at[c] =>
           InPlace(c, Work(fn[c]).mod, o,
                   IF Work(fn[c]).mod = "display" THEN screen[c][o] ELSE 1)

\* As long as every telegram is answered: bytes that nobody has set are neither
\* on the brick nor in a picture, and a picture is moved in full.
MapsSet == \A m \in Mods : \A o \in Watched[m] : maps[m][o] # Junk
PictureSet(c) ==
  /\ \A o \in Watched["display"] : screen[c][o] # Junk
  /\ fn[c] \in Shows => went[c] # "broken"
  /\ (pc[c] = "get" \/ Ended(c)) /\ fn[c] \in Gets \cap Shows =>
       \A o \in Watched["display"] : o < at[c] => buf[c][o] # Junk

ExactInv ==
  /\ Control /\ \A c \in Client : Exact(c)
  /\ missed = 0 => MapsSet /\ \A c \in Client : PictureSet(c)

\* A program is told of what others write in the map that it is concerned with.
Kept(d) ==
  /\ since[d] \subseteq since'[d]
  /\ \A m \in {"ui", "display"} : Concerned(d, m) =>
       \A o \in Watched[m] : <<m, o>> \in since'[d] \/ maps'[m][o] = maps[m][o]

\* As long as every telegram is answered, they all were.
LEMMA Answered ==
  ASSUME Types, NEW c \in Client, NEW way \in Ways, NEW status, Telegram(c, way, status), missed' = 0
  PROVE  missed = 0 /\ way = "answered" /\ (Good(way, status) <=> status = "ok")
<1>1. missed \in Nat /\ missed' = missed + (IF way = "answered" THEN 0 ELSE 1)
  BY DEF Types, Telegram
<1>2. missed = 0 /\ way = "answered" BY <1>1, SMT
<1> QED BY <1>2 DEF Good

Writes(c) == \E way \in Ways : Write(c, way)

LEMMA StepKeeps ==
  ASSUME Types, NEW c \in Client, ClientStep(c)
  PROVE  /\ missed' = 0 => missed = 0
         /\ ~Writes(c) => maps' = maps /\ \A d \in Client : d # c => since'[d] = since[d]
         /\ ~Writes(c) /\ pc'[c] # "idle" => since' = since
<1> USE DEF vars, brickVars, progVars, listVars, moveVars, shownVars, ghosts
<1>1. ASSUME NEW p \in Programs[c], Run(c, p)
      PROVE  missed' = missed /\ maps' = maps /\ since' = since
  BY <1>1 DEF Run
<1>2. CASE Exit(c)
  <2>1. missed' = missed /\ maps' = maps /\ since' = Set(since, c, {}) BY <1>2 DEF Exit
  <2>2. pc' = [pc EXCEPT ![c] = "idle"] BY <1>2 DEF Exit, Set
  <2>3. pc'[c] = "idle" /\ \A d \in Client : d # c => since'[d] = since[d]
    BY <2>1, <2>2 DEF Types, Set
  <2> QED BY <2>1, <2>3
<1>3. CASE Call(c) \/ Return(c) \/ ListEnd(c)
  <2>1. missed' = missed /\ maps' = maps /\ since' = since
    BY <1>3 DEF Call, Return, ListEnd
  <2> QED BY <2>1
<1>4. ASSUME NEW way \in Ways, FindFirst(c, way) \/ ListFirst(c, way)
      PROVE  (missed' = 0 => missed = 0) /\ maps' = maps /\ since' = since
  <2>1. \E list : FirstMod(c, list, way) BY <1>4 DEF FindFirst, ListFirst
  <2>2. maps' = maps /\ since' = since BY <1>4 DEF FindFirst, ListFirst
  <2> QED BY <2>1, <2>2, Answered DEF FirstMod
<1>5. ASSUME NEW way \in Ways, FindClose(c, way) \/ ListClose(c, way) \/ ListLastClose(c, way)
      PROVE  (missed' = 0 => missed = 0) /\ maps' = maps /\ since' = since
  <2>1. \E h : Close(c, h, way) BY <1>5 DEF FindClose, ListClose, ListLastClose
  <2>2. maps' = maps /\ since' = since BY <1>5 DEF FindClose, ListClose, ListLastClose
  <2> QED BY <2>1, <2>2, Answered DEF Close
<1>6. ASSUME NEW way \in Ways, ListNext(c, way)
      PROVE  (missed' = 0 => missed = 0) /\ maps' = maps /\ since' = since
  <2>1. maps' = maps /\ since' = since BY <1>6 DEF ListNext
  <2> QED BY <1>6, <2>1, Answered DEF ListNext, NextMod
<1>7. ASSUME NEW way \in Ways, Read(c, way)
      PROVE  (missed' = 0 => missed = 0) /\ maps' = maps /\ since' = since
  <2>1. maps' = maps /\ since' = since BY <1>7 DEF Read
  <2> QED BY <1>7, <2>1, Answered DEF Read
<1>8. ASSUME NEW way \in Ways, Write(c, way)
      PROVE  (missed' = 0 => missed = 0) /\ Writes(c)
  <2>1. \E st : Telegram(c, way, st) BY <1>8 DEF Write
  <2> QED BY <1>8, <2>1, Answered DEF Writes
<1> QED BY <1>1, <1>2, <1>3, <1>4, <1>5, <1>6, <1>7, <1>8 DEF ClientStep

\* What nxt_mod_write writes, others are told of.
LEMMA WriteKeeps ==
  ASSUME Control, NEW c \in Client, NEW way \in Ways, Write(c, way), NEW d \in Client, d # c
  PROVE  Kept(d)
<1>1. pc[c] = "put" /\ maps' \in {maps, WriteMaps(c)} BY DEF Write, WriteMaps
<1>2. since'[d] = since[d] \cup
         IF d = c \/ ~Concerned(d, Target(c)) \/ maps' = maps THEN {}
         ELSE {<<Target(c), o>> : o \in Touched(c) \cap Watched[Target(c)]}
  BY DEF Write
<1>3. since[d] \subseteq since'[d] BY <1>2
<1>4. ASSUME NEW m \in {"ui", "display"}, Concerned(d, m), NEW o \in Watched[m],
             maps'[m][o] # maps[m][o]
      PROVE  <<m, o>> \in since'[d]
  <2>1. maps' = WriteMaps(c) /\ maps' # maps BY <1>1, <1>4
  <2>2. m \in Mods BY Numbers
  <2>3. m = Target(c) /\ o \in Touched(c) BY <1>1, <1>4, <2>1, <2>2, WriteMapsIs
  <2> QED BY <1>2, <1>4, <2>1, <2>3
<1> QED BY <1>3, <1>4 DEF Kept

LEMMA BrickKeeps ==
  ASSUME Control, BrickStep, NEW d \in Client
  PROVE  Kept(d) /\ missed' = missed /\ (MapsSet => MapsSet')
<1>1. PICK m \in {"ui", "display"}, v \in Byte : \E o \in Watched[m] \cap Changing : BrickSets(m, o, v)
  BY DEF BrickStep
<1>2. PICK o \in Watched[m] : BrickSets(m, o, v) BY <1>1
<1>3. maps' = [maps EXCEPT ![m] = [maps[m] EXCEPT ![o] = v]] BY <1>2 DEF BrickSets
<1>4. since'[d] = since[d] \cup IF Concerned(d, m) THEN {<<m, o>>} ELSE {}
  BY <1>2 DEF BrickSets
<1>5. m \in Mods BY Numbers
<1>6. /\ maps = [k \in Mods |-> maps[k]] /\ \A k \in Mods : maps[k] \in [Watched[k] -> Bytes]
  BY DEF Control, Types
<1>7. \A k \in Mods : \A p \in Watched[k] :
        maps'[k][p] = IF k = m /\ p = o THEN v ELSE maps[k][p]
  BY <1>3, <1>5, <1>6
<1>8. {"ui", "display"} \subseteq Mods BY Numbers
<1>9. Kept(d) BY <1>4, <1>7, <1>8 DEF Kept
<1>10. missed' = missed BY <1>2 DEF BrickSets
<1>11. v # Junk BY ModAssumption
<1>12. MapsSet => MapsSet' BY <1>7, <1>11 DEF MapsSet
<1> QED BY <1>9, <1>10, <1>12

\* What others do leaves a program's own picture of the map.
LEMMA ExactStays ==
  ASSUME Control, NEW d \in Client, Same(d), Kept(d), Exact(d)
  PROVE  Exact(d)'
<1>1. ASSUME fn[d] \in Works
      PROVE  Work(fn[d]).mod \in {"ui", "display"} /\ Concerned(d, Work(fn[d]).mod)
  <2>1. fn[d] # None BY <1>1 DEF Works, Finders, FsCalls, None
  <2> QED BY <1>1, <2>1, WorkIs DEF Concerned
<1>2. fn'[d] = fn[d] /\ pc'[d] = pc[d] /\ at'[d] = at[d] /\ buf'[d] = buf[d]
      /\ screen'[d] = screen[d] /\ (Ended(d)' <=> Ended(d))
  BY DEF Same, Ended
<1>3. pc[d] \in {"get", "put"} \/ Ended(d) => fn[d] \in Works
  BY DEF Control, Place, Moving
<1>4. ASSUME fn[d] \in Works, NEW o \in Watched[Work(fn[d]).mod], NEW v,
             InPlace(d, Work(fn[d]).mod, o, v)
      PROVE  maps'[Work(fn[d]).mod][o] = v \/ <<Work(fn[d]).mod, o>> \in since'[d]
  BY <1>1, <1>4 DEF Kept, InPlace
<1>5. CASE pc[d] = "get" \/ (Ended(d) /\ fn[d] \in Gets)
  BY <1>2, <1>3, <1>4, <1>5 DEF Exact, InPlace
<1>6. CASE pc[d] = "put" \/ (Ended(d) /\ fn[d] \notin Gets)
  BY <1>2, <1>3, <1>4, <1>6 DEF Exact, InPlace
<1>7. CASE ~ (pc[d] \in {"get", "put"} \/ Ended(d)) BY <1>2, <1>7 DEF Exact
<1> QED BY <1>5, <1>6, <1>7

LEMMA PictureStays ==
  ASSUME NEW d \in Client, Same(d), PictureSet(d)
  PROVE  PictureSet(d)'
BY DEF Same, PictureSet, Ended

LEMMA DoneStarts ==
  ASSUME Control, NEW c \in Client, pc[c] \in {"found", "listed", "list_close"}, Done(c),
         fn'[c] = fn[c]
  PROVE  Started(c)
<1>1. fn[c] \in Finders \cup Lists \cup {"display_open"} BY DEF Control, Place, Listing
<1>2. CASE fn[c] \in Finders
  <2>1. fn[c] \in Works /\ Work(fn[c]).kind \in {"get", "put"} BY <1>2, WorkIs DEF Works
  <2>2. /\ pc'[c] = Work(fn[c]).kind /\ at'[c] = Work(fn[c]).off
        /\ Work(fn[c]).kind = "get" => buf'[c] = [o \in Watched[Work(fn[c]).mod] |-> Junk]
    BY <1>2, DoneIs
  <2> QED BY <2>1, <2>2 DEF Started, Ended
<1>3. CASE fn[c] \notin Finders
  <2>1. pc'[c] = "return" /\ at'[c] = 0 BY <1>3, DoneIs
  <2>2. fn[c] \notin Gets BY <1>1, <1>3 DEF Finders, Lists, Gets
  <2>3. ~ (0 > 0) BY SMT
  <2> QED BY <2>1, <2>2, <2>3 DEF Started, Ended
<1> QED BY <1>2, <1>3

OwnExact(c) == Exact(c)' /\ (missed' = 0 => PictureSet(c)')

\* Nothing has been moved, or what was moved is of no interest any more.
LEMMA StartedExact ==
  ASSUME Control', NEW c \in Client, Started(c),
         missed' = 0 => /\ \A o \in Watched["display"] : screen'[c][o] # Junk
                        /\ fn'[c] \in Shows => went'[c] # "broken"
  PROVE  OwnExact(c)
<1>1. pc'[c] \in {"get", "put"} => fn'[c] \in Works BY DEF Control, Place, Moving
<1>2. pc'[c] = "put" => \A o \in Watched[Work(fn'[c]).mod] : ~ (o >= Work(fn'[c]).off /\ o < at'[c])
  <2>1. pc'[c] = "put" => /\ Work(fn'[c]).off \in Nat /\ at'[c] = Work(fn'[c]).off
                          /\ Watched[Work(fn'[c]).mod] \subseteq Nat
    <3>1. Watched["ui"] \subseteq Nat /\ Watched["display"] \subseteq Nat
      <4>1. /\ "ui" \in Mods /\ MapSize["ui"] \in Nat /\ NXT_DISPLAY_BUFSIZE \in Nat
            /\ Watched["display"] \subseteq 119 .. (119 + NXT_DISPLAY_BUFSIZE - 1)
        BY Numbers
      <4>2. Watched["ui"] \subseteq 0 .. (MapSize["ui"] - 1) BY <4>1, ModAssumption
      <4> QED BY <4>1, <4>2, SMT
    <3>2. pc'[c] = "put" => Work(fn'[c]).mod \in {"ui", "display"} /\ Work(fn'[c]).off \in Nat
      BY <1>1, WorkIs
    <3> QED BY <3>1, <3>2 DEF Started
  <2> QED BY <2>1, SMT
<1>3. Exact(c)' BY <1>2 DEF Exact, Started
<1>4. pc'[c] = "get" /\ fn'[c] \in Gets \cap Shows =>
        \A o \in Watched["display"] : ~ (o < at'[c])
  <2>1. pc'[c] = "get" /\ fn'[c] \in Gets \cap Shows => at'[c] = 119
    BY <1>1, WorkIs DEF Started
  <2>2. \A o \in Watched["display"] : o \in Nat /\ o >= 119 BY Numbers, SMT
  <2> QED BY <2>1, <2>2, SMT
<1>5. missed' = 0 => PictureSet(c)' BY <1>4 DEF PictureSet, Started
<1> QED BY <1>3, <1>5 DEF OwnExact

\* The picture that was read is complete when it was read well.
LEMMA PictureRead ==
  ASSUME ExactInv, missed = 0, NEW c \in Client, Ended(c), fn[c] \in Gets \cap Shows
  PROVE  \A o \in Watched["display"] : o < at[c] /\ buf[c][o] # Junk
<1> USE DEF ExactInv, Control
<1>1. fn[c] \in Works /\ fn[c] \in Finders
  BY DEF Place, Gets, Shows, Finders
<1>2. /\ Work(fn[c]).mod = "display" /\ Work(fn[c]).off = 119
      /\ Work(fn[c]).n = NXT_DISPLAY_BUFSIZE
      /\ Work(fn[c]).off + Work(fn[c]).n <= MapSize["display"]
  BY <1>1, WorkIs
<1>3. at[c] + left[c] = 119 + NXT_DISPLAY_BUFSIZE \/ (at[c] = MapSize["display"] /\ MapSize["display"] < 119 + NXT_DISPLAY_BUFSIZE)
  BY <1>2 DEF Progress
<1>4. left[c] = 0 /\ at[c] \in Nat BY DEF Progress, Types
<1>5. at[c] = 119 + NXT_DISPLAY_BUFSIZE BY <1>3, <1>4, Numbers, SMT
<1>6. \A o \in Watched["display"] : o < at[c] BY <1>5, Numbers, SMT
<1> QED BY <1>6 DEF PictureSet

LEMMA ReturnExact ==
  ASSUME ExactInv, NEW c \in Client, Return(c), Control'
  PROVE  OwnExact(c)
<1> USE DEF ExactInv, Control
<1>1. /\ pc' = [pc EXCEPT ![c] = "call"] /\ went' = [went EXCEPT ![c] = "well"]
      /\ UNCHANGED missed /\ UNCHANGED fn /\ pc[c] = "return"
  BY DEF Return, Set
<1>2. pc'[c] = "call" /\ went'[c] = "well" BY <1>1 DEF Types
<1>3. Started(c) BY <1>2 DEF Started, Ended
<1>4. ASSUME missed' = 0 PROVE \A o \in Watched["display"] : screen'[c][o] # Junk
  <2>1. missed = 0 BY <1>1, <1>4
  <2>2. CASE fn[c] = "refresh" /\ went[c] # "unfound"
    <3>1. fn[c] \in Gets \cap Shows BY <2>2 DEF Gets, Shows
    <3>2. went[c] = "well" BY <2>1, <2>2, <3>1 DEF PictureSet, Types
    <3>3. Ended(c) BY <1>1, <3>1, <3>2 DEF Ended
    <3>4. screen'[c] = buf[c] BY <2>2 DEF Return, Set, Types
    <3> QED BY <2>1, <3>1, <3>3, <3>4, PictureRead
  <2>3. CASE ~ (fn[c] = "refresh" /\ went[c] # "unfound")
    <3>1. screen' = screen BY <2>3 DEF Return
    <3> QED BY <2>1, <3>1 DEF PictureSet
  <2> QED BY <2>2, <2>3
<1> QED BY <1>2, <1>3, <1>4, StartedExact

\* The brick has all that a function asks for but those of modfs.
LEMMA InMapIs ==
  ASSUME Control, NEW c \in Client, Moving(c), fn[c] \in Finders \cup {"fs_write"}
  PROVE  InMap(c)
<1> DEFINE t == Work(fn[c])
           M == MapSize[Target(c)]
<1>1. fn[c] \in Works /\ Target(c) = t.mod /\ M \in Nat BY PieceIs
<1>2. t.off + t.n <= M /\ t.off \in Nat /\ t.n \in Nat BY <1>1, WorkIs
<1>3. at[c] \in Nat /\ left[c] \in Nat BY DEF Control, Types
<1>4. at[c] + left[c] = t.off + t.n \/ M < t.off + t.n BY <1>1 DEF Control, Progress
<1> HIDE DEF t
<1>5. at[c] + left[c] <= M
  <2> HIDE DEF M
  <2> QED BY <1>1, <1>2, <1>3, <1>4, SMT
<1>6. Piece(c) <= left[c] /\ Piece(c) \in Nat BY <1>3, SMT DEF Piece, PieceSize
<1> QED BY <1>1, <1>3, <1>5, <1>6, SMT DEF InMap

LEMMA ReadExact ==
  ASSUME ExactInv, NEW c \in Client, NEW way \in Ways, Read(c, way), Control'
  PROVE  OwnExact(c)
<1> USE DEF ExactInv
<1> DEFINE m == Target(c)
           bytes == [o \in DOMAIN buf[c] |-> IF o \in Touched(c) THEN maps[m][o] ELSE buf[c][o]]
<1>0. Control OBVIOUS
<1>1. pc[c] = "get" /\ Moving(c) BY DEF Read, Moving
<1>2. PICK st \in MoveStatuses(c) :
        Telegram(c, way, st) /\ Moved(c, Good(way, st), bytes)
  BY DEF Read
<1>3. UNCHANGED <<maps, since, fn, screen>> BY DEF Read, brickVars, shownVars
<1>4. /\ m = Work(fn[c]).mod /\ m \in {"ui", "display"} /\ MapSize[m] \in Nat /\ Count(c) \in Nat
      /\ fn[c] \in Works
  BY <1>0, <1>1, PieceIs
<1>5. m \in Mods BY <1>4, Numbers
<1>6. fn[c] \in Gets /\ buf[c] \in [Watched[m] -> Bytes]
  BY <1>0, <1>1, <1>4, WorkIs DEF Control, Place
<1>7. \A o \in Watched[m] : bytes[o] = IF o \in Touched(c) THEN maps[m][o] ELSE buf[c][o]
  BY <1>6
<1>8. Good(way, st) \in BOOLEAN /\ fn'[c] = fn[c] BY <1>3 DEF Good
<1>9. bytes \in [Watched[m] -> Bytes]
  <2>1. maps[m] \in [Watched[m] -> Bytes] BY <1>5 DEF Control, Types
  <2> QED BY <1>6, <2>1
<1> HIDE DEF bytes
<1>10. /\ Good(way, st) => /\ at'[c] = at[c] + Count(c) /\ buf'[c] = bytes
                           /\ went'[c] = "well" /\ pc'[c] \in {"get", "return"}
       /\ ~Good(way, st) => pc'[c] = "return" /\ went'[c] = "broken"
  BY <1>0, <1>1, <1>2, <1>4, <1>8, <1>9, MovedOwn
<1>11. missed' = 0 => missed = 0 /\ (Good(way, st) <=> st = "ok")
  BY <1>0, <1>2, Answered DEF Control
<1>12. CASE Good(way, st)
  <2>1. \A o \in Watched[m] : bytes[o] # Junk => InPlace(c, m, o, bytes[o])
    BY <1>1, <1>4, <1>6, <1>7 DEF Exact, InPlace
  <2>2. Exact(c)'
    <3>1. \A o \in Watched[m] : buf'[c][o] # Junk => maps'[m][o] = buf'[c][o] \/ <<m, o>> \in since'[c]
      BY <1>3, <1>10, <1>12, <2>1 DEF InPlace
    <3>2. pc'[c] # "put" /\ ~ (fn'[c] \notin Gets) BY <1>6, <1>8, <1>10, <1>12
    <3> QED BY <1>4, <1>8, <3>1, <3>2 DEF Exact, InPlace
  <2>3. ASSUME missed' = 0 PROVE PictureSet(c)'
    <3>1. missed = 0 BY <1>11, <2>3
    <3>2. ASSUME fn[c] \in Shows, NEW o \in Watched["display"], o < at'[c] PROVE buf'[c][o] # Junk
      <4>1. m = "display" BY <1>4, <3>2, WorkIs
      <4>2. CASE o \in Touched(c)
        BY <1>5, <1>7, <1>10, <1>12, <3>1, <4>1, <4>2 DEF MapsSet
      <4>3. CASE o \notin Touched(c)
        <5>1. at[c] \in Nat /\ o \in Nat
          <6>1. at[c] \in Nat BY DEF Control, Types
          <6>2. o \in Nat BY Numbers, SMT
          <6> QED BY <6>1, <6>2
        <5>2. o < at[c]
          BY <1>4, <1>10, <1>12, <3>2, <4>3, <5>1, SMT DEF Touched
        <5>3. buf[c][o] # Junk BY <1>1, <1>6, <3>1, <3>2, <5>2 DEF PictureSet
        <5> QED BY <1>7, <1>10, <1>12, <4>1, <4>3, <5>3
      <4> QED BY <4>2, <4>3
    <3> QED BY <1>3, <1>8, <1>10, <1>12, <3>1, <3>2 DEF PictureSet
  <2> QED BY <2>2, <2>3 DEF OwnExact
<1>13. CASE ~Good(way, st)
  <2>1. pc'[c] = "return" /\ went'[c] = "broken" /\ ~Ended(c)' BY <1>10, <1>13 DEF Ended
  <2>2. Exact(c)' BY <2>1 DEF Exact
  <2>3. ASSUME missed' = 0 PROVE PictureSet(c)'
    <3>1. missed = 0 /\ st # "ok" BY <1>11, <1>13, <2>3
    <3>2. ASSUME fn[c] \in Shows PROVE FALSE
      <4>1. fn[c] \in Finders BY <1>6, <3>2 DEF Gets, Shows, Finders
      <4> QED BY <1>0, <1>1, <3>1, <4>1, InMapIs DEF MoveStatuses
    <3> QED BY <1>3, <1>8, <2>1, <3>1, <3>2 DEF PictureSet
  <2> QED BY <2>2, <2>3 DEF OwnExact
<1> QED BY <1>12, <1>13

LEMMA WriteExact ==
  ASSUME ExactInv, NEW c \in Client, NEW way \in Ways, Write(c, way), Control'
  PROVE  OwnExact(c) /\ (missed' = 0 => MapsSet')
<1> USE DEF ExactInv
<1> DEFINE m == Target(c)
           t == Work(fn[c])
<1>0. Control OBVIOUS
<1>1. pc[c] = "put" /\ Moving(c) BY DEF Write, Moving
<1>2. PICK st \in MoveStatuses(c) :
        /\ Telegram(c, way, st) /\ Moved(c, Good(way, st), buf[c])
        /\ maps' = (IF Carried(way) /\ st = "ok" THEN WriteMaps(c) ELSE maps)
  BY DEF Write, WriteMaps
<1>3. UNCHANGED <<fn, screen>> /\ since[c] \subseteq since'[c] BY DEF Write, shownVars
<1>4. /\ m = t.mod /\ m \in {"ui", "display"} /\ MapSize[m] \in Nat /\ Count(c) \in Nat
      /\ fn[c] \in Works
  BY <1>0, <1>1, PieceIs
<1>5. m \in Mods BY <1>4, Numbers
<1>6. fn[c] \notin Gets BY <1>0, <1>1, <1>4, WorkIs DEF Control, Place
<1>7. Good(way, st) \in BOOLEAN /\ fn'[c] = fn[c] BY <1>3 DEF Good
<1>8. /\ Good(way, st) => /\ at'[c] = at[c] + Count(c)
                          /\ went'[c] = "well" /\ pc'[c] \in {"put", "return"}
      /\ ~Good(way, st) => pc'[c] = "return" /\ went'[c] = "broken"
  BY <1>0, <1>1, <1>2, <1>7, MovedOwn
<1>9. missed' = 0 => missed = 0 /\ (Good(way, st) <=> st = "ok")
  BY <1>0, <1>2, Answered DEF Control
<1>10. \A k \in Mods : \A o \in Watched[k] :
         maps'[k][o] = maps[k][o] \/ (k = m /\ o \in Touched(c) /\ maps'[k][o] = Data(c, o))
  BY <1>0, <1>1, <1>2, WriteMapsIs
<1>11. \A o \in Watched[m] : Data(c, o) = IF m = "display" THEN screen[c][o] ELSE 1
  BY <1>0, <1>1, DataIs
<1>12. ASSUME missed' = 0 PROVE MapsSet'
  <2>1. missed = 0 BY <1>9, <1>12
  <2>2. 1 # Junk BY ModAssumption
  <2>3. \A o \in Watched[m] : Data(c, o) # Junk BY <1>11, <2>1, <2>2 DEF PictureSet
  <2> QED BY <1>10, <2>1, <2>3 DEF MapsSet
<1>13. CASE Good(way, st)
  <2>1. maps' = WriteMaps(c)
    <3>1. Carried(way) /\ st = "ok" BY <1>13 DEF Good, Carried
    <3> QED BY <1>2, <3>1
  <2>2. ASSUME NEW o \in Watched[m], o >= t.off, o < at'[c]
        PROVE  \/ maps'[m][o] = IF m = "display" THEN screen'[c][o] ELSE 1
               \/ <<m, o>> \in since'[c]
    <3>1. CASE o \in Touched(c)
      <4>1. maps'[m][o] = Data(c, o) BY <1>0, <1>1, <1>5, <2>1, <3>1, WriteMapsIs
      <4> QED BY <1>3, <1>11, <4>1
    <3>2. CASE o \notin Touched(c)
      <4>1. at[c] \in Nat BY DEF Control, Types
      <4>2. o \in Nat
        <5>1. Watched[m] \subseteq 0 .. (MapSize[m] - 1) BY <1>5, ModAssumption
        <5> QED BY <1>4, <5>1
      <4>3. o < at[c] BY <1>4, <1>8, <1>13, <2>2, <3>2, <4>1, <4>2, SMT DEF Touched
      <4>4. InPlace(c, m, o, IF m = "display" THEN screen[c][o] ELSE 1)
        BY <1>1, <1>4, <2>2, <4>3 DEF Exact
      <4>5. maps'[m][o] = maps[m][o] BY <1>5, <1>10, <3>2
      <4> QED BY <1>3, <4>4, <4>5 DEF InPlace
    <3> QED BY <3>1, <3>2
  <2>3. pc'[c] # "get" /\ ~ (fn'[c] \in Gets) BY <1>6, <1>7, <1>8, <1>13
  <2>4. Exact(c)' BY <1>4, <1>7, <2>2, <2>3 DEF Exact, InPlace
  <2>5. missed' = 0 => PictureSet(c)' BY <1>3, <1>8, <1>9, <1>13, <2>3 DEF PictureSet
  <2> QED BY <1>12, <2>4, <2>5 DEF OwnExact
<1>14. CASE ~Good(way, st)
  <2>1. pc'[c] = "return" /\ went'[c] = "broken" /\ ~Ended(c)' BY <1>8, <1>14 DEF Ended
  <2>2. Exact(c)' BY <2>1 DEF Exact
  <2>3. ASSUME missed' = 0 PROVE PictureSet(c)'
    <3>1. missed = 0 /\ st # "ok" BY <1>9, <1>14, <2>3
    <3>2. ASSUME fn[c] \in Shows PROVE FALSE
      <4>1. fn[c] \in Finders BY <1>4, <3>2 DEF Works, FsCalls, Shows
      <4> QED BY <1>0, <1>1, <3>1, <4>1, InMapIs DEF MoveStatuses
    <3> QED BY <1>3, <1>7, <2>1, <3>1, <3>2 DEF PictureSet
  <2> QED BY <1>12, <2>2, <2>3 DEF OwnExact
<1> QED BY <1>13, <1>14

\* The other actions begin a transfer or none.
LEMMA OtherExact ==
  ASSUME ExactInv, Control', NEW c \in Client, ClientStep(c), ~Writes(c),
         ~ \E way \in Ways : Read(c, way)
  PROVE  OwnExact(c)
<1> USE DEF ExactInv, vars, brickVars, progVars, listVars, moveVars, shownVars, ghosts
<1>0. Control /\ (missed' = 0 => missed = 0) BY StepKeeps DEF Control
<1>1. ASSUME NEW p \in Programs[c], Run(c, p) PROVE OwnExact(c)
  <2>1. pc' = [pc EXCEPT ![c] = "call"] /\ UNCHANGED <<screen, fn, went>>
    BY <1>1 DEF Run, Set
  <2>2. pc'[c] = "call" BY <2>1 DEF Control, Types
  <2>3. Started(c) BY <2>2 DEF Started, Ended
  <2> QED BY <1>0, <2>1, <2>3, StartedExact DEF PictureSet
<1>2. CASE Exit(c)
  <2>1. pc' = [pc EXCEPT ![c] = "idle"] /\ screen' = [screen EXCEPT ![c] = Screen(0)]
        /\ UNCHANGED went /\ fn' = [fn EXCEPT ![c] = None]
    BY <1>2 DEF Exit, Set
  <2>2. pc'[c] = "idle" /\ screen'[c] = Screen(0) /\ fn'[c] = None BY <2>1 DEF Control, Types
  <2>3. Started(c) BY <2>2 DEF Started, Ended
  <2>4. \A o \in Watched["display"] : screen'[c][o] # Junk
    <3>1. 0 # Junk BY ModAssumption
    <3> QED BY <2>2, <3>1 DEF Screen
  <2>5. fn'[c] \notin Shows BY <2>2 DEF Shows, None
  <2> QED BY <2>3, <2>4, <2>5, StartedExact
<1>3. CASE Call(c)
  <2>1. Started(c) BY <1>0, <1>3, CallOwn
  <2>2. \/ screen' = screen \/ screen' = [screen EXCEPT ![c] = Screen(1)]
    BY <1>3 DEF Call, Set
  <2>3. missed' = 0 => \A o \in Watched["display"] : screen'[c][o] # Junk
    <3>1. 1 # Junk BY ModAssumption
    <3> QED BY <1>0, <2>2, <3>1 DEF Screen, PictureSet, Control, Types
  <2>4. went'[c] # "broken" BY <1>3 DEF Call, Set, Control, Types
  <2> QED BY <2>1, <2>3, <2>4, StartedExact
<1>4. CASE Return(c) BY <1>4, ReturnExact
<1>5. ASSUME UNCHANGED <<screen, fn>>, Started(c), went'[c] \in {went[c], "unfound"}
      PROVE  OwnExact(c)
  BY <1>0, <1>5, StartedExact DEF PictureSet
<1>6. ASSUME pc'[c] \in Listing \cup {"found"} PROVE Started(c)
  BY <1>6 DEF Started, Ended, Listing
<1>7. ASSUME Fail(c, "unfound") PROVE Started(c) /\ went'[c] = "unfound"
  <2>1. pc'[c] = "return" /\ went'[c] = "unfound" BY <1>0, <1>7, FailIs DEF Control
  <2> QED BY <2>1 DEF Started, Ended
<1>8. CASE ListEnd(c)
  <2>1. pc[c] = "listed" /\ UNCHANGED <<screen, fn>> BY <1>8 DEF ListEnd
  <2>2. Done(c) \/ (pc' = [pc EXCEPT ![c] = "list_close"] /\ UNCHANGED went) \/ Fail(c, "unfound")
    BY <1>8 DEF ListEnd, Set
  <2>3. CASE Done(c)
    <3>1. Started(c) BY <1>0, <2>1, <2>3, DoneStarts
    <3> QED BY <1>5, <2>1, <2>3, <3>1 DEF Done
  <2>4. CASE pc' = [pc EXCEPT ![c] = "list_close"] /\ UNCHANGED went
    <3>1. pc'[c] = "list_close" BY <2>4 DEF Control, Types
    <3> QED BY <1>5, <1>6, <2>1, <2>4, <3>1 DEF Listing
  <2>5. CASE Fail(c, "unfound") BY <1>5, <1>7, <2>1, <2>5
  <2> QED BY <2>2, <2>3, <2>4, <2>5
<1>9. ASSUME NEW way \in Ways, FindFirst(c, way) PROVE OwnExact(c)
  <2>1. UNCHANGED <<screen, fn>> BY <1>9 DEF FindFirst
  <2>2. (pc' = [pc EXCEPT ![c] = "found"] /\ UNCHANGED went) \/ Fail(c, "unfound")
    BY <1>9 DEF FindFirst, Set
  <2>3. CASE pc' = [pc EXCEPT ![c] = "found"] /\ UNCHANGED went
    <3>1. pc'[c] = "found" BY <2>3 DEF Control, Types
    <3> QED BY <1>5, <1>6, <2>1, <2>3, <3>1
  <2> QED BY <1>5, <1>7, <2>1, <2>2, <2>3
<1>10. ASSUME NEW way \in Ways, FindClose(c, way) \/ ListLastClose(c, way) PROVE OwnExact(c)
  <2>1. UNCHANGED <<screen, fn>> /\ Done(c) /\ pc[c] \in {"found", "list_close"}
    BY <1>10 DEF FindClose, ListLastClose
  <2>2. Started(c) BY <1>0, <2>1, DoneStarts
  <2> QED BY <1>5, <2>1, <2>2 DEF Done
<1>11. ASSUME NEW way \in Ways, ListFirst(c, way) \/ ListNext(c, way) \/ ListClose(c, way)
       PROVE  OwnExact(c)
  <2>1. UNCHANGED <<screen, fn, went>> BY <1>11 DEF ListFirst, ListNext, ListClose
  <2>2. \E p \in Listing : pc' = [pc EXCEPT ![c] = p]
    BY <1>11 DEF ListFirst, ListNext, ListClose, Listing, Set
  <2>3. pc'[c] \in Listing BY <2>2 DEF Control, Types
  <2> QED BY <1>5, <1>6, <2>1, <2>3
<1> QED BY <1>1, <1>2, <1>3, <1>4, <1>8, <1>9, <1>10, <1>11 DEF ClientStep, Writes

LEMMA ExactStep == ExactInv /\ [Next]_vars /\ Control' => ExactInv'
<1> SUFFICES ASSUME ExactInv, [Next]_vars, Control' PROVE ExactInv' OBVIOUS
<1> USE DEF ExactInv
<1>1. CASE UNCHANGED vars
  <2>1. (\A d \in Client : Exact(d)' /\ (PictureSet(d) => PictureSet(d)')) /\ missed' = missed
    BY <1>1 DEF Exact, PictureSet, InPlace, Ended, vars, brickVars, progVars, listVars, moveVars,
                shownVars, ghosts
  <2>2. MapsSet => MapsSet' BY <1>1 DEF MapsSet, vars, brickVars
  <2> QED BY <2>1, <2>2
<1>2. ASSUME NEW c \in Client, ClientStep(c) PROVE ExactInv'
  <2>1. OwnExact(c)
    BY <1>2, ReadExact, WriteExact, OtherExact DEF Writes
  <2>2. missed' = 0 => MapsSet'
    <3>1. CASE Writes(c) BY <3>1, WriteExact DEF Writes
    <3>2. CASE ~Writes(c)
      <4>1. maps' = maps /\ (missed' = 0 => missed = 0) BY <1>2, <3>2, StepKeeps DEF Control
      <4> QED BY <4>1 DEF MapsSet
    <3> QED BY <3>1, <3>2
  <2>3. ASSUME NEW d \in Client, d # c PROVE Exact(d)' /\ (missed' = 0 => PictureSet(d)')
    <3>1. Same(d) BY <1>2, <2>3, Others DEF Control
    <3>2. Kept(d)
      <4>1. CASE Writes(c) BY <2>3, <4>1, WriteKeeps DEF Writes
      <4>2. CASE ~Writes(c)
        <5>1. maps' = maps /\ since'[d] = since[d] BY <1>2, <2>3, <4>2, StepKeeps DEF Control
        <5> QED BY <5>1 DEF Kept
      <4> QED BY <4>1, <4>2
    <3>3. missed' = 0 => missed = 0 BY <1>2, StepKeeps DEF Control
    <3> QED BY <3>1, <3>2, <3>3, ExactStays, PictureStays
  <2> QED BY <2>1, <2>2, <2>3 DEF OwnExact
<1>3. CASE BrickStep
  <2>1. \A d \in Client : Same(d) BY <1>3, BrickControl
  <2>2. \A d \in Client : Kept(d) /\ missed' = missed /\ (MapsSet => MapsSet')
    BY <1>3, BrickKeeps
  <2>3. missed' = missed /\ (MapsSet => MapsSet')
    <3>1. PICK m \in {"ui", "display"}, v \in Byte : \E o \in Watched[m] \cap Changing : BrickSets(m, o, v)
      BY <1>3 DEF BrickStep
    <3>2. PICK o \in Watched[m] : BrickSets(m, o, v) BY <3>1
    <3>3. maps' = [maps EXCEPT ![m][o] = v] /\ missed' = missed BY <3>2 DEF BrickSets
    <3>4. v # Junk BY ModAssumption
    <3>5. m \in Mods BY Numbers
    <3>6. /\ maps = [k \in Mods |-> maps[k]] /\ \A k \in Mods : maps[k] \in [Watched[k] -> Bytes]
      BY DEF Control, Types
    <3>7. \A k \in Mods : \A p \in Watched[k] : maps'[k][p] \in {v, maps[k][p]}
      BY <3>3, <3>5, <3>6
    <3> QED BY <3>3, <3>4, <3>7 DEF MapsSet
  <2> QED BY <2>1, <2>2, <2>3, ExactStays, PictureStays
<1> QED BY <1>1, <1>2, <1>3, NextIs

LEMMA InitExact == Init => ExactInv
<1> SUFFICES ASSUME Init PROVE ExactInv OBVIOUS
<1>1. Control BY InitControl
<1>2. 0 # Junk BY ModAssumption
<1>3. MapsSet BY <1>2 DEF MapsSet, Init
<1>4. ASSUME NEW c \in Client PROVE Exact(c) /\ PictureSet(c)
  BY <1>2, <1>4 DEF Init, Exact, PictureSet, Ended, Screen, Shows, None
<1> QED BY <1>1, <1>3, <1>4 DEF ExactInv

\* A transfer ends where it was to end, or where the map does.
LEMMA EndedAt ==
  ASSUME Control, NEW c \in Client, Ended(c)
  PROVE  LET t == Work(fn[c]) IN
           /\ fn[c] \in Works /\ at[c] = t.off + moved[c]
           /\ at[c] = IF t.off + t.n <= MapSize[t.mod] THEN t.off + t.n ELSE MapSize[t.mod]
<1> DEFINE t == Work(fn[c])
           M == MapSize[t.mod]
<1>1. fn[c] \in Works BY DEF Control, Place
<1>2. t.off \in Nat /\ t.n \in Nat /\ t.mod \in {"ui", "display"} BY <1>1, WorkIs
<1>3. M \in Nat BY <1>2, Numbers
<1>4. /\ at[c] = t.off + moved[c] /\ at[c] <= M /\ left[c] = 0 /\ at[c] \in Nat
      /\ at[c] + left[c] = t.off + t.n \/ (at[c] = M /\ M < t.off + t.n)
  BY DEF Control, Progress, Types
<1> HIDE DEF t, M
<1>5. at[c] = IF t.off + t.n <= M THEN t.off + t.n ELSE M BY <1>2, <1>3, <1>4, SMT
<1> QED BY <1>1, <1>4, <1>5 DEF t, M

\* The transfers of mod.c, display.c and modfs are exact: a function whose
\* telegrams were answered has every byte where it belongs, except where
\* somebody else wrote meanwhile, and no byte that nobody has set comes to the
\* brick as long as every telegram is answered (MapsExact).
THEOREM ModMapsExact == Spec => []MapsExact
<1>1. ExactInv => MapsExact
  <2> SUFFICES ASSUME ExactInv PROVE MapsExact OBVIOUS
  <2> USE DEF ExactInv
  <2>1. missed = 0 => \A m \in Mods : \A o \in Watched[m] : maps[m][o] # Junk BY DEF MapsSet
  <2>2. ASSUME NEW c \in Client, Returning(c)
        PROVE  /\ fn[c] \in {"flush", "flush_always"} =>
                    \A o \in Watched["display"] : InPlace(c, "display", o, screen[c][o])
               /\ fn[c] \in DOMAIN Settings => InPlace(c, "ui", Settings[fn[c]], 1)
               /\ fn[c] \in DOMAIN Getters =>
                    \A o \in DOMAIN buf[c] :
                      buf[c][o] # Junk => InPlace(c, Getters[fn[c]], o, buf[c][o])
               /\ fn[c] \in {"refresh", "screenshot"} /\ missed = 0 =>
                    \A o \in DOMAIN buf[c] : buf[c][o] # Junk
               /\ fn[c] = "fs_read" => moved[c] = MapSize["ui"]
               /\ fn[c] = "fs_read_end" => moved[c] = MapSize["ui"] - 30
    <3> DEFINE t == Work(fn[c])
    <3>0. Control /\ Ended(c) /\ pc[c] = "return" /\ went[c] = "well" BY <2>2 DEF Returning, Ended
    <3>1. /\ fn[c] \in Works /\ at[c] = t.off + moved[c]
          /\ at[c] = IF t.off + t.n <= MapSize[t.mod] THEN t.off + t.n ELSE MapSize[t.mod]
      BY <3>0, EndedAt
    <3>2. at[c] \in Nat /\ moved[c] \in Nat BY DEF Control, Types
    <3>3. ASSUME fn[c] \in {"flush", "flush_always"}
          PROVE \A o \in Watched["display"] : InPlace(c, "display", o, screen[c][o])
      <4>1. fn[c] \in Finders /\ fn[c] \in Shows /\ fn[c] \notin Gets
        BY <3>3 DEF Finders, Shows, Gets
      <4>2. t.mod = "display" /\ t.off = 119 /\ t.n = NXT_DISPLAY_BUFSIZE
            /\ t.off + t.n <= MapSize[t.mod]
        BY <3>1, <4>1, WorkIs
      <4>3. at[c] = 119 + NXT_DISPLAY_BUFSIZE BY <3>1, <4>2
      <4>4. \A o \in Watched["display"] : o >= 119 /\ o < at[c] BY <4>3, Numbers, SMT
      <4> QED BY <3>0, <4>1, <4>2, <4>4 DEF Exact
    <3>4. ASSUME fn[c] \in DOMAIN Settings PROVE InPlace(c, "ui", Settings[fn[c]], 1)
      <4>1. fn[c] \in {"set_volume", "set_button", "turn_off", "fs_write"}
        BY <3>4 DEF Settings
      <4>2. /\ fn[c] \in Finders \cup {"fs_write"} /\ fn[c] \notin Shows /\ fn[c] \notin Gets
            /\ Settings[fn[c]] \in {28, 36, 39}
        BY <4>1 DEF Finders, Shows, Gets, Settings, NXT_UI_BUTTON, NXT_UI_VOLUME, NXT_UI_TURNOFF
      <4>3. t.mod = "ui" /\ t.off = Settings[fn[c]] /\ t.n = 1 /\ t.off + t.n <= MapSize[t.mod]
        BY <3>1, <3>4, <4>2, WorkIs
      <4>4. at[c] = Settings[fn[c]] + 1 BY <3>1, <4>3
      <4>5. /\ Settings[fn[c]] \in Watched["ui"] BY <4>2, Numbers
      <4>6. Settings[fn[c]] >= Settings[fn[c]] /\ Settings[fn[c]] < at[c] BY <4>2, <4>4, SMT
      <4>7. InPlace(c, t.mod, Settings[fn[c]], IF t.mod = "display" THEN screen[c][Settings[fn[c]]] ELSE 1)
        BY <3>0, <4>2, <4>3, <4>5, <4>6 DEF Exact
      <4> QED BY <4>3, <4>7
    <3>5. ASSUME fn[c] \in Gets
          PROVE  /\ buf[c] \in [Watched[t.mod] -> Bytes] /\ Getters[fn[c]] = t.mod
                 /\ \A o \in DOMAIN buf[c] :
                      buf[c][o] # Junk => InPlace(c, Getters[fn[c]], o, buf[c][o])
      <4>1. buf[c] \in [Watched[t.mod] -> Bytes] BY <3>0, <3>5 DEF Control, Place
      <4>2. Getters[fn[c]] = t.mod BY <3>1, <3>5, WorkIs
      <4> QED BY <3>0, <3>5, <4>1, <4>2 DEF Exact
    <3>6. fn[c] \in DOMAIN Getters => fn[c] \in Gets BY DEF Getters, Gets
    <3>7. ASSUME fn[c] \in {"refresh", "screenshot"}, missed = 0
          PROVE  \A o \in DOMAIN buf[c] : buf[c][o] # Junk
      <4>1. fn[c] \in Gets \cap Shows BY <3>7 DEF Gets, Shows
      <4>2. t.mod = "display" BY <3>1, <4>1, WorkIs
      <4>3. DOMAIN buf[c] = Watched["display"] BY <3>5, <4>1, <4>2
      <4> QED BY <3>0, <3>7, <4>1, <4>3, PictureRead
    <3>8. ASSUME fn[c] = "fs_read" PROVE moved[c] = MapSize["ui"]
      <4>1. t.off = 0 /\ t.n = MapSize["ui"] /\ t.mod = "ui"
        <5>1. fn[c] \notin Shows BY <3>8 DEF Shows
        <5> QED BY <3>1, <3>8, <5>1, WorkIs
      <4> QED BY <3>1, <3>2, <4>1, Numbers, SMT
    <3>9. ASSUME fn[c] = "fs_read_end" PROVE moved[c] = MapSize["ui"] - 30
      <4>1. t.off = 30 /\ t.n = MapSize["ui"] /\ t.mod = "ui"
        <5>1. fn[c] \notin Shows BY <3>9 DEF Shows
        <5> QED BY <3>1, <3>9, <5>1, WorkIs
      <4> QED BY <3>1, <3>2, <4>1, Numbers, SMT
    <3> QED BY <3>3, <3>4, <3>5, <3>6, <3>7, <3>8, <3>9
  <2> QED BY <2>1, <2>2 DEF MapsExact
<1> QED BY <1>1, InitExact, ExactStep, ModControl, PTL DEF Spec

-----------------------------------------------------------------------------
(* A program that runs alone works.                                        *)

Quiet == missed = 0 /\ calm
Apart == calm => \A c, d \in Client : pc[c] # "idle" /\ pc[d] # "idle" => c = d

\* Program c runs p and has called n of its functions.
Within(c, p, n) ==
  /\ n <= Len(p) /\ Len(script[c]) = Len(p) - n
  /\ \A i \in 1 .. Len(script[c]) : script[c][i] = p[n + i]
  /\ fn[c] = IF n = 0 THEN None ELSE p[n]

\* A program that flushes always has the picture that was there before, once
\* it has read it.
Flushing(p) == \E i \in DOMAIN p : p[i] = "flush_always"
Shown(c, n) ==
  /\ n >= 1 => \A o \in Watched["display"] : InPlace(c, "display", o, before[c][o])
  /\ n >= 3 \/ (n = 2 /\ pc[c] = "call") =>
       \A o \in Watched["display"] : screen[c][o] = before[c][o] \/ <<"display", o>> \in since[c]

Story(c, p, n) ==
  /\ Within(c, p, n)
  /\ calm => \A i \in 1 .. n : p[i] # "mount"
  /\ Quiet /\ Flushing(p) => Shown(c, n)
History(c) == pc[c] # "idle" => \E p \in Programs[c] : \E n \in Nat : Story(c, p, n)

OnlyOpen(hs) == \A h \in Handle \ hs : open[h] = <<>>
\* As many modules as there are in the list were found, the last of them by
\* handle h.
Rest(c, h) ==
  LET k == Len(found[c]) IN
    /\ k \in 1 .. Len(Modules) /\ \A i \in 1 .. k : found[c][i] = Modules[i]
    /\ Len(open[h]) = Len(Modules) - k + 1
    /\ \A i \in 1 .. Len(open[h]) : open[h][i] = Modules[k + i - 1]

\* Where a program is that has had no trouble so far: its handles and errors.
Handles(c) ==
  /\ pc[c] \in {"call", "return", "find", "list", "get", "put"} => OnlyOpen({})
  /\ pc[c] = "found" => OnlyOpen({0}) /\ open[0] # <<>>
  /\ pc[c] = "list" => last[c] = NoHandle
  /\ pc[c] = "next" => OnlyOpen({last[c]}) /\ Rest(c, last[c]) /\ fn[c] = "lsmod"
  /\ pc[c] = "next_close" =>
       /\ OnlyOpen({last[c], new[c]}) /\ Rest(c, new[c]) /\ fn[c] = "lsmod"
       /\ last[c] # new[c] /\ open[last[c]] # <<>>
  /\ pc[c] \in {"listed", "list_close"} =>
       IF fn[c] = "lsmod"
       THEN last[c] \in Handle /\ OnlyOpen({last[c]}) /\ open[last[c]] # <<>> /\ found[c] = Modules
       ELSE last[c] = NoHandle /\ OnlyOpen({})
Outcome(c) ==
  /\ went[c] = "well"
  /\ err[c] = (IF pc[c] = "listed" THEN "module_not_found" ELSE None)
     \/ (pc[c] \in {"return", "call"} /\ fn[c] = "lsmod_none")
  /\ pc[c] \in {"return", "call"} /\ fn[c] = "lsmod" => found[c] = Modules
  /\ pc[c] = "call" => res[c] = 0
Untroubled(c) == pc[c] # "idle" => Handles(c) /\ Outcome(c)

AloneInv ==
  /\ ExactInv /\ Apart /\ \A c \in Client : History(c)
  /\ Quiet => /\ (\A c \in Client : pc[c] = "idle") => OnlyOpen({})
              /\ \A c \in Client : Untroubled(c)

\* Who steps was running, or begins.
LEMMA StepRuns ==
  ASSUME Types, NEW c \in Client, ClientStep(c)
  PROVE  /\ calm' => calm
         /\ pc[c] = "idle" /\ calm' => \A d \in Client : pc[d] = "idle"
         /\ pc[c] = "idle" => \E p \in Programs[c] : Run(c, p)
<1> USE DEF vars, brickVars, progVars, listVars, moveVars, shownVars, ghosts
<1>1. ASSUME NEW p \in Programs[c], Run(c, p)
      PROVE  (calm' => calm) /\ (calm' => \A d \in Client : pc[d] = "idle")
  BY <1>1 DEF Run
<1>2. ASSUME Exit(c) \/ Return(c) \/ ListEnd(c)
      PROVE  calm' = calm /\ pc[c] # "idle"
  BY <1>2 DEF Exit, Return, ListEnd
<1>4. CASE Call(c)
  <2>1. calm' = (calm /\ Head(script[c]) # "mount") /\ pc[c] = "call" BY <1>4 DEF Call
  <2> QED BY <2>1
<1>3. ASSUME NEW way \in Ways,
             \/ FindFirst(c, way) \/ FindClose(c, way)
             \/ ListFirst(c, way) \/ ListNext(c, way) \/ ListClose(c, way)
             \/ ListLastClose(c, way) \/ Read(c, way) \/ Write(c, way)
      PROVE  calm' = calm /\ pc[c] # "idle"
  BY <1>3 DEF FindFirst, FindClose, ListFirst, ListNext, ListClose, ListLastClose, Read, Write
<1> QED BY <1>1, <1>2, <1>3, <1>4 DEF ClientStep

LEMMA OthersIdle ==
  ASSUME AloneInv, NEW c \in Client, ClientStep(c), calm', NEW d \in Client, d # c
  PROVE  pc[d] = "idle" /\ pc'[d] = "idle"
<1>1. Types BY DEF AloneInv, ExactInv, Control
<1>2. pc[d] = "idle"
  <2>1. CASE pc[c] = "idle" BY <1>1, <2>1, StepRuns
  <2>2. CASE pc[c] # "idle" BY <1>1, <2>2, StepRuns DEF AloneInv, Apart
  <2> QED BY <2>1, <2>2
<1>3. pc'[d] = pc[d] BY <1>1, Others DEF Same
<1> QED BY <1>2, <1>3

LEMMA OthersHistory ==
  ASSUME AloneInv, NEW c \in Client, ClientStep(c), NEW d \in Client, d # c
  PROVE  History(d)'
<1>1. CASE calm' BY <1>1, OthersIdle DEF History
<1>2. CASE ~calm'
  <2>1. Same(d) BY Others DEF AloneInv, ExactInv, Control
  <2>2. SUFFICES ASSUME pc[d] # "idle"
                 PROVE \E p \in Programs[d] : \E n \in Nat : Story(d, p, n)'
    BY <2>1 DEF Same, History
  <2>3. PICK p \in Programs[d], n \in Nat : Within(d, p, n)
    BY <2>2 DEF AloneInv, History, Story
  <2>4. Within(d, p, n)' BY <2>1, <2>3 DEF Within, Same
  <2> QED BY <1>2, <2>4 DEF Story, Quiet
<1> QED BY <1>1, <1>2

\* What is shown stays shown as long as the map does, or the change is known.
LEMMA ShownStays ==
  ASSUME Control, NEW c \in Client, NEW p \in Programs[c], NEW n \in Nat,
         Within(c, p, n), Flushing(p), Shown(c, n), Kept(c),
         before'[c] = before[c], screen'[c] = screen[c],
         pc'[c] = "call" => pc[c] = "call"
  PROVE  Shown(c, n)'
<1>1. since[c] \subseteq since'[c] BY DEF Kept
<1>2. ASSUME n >= 1, NEW o \in Watched["display"] PROVE InPlace(c, "display", o, before[c][o])'
  <2>1. n # 0 /\ n \in DOMAIN p /\ p \in Seq(Function)
    <3>1. p \in Seq(Function) BY ModAssumption
    <3>2. n <= Len(p) BY DEF Within
    <3> QED BY <1>2, <3>1, <3>2, SMT
  <2>2. fn[c] = p[n] BY <2>1 DEF Within
  <2>3. fn[c] \in Shows BY <2>1, <2>2, OrderAssumption DEF Flushing
  <2>4. Concerned(c, "display") BY <2>3 DEF Concerned, Shows, None
  <2>5. InPlace(c, "display", o, before[c][o]) BY <1>2 DEF Shown
  <2> QED BY <1>1, <2>4, <2>5 DEF Kept, InPlace
<1> QED BY <1>1, <1>2 DEF Shown

\* What a program has called when nobody has mounted a file system.
LEMMA Called ==
  ASSUME NEW c \in Client, NEW p \in Programs[c], NEW n \in 1 .. Len(p),
         \A i \in 1 .. n : p[i] # "mount"
  PROVE  /\ p[n] \in Function /\ p[n] \notin FsCalls \cup FsLists \cup {"mount"}
         /\ p[n] = "lsmod_none" => n = Len(p)
<1>1. p \in Seq(Function) BY ModAssumption
<1>2. n \in DOMAIN p /\ 1 \in 1 .. n /\ n \in 1 .. n BY <1>1, SMT
<1>3. p[n] \in Function BY <1>1, <1>2
<1> QED BY <1>2, <1>3, OrderAssumption

\* A program that flushes always opens the display and reads it first.
LEMMA FlushingIs ==
  ASSUME NEW c \in Client, NEW p \in Programs[c], Flushing(p)
  PROVE  /\ p[1] = "display_open" /\ p[2] = "refresh"
         /\ \A j \in 1 .. Len(p) : p[j] \in Shows \ {"draw"}
<1>1. p \in Seq(Function) BY ModAssumption
<1>2. DOMAIN p = 1 .. Len(p) BY <1>1
<1> QED BY <1>2, OrderAssumption DEF Flushing

\* Its history is still told by the same functions.
OwnHistory(c) == History(c)'

LEMMA RunHistory ==
  ASSUME Control, NEW c \in Client, NEW p \in Programs[c], Run(c, p)
  PROVE  OwnHistory(c)
<1>1. p \in Seq(Function) BY ModAssumption
<1>2. script' = [script EXCEPT ![c] = p] /\ fn' = fn /\ pc[c] = "idle" BY DEF Run, Set, progVars
<1>3. script'[c] = p /\ fn'[c] = None BY <1>2 DEF Control, Types, Place
<1>4. Len(p) \in Nat /\ 0 <= Len(p) /\ Len(p) = Len(p) - 0 BY <1>1, SMT
<1>5. \A i \in 1 .. Len(p) : p[i] = p[0 + i] BY <1>4, SMT
<1>6. Within(c, p, 0)' BY <1>3, <1>4, <1>5 DEF Within
<1>7. 0 \in Nat /\ ~ (0 >= 1) /\ ~ (0 >= 3) /\ 0 # 2 /\ 1 .. 0 = {} BY SMT
<1>8. Story(c, p, 0)' BY <1>6, <1>7 DEF Story, Shown
<1> QED BY <1>7, <1>8 DEF OwnHistory, History

\* A step that goes on with its function.
LEMMA SameHistory ==
  ASSUME Control, NEW c \in Client, History(c), pc[c] # "idle",
         UNCHANGED <<script, fn, screen, before>>, Quiet' => Quiet, calm' => calm,
         Kept(c), pc'[c] # "call"
  PROVE  OwnHistory(c)
<1>1. PICK p \in Programs[c], n \in Nat : Story(c, p, n) BY DEF History
<1>2. Within(c, p, n)' BY <1>1 DEF Story, Within
<1>3. Quiet' /\ Flushing(p) => Shown(c, n)' BY <1>1, ShownStays DEF Story
<1>4. Story(c, p, n)' BY <1>1, <1>2, <1>3 DEF Story
<1> QED BY <1>4 DEF OwnHistory, History

\* Where a function begins.
LEMMA CallIs ==
  ASSUME Control, NEW c \in Client, Call(c)
  PROVE  /\ script[c] \in Seq(Function) /\ script[c] # <<>> /\ Head(script[c]) \in Function
         /\ fn'[c] = Head(script[c]) /\ pc'[c] \in {"return", "list", "find", "get", "put"}
         /\ fn'[c] = "lsmod" => pc'[c] = "list"
         /\ fn'[c] \notin FsCalls \cup {"fs_getattr"} => went'[c] = "well"
         /\ last'[c] = NoHandle /\ UNCHANGED <<open, err, maps, since, missed>>
<1> DEFINE f == Head(script[c])
           steps == IF (f = "flush" /\ ~dirty[c]) \/ Unlisted(c, f) THEN <<>> ELSE Steps(f)
<1>1. script[c] \in Seq(Function) /\ script[c] # <<>> BY DEF Control, Types, Call, Over
<1>2. f \in Function BY <1>1, SMT
<1>3. /\ Enter(c, steps) /\ fn' = [fn EXCEPT ![c] = f] /\ last' = [last EXCEPT ![c] = NoHandle]
      /\ went' = [went EXCEPT ![c] = IF Unlisted(c, f) THEN "unfound" ELSE "well"]
      /\ UNCHANGED <<open, err, maps, since, missed>>
  BY DEF Call, Set, brickVars
<1> HIDE DEF f
<1>4. /\ fn'[c] = f /\ last'[c] = NoHandle
      /\ went'[c] = (IF Unlisted(c, f) THEN "unfound" ELSE "well")
  BY <1>3 DEF Control, Types
<1>5. Unlisted(c, f) => f \in FsCalls \cup {"fs_getattr"} BY DEF Unlisted
<1>6. /\ steps = <<>> => pc'[c] = "return" 
      /\ steps # <<>> => pc'[c] = Head(steps).kind /\ steps = Steps(f)
  BY <1>3, EnterIs DEF Control
<1>7. steps # <<>> => /\ Head(steps).kind \in {"list", "find", "get", "put"}
                      /\ f = "lsmod" => Head(steps).kind = "list"
  <2> SUFFICES ASSUME steps # <<>>
               PROVE  /\ Head(steps).kind \in {"list", "find", "get", "put"}
                      /\ f = "lsmod" => Head(steps).kind = "list"
    OBVIOUS
  <2>1. Steps(f) # <<>> /\ steps = Steps(f) BY <1>6
  <2>2. Head(steps).kind = (IF f \in Lists THEN "list" ELSE
                            IF f \in FsCalls THEN Work(f).kind ELSE "find")
    BY <1>2, <2>1, FirstStep
  <2>3. f \in FsCalls => Work(f).kind \in {"get", "put"} BY WorkIs DEF Works
  <2>4. f = "lsmod" => f \in Lists BY DEF Lists
  <2> QED BY <2>2, <2>3, <2>4
<1>8. f = "lsmod" => steps # <<>>
  <2>1. f = "lsmod" => Steps(f) = <<List(All)>> BY <1>2, StepsAre
  <2>2. f = "lsmod" => Steps(f) # <<>> BY <2>1
  <2>3. f = "lsmod" => ~Unlisted(c, f) BY <1>5 DEF FsCalls
  <2> QED BY <2>2, <2>3
<1> QED BY <1>1, <1>2, <1>3, <1>4, <1>5, <1>6, <1>7, <1>8 DEF f

LEMMA CallHistory ==
  ASSUME Control, NEW c \in Client, History(c), Call(c)
  PROVE  OwnHistory(c)
<1> DEFINE f == Head(script[c])
<1>1. PICK p \in Programs[c], n \in Nat : Story(c, p, n) BY DEF History, Call
<1>2. script[c] \in Seq(Function) /\ script[c] # <<>> /\ pc[c] = "call" BY DEF Control, Types, Call, Over
<1>3. p \in Seq(Function) BY ModAssumption
<1>4. /\ script' = [script EXCEPT ![c] = Tail(script[c])] /\ fn' = [fn EXCEPT ![c] = f]
      /\ before' = (IF f = "display_open" THEN [before EXCEPT ![c] = maps["display"]] ELSE before)
      /\ screen' = (IF f = "draw" THEN [screen EXCEPT ![c] = Screen(1)] ELSE screen)
      /\ calm' = (calm /\ f # "mount") /\ missed' = missed /\ maps' = maps /\ since' = since
  BY DEF Call, Set, brickVars
<1>5. /\ script'[c] = Tail(script[c]) /\ fn'[c] = f
      /\ before'[c] = (IF f = "display_open" THEN maps["display"] ELSE before[c])
      /\ f # "draw" => screen'[c] = screen[c]
  BY <1>4 DEF Control, Types
<1>6. n + 1 \in 1 .. Len(p) /\ f = p[n + 1] /\ n + 1 # 0
  <2>1. /\ n <= Len(p) /\ Len(script[c]) = Len(p) - n
        /\ \A i \in 1 .. Len(script[c]) : script[c][i] = p[n + i]
    BY <1>1 DEF Story, Within
  <2>2. 1 \in 1 .. Len(script[c]) /\ f = script[c][1] BY <1>2, SMT
  <2>3. f = p[n + 1] BY <2>1, <2>2
  <2>4. n + 1 \in 1 .. Len(p) /\ n + 1 # 0 BY <1>2, <1>3, <2>1, <2>2, SMT
  <2> QED BY <2>3, <2>4
<1> HIDE DEF f
<1>7. Within(c, p, n + 1)'
  <2>1. /\ n <= Len(p) /\ Len(script[c]) = Len(p) - n
        /\ \A i \in 1 .. Len(script[c]) : script[c][i] = p[n + i]
    BY <1>1 DEF Story, Within
  <2> DEFINE s == Tail(script[c])
  <2>2. /\ Len(s) = Len(script[c]) - 1 /\ Len(script[c]) \in Nat /\ Len(p) \in Nat
        /\ \A i \in 1 .. Len(s) : s[i] = script[c][i + 1]
    BY <1>2, <1>3, SMT
  <2>3. Len(s) = Len(p) - (n + 1) /\ n + 1 <= Len(p) BY <1>6, <2>1, <2>2, SMT
  <2>4. ASSUME NEW i \in 1 .. Len(s) PROVE s[i] = p[(n + 1) + i]
    <3>1. i + 1 \in 1 .. Len(script[c]) /\ n + (i + 1) = (n + 1) + i BY <2>2, SMT
    <3>2. s[i] = script[c][i + 1] BY <2>2
    <3>3. script[c][i + 1] = p[n + (i + 1)] BY <2>1, <3>1
    <3> QED BY <3>1, <3>2, <3>3
  <2> HIDE DEF s
  <2>5. script'[c] = s BY <1>5 DEF s
  <2> QED BY <1>5, <1>6, <2>3, <2>4, <2>5 DEF Within
<1>8. calm' => \A i \in 1 .. (n + 1) : p[i] # "mount"
  <2>1. \A i \in 1 .. (n + 1) : i \in 1 .. n \/ i = n + 1 BY SMT
  <2> QED BY <1>1, <1>4, <1>6, <2>1 DEF Story
<1>9. ASSUME Quiet', Flushing(p) PROVE Shown(c, n + 1)'
  <2>1. Quiet /\ Shown(c, n) BY <1>1, <1>4, <1>9 DEF Quiet, Story
  <2>2. f \in Shows \ {"draw"} /\ (n = 0 => f = "display_open")
    <3>1. n = 0 => n + 1 = 1 BY SMT
    <3> QED BY <1>6, <1>9, <3>1, FlushingIs
  <2>3. n # 0 => n >= 1 BY SMT
  <2>4. ASSUME NEW o \in Watched["display"] PROVE InPlace(c, "display", o, before[c][o])'
    <3>1. maps'["display"][o] = before'[c][o] \/ <<"display", o>> \in since'[c]
      <4>1. CASE f = "display_open" BY <1>4, <1>5, <4>1
      <4>2. CASE f # "display_open"
        <5>1. InPlace(c, "display", o, before[c][o]) BY <2>1, <2>2, <2>3, <4>2 DEF Shown
        <5> QED BY <1>4, <1>5, <4>2, <5>1 DEF InPlace
      <4> QED BY <4>1, <4>2
    <3> QED BY <3>1 DEF InPlace
  <2>5. ASSUME n + 1 >= 3 \/ (n + 1 = 2 /\ pc'[c] = "call"), NEW o \in Watched["display"]
        PROVE screen'[c][o] = before'[c][o] \/ <<"display", o>> \in since'[c]
    <3>1. pc'[c] # "call" BY CallIs
    <3>2. n + 1 >= 3 => (n >= 3 \/ n = 2) /\ n >= 1 BY SMT
    <3>3. screen[c][o] = before[c][o] \/ <<"display", o>> \in since[c]
      BY <1>2, <2>1, <2>5, <3>1, <3>2 DEF Shown
    <3>4. InPlace(c, "display", o, before[c][o]) BY <2>1, <2>5, <3>1, <3>2 DEF Shown
    <3>5. screen'[c] = screen[c] BY <1>5, <2>2
    <3> QED BY <1>4, <1>5, <3>3, <3>4, <3>5 DEF InPlace
  <2> QED BY <2>4, <2>5 DEF Shown
<1>10. Story(c, p, n + 1)' BY <1>7, <1>8, <1>9 DEF Story
<1>11. n + 1 \in Nat BY SMT
<1> QED BY <1>10, <1>11 DEF OwnHistory, History

\* The picture is read when a program refreshes.
LEMMA ReturnHistory ==
  ASSUME ExactInv, NEW c \in Client, History(c), Return(c), Quiet => Untroubled(c)
  PROVE  OwnHistory(c)
<1> USE DEF ExactInv
<1>1. PICK p \in Programs[c], n \in Nat : Story(c, p, n) BY DEF History, Return
<1>2. /\ pc[c] = "return" /\ UNCHANGED <<maps, script, fn, missed, calm, before, since>>
      /\ screen' = (IF fn[c] = "refresh" /\ went[c] # "unfound"
                    THEN [screen EXCEPT ![c] = buf[c]] ELSE screen)
  BY DEF Return, Set, brickVars
<1>3. Within(c, p, n)' /\ (calm' => \A i \in 1 .. n : p[i] # "mount")
  BY <1>1, <1>2 DEF Story, Within
<1>4. ASSUME Quiet', Flushing(p) PROVE Shown(c, n)'
  <2>1. Quiet /\ Shown(c, n) BY <1>1, <1>2, <1>4 DEF Quiet, Story
  <2>2. went[c] = "well" BY <1>2, <2>1 DEF Untroubled, Outcome
  <2>3. n >= 1 => \A o \in Watched["display"] : InPlace(c, "display", o, before[c][o])
    BY <2>1 DEF Shown
  <2>4. ASSUME n >= 3 \/ n = 2, NEW o \in Watched["display"]
        PROVE screen'[c][o] = before'[c][o] \/ <<"display", o>> \in since'[c]
    <3>1. CASE fn[c] = "refresh"
      <4>1. fn[c] \in Gets \cap Shows BY <3>1 DEF Gets, Shows
      <4>2. Ended(c) BY <1>2, <2>2, <4>1 DEF Ended
      <4>3. fn[c] \in Works BY <3>1 DEF Works, Finders
      <4>4. Work(fn[c]).mod = "display" BY <4>1, <4>3, WorkIs
      <4>5. buf[c][o] # Junk BY <2>1, <4>1, <4>2, PictureRead DEF Quiet
      <4>6. InPlace(c, "display", o, buf[c][o]) BY <4>1, <4>2, <4>4, <4>5 DEF Exact
      <4>7. n >= 1 BY <2>4, SMT
      <4>8. screen'[c] = buf[c] BY <1>2, <2>2, <3>1 DEF Control, Types
      <4> QED BY <1>2, <2>3, <4>6, <4>7, <4>8 DEF InPlace
    <3>2. CASE fn[c] # "refresh"
      <4>1. n # 2
        <5>1. n = 2 => fn[c] = p[2] BY <1>1 DEF Story, Within
        <5> QED BY <1>4, <3>2, <5>1, FlushingIs
      <4>2. screen[c][o] = before[c][o] \/ <<"display", o>> \in since[c]
        BY <2>1, <2>4, <4>1 DEF Shown
      <4> QED BY <1>2, <3>2, <4>2
    <3> QED BY <3>1, <3>2
  <2>5. n >= 1 => \A o \in Watched["display"] : InPlace(c, "display", o, before[c][o])'
    BY <1>2, <2>3 DEF InPlace
  <2> QED BY <2>4, <2>5 DEF Shown
<1>5. Story(c, p, n)' BY <1>3, <1>4 DEF Story
<1> QED BY <1>5 DEF OwnHistory, History

\* A program that flushes always flushes what it has read.
LEMMA WriteHistory ==
  ASSUME Control, NEW c \in Client, History(c), NEW way \in Ways, Write(c, way),
         Quiet' => Quiet
  PROVE  OwnHistory(c)
<1>1. PICK p \in Programs[c], n \in Nat : Story(c, p, n) BY DEF History, Write
<1>2. /\ pc[c] = "put" /\ Moving(c) /\ UNCHANGED <<script, fn, screen, calm, before>>
      /\ maps' \in {maps, WriteMaps(c)} /\ since[c] \subseteq since'[c]
  BY DEF Write, WriteMaps, shownVars, Moving
<1>3. Within(c, p, n)' /\ (calm' => \A i \in 1 .. n : p[i] # "mount")
  BY <1>1, <1>2 DEF Story, Within
<1>4. ASSUME Quiet', Flushing(p) PROVE Shown(c, n)'
  <2>1. Quiet /\ Shown(c, n) BY <1>1, <1>4 DEF Story
  <2>2. fn[c] \in Works /\ fn[c] \notin Gets
    BY <1>2, WorkIs DEF Control, Place
  <2>3. n # 0 /\ fn[c] = p[n]
    <3>1. fn[c] # None BY <2>2 DEF Works, Finders, FsCalls, None
    <3> QED BY <1>1, <3>1 DEF Story, Within
  <2>4. n \in 1 .. Len(p) /\ (n >= 3 \/ n = 1 \/ n = 2)
    <3>1. p \in Seq(Function) /\ n <= Len(p) BY <1>1, ModAssumption DEF Story, Within
    <3> QED BY <2>3, <3>1, SMT
  <2>5. n >= 3
    <3>1. p[1] \notin Works BY <1>4, FlushingIs DEF Works, Finders, FsCalls
    <3>2. p[2] \in Gets BY <1>4, FlushingIs DEF Gets
    <3> QED BY <2>2, <2>3, <2>4, <3>1, <3>2
  <2>6. \A o \in Watched["display"] : screen[c][o] = before[c][o] \/ <<"display", o>> \in since[c]
    BY <2>1, <2>5 DEF Shown
  <2>7. \A o \in Watched["display"] : InPlace(c, "display", o, before[c][o])
    <3>1. n >= 1 BY <2>5, SMT
    <3> QED BY <2>1, <3>1 DEF Shown
  <2>8. fn[c] \in Shows BY <1>4, <2>3, <2>4, FlushingIs
  <2>9. Target(c) = "display" BY <1>2, <2>2, <2>8, PieceIs, WorkIs
  <2>10. ASSUME NEW o \in Watched["display"]
         PROVE maps'["display"][o] \in {maps["display"][o], screen[c][o]}
    <3>1. Data(c, o) = screen[c][o] BY <1>2, <2>9, DataIs
    <3>2. "display" \in Mods BY Numbers
    <3> QED BY <1>2, <3>1, <3>2, WriteMapsIs
  <2>11. \A o \in Watched["display"] : InPlace(c, "display", o, before[c][o])'
    BY <1>2, <2>6, <2>7, <2>10 DEF InPlace
  <2>12. \A o \in Watched["display"] : screen'[c][o] = before'[c][o] \/ <<"display", o>> \in since'[c]
    BY <1>2, <2>6
  <2> QED BY <2>11, <2>12 DEF Shown
<1>5. Story(c, p, n)' BY <1>3, <1>4 DEF Story
<1> QED BY <1>5 DEF OwnHistory, History

LEMMA OwnHistoryIs ==
  ASSUME AloneInv, NEW c \in Client, ClientStep(c)
  PROVE  OwnHistory(c)
<1>1. Control /\ Types /\ ExactInv /\ History(c) /\ (Quiet => Untroubled(c))
  BY DEF AloneInv, ExactInv, Control
<1>2. (Quiet' => Quiet) /\ (calm' => calm) BY <1>1, StepRuns, StepKeeps DEF Quiet
<1>3. ASSUME NEW p \in Programs[c], Run(c, p) PROVE OwnHistory(c) BY <1>1, <1>3, RunHistory
<1>4. CASE Exit(c)
  <2>1. pc' = [pc EXCEPT ![c] = "idle"] BY <1>4 DEF Exit, Set
  <2>2. pc'[c] = "idle" BY <1>1, <2>1 DEF Types
  <2> QED BY <2>2 DEF OwnHistory, History
<1>5. CASE Call(c) BY <1>1, <1>5, CallHistory
<1>6. CASE Return(c) BY <1>1, <1>6, ReturnHistory
<1>7. CASE Writes(c) BY <1>1, <1>2, <1>7, WriteHistory DEF Writes
<1>8. ASSUME ~Writes(c), pc[c] # "idle", pc'[c] \notin {"idle", "call"},
             UNCHANGED <<script, fn, screen, before>>
      PROVE  OwnHistory(c)
  <2>1. maps' = maps /\ since' = since BY <1>1, <1>8, StepKeeps
  <2>2. Kept(c) BY <2>1 DEF Kept
  <2> QED BY <1>1, <1>2, <1>8, <2>2, SameHistory
<1> USE DEF listVars, shownVars
<1>9. ASSUME ~Writes(c), NEW way \in Ways, FindFirst(c, way) PROVE OwnHistory(c)
  <2>1. pc[c] = "find" /\ UNCHANGED <<script, fn, screen, before>> BY <1>9 DEF FindFirst
  <2>2. pc' = [pc EXCEPT ![c] = "found"] \/ Fail(c, "unfound") BY <1>9 DEF FindFirst, Set
  <2>3. pc'[c] \in {"found", "return"} BY <1>1, <2>2, FailIs DEF Types
  <2> QED BY <1>8, <1>9, <2>1, <2>3
<1>10. ASSUME ~Writes(c), ListEnd(c) PROVE OwnHistory(c)
  <2>1. pc[c] = "listed" /\ UNCHANGED <<script, fn, screen, before>>
    BY <1>10 DEF ListEnd, ghosts
  <2>2. Done(c) \/ pc' = [pc EXCEPT ![c] = "list_close"] \/ Fail(c, "unfound")
    BY <1>10 DEF ListEnd, Set
  <2>3. pc'[c] \notin {"idle", "call"}
    <3>1. CASE Done(c)
      <4>1. fn[c] \in Finders => fn[c] \in Works BY DEF Works
      <4> QED BY <1>1, <2>1, <3>1, <4>1, DoneIs, WorkIs
    <3>2. CASE pc' = [pc EXCEPT ![c] = "list_close"] BY <1>1, <3>2 DEF Types
    <3>3. CASE Fail(c, "unfound") BY <1>1, <3>3, FailIs
    <3> QED BY <2>2, <3>1, <3>2, <3>3
  <2> QED BY <1>8, <1>10, <2>1, <2>3
<1>11. ASSUME ~Writes(c), NEW way \in Ways, FindClose(c, way) \/ ListLastClose(c, way)
       PROVE  OwnHistory(c)
  <2>1. /\ pc[c] \in {"found", "list_close"} /\ UNCHANGED <<script, fn, screen, before>>
        /\ Done(c)
    BY <1>11 DEF FindClose, ListLastClose
  <2>2. fn[c] \in Finders => fn[c] \in Works BY DEF Works
  <2>3. pc'[c] \in {"get", "put", "return"} BY <1>1, <2>1, <2>2, DoneIs, WorkIs
  <2> QED BY <1>8, <1>11, <2>1, <2>3
<1>12. ASSUME ~Writes(c), NEW way \in Ways, ListFirst(c, way) \/ ListNext(c, way) \/ ListClose(c, way)
       PROVE  OwnHistory(c)
  <2>1. /\ pc[c] \in Listing /\ UNCHANGED <<script, fn, screen, before>>
        /\ \E q \in Listing : pc' = [pc EXCEPT ![c] = q]
    BY <1>12 DEF ListFirst, ListNext, ListClose, Listing, Set
  <2>2. pc'[c] \in Listing BY <1>1, <2>1 DEF Types
  <2> QED BY <1>8, <1>12, <2>1, <2>2 DEF Listing
<1>13. ASSUME ~Writes(c), NEW way \in Ways, Read(c, way) PROVE OwnHistory(c)
  <2>1. pc[c] = "get" /\ UNCHANGED <<script, fn, screen, before>> BY <1>13 DEF Read
  <2>2. PICK st \in MoveStatuses(c) : \E bytes : Moved(c, Good(way, st), bytes) BY <1>13 DEF Read
  <2>3. pc' = pc \/ pc' = [pc EXCEPT ![c] = "return"] BY <2>2 DEF Moved, Fail, Set
  <2>4. pc'[c] \in {"get", "return"} BY <1>1, <2>1, <2>3 DEF Types
  <2> QED BY <1>8, <1>13, <2>1, <2>4
<1> QED BY <1>3, <1>4, <1>5, <1>6, <1>7, <1>9, <1>10, <1>11, <1>12, <1>13 DEF ClientStep, Writes

-----------------------------------------------------------------------------
(* A program that has had no trouble has none in its next step.             *)

\* All handles but those that the program uses are free.
LEMMA AllFree ==
  ASSUME Types, OnlyOpen({})
  PROVE  Free = Handle /\ Lowest = 0
<1>1. Free = Handle BY DEF Free, OnlyOpen
<1>2. 0 \in Handle BY Numbers
<1>3. Lowest \in Handle /\ Lowest <= 0 BY <1>1, <1>2, LowestIsFree
<1>4. Lowest = 0
  <2> HIDE DEF Lowest
  <2> QED BY <1>3, SMT DEF Handle
<1> QED BY <1>1, <1>4

\* What a telegram does that was answered.
LEMMA AnsweredIs ==
  ASSUME Types, NEW c \in Client, NEW way \in Ways, NEW status, Telegram(c, way, status), missed' = 0
  PROVE  /\ way = "answered" /\ Carried(way) /\ (Good(way, status) <=> status = "ok")
         /\ err'[c] = IF status = "ok" THEN err[c] ELSE status
<1>1. way = "answered" /\ (Good(way, status) <=> status = "ok") BY Answered
<1> QED BY <1>1 DEF Telegram, Set, Types, Carried

\* Nobody has mounted a file system, and a list of no modules is the last that
\* is asked for.
LEMMA CalmIs ==
  ASSUME Control, NEW c \in Client, History(c), calm, fn[c] # None, pc[c] # "idle"
  PROVE  /\ fn[c] \in Function /\ fn[c] \notin FsCalls \cup FsLists \cup {"mount"}
         /\ pc[c] = "call" /\ fn[c] = "lsmod_none" => script[c] = <<>>
<1>1. PICK p \in Programs[c], n \in Nat : Story(c, p, n) BY DEF History
<1>2. p \in Seq(Function) /\ n <= Len(p) BY <1>1, ModAssumption DEF Story, Within
<1>3. n # 0 /\ fn[c] = p[n] BY <1>1 DEF Story, Within
<1>4. n \in 1 .. Len(p) BY <1>2, <1>3, SMT
<1>5. /\ p[n] \in Function /\ p[n] \notin FsCalls \cup FsLists \cup {"mount"}
      /\ p[n] = "lsmod_none" => n = Len(p)
  BY <1>1, <1>4, Called DEF Story
<1>6. ASSUME n = Len(p) PROVE script[c] = <<>>
  <2>1. script[c] \in Seq(Function) /\ Len(script[c]) = Len(p) - n /\ Len(p) \in Nat
    BY <1>1, <1>2, SMT DEF Control, Types, Story, Within
  <2> QED BY <1>6, <2>1, SMT
<1> QED BY <1>3, <1>5, <1>6

\* What a program that runs alone does next.
Going(c) ==
  /\ Quiet' /\ Quiet /\ Control /\ History(c) /\ Untroubled(c) /\ pc[c] # "idle"
  /\ Types' /\ Place(c)'

LEMMA RunGoes ==
  ASSUME Control, NEW c \in Client, NEW p \in Programs[c], Run(c, p), OnlyOpen({})
  PROVE  Untroubled(c)'
<1>1. pc' = [pc EXCEPT ![c] = "call"] /\ UNCHANGED <<open, fn, err, went, res, found>> /\ pc[c] = "idle"
  BY DEF Run, Set, brickVars, listVars
<1>2. /\ pc'[c] = "call" /\ fn'[c] = None /\ err'[c] = None /\ went'[c] = "well" /\ res'[c] = 0
  BY <1>1 DEF Control, Types, Place
<1>3. OnlyOpen({})' BY <1>1 DEF OnlyOpen
<1> QED BY <1>2, <1>3 DEF Untroubled, Handles, Outcome, None

LEMMA CallGoes ==
  ASSUME NEW c \in Client, Going(c), Call(c), History(c)'
  PROVE  Untroubled(c)'
<1> USE DEF Going
<1>1. /\ pc[c] = "call" /\ script[c] # <<>> /\ Head(script[c]) \in Function
      /\ fn'[c] = Head(script[c]) /\ pc'[c] \in {"return", "list", "find", "get", "put"}
      /\ fn'[c] = "lsmod" => pc'[c] = "list"
      /\ fn'[c] \notin FsCalls \cup {"fs_getattr"} => went'[c] = "well"
      /\ last'[c] = NoHandle /\ UNCHANGED <<open, err>>
  BY CallIs DEF Call
<1>2. err[c] = None
  <2>1. fn[c] = "lsmod_none" => fn[c] # None BY DEF None
  <2>2. fn[c] # "lsmod_none" BY <1>1, <2>1, CalmIs DEF Quiet
  <2> QED BY <1>1, <2>2 DEF Untroubled, Outcome
<1>3. went'[c] = "well"
  <2>1. PICK p \in Programs[c], n \in Nat : Story(c, p, n)' BY <1>1 DEF History
  <2>2. fn'[c] # None BY <1>1 DEF Function, Shows, FsCalls, FsLists, None
  <2>3. n # 0 /\ fn'[c] = p[n] /\ n <= Len(p) BY <2>1, <2>2 DEF Story, Within
  <2>4. n \in 1 .. Len(p)
    <3>1. p \in Seq(Function) BY ModAssumption
    <3> QED BY <2>3, <3>1, SMT
  <2>5. p[n] \notin FsCalls \cup FsLists BY <2>1, <2>4, Called DEF Story, Quiet
  <2> QED BY <1>1, <2>3, <2>5 DEF FsLists
<1>4. OnlyOpen({})' BY <1>1 DEF OnlyOpen, Untroubled, Handles
<1> QED BY <1>1, <1>2, <1>3, <1>4 DEF Untroubled, Handles, Outcome

LEMMA ReturnGoes ==
  ASSUME NEW c \in Client, Going(c), Return(c)
  PROVE  Untroubled(c)'
<1> USE DEF Going
<1>1. /\ pc[c] = "return" /\ pc' = [pc EXCEPT ![c] = "call"] /\ went' = [went EXCEPT ![c] = "well"]
      /\ UNCHANGED <<open, fn, err, found>> /\ \E r \in Results(c) : res' = [res EXCEPT ![c] = r]
  BY DEF Return, Set, brickVars, listVars
<1>2. fn[c] \in Function /\ fn[c] # None
  BY <1>1 DEF Control, Place, Function, Shows, FsCalls, FsLists, None
<1>3. fn[c] \notin FsCalls /\ fn[c] \notin FsLists BY <1>1, <1>2, CalmIs DEF Quiet
<1>4. went[c] = "well" /\ OnlyOpen({}) BY <1>1 DEF Untroubled, Handles, Outcome
<1>5. Results(c) = {0} BY <1>3, <1>4 DEF Results
<1>6. pc'[c] = "call" /\ went'[c] = "well" /\ res'[c] = 0 BY <1>1, <1>5 DEF Control, Types
<1>7. OnlyOpen({})' BY <1>1, <1>4 DEF OnlyOpen
<1> QED BY <1>1, <1>6, <1>7 DEF Untroubled, Handles, Outcome

\* nxt_mod_get_id gets handle 0.
LEMMA FindFirstGoes ==
  ASSUME NEW c \in Client, Going(c), NEW way \in Ways, FindFirst(c, way)
  PROVE  Untroubled(c)'
<1> USE DEF Going
<1> DEFINE mod == Head(todo[c]).mod
           list == Matching(mod)
<1>1. pc[c] = "find" /\ FirstMod(c, list, way) BY DEF FindFirst
<1>2. UNCHANGED <<fn, res, found, last>> BY DEF FindFirst, listVars
<1>3. fn[c] \in Finders \cup {"display_open"} /\ todo[c] = Steps(fn[c]) /\ fn[c] \in Function
  BY <1>1 DEF Control, Place
<1>4. mod \in {"ui", "display"}
  <2>1. Steps(fn[c]) # <<>> BY <1>3, StepsAre
  <2>2. fn[c] \in Finders => mod = Work(fn[c]).mod BY <1>3, <2>1, FirstStep
  <2>3. fn[c] \in Finders => Work(fn[c]).mod \in {"ui", "display"} BY WorkIs DEF Works
  <2>4. fn[c] = "display_open" => mod = "display" BY <1>3, <2>1, FirstStep
  <2> QED BY <1>3, <2>2, <2>3, <2>4
<1>5. OnlyOpen({}) /\ err[c] = None /\ went[c] = "well" BY <1>1 DEF Untroubled, Handles, Outcome
<1>6. Free = Handle /\ Lowest = 0 /\ 0 \in Handle BY <1>5, AllFree, Numbers DEF Control
<1>7. list = <<mod>> /\ list # <<>> BY <1>4, Numbers DEF Matching
<1> HIDE DEF mod, list
<1>8. OpenStatus(list) = "ok" BY <1>6, <1>7 DEF OpenStatus
<1>9. Carried(way) /\ Good(way, OpenStatus(list)) /\ err'[c] = None
  BY <1>1, <1>5, <1>8, AnsweredIs DEF FirstMod, Quiet, Control
<1>10. open' = [open EXCEPT ![0] = list] BY <1>1, <1>6, <1>8, <1>9 DEF FirstMod, Opened
<1>11. pc' = [pc EXCEPT ![c] = "found"] /\ UNCHANGED went
  BY <1>6, <1>9 DEF FindFirst, Set, list, mod
<1>12. pc'[c] = "found" /\ went'[c] = "well" BY <1>5, <1>11 DEF Control, Types
<1>13. OnlyOpen({0})' /\ open'[0] # <<>>
  BY <1>5, <1>6, <1>7, <1>10 DEF OnlyOpen, Control, Types
<1> QED BY <1>9, <1>12, <1>13 DEF Untroubled, Handles, Outcome

\* A handle that is open is closed.
LEMMA CloseGoes ==
  ASSUME Types, NEW c \in Client, NEW h \in Handle, open[h] # <<>>, NEW way \in Ways,
         Close(c, h, way), missed' = 0
  PROVE  /\ open'[h] = <<>> /\ err'[c] = err[c]
         /\ \A k \in Handle : k # h => open'[k] = open[k]
<1>1. Telegram(c, way, "ok") BY DEF Close
<1>2. Carried(way) /\ err'[c] = err[c] BY <1>1, AnsweredIs
<1>3. open' = [open EXCEPT ![h] = <<>>] BY <1>2 DEF Close
<1>4. \A k \in Handle : k # h => open'[k] = open[k] BY <1>3 DEF Types
<1>5. open'[h] = <<>> BY <1>3 DEF Types
<1> QED BY <1>2, <1>4, <1>5

LEMMA FindCloseGoes ==
  ASSUME NEW c \in Client, Going(c), NEW way \in Ways, FindClose(c, way)
  PROVE  Untroubled(c)'
<1> USE DEF Going
<1>1. pc[c] = "found" /\ Close(c, 0, way) /\ Done(c) /\ UNCHANGED <<fn, res, found, last>>
  BY DEF FindClose, listVars
<1>2. /\ OnlyOpen({0}) /\ open[0] # <<>> /\ err[c] = None /\ went[c] = "well"
      /\ fn[c] \in Finders \cup {"display_open"}
  BY <1>1 DEF Untroubled, Handles, Outcome, Control, Place
<1>3. 0 \in Handle BY Numbers
<1>4. OnlyOpen({})' /\ err'[c] = None
  BY <1>1, <1>2, <1>3, CloseGoes DEF Quiet, Control, OnlyOpen
<1>5. pc'[c] \in {"get", "put", "return"} /\ went'[c] = "well"
  <2>1. fn[c] \in Finders => Work(fn[c]).kind \in {"get", "put"} BY WorkIs DEF Works
  <2> QED BY <1>1, <1>2, <2>1, DoneIs
<1>6. fn'[c] # "lsmod" BY <1>1, <1>2 DEF Finders
<1> QED BY <1>4, <1>5, <1>6 DEF Untroubled, Handles, Outcome

\* Reads and writes of what is in the map succeed.
LEMMA MoveGoes ==
  ASSUME NEW c \in Client, Going(c), NEW way \in Ways, Read(c, way) \/ Write(c, way)
  PROVE  Untroubled(c)'
<1> USE DEF Going
<1>1. Moving(c) /\ UNCHANGED <<open, fn, res, found, last>>
  BY DEF Read, Write, Moving, brickVars, listVars
<1>2. PICK st \in MoveStatuses(c) : Telegram(c, way, st) /\ \E bytes : Moved(c, Good(way, st), bytes)
  BY DEF Read, Write
<1>3. fn[c] \in Works /\ fn[c] # None
  BY <1>1 DEF Control, Place, Works, Finders, FsCalls, None
<1>4. fn[c] \in Finders BY <1>1, <1>3, CalmIs DEF Works, Quiet, Moving
<1>5. st = "ok" BY <1>1, <1>2, <1>4, InMapIs DEF MoveStatuses
<1>6. OnlyOpen({}) /\ err[c] = None /\ went[c] = "well"
  BY <1>1, <1>4 DEF Moving, Untroubled, Handles, Outcome, Finders
<1>7. Good(way, st) /\ err'[c] = None
  BY <1>2, <1>5, <1>6, AnsweredIs DEF Quiet, Control
<1>8. UNCHANGED went /\ (pc' = pc \/ pc' = [pc EXCEPT ![c] = "return"])
  BY <1>2, <1>7 DEF Moved, Set
<1>9. pc'[c] \in {"get", "put", "return"} /\ went'[c] = "well"
  BY <1>1, <1>6, <1>8 DEF Control, Types, Moving
<1>10. OnlyOpen({})' BY <1>1, <1>6 DEF OnlyOpen
<1>11. fn'[c] # "lsmod" BY <1>1, <1>4 DEF Finders
<1> QED BY <1>7, <1>9, <1>10, <1>11 DEF Untroubled, Handles, Outcome

\* A list begins with its first module.
LEMMA ListFirstGoes ==
  ASSUME NEW c \in Client, Going(c), NEW way \in Ways, ListFirst(c, way)
  PROVE  Untroubled(c)'
<1> USE DEF Going
<1> DEFINE mod == Head(todo[c]).mod
           list == Matching(mod)
<1>1. pc[c] = "list" /\ FirstMod(c, list, way) /\ UNCHANGED <<fn, res, went>> BY DEF ListFirst
<1>2. /\ fn[c] \in Lists /\ todo[c] = Steps(fn[c]) /\ fn[c] \in Function /\ fn[c] # None
  BY <1>1 DEF Control, Place, Listing, Lists, None
<1>3. fn[c] \in {"lsmod", "lsmod_none"} BY <1>1, <1>2, CalmIs DEF Lists, Quiet
<1>4. mod = (IF fn[c] = "lsmod" THEN All ELSE None)
  <2>1. Steps(fn[c]) # <<>> BY <1>2, <1>3, StepsAre
  <2> QED BY <1>2, <1>3, <2>1, FirstStep
<1>5. OnlyOpen({}) /\ err[c] = None /\ went[c] = "well" /\ last[c] = NoHandle
  BY <1>1 DEF Untroubled, Handles, Outcome
<1>6. Free = Handle /\ Lowest = 0 /\ 0 \in Handle BY <1>5, AllFree, Numbers DEF Control
<1>7. CASE fn[c] = "lsmod"
  <2>1. list = Modules BY <1>4, <1>7 DEF Matching
  <2>2. Modules \in Seq(Mods) /\ Modules # <<>>
    <3>1. "ui" \in Mods BY Numbers
    <3>2. Modules # <<>>
      <4>1. Modules = <<>> => Mods = {} BY SMT DEF Mods
      <4> QED BY <3>1, <4>1
    <3> QED BY <3>2, ModAssumption
  <2>3. OpenStatus(list) = "ok" BY <1>6, <2>1, <2>2 DEF OpenStatus
  <2>4. Carried(way) /\ Good(way, OpenStatus(list)) /\ err'[c] = None
    BY <1>1, <1>5, <2>3, AnsweredIs DEF FirstMod, Quiet, Control
  <2>5. open' = [open EXCEPT ![0] = Modules]
    BY <1>1, <1>6, <2>1, <2>3, <2>4 DEF FirstMod, Opened
  <2>6. /\ pc' = [pc EXCEPT ![c] = "next"] /\ last' = [last EXCEPT ![c] = 0]
        /\ found' = [found EXCEPT ![c] = <<Head(Modules)>>]
    BY <1>6, <2>1, <2>4 DEF ListFirst, Set
  <2>7. pc'[c] = "next" /\ last'[c] = 0 /\ found'[c] = <<Head(Modules)>> /\ open'[0] = Modules
    BY <1>6, <2>6, <2>5 DEF Control, Types
  <2>8. OnlyOpen({0})' BY <1>5, <2>5 DEF OnlyOpen, Control, Types
  <2>9. Rest(c, 0)'
    <3>1. /\ Len(<<Head(Modules)>>) = 1 /\ 1 \in 1 .. Len(Modules)
          /\ \A i \in 1 .. 1 : <<Head(Modules)>>[i] = Modules[i]
          /\ Len(Modules) = Len(Modules) - 1 + 1
          /\ \A i \in 1 .. Len(Modules) : Modules[i] = Modules[1 + i - 1]
      BY <2>2, SMT
    <3> QED BY <2>7, <3>1 DEF Rest
  <2> QED BY <1>1, <1>5, <1>7, <2>4, <2>7, <2>8, <2>9 DEF Untroubled, Handles, Outcome
<1>8. CASE fn[c] = "lsmod_none"
  <2>1. list = <<>>
    <3>1. mod = None /\ None \notin Mods /\ None # All BY <1>4, <1>8, Numbers DEF None, All
    <3> QED BY <3>1 DEF Matching
  <2>2. OpenStatus(list) = "module_not_found" BY <2>1 DEF OpenStatus
  <2>3. ~Good(way, OpenStatus(list)) /\ err'[c] = "module_not_found"
    BY <1>1, <2>2, AnsweredIs DEF FirstMod, Quiet, Control
  <2>4. pc' = [pc EXCEPT ![c] = "listed"] /\ UNCHANGED <<last, found>>
    BY <2>3 DEF ListFirst, Set
  <2>5. open' = open BY <1>1, <2>2 DEF FirstMod
  <2>6. pc'[c] = "listed" /\ last'[c] = NoHandle /\ OnlyOpen({})'
    BY <1>5, <2>4, <2>5 DEF Control, Types, OnlyOpen
  <2> QED BY <1>1, <1>5, <1>8, <2>3, <2>6 DEF Untroubled, Handles, Outcome
<1> QED BY <1>3, <1>7, <1>8

\* The rest of a list after its first module.
LEMMA RestGoes ==
  ASSUME Types, NEW c \in Client, NEW h \in Handle, Rest(c, h)
  PROVE  LET list == Tail(open[h])
             more == Append(found[c], Head(list)) IN
           /\ open[h] # <<>> /\ list \in Seq(Mods)
           /\ list = <<>> => found[c] = Modules
           /\ list # <<>> =>
                /\ Len(more) \in 1 .. Len(Modules)
                /\ \A i \in 1 .. Len(more) : more[i] = Modules[i]
                /\ Len(list) = Len(Modules) - Len(more) + 1
                /\ \A i \in 1 .. Len(list) : list[i] = Modules[Len(more) + i - 1]
<1> DEFINE rest == open[h]
           list == Tail(rest)
           fs == found[c]
           k == Len(fs)
           L == Len(Modules)
           more == Append(fs, Head(list))
<1>1. rest \in Seq(Mods) /\ fs \in Seq(Mods) /\ Modules \in Seq(Mods) BY ModAssumption DEF Types
<1>2. /\ k \in 1 .. L /\ \A i \in 1 .. k : fs[i] = Modules[i]
      /\ Len(rest) = L - k + 1 /\ \A i \in 1 .. Len(rest) : rest[i] = Modules[k + i - 1]
  BY DEF Rest
<1> HIDE DEF rest, fs
<1>3. k \in Nat /\ L \in Nat /\ Len(rest) \in Nat BY <1>1, SMT
<1>4. Len(rest) >= 1 BY <1>2, <1>3, SMT
<1>5. rest # <<>> BY <1>1, <1>4, SMT
<1>6. list \in Seq(Mods) /\ Len(list) = Len(rest) - 1 /\ \A i \in 1 .. Len(list) : list[i] = rest[i + 1]
  BY <1>1, <1>5, SMT
<1>7. ASSUME list = <<>> PROVE fs = Modules
  <2>0. Len(list) = 0
    <3> HIDE DEF list
    <3> QED BY <1>7, SMT
  <2>1. k = L
    <3> HIDE DEF list, k, L
    <3> QED BY <1>2, <1>3, <1>6, <2>0, SMT
  <2>2. \A i \in 1 .. k : fs[i] = Modules[i] BY <1>2
  <2> QED BY <1>1, <2>1, <2>2, SMT
<1>8. ASSUME list # <<>>
      PROVE  /\ Len(more) \in 1 .. L /\ \A i \in 1 .. Len(more) : more[i] = Modules[i]
             /\ Len(list) = L - Len(more) + 1
             /\ \A i \in 1 .. Len(list) : list[i] = Modules[Len(more) + i - 1]
  <2>1. Len(list) >= 1 /\ Len(list) \in Nat /\ Head(list) = list[1] /\ 1 \in 1 .. Len(list)
    BY <1>6, <1>8, SMT
  <2>2. Head(list) \in Mods BY <1>6, <1>8, SMT
  <2>3. /\ Len(more) = k + 1 /\ more[k + 1] = Head(list)
        /\ \A i \in 1 .. k : more[i] = fs[i]
    <3> DEFINE e == Head(list)
    <3> HIDE DEF e, list
    <3>1. e \in Mods BY <2>2 DEF e
    <3>2. /\ Len(Append(fs, e)) = k + 1 /\ Append(fs, e)[k + 1] = e
          /\ \A i \in 1 .. k : Append(fs, e)[i] = fs[i]
      BY <1>1, <3>1, SMT
    <3> QED BY <3>2 DEF e
  <2>4. Len(list) = L - k /\ k + 1 \in 1 .. L BY <1>2, <1>3, <1>6, <2>1, SMT
  <2>5. \A i \in 1 .. Len(list) : list[i] = Modules[k + i]
    <3>1. ASSUME NEW i \in 1 .. Len(list) PROVE list[i] = Modules[k + i]
      <4>1. i + 1 \in 1 .. Len(rest) /\ k + (i + 1) - 1 = k + i
        BY <1>3, <1>6, SMT
      <4>2. rest[i + 1] = Modules[k + (i + 1) - 1] BY <1>2, <4>1
      <4> QED BY <1>6, <4>1, <4>2
    <3> QED BY <3>1
  <2>6. Head(list) = Modules[k + 1] BY <2>1, <2>5
  <2>7. \A i \in 1 .. (k + 1) : more[i] = Modules[i]
    <3>1. \A i \in 1 .. (k + 1) : i \in 1 .. k \/ i = k + 1 BY <1>3, SMT
    <3> QED BY <1>2, <2>3, <2>6, <3>1
  <2>8. \A i \in 1 .. Len(list) : k + i = (k + 1) + i - 1 BY <1>3, <2>1, SMT
  <2>9. L - k = L - (k + 1) + 1 BY <1>3, SMT
  <2> HIDE DEF more, list, k, L
  <2> QED BY <2>3, <2>4, <2>5, <2>7, <2>8, <2>9
<1> QED BY <1>5, <1>6, <1>7, <1>8 DEF rest, fs

LEMMA ListNextGoes ==
  ASSUME NEW c \in Client, Going(c), NEW way \in Ways, ListNext(c, way)
  PROVE  Untroubled(c)'
<1> USE DEF Going
<1> DEFINE h == last[c]
           list == Tail(open[h])
           more == Append(found[c], Head(list))
<1>1. pc[c] = "next" /\ NextMod(c, way) /\ UNCHANGED <<fn, res, went, last>> BY DEF ListNext
<1>2. /\ OnlyOpen({h}) /\ Rest(c, h) /\ fn[c] = "lsmod" /\ err[c] = None /\ went[c] = "well"
      /\ h \in Handle
  BY <1>1 DEF Untroubled, Handles, Outcome, Control, Place
<1>3. /\ open[h] # <<>> /\ list \in Seq(Mods) /\ After(h) = list
      /\ list = <<>> => found[c] = Modules
      /\ list # <<>> =>
           /\ Len(more) \in 1 .. Len(Modules) /\ \A i \in 1 .. Len(more) : more[i] = Modules[i]
           /\ Len(list) = Len(Modules) - Len(more) + 1
           /\ \A i \in 1 .. Len(list) : list[i] = Modules[Len(more) + i - 1]
  BY <1>2, RestGoes DEF Control, After
<1> HIDE DEF list, more
<1>4. NextStatus(h) = OpenStatus(list) BY <1>3 DEF NextStatus
<1>5. CASE list = <<>>
  <2>1. NextStatus(h) = "module_not_found" BY <1>4, <1>5 DEF OpenStatus
  <2>2. ~Good(way, NextStatus(h)) /\ err'[c] = "module_not_found"
    BY <1>1, <2>1, AnsweredIs DEF NextMod, Quiet, Control
  <2>3. pc' = [pc EXCEPT ![c] = "listed"] /\ UNCHANGED found BY <2>2 DEF ListNext, Set
  <2>4. open' = open BY <1>1, <2>1 DEF NextMod
  <2>5. pc'[c] = "listed" /\ OnlyOpen({h})' /\ open'[h] # <<>> /\ last'[c] = h
    BY <1>1, <1>2, <1>3, <2>3, <2>4 DEF Control, Types, OnlyOpen
  <2>6. OnlyOpen({last[c]})' BY <1>1, <2>5
  <2> QED BY <1>1, <1>2, <1>3, <1>5, <2>2, <2>3, <2>5, <2>6 DEF Untroubled, Handles, Outcome
<1>6. CASE list # <<>>
  <2>1. Free # {}
    <3>1. \E k \in Handle : k # h
      <4>1. 0 \in Handle /\ 1 \in Handle /\ 0 # 1 BY ModAssumption, OrderAssumption, SMT DEF Handle
      <4> QED BY <4>1
    <3> QED BY <1>2, <3>1 DEF OnlyOpen, Free
  <2>2. Lowest \in Handle /\ open[Lowest] = <<>> /\ Lowest # h
    BY <1>3, <2>1, LowestIsFree DEF Free
  <2>3. NextStatus(h) = "ok" BY <1>4, <1>6, <2>1 DEF OpenStatus
  <2>4. Carried(way) /\ Good(way, NextStatus(h)) /\ err'[c] = None
    BY <1>1, <1>2, <2>3, AnsweredIs DEF NextMod, Quiet, Control
  <2>5. open' = [open EXCEPT ![Lowest] = list]
    BY <1>1, <1>3, <2>3, <2>4 DEF NextMod, Opened
  <2>6. /\ pc' = [pc EXCEPT ![c] = "next_close"] /\ new' = [new EXCEPT ![c] = Lowest]
        /\ found' = [found EXCEPT ![c] = more]
    BY <1>3, <2>4 DEF ListNext, Set, more
  <2> DEFINE l == Lowest
  <2> HIDE DEF l
  <2>7. /\ pc'[c] = "next_close" /\ new'[c] = l /\ found'[c] = more /\ open'[l] = list
        /\ last'[c] = h /\ open'[h] = open[h]
    BY <1>1, <1>2, <2>2, <2>5, <2>6 DEF Control, Types, l
  <2>8. OnlyOpen({last[c], new[c]})'
    <3>1. \A k \in Handle \ {h, l} : open'[k] = <<>>
      BY <1>2, <2>5 DEF Control, Types, l, OnlyOpen
    <3> QED BY <2>7, <3>1 DEF OnlyOpen
  <2>9. Rest(c, new[c])' BY <1>3, <1>6, <2>7 DEF Rest
  <2>10. last'[c] # new'[c] /\ open'[last'[c]] # <<>> BY <1>3, <2>2, <2>7 DEF l
  <2> QED BY <1>1, <1>2, <2>4, <2>7, <2>8, <2>9, <2>10 DEF Untroubled, Handles, Outcome
<1> QED BY <1>5, <1>6

LEMMA ListCloseGoes ==
  ASSUME NEW c \in Client, Going(c), NEW way \in Ways, ListClose(c, way)
  PROVE  Untroubled(c)'
<1> USE DEF Going
<1>1. /\ pc[c] = "next_close" /\ Close(c, last[c], way) /\ pc' = [pc EXCEPT ![c] = "next"]
      /\ last' = [last EXCEPT ![c] = new[c]] /\ UNCHANGED <<fn, res, went, found>>
  BY DEF ListClose, Set
<1>2. /\ OnlyOpen({last[c], new[c]}) /\ Rest(c, new[c]) /\ fn[c] = "lsmod" /\ last[c] # new[c]
      /\ open[last[c]] # <<>> /\ err[c] = None /\ went[c] = "well"
      /\ last[c] \in Handle /\ new[c] \in Handle
  BY <1>1 DEF Untroubled, Handles, Outcome, Control, Place
<1>3. /\ open'[last[c]] = <<>> /\ err'[c] = err[c]
      /\ \A k \in Handle : k # last[c] => open'[k] = open[k]
  BY <1>1, <1>2, CloseGoes DEF Quiet, Control
<1>4. \A k \in Handle \ {new[c]} : open'[k] = <<>> BY <1>2, <1>3 DEF OnlyOpen
<1>6. err'[c] = None /\ open'[new[c]] = open[new[c]] BY <1>2, <1>3
<1>7. pc'[c] = "next" /\ last'[c] = new[c] BY <1>1 DEF Control, Types
<1>8. OnlyOpen({last[c]})'
  <2>1. \A k \in Handle \ {last'[c]} : open'[k] = <<>> BY <1>4, <1>7
  <2> QED BY <2>1 DEF OnlyOpen
<1>9. Rest(c, last[c])'
  <2> DEFINE l == open[new[c]]
  <2>1. /\ Len(found[c]) \in 1 .. Len(Modules)
        /\ \A i \in 1 .. Len(found[c]) : found[c][i] = Modules[i]
        /\ Len(l) = Len(Modules) - Len(found[c]) + 1
        /\ \A i \in 1 .. Len(l) : l[i] = Modules[Len(found[c]) + i - 1]
    BY <1>2 DEF Rest
  <2>2. found'[c] = found[c] /\ open'[last'[c]] = l BY <1>1, <1>6, <1>7
  <2> HIDE DEF l
  <2> QED BY <2>1, <2>2 DEF Rest
<1> QED BY <1>1, <1>2, <1>6, <1>7, <1>8, <1>9 DEF Untroubled, Handles, Outcome

\* The end of a list is no error.
LEMMA ListEndGoes ==
  ASSUME NEW c \in Client, Going(c), ListEnd(c)
  PROVE  Untroubled(c)'
<1> USE DEF Going
<1>1. pc[c] = "listed" /\ UNCHANGED <<open, fn, res, last, found>>
  BY DEF ListEnd, brickVars, listVars
<1>2. err[c] = "module_not_found" /\ went[c] = "well" /\ fn[c] \in Lists /\ fn[c] # None
  BY <1>1 DEF Untroubled, Outcome, Control, Place, Listing, Lists, None
<1>3. fn[c] # "mount" BY <1>1, <1>2, CalmIs DEF Quiet
<1>4. err' = [err EXCEPT ![c] = None] /\ pc' = [pc EXCEPT ![c] = "list_close"] /\ UNCHANGED went
  BY <1>2, <1>3 DEF ListEnd, Set
<1>5. err'[c] = None /\ pc'[c] = "list_close" /\ went'[c] = "well"
  BY <1>2, <1>4 DEF Control, Types
<1>6. IF fn'[c] = "lsmod"
      THEN last'[c] \in Handle /\ OnlyOpen({last[c]})' /\ open'[last'[c]] # <<>> /\ found'[c] = Modules
      ELSE last'[c] = NoHandle /\ OnlyOpen({})'
  BY <1>1 DEF Untroubled, Handles, OnlyOpen
<1> QED BY <1>5, <1>6 DEF Untroubled, Handles, Outcome

\* The last handle of a list is closed; one without a value is not open.
LEMMA ListLastCloseGoes ==
  ASSUME NEW c \in Client, Going(c), NEW way \in Ways, ListLastClose(c, way)
  PROVE  Untroubled(c)'
<1> USE DEF Going
<1>1. pc[c] = "list_close" /\ Done(c) /\ UNCHANGED <<fn, res, last, found>>
  BY DEF ListLastClose, listVars
<1>2. PICK h \in IF last[c] = NoHandle THEN 0 .. NumHandle ELSE {last[c]} : Close(c, h, way)
  BY DEF ListLastClose
<1>3. /\ err[c] = None /\ went[c] = "well" /\ fn[c] \in Lists /\ fn[c] \in Function /\ fn[c] # None
  BY <1>1 DEF Untroubled, Outcome, Control, Place, Listing, Lists, None
<1>4. fn[c] \in {"lsmod", "lsmod_none"} BY <1>1, <1>3, CalmIs DEF Lists, Quiet
<1>5. pc'[c] = "return" /\ went'[c] = "well"
  <2>1. fn[c] \notin Finders BY <1>4 DEF Finders
  <2> QED BY <1>1, <1>3, <2>1, DoneIs
<1>6. CASE fn[c] = "lsmod"
  <2>1. last[c] \in Handle /\ OnlyOpen({last[c]}) /\ open[last[c]] # <<>> /\ found[c] = Modules
    BY <1>1, <1>6 DEF Untroubled, Handles
  <2>2. NoHandle \notin Handle BY SMT DEF NoHandle, Handle
  <2>3. h = last[c] BY <1>2, <2>1, <2>2
  <2>5. OnlyOpen({})' /\ err'[c] = None
    BY <1>2, <1>3, <2>1, <2>3, CloseGoes DEF Quiet, Control, OnlyOpen
  <2> QED BY <1>1, <1>5, <2>1, <2>5 DEF Untroubled, Handles, Outcome
<1>7. CASE fn[c] = "lsmod_none"
  <2>1. OnlyOpen({}) BY <1>1, <1>7 DEF Untroubled, Handles
  <2>2. open' = open \/ (h \in Handle /\ open' = [open EXCEPT ![h] = <<>>]) BY <1>2 DEF Close
  <2>3. OnlyOpen({})' BY <2>1, <2>2 DEF OnlyOpen, Control, Types
  <2> QED BY <1>1, <1>5, <1>7, <2>3 DEF Untroubled, Handles, Outcome
<1> QED BY <1>4, <1>6, <1>7

-----------------------------------------------------------------------------
(* The proof that a program that runs alone works.                         *)

LEMMA Goes ==
  ASSUME AloneInv, NEW c \in Client, ClientStep(c), Control', History(c)', Quiet'
  PROVE  Untroubled(c)'
<1>1. Control /\ Types /\ (Quiet => Untroubled(c)) /\ History(c)
  BY DEF AloneInv, ExactInv, Control
<1>2. Quiet BY <1>1, StepRuns, StepKeeps DEF Quiet
<1>3. ASSUME NEW p \in Programs[c], Run(c, p) PROVE Untroubled(c)'
  <2>1. pc[c] = "idle" BY <1>3 DEF Run
  <2>2. \A d \in Client : pc[d] = "idle" BY <1>1, <2>1, StepRuns DEF Quiet
  <2>3. OnlyOpen({}) BY <1>2, <2>2 DEF AloneInv
  <2> QED BY <1>1, <1>3, <2>3, RunGoes
<1>4. CASE Exit(c)
  <2>1. pc' = [pc EXCEPT ![c] = "idle"] BY <1>4 DEF Exit, Set
  <2>2. pc'[c] = "idle" BY <1>1, <2>1 DEF Types
  <2> QED BY <2>2 DEF Untroubled
<1>5. pc[c] # "idle" => Going(c) BY <1>1, <1>2 DEF Going, Control
<1>6. CASE Call(c)
  <2>1. pc[c] # "idle" BY <1>6 DEF Call
  <2> QED BY <1>5, <1>6, <2>1, CallGoes
<1>7. CASE Return(c)
  <2>1. pc[c] # "idle" BY <1>7 DEF Return
  <2> QED BY <1>5, <1>7, <2>1, ReturnGoes
<1>8. CASE ListEnd(c)
  <2>1. pc[c] # "idle" BY <1>8 DEF ListEnd
  <2> QED BY <1>5, <1>8, <2>1, ListEndGoes
<1>9. ASSUME NEW way \in Ways, FindFirst(c, way) \/ FindClose(c, way)
      PROVE  Untroubled(c)'
  <2>1. pc[c] # "idle" BY <1>9 DEF FindFirst, FindClose
  <2> QED BY <1>5, <1>9, <2>1, FindFirstGoes, FindCloseGoes
<1>10. ASSUME NEW way \in Ways, ListFirst(c, way) \/ ListNext(c, way)
       PROVE  Untroubled(c)'
  <2>1. pc[c] # "idle" BY <1>10 DEF ListFirst, ListNext
  <2> QED BY <1>5, <1>10, <2>1, ListFirstGoes, ListNextGoes
<1>11. ASSUME NEW way \in Ways, ListClose(c, way) \/ ListLastClose(c, way)
       PROVE  Untroubled(c)'
  <2>1. pc[c] # "idle" BY <1>11 DEF ListClose, ListLastClose
  <2> QED BY <1>5, <1>11, <2>1, ListCloseGoes, ListLastCloseGoes
<1>12. ASSUME NEW way \in Ways, Read(c, way) \/ Write(c, way)
       PROVE  Untroubled(c)'
  <2>1. pc[c] # "idle" BY <1>12 DEF Read, Write
  <2> QED BY <1>5, <1>12, <2>1, MoveGoes
<1> QED BY <1>3, <1>4, <1>6, <1>7, <1>8, <1>9, <1>10, <1>11, <1>12 DEF ClientStep

\* When all programs have ended no handle is open.
LEMMA AllEnded ==
  ASSUME AloneInv, NEW c \in Client, ClientStep(c), Types', Quiet', pc'[c] = "idle"
  PROVE  OnlyOpen({})'
<1> USE DEF vars, brickVars, progVars, listVars, moveVars, shownVars, ghosts
<1>1. Control /\ Types /\ (Quiet => Untroubled(c)) BY DEF AloneInv, ExactInv, Control
<1>2. Quiet BY <1>1, StepRuns, StepKeeps DEF Quiet
<1>3. Exit(c)
  <2>1. ASSUME NEW p \in Programs[c], Run(c, p) PROVE FALSE
    <3>1. pc' = [pc EXCEPT ![c] = "call"] BY <2>1 DEF Run, Set
    <3> QED BY <1>1, <3>1 DEF Types
  <2>2. CASE Call(c) BY <1>1, <2>2, CallIs
  <2>3. CASE Return(c)
    <3>1. pc' = [pc EXCEPT ![c] = "call"] BY <2>3 DEF Return, Set
    <3> QED BY <1>1, <3>1 DEF Types
  <2>4. CASE ListEnd(c) \/ \E way \in Ways : FindClose(c, way) \/ ListLastClose(c, way)
    <3>1. /\ pc[c] \in {"found", "listed", "list_close"} /\ UNCHANGED fn
          /\ Done(c) \/ pc' = [pc EXCEPT ![c] = "list_close"] \/ Fail(c, "unfound")
      BY <2>4 DEF ListEnd, FindClose, ListLastClose, Set
    <3>2. fn[c] \in Finders => fn[c] \in Works BY DEF Works
    <3>3. CASE Done(c) BY <1>1, <3>1, <3>2, <3>3, DoneIs, WorkIs
    <3>4. CASE pc' = [pc EXCEPT ![c] = "list_close"] BY <1>1, <3>4 DEF Types
    <3>5. CASE Fail(c, "unfound") BY <1>1, <3>5, FailIs
    <3> QED BY <3>1, <3>3, <3>4, <3>5
  <2>5. ASSUME NEW way \in Ways, FindFirst(c, way) PROVE FALSE
    <3>1. pc' = [pc EXCEPT ![c] = "found"] \/ Fail(c, "unfound") BY <2>5 DEF FindFirst, Set
    <3> QED BY <1>1, <3>1, FailIs DEF Types
  <2>6. ASSUME NEW way \in Ways, ListFirst(c, way) \/ ListNext(c, way) \/ ListClose(c, way)
        PROVE FALSE
    <3>1. \E q \in Listing : pc' = [pc EXCEPT ![c] = q]
      BY <2>6 DEF ListFirst, ListNext, ListClose, Listing, Set
    <3> QED BY <1>1, <3>1 DEF Types, Listing
  <2>7. ASSUME NEW way \in Ways, Read(c, way) \/ Write(c, way) PROVE FALSE
    <3>1. pc[c] # "idle" BY <2>7 DEF Read, Write
    <3>2. \E st : \E bytes : Moved(c, Good(way, st), bytes) BY <2>7 DEF Read, Write
    <3>3. pc' = pc \/ pc' = [pc EXCEPT ![c] = "return"] BY <3>2 DEF Moved, Fail, Set
    <3> QED BY <1>1, <3>1, <3>3 DEF Types
  <2> QED BY <2>1, <2>2, <2>3, <2>4, <2>5, <2>6, <2>7 DEF ClientStep
<1>4. pc[c] = "call" /\ open' = open BY <1>3 DEF Exit
<1> QED BY <1>1, <1>2, <1>4 DEF Untroubled, Handles, OnlyOpen

LEMMA UntroubledStays ==
  ASSUME NEW d \in Client, Same(d), UNCHANGED open, Untroubled(d)
  PROVE  Untroubled(d)'
<1>1. /\ pc'[d] = pc[d] /\ last'[d] = last[d] /\ new'[d] = new[d] /\ fn'[d] = fn[d]
      /\ found'[d] = found[d] /\ open' = open
  BY DEF Same
<1>2. Handles(d) => Handles(d)'
  <2> SUFFICES ASSUME Handles(d) PROVE Handles(d)' OBVIOUS
  <2>1. /\ OnlyOpen({}) => OnlyOpen({})'
        /\ OnlyOpen({0}) => OnlyOpen({0})'
        /\ OnlyOpen({last[d]}) => OnlyOpen({last[d]})'
        /\ OnlyOpen({last[d], new[d]}) => OnlyOpen({last[d], new[d]})'
    BY <1>1 DEF OnlyOpen
  <2>2. Rest(d, last[d]) => Rest(d, last[d])' BY <1>1 DEF Rest
  <2>3. Rest(d, new[d]) => Rest(d, new[d])' BY <1>1 DEF Rest
  <2> QED BY <1>1, <2>1, <2>2, <2>3 DEF Handles
<1>3. Outcome(d) => Outcome(d)' BY DEF Same, Outcome
<1>4. pc'[d] = pc[d] BY DEF Same
<1> QED BY <1>2, <1>3, <1>4 DEF Untroubled

LEMMA HistoryStays ==
  ASSUME Control, NEW d \in Client, Same(d), Kept(d), calm' = calm, missed' = missed, History(d)
  PROVE  History(d)'
<1>1. CASE pc[d] = "idle" BY <1>1 DEF Same, History
<1>2. CASE pc[d] # "idle"
  <2>1. PICK p \in Programs[d], n \in Nat : Story(d, p, n) BY <1>2 DEF History
  <2>2. Within(d, p, n)' BY <2>1 DEF Story, Within, Same
  <2>3. Quiet' /\ Flushing(p) => Shown(d, n)'
    BY <2>1, ShownStays DEF Story, Same, Quiet
  <2>4. Story(d, p, n)' BY <2>1, <2>2, <2>3 DEF Story
  <2> QED BY <2>4 DEF History
<1> QED BY <1>1, <1>2

\* Nothing but the maps changes, and the programs are told.
LEMMA AloneStays ==
  ASSUME AloneInv, ExactInv', \A d \in Client : Same(d) /\ Kept(d),
         UNCHANGED <<open, calm, missed>>
  PROVE  AloneInv'
<1>1. \A d \in Client : pc'[d] = pc[d] BY DEF Same
<1>2. Apart' BY <1>1 DEF AloneInv, Apart
<1>3. \A d \in Client : History(d)' BY HistoryStays DEF AloneInv, ExactInv
<1>4. Quiet' => Quiet BY DEF Quiet
<1>5. Quiet' /\ (\A d \in Client : pc'[d] = "idle") => OnlyOpen({})'
  BY <1>1, <1>4 DEF AloneInv, OnlyOpen
<1>6. Quiet' => \A d \in Client : Untroubled(d)' BY <1>4, UntroubledStays DEF AloneInv
<1> QED BY <1>2, <1>3, <1>5, <1>6 DEF AloneInv

LEMMA AloneStep == AloneInv /\ [Next]_vars /\ ExactInv' => AloneInv'
<1> SUFFICES ASSUME AloneInv, [Next]_vars, ExactInv' PROVE AloneInv' OBVIOUS
<1>0. Control /\ Types /\ Control' /\ Types' BY DEF AloneInv, ExactInv, Control
<1>1. CASE UNCHANGED vars
  <2>1. UNCHANGED <<open, calm, missed>> /\ \A d \in Client : Same(d) /\ Kept(d)
    BY <1>1 DEF Same, Kept, vars, brickVars, progVars, listVars, moveVars, shownVars, ghosts
  <2> QED BY <2>1, AloneStays
<1>2. ASSUME NEW c \in Client, ClientStep(c) PROVE AloneInv'
  <2>1. \A d \in Client : History(d)' BY <1>2, OwnHistoryIs, OthersHistory DEF OwnHistory
  <2>2. calm' => \A d \in Client : d # c => pc'[d] = "idle" BY <1>2, OthersIdle
  <2>3. Apart' BY <2>2 DEF Apart
  <2>4. Quiet' => Untroubled(c)' BY <1>0, <1>2, <2>1, Goes
  <2>5. Quiet' => \A d \in Client : Untroubled(d)' BY <2>2, <2>4 DEF Quiet, Untroubled
  <2>6. Quiet' /\ (\A d \in Client : pc'[d] = "idle") => OnlyOpen({})' BY <1>0, <1>2, AllEnded
  <2> QED BY <2>1, <2>3, <2>5, <2>6 DEF AloneInv
<1>3. CASE BrickStep
  <2>1. \A d \in Client : Same(d) /\ Kept(d) BY <1>0, <1>3, BrickControl, BrickKeeps
  <2>2. UNCHANGED <<open, calm, missed>> BY <1>3 DEF BrickStep, BrickSets
  <2> QED BY <2>1, <2>2, AloneStays
<1> QED BY <1>1, <1>2, <1>3, NextIs

LEMMA InitAlone == Init => AloneInv
<1> SUFFICES ASSUME Init PROVE AloneInv OBVIOUS
<1>1. ExactInv BY InitExact
<1>2. \A c \in Client : pc[c] = "idle" BY DEF Init
<1>3. OnlyOpen({}) BY DEF Init, OnlyOpen
<1> QED BY <1>1, <1>2, <1>3 DEF AloneInv, Apart, History, Untroubled

\* Functions of lsmod, display.c and the settings succeed when one program runs
\* after the other, all telegrams are answered and no file system of modules
\* was mounted: no handle is left open, all modules are listed, and a screen
\* that is flushed always is what it was before (AloneWorks).
THEOREM ModAloneWorks == Spec => []AloneWorks
<1>1. AloneInv => AloneWorks
  <2> SUFFICES ASSUME AloneInv, missed = 0, calm
               PROVE  /\ (\A c \in Client : pc[c] = "idle") => \A h \in Handle : open[h] = <<>>
                      /\ \A c \in Client : pc[c] = "call" /\ fn[c] # None =>
                           /\ res[c] = 0
                           /\ fn[c] = "lsmod" => found[c] = Modules
                           /\ fn[c] # "lsmod_none" => err[c] = None
                           /\ fn[c] = "flush_always" =>
                                \A o \in Watched["display"] : InPlace(c, "display", o, before[c][o])
    BY DEF AloneWorks
  <2>1. Quiet BY DEF Quiet
  <2>2. (\A c \in Client : pc[c] = "idle") => \A h \in Handle : open[h] = <<>>
    BY <2>1 DEF AloneInv, OnlyOpen
  <2>3. ASSUME NEW c \in Client, pc[c] = "call", fn[c] # None
        PROVE  /\ res[c] = 0 /\ (fn[c] = "lsmod" => found[c] = Modules)
               /\ fn[c] # "lsmod_none" => err[c] = None
    BY <2>1, <2>3 DEF AloneInv, Untroubled, Outcome
  <2>4. ASSUME NEW c \in Client, pc[c] = "call", fn[c] = "flush_always"
        PROVE  \A o \in Watched["display"] : InPlace(c, "display", o, before[c][o])
    <3>1. PICK p \in Programs[c], n \in Nat : Story(c, p, n) BY <2>4 DEF AloneInv, History
    <3>2. p \in Seq(Function) BY ModAssumption
    <3>3. n # 0 /\ n <= Len(p) /\ p[n] = "flush_always"
      BY <2>4, <3>1 DEF Story, Within, None
    <3>4. n \in DOMAIN p /\ n >= 1 BY <3>2, <3>3, SMT
    <3>5. Flushing(p) BY <3>3, <3>4 DEF Flushing
    <3> QED BY <2>1, <3>1, <3>4, <3>5 DEF Story, Shown
  <2> QED BY <2>2, <2>3, <2>4
<1>2. Init => ExactInv /\ Control BY InitExact, InitControl
<1> QED BY <1>1, <1>2, InitAlone, AloneStep, ExactStep, ControlStep, ModControl, PTL DEF Spec

=============================================================================
