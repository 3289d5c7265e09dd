------------------------------- MODULE NxtMod -------------------------------
(***************************************************************************)
(* The modules of a brick's firmware and their I/O maps: the commands of    *)
(* libanxt (mod.c), the list of modules (nxt_lsmod), the display with its   *)
(* local copy (display.c, tools/screenshot.c) and the file system of        *)
(* modules (tools/modfs.c).  Several programs may use one brick.  A         *)
(* telegram and its reply are one step: the reply may be lost, or be that   *)
(* of another telegram (NxtCommand shows how).                              *)
(*                                                                         *)
(* Of the I/O maps only the bytes Watched are kept.  A program is a         *)
(* sequence of functions, a function a sequence of steps.                  *)
(***************************************************************************)
EXTENDS Integers, Sequences, FiniteSets

CONSTANTS Client,
          Modules,   \* the modules of the brick, in its order
          MapSize,   \* of a module
          Watched,   \* offsets in the map of a module
          Changing,  \* offsets of bytes that the brick sets itself
          Byte,      \* values of a byte that are told apart
          Junk,      \* the value of a byte that nobody has set
          NumHandle, \* handles of the brick
          Width, Height, \* of the display: 100 and 64 in the code
          MaxMissed, \* bound: telegrams without their reply
          MaxFound,  \* bound: modules found while handles are mixed up
          Programs   \* that a client may run

Mods == {Modules[i] : i \in DOMAIN Modules}
Handle == 0 .. (NumHandle - 1)
None == "none"
NoHandle == -1

VARIABLES
  open, maps,        \* brick: what open handles still have to list; I/O maps
  script, fn, todo,  \* client: functions to come, the one under way, its steps
  pc, err,           \*   place in the step; nxt->error
  last, new, found,  \*   handles; modules that were listed
  at, left, moved,   \*   transfer: offset, bytes still planned, bytes moved
  buf,               \*   bytes read
  went, res,         \*   how the function went so far; result of the last one
  screen, dirty,     \*   nxt_display_t
  missed, calm,      \* for the properties: telegrams that did not get their
                     \*   reply; no two programs ran at once, no modfs
  fine,              \* for the properties: those of the function were
  before, since      \*   the display when the program began, and the bytes
                     \*   that others changed since then

brickVars == <<open, maps>>
progVars == <<script, fn, todo, pc, err, went, res>>
listVars == <<last, new, found>>
moveVars == <<at, left, moved, buf>>
shownVars == <<screen, dirty>>
ghosts == <<missed, calm, fine, before, since>>
vars == <<brickVars, progVars, listVars, moveVars, shownVars, ghosts>>

-----------------------------------------------------------------------------
(* The functions.                                                          *)

Step(kind, mod, off, n, byte) ==
  [kind |-> kind, mod |-> mod, off |-> off, n |-> n, byte |-> byte]
Find(m) == Step("find", m, 0, 0, 0)
Get(m, off, n) == Step("get", m, off, n, 0)
Put(m, off, n, b) == Step("put", m, off, n, b)
List(m) == Step("list", m, 0, 0, 0)
All == "all"

NXT_UI_BUTTON == 28
NXT_UI_VOLUME == 36
NXT_UI_TURNOFF == 39
NXT_DISPLAY_BITMAP == 119
NXT_DISPLAY_BUFSIZE == (Width * Height) \div 8

Capped(m, n) == IF n > MapSize[m] THEN MapSize[m] ELSE n
FsCalls == {"fs_read", "fs_read_end", "fs_write"}
FsLists == {"fs_readdir", "fs_getattr"}
Shows == {"display_open", "draw", "refresh", "screenshot", "flush", "flush_always"}
Function == {"lsmod", "lsmod_none", "mount", "get_volume", "set_volume", "set_button",
             "turn_off"} \cup Shows \cup FsCalls \cup FsLists

\* The names of the modules differ.  The maps hold what the functions want of
\* them, and nxtfs_read asks for all of the user interface's; the bytes that
\* the settings are in are watched, and of the display only the picture.
ASSUME ModAssumption ==
  /\ Modules \in Seq(Mods) /\ {"ui", "display"} \subseteq Mods /\ Mods \cap {None, All} = {}
  /\ \A i, j \in DOMAIN Modules : Modules[i] = Modules[j] => i = j
  /\ \A m \in Mods : MapSize[m] \in Nat /\ Watched[m] \subseteq 0 .. (MapSize[m] - 1)
  /\ MapSize["ui"] <= 4096
  /\ {NXT_UI_BUTTON, NXT_UI_VOLUME, NXT_UI_TURNOFF} \subseteq Watched["ui"]
  /\ NXT_DISPLAY_BITMAP + NXT_DISPLAY_BUFSIZE <= MapSize["display"]
  /\ Watched["display"] \subseteq
       NXT_DISPLAY_BITMAP .. (NXT_DISPLAY_BITMAP + NXT_DISPLAY_BUFSIZE - 1)
  /\ Changing \subseteq Nat /\ {0, 1} \subseteq Byte /\ Junk \notin Byte
  /\ NumHandle \in Nat \ {0} /\ {Width, Height, MaxMissed, MaxFound} \subseteq Nat
  /\ Programs \in [Client -> SUBSET Seq(Function)]

\* The display is given as Junk: what is put there is the local copy.
Steps(f) ==
  CASE f \in {"lsmod", "mount"} -> <<List(All)>>
    [] f = "lsmod_none" -> <<List(None)>>
    [] f = "get_volume" -> <<Find("ui"), Get("ui", NXT_UI_VOLUME, 1)>>
    [] f = "set_volume" -> <<Find("ui"), Put("ui", NXT_UI_VOLUME, 1, 1)>>
    [] f = "set_button" -> <<Find("ui"), Put("ui", NXT_UI_BUTTON, 1, 1)>>
    [] f = "turn_off" -> <<Find("ui"), Put("ui", NXT_UI_TURNOFF, 1, 1)>>
    [] f = "display_open" -> <<Find("display")>>
    [] f \in {"refresh", "screenshot"} ->
         <<Find("display"), Get("display", NXT_DISPLAY_BITMAP, NXT_DISPLAY_BUFSIZE)>>
    [] f \in {"flush", "flush_always"} ->
         <<Find("display"), Put("display", NXT_DISPLAY_BITMAP, NXT_DISPLAY_BUFSIZE, Junk)>>
    [] f = "fs_read" -> <<Get("ui", 0, Capped("ui", 4096))>>
    [] f = "fs_read_end" -> <<Get("ui", 30, Capped("ui", 4096))>>
    [] f = "fs_write" -> <<Put("ui", NXT_UI_VOLUME, 1, 1)>>
    [] OTHER -> <<>>

\* These do not look at what a transfer returned.
Ignores == {"refresh", "screenshot", "flush", "flush_always"}

Screen(v) == [o \in Watched["display"] |-> v]

Init ==
  /\ open = [h \in Handle |-> <<>>]
  /\ maps = [m \in Mods |-> [o \in Watched[m] |-> 0]]
  /\ script = [c \in Client |-> <<>>] /\ fn = [c \in Client |-> None]
  /\ todo = [c \in Client |-> <<>>] /\ pc = [c \in Client |-> "idle"]
  /\ err = [c \in Client |-> None] /\ went = [c \in Client |-> "well"]
  /\ res = [c \in Client |-> 0]
  /\ last = [c \in Client |-> NoHandle] /\ new = [c \in Client |-> NoHandle]
  /\ found = [c \in Client |-> <<>>]
  /\ at = [c \in Client |-> 0] /\ left = [c \in Client |-> 0]
  /\ moved = [c \in Client |-> 0] /\ buf = [c \in Client |-> <<>>]
  /\ screen = [c \in Client |-> Screen(0)] /\ dirty = [c \in Client |-> FALSE]
  /\ missed = 0 /\ calm = TRUE /\ fine = [c \in Client |-> TRUE]
  /\ before = [c \in Client |-> Screen(0)] /\ since = [c \in Client |-> {}]

Set(f, c, v) == [f EXCEPT ![c] = v]

\* nxt_open starts without an error.
Run(c, p) ==
  /\ pc[c] = "idle" /\ pc' = Set(pc, c, "call") /\ script' = Set(script, c, p)
  /\ calm' = (calm /\ \A d \in Client : pc[d] = "idle")
  /\ UNCHANGED <<brickVars, fn, todo, err, went, res, listVars, moveVars, shownVars,
                 missed, fine, before, since>>

\* A program ends when it has no more to do, or its display does not open.
Over(c) == script[c] = <<>> \/ (fn[c] = "display_open" /\ res[c] = -1)
Exit(c) ==
  /\ pc[c] = "call" /\ Over(c)
  /\ pc' = Set(pc, c, "idle") /\ script' = Set(script, c, <<>>)
  /\ fn' = Set(fn, c, None) /\ err' = Set(err, c, None) /\ res' = Set(res, c, 0)
  /\ screen' = Set(screen, c, Screen(0)) /\ dirty' = Set(dirty, c, FALSE)
  /\ found' = Set(found, c, <<>>) /\ last' = Set(last, c, NoHandle)
  /\ before' = Set(before, c, Screen(0)) /\ since' = Set(since, c, {})
  /\ UNCHANGED <<brickVars, todo, went, new, moveVars, missed, calm, fine>>

\* The first of the steps that are left begins, or the function returns.  Bytes
\* to be read are not set before.
Enter(c, steps) ==
  /\ todo' = Set(todo, c, steps)
  /\ IF steps = <<>> THEN pc' = Set(pc, c, "return") /\ UNCHANGED <<at, left, moved, buf>>
     ELSE LET s == Head(steps) IN
            /\ pc' = Set(pc, c, s.kind)
            /\ at' = Set(at, c, s.off) /\ left' = Set(left, c, s.n)
            /\ moved' = Set(moved, c, 0)
            /\ buf' = (IF s.kind = "get"
                       THEN Set(buf, c, [o \in Watched[s.mod] |-> Junk]) ELSE buf)

\* A file of modfs is opened by a name that was listed.
Unlisted(c, f) == f \in FsCalls \cup {"fs_getattr"} /\ "ui" \notin {found[c][i] : i \in DOMAIN found[c]}
Call(c) ==
  /\ pc[c] = "call" /\ ~Over(c) /\ script' = Set(script, c, Tail(script[c]))
  /\ LET f == Head(script[c]) IN
       /\ fn' = Set(fn, c, f)
       /\ Enter(c, IF (f = "flush" /\ ~dirty[c]) \/ Unlisted(c, f) THEN <<>> ELSE Steps(f))
       /\ went' = Set(went, c, IF Unlisted(c, f) THEN "unfound" ELSE "well")
       /\ screen' = (IF f = "draw" THEN Set(screen, c, Screen(1)) ELSE screen)
       /\ dirty' = (IF f \in {"draw", "display_open"} THEN Set(dirty, c, TRUE) ELSE dirty)
       /\ found' = (IF f \in {"lsmod", "lsmod_none", "mount"} THEN Set(found, c, <<>>) ELSE found)
       /\ before' = (IF f = "display_open" THEN Set(before, c, maps["display"]) ELSE before)
       /\ calm' = (calm /\ f # "mount")
  /\ res' = Set(res, c, 0) /\ last' = Set(last, c, NoHandle)
  /\ UNCHANGED <<brickVars, err, new, missed, fine, since>>

\* nxtfs_error gives errors that it does not know as 0.
FsKnows == {"no_more_handles", "module_not_found", "out_of_boundary"}
FsError(e) == IF e \in FsKnows THEN -1 ELSE 0

\* What a function returns.  Those of the user interface return nothing when
\* their transfer does not move the one byte.
Results(c) ==
  CASE went[c] = "unfound" -> {-1}
    [] fn[c] \in FsCalls -> {IF went[c] = "broken" THEN FsError(err[c]) ELSE moved[c]}
    [] fn[c] \in FsLists ->
         {IF fn[c] = "fs_readdir" THEN Len(found[c]) ELSE MapSize["ui"]}
    [] fn[c] \in Ignores \/ went[c] = "well" -> {0}
    [] OTHER -> {0, -1}

\* A picture is copied to the display's buffer when it has been read, whether
\* the read went well or not; a flush clears dirty whether it went well or not.
Return(c) ==
  /\ pc[c] = "return" /\ pc' = Set(pc, c, "call")
  /\ \E r \in Results(c) : res' = Set(res, c, r)
  /\ screen' = (IF fn[c] = "refresh" /\ went[c] # "unfound" THEN Set(screen, c, buf[c])
                ELSE screen)
  /\ dirty' = (IF fn[c] \in {"flush", "flush_always"} /\ went[c] # "unfound"
               THEN Set(dirty, c, FALSE) ELSE dirty)
  /\ todo' = Set(todo, c, <<>>)
  /\ went' = Set(went, c, "well") /\ buf' = Set(buf, c, <<>>)
  /\ at' = Set(at, c, 0) /\ left' = Set(left, c, 0) /\ moved' = Set(moved, c, 0)
  /\ fine' = Set(fine, c, TRUE)
  /\ UNCHANGED <<brickVars, script, fn, err, listVars, missed, calm, before, since>>

\* A step is done, or it failed and the function with it.
Done(c) == Enter(c, Tail(todo[c])) /\ UNCHANGED went
Fail(c, how) == /\ pc' = Set(pc, c, "return") /\ todo' = Set(todo, c, <<>>)
                /\ went' = Set(went, c, how) /\ UNCHANGED moveVars

-----------------------------------------------------------------------------
(* Telegrams.                                                              *)

\* A telegram is carried out and answered with a status; or its answer is
\* lost; or that of another is taken for it, which sets no error; or it does
\* not get to the brick.
Ways == {"answered", "lost", "strange", "unsent"}
Carried(way) == way # "unsent"
Good(way, status) == way = "answered" /\ status = "ok"
Telegram(c, way, status) ==
  /\ err' = (CASE way \in {"lost", "unsent"} -> Set(err, c, "connection")
               [] way = "answered" /\ status # "ok" -> Set(err, c, status)
               [] OTHER -> err)
  /\ missed' = missed + (IF way = "answered" THEN 0 ELSE 1) /\ missed' <= MaxMissed
  /\ fine' = Set(fine, c, fine[c] /\ Good(way, status))

Free == {h \in Handle : open[h] = <<>>}
Lowest == CHOOSE h \in Free : \A k \in Free : h <= k
\* A handle for a list of modules that begins with the one reported.
Opened(list) == [open EXCEPT ![Lowest] = list]
OpenStatus(list) == IF list = <<>> THEN "module_not_found"
                    ELSE IF Free = {} THEN "no_more_handles" ELSE "ok"

Matching(mod) == IF mod = All THEN Modules ELSE IF mod \in Mods THEN <<mod>> ELSE <<>>

\* nxt_mod_first
FirstMod(c, list, way) ==
  /\ Telegram(c, way, OpenStatus(list))
  /\ open' = (IF Carried(way) /\ OpenStatus(list) = "ok" THEN Opened(list) ELSE open)

\* nxt_mod_next
After(h) == IF open[h] = <<>> THEN <<>> ELSE Tail(open[h])
NextStatus(h) == IF open[h] = <<>> THEN "illegal_handle" ELSE OpenStatus(After(h))
NextMod(c, way) ==
  /\ Telegram(c, way, NextStatus(last[c]))
  /\ open' = (IF Carried(way) /\ NextStatus(last[c]) = "ok" THEN Opened(After(last[c]))
              ELSE open)

\* nxt_mod_close
Close(c, h, way) ==
  /\ Telegram(c, way, IF h \in Handle /\ open[h] # <<>> THEN "ok" ELSE "illegal_handle")
  /\ open' = (IF Carried(way) /\ h \in Handle THEN [open EXCEPT ![h] = <<>>] ELSE open)

-----------------------------------------------------------------------------
(* nxt_mod_get_id                                                          *)

\* Only handle 0 is taken; another one is not closed.
FindFirst(c, way) ==
  LET list == Matching(Head(todo[c]).mod)
      good == Good(way, OpenStatus(list)) IN
  /\ pc[c] = "find" /\ FirstMod(c, list, way)
  /\ IF good /\ Lowest = 0 THEN pc' = Set(pc, c, "found") /\ UNCHANGED <<todo, went, moveVars>>
     ELSE Fail(c, "unfound")
  /\ UNCHANGED <<maps, script, fn, res, listVars, shownVars, calm, before, since>>

\* Faulty: the handle is not closed.
FindCloseNot(c, way) ==
  /\ pc[c] = "found" /\ Done(c)
  /\ UNCHANGED <<brickVars, script, fn, res, err, listVars, shownVars, ghosts>>
FindClose(c, way) ==
  /\ pc[c] = "found" /\ Close(c, 0, way) /\ Done(c)
  /\ UNCHANGED <<maps, script, fn, res, listVars, shownVars, calm, before, since>>

-----------------------------------------------------------------------------
(* nxt_lsmod and get_modules                                               *)

ListFirst(c, way) ==
  LET list == Matching(Head(todo[c]).mod) IN
  /\ pc[c] = "list" /\ FirstMod(c, list, way)
  /\ IF Good(way, OpenStatus(list))
     THEN /\ pc' = Set(pc, c, "next") /\ last' = Set(last, c, Lowest)
          /\ found' = Set(found, c, <<Head(list)>>)
     ELSE pc' = Set(pc, c, "listed") /\ UNCHANGED <<last, found>>
  /\ UNCHANGED <<maps, script, fn, todo, went, res, new, moveVars, shownVars, calm, before, since>>

ListNext(c, way) ==
  /\ pc[c] = "next" /\ Len(found[c]) < MaxFound /\ NextMod(c, way)
  /\ IF Good(way, NextStatus(last[c]))
     THEN /\ pc' = Set(pc, c, "next_close") /\ new' = Set(new, c, Lowest)
          /\ found' = Set(found, c, Append(found[c], Head(After(last[c]))))
     ELSE pc' = Set(pc, c, "listed") /\ UNCHANGED <<new, found>>
  /\ UNCHANGED <<maps, script, fn, todo, went, res, last, moveVars, shownVars, calm, before, since>>

ListClose(c, way) ==
  /\ pc[c] = "next_close" /\ Close(c, last[c], way) /\ pc' = Set(pc, c, "next")
  /\ last' = Set(last, c, new[c]) /\ new' = Set(new, c, NoHandle)
  /\ UNCHANGED <<maps, script, fn, todo, went, res, found, moveVars, shownVars, calm, before, since>>

\* Only the end of the list is no error; get_modules does not close then, and
\* neither does after another error.
ListEnd(c) ==
  /\ pc[c] = "listed"
  /\ IF err[c] = "module_not_found"
     THEN /\ err' = Set(err, c, None)
          /\ IF fn[c] = "mount" THEN Done(c)
             ELSE pc' = Set(pc, c, "list_close") /\ UNCHANGED <<todo, went, moveVars>>
     ELSE Fail(c, "unfound") /\ UNCHANGED err
  /\ UNCHANGED <<brickVars, script, fn, res, listVars, shownVars, ghosts>>

\* When nothing was found the handle that is closed has no value.
ListLastClose(c, way) ==
  /\ pc[c] = "list_close"
  /\ \E h \in IF last[c] = NoHandle THEN 0 .. NumHandle ELSE {last[c]} : Close(c, h, way)
  /\ Done(c)
  /\ UNCHANGED <<maps, script, fn, res, listVars, shownVars, calm, before, since>>

-----------------------------------------------------------------------------
(* nxt_mod_read and nxt_mod_write                                          *)

\* Pieces of 50 bytes and one with the rest, if only of no bytes.
\* Faulty: a piece fills a telegram.
PieceSizeFull == 64
PieceSize == 50
Piece(c) == IF left[c] >= PieceSize THEN PieceSize ELSE left[c]
Target(c) == Head(todo[c]).mod

\* The brick refuses what is not in the map, or moves what there is of it.
InMap(c) == at[c] + Piece(c) <= MapSize[Target(c)]
There(c) == IF at[c] > MapSize[Target(c)] THEN 0 ELSE MapSize[Target(c)] - at[c]
MoveStatuses(c) == IF InMap(c) THEN {"ok"} ELSE {"ok", "out_of_boundary"}
Count(c) == IF InMap(c) THEN Piece(c) ELSE There(c)
Touched(c) == at[c] .. (at[c] + Count(c) - 1)

\* Offset and buffer go on by what was moved, the rest is planned before.
\* Faulty: the offset stays.
AdvanceStays(c) ==
  /\ UNCHANGED at /\ moved' = Set(moved, c, moved[c] + Count(c))
  /\ left' = Set(left, c, left[c] - Piece(c))
Advance(c) ==
  /\ at' = Set(at, c, at[c] + Count(c)) /\ moved' = Set(moved, c, moved[c] + Count(c))
  /\ left' = Set(left, c, left[c] - Piece(c))
\* A transfer is the last step of its function.
Moved(c, good, bytes) ==
  IF good THEN /\ Advance(c) /\ buf' = Set(buf, c, bytes)
               /\ IF left[c] < PieceSize
                  THEN pc' = Set(pc, c, "return") /\ UNCHANGED <<todo, went>>
                  ELSE UNCHANGED <<pc, todo, went>>
  ELSE Fail(c, "broken")

Read(c, way) ==
  /\ pc[c] = "get"
  /\ \E st \in MoveStatuses(c) :
       /\ Telegram(c, way, st)
       /\ Moved(c, Good(way, st), [o \in DOMAIN buf[c] |->
                  IF o \in Touched(c) THEN maps[Target(c)][o] ELSE buf[c][o]])
  /\ UNCHANGED <<brickVars, script, fn, res, listVars, shownVars, calm, before, since>>

Concerned(d, m) == fn[d] # None /\ (m = "display" <=> fn[d] \in Shows)
Data(c, o) == IF Target(c) = "display" THEN screen[c][o] ELSE Head(todo[c]).byte
Write(c, way) ==
  /\ pc[c] = "put"
  /\ \E st \in MoveStatuses(c) :
       /\ Telegram(c, way, st) /\ Moved(c, Good(way, st), buf[c])
       /\ maps' = (IF Carried(way) /\ st = "ok"
                   THEN [maps EXCEPT ![Target(c)] =
                           [o \in DOMAIN @ |-> IF o \in Touched(c) THEN Data(c, o) ELSE @[o]]]
                   ELSE maps)
       /\ since' = [d \in Client |-> since[d] \cup
                      IF d = c \/ ~Concerned(d, Target(c)) \/ maps' = maps THEN {}
                      ELSE {<<Target(c), o>> : o \in Touched(c) \cap Watched[Target(c)]}]
  /\ UNCHANGED <<open, script, fn, res, listVars, shownVars, calm, before>>

-----------------------------------------------------------------------------
\* The brick draws on its display, or its volume is changed.
BrickSets(m, o, v) ==
  /\ maps[m][o] # v /\ maps' = [maps EXCEPT ![m][o] = v]
  /\ since' = [d \in Client |-> since[d] \cup IF Concerned(d, m) THEN {<<m, o>>} ELSE {}]
  /\ UNCHANGED <<open, progVars, listVars, moveVars, shownVars, missed, calm, fine, before>>

Next ==
  \/ \E c \in Client : \/ \E p \in Programs[c] : Run(c, p)
                       \/ Exit(c) \/ Call(c) \/ Return(c) \/ ListEnd(c)
  \/ \E c \in Client, way \in Ways :
       \/ FindFirst(c, way) \/ FindClose(c, way)
       \/ ListFirst(c, way) \/ ListNext(c, way) \/ ListClose(c, way) \/ ListLastClose(c, way)
       \/ Read(c, way) \/ Write(c, way)
  \/ \E m \in {"ui", "display"}, v \in Byte :
       \E o \in Watched[m] \cap Changing : BrickSets(m, o, v)

Spec == Init /\ [][Next]_vars
=============================================================================
