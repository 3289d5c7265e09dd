------------------------------ MODULE NxtMount ------------------------------
(***************************************************************************)
(* nxt_mount: the operations of its file system as the file commands they   *)
(* send, one command at a time, with the file functions of libanxt.  The    *)
(* program answers one operation after the other (fuse -s) and is the only  *)
(* one to use the brick; a command is executed at most once, and a failure  *)
(* does not say whether it was (NxtRemote).                                 *)
(*                                                                         *)
(* The brick has files of at most Space cells in all and handles; a file    *)
(* gets its size when it is opened for writing.  A cell is a byte.          *)
(***************************************************************************)
EXTENDS Integers, Sequences, FiniteSets

CONSTANTS Name, Fd,
          Data,     \* bytes that users write
          Zero,     \* the byte that mknod writes
          Junk,     \* a byte that nobody has written
          Hnd,      \* handles of the brick
          Space,    \* bytes its files can have
          Chunk,    \* bytes of a read or write command: 50 in the code
          Sizes,    \* bound: bytes that a file or a buffer can have
          MaxFails, \* bound on fails
          None,
          Null      \* the record of a descriptor that has none

ASSUME MountAssumption ==
  /\ {Space, MaxFails} \subseteq Nat
  /\ {1} \subseteq Sizes /\ Sizes \subseteq Nat /\ \E n \in Sizes : \A m \in Sizes : m <= n
  /\ Chunk \in Nat \ {0}
  /\ Junk \notin Data \cup {Zero}

Cell == Data \cup {Zero, Junk}
Content == UNION {[1 .. m -> Cell] : m \in Sizes}
Kind == {"open", "create", "flush", "release", "getattr", "readdir", "mknod",
         "unlink", "rename", "truncate"}
Operation == [kind : Kind, f : Name \cup {None}, g : Name \cup {None},
              d : Fd \cup {None}, n : Sizes \cup {0}]
Record == [f : Name, data : Content, dirty : BOOLEAN]
Opening == [f : Name, mode : {"read", "write"}]

ASSUME ApartAssumption ==
  /\ None \notin Hnd \cup Name \cup Content \cup Operation \cup Record \cup Opening
  /\ Null \notin Record \cup {None}

VARIABLES
  file, open,         \* the brick: contents by name, handles
  error,              \* nxt->error: file not found, another that nxtfs_error
                      \*   has a number for, or none of them
  fd,                 \* nxt_file_t of the descriptors
  call, todo,         \* the operation under way, the commands it has to send
  h, w, buf, want, k, \* its handles, buffer, bytes to move, bytes moved
  ret, found, reply,  \* what it will return; names found; what it returned
  before, trouble,    \* for the properties: the files when it began, whether a
  fails               \*   transfer has failed in it; transfers that failed and
                      \*   handles left by a program that was killed

brickVars == <<file, open>>
opVars == <<todo, h, w, buf, want, k, ret, found>>
ghostVars == <<before, trouble, fails>>
vars == <<brickVars, error, fd, call, opVars, reply, ghostVars>>

Longest == CHOOSE n \in Sizes : \A m \in Sizes : m <= n
Min2(a, b) == IF a < b THEN a ELSE b
Blank(n) == [i \in 1 .. n |-> Junk]
Resized(s, n) == [i \in 1 .. n |-> IF i <= Len(s) THEN s[i] ELSE Junk]
Written(s, off, n, x) ==
  [i \in 1 .. (IF off + n > Len(s) THEN off + n ELSE Len(s)) |->
     IF i > off /\ i <= off + n THEN x ELSE s[i]]

Op(kind, f, g, d, n) == [f |-> f, g |-> g, kind |-> kind, d |-> d, n |-> n]

\* The commands that an operation sends when nothing fails
\* Faulty: the handle stays open.
ReadAllKeepsOpen == <<"OpenRead", "ReadPart">>
ReadAll == <<"OpenRead", "ReadPart", "CloseRead">>
WriteNew == <<"OpenWrite", "WritePart", "CloseWrite">>
Overwrite == <<"FindFirst", "CloseFound", "Remove">> \o WriteNew
Steps(o) ==
  CASE o.kind = "open" -> ReadAll
    [] o.kind = "getattr" -> <<"OpenRead", "CloseRead">>
    [] o.kind = "readdir" -> <<"FindFirst", "FindNext", "CloseFound">>
    [] o.kind = "mknod" -> WriteNew
    [] o.kind = "create" -> WriteNew \o ReadAll
    [] o.kind \in {"flush", "release"} -> IF fd[o.d].dirty THEN Overwrite ELSE <<>>
    [] o.kind = "unlink" -> <<"Remove">>
    [] o.kind = "rename" -> <<"OpenRead", "ReadPart">> \o WriteNew
                              \o <<"CloseRead", "Remove">>
    [] o.kind = "truncate" -> ReadAll \o Overwrite

Init ==
  /\ file \in [Name -> {None, <<Zero>>}] /\ open = [x \in Hnd |-> None]
  /\ error = "none" /\ fd = [d \in Fd |-> None]
  /\ call = None /\ todo = <<>> /\ h = None /\ w = None
  /\ buf = <<>> /\ want = 0 /\ k = 0
  /\ ret = "ok" /\ found = {} /\ reply = "none"
  /\ before = file /\ trouble = FALSE /\ fails = 0

-----------------------------------------------------------------------------
(* Operations begin and return; those on an open file's buffer are local.   *)

Usable(d) == fd[d] \notin {None, Null}

Begin(o) ==
  /\ call = None
  /\ call' = o /\ todo' = Steps(o)
  /\ UNCHANGED <<brickVars, error, fd, h, w, buf, want, k, ret, found, reply, ghostVars>>

\* The path of the new name exists or not; the kernel's idea of that may be old.
NamedCall ==
  \E f \in Name :
    \/ \E kind \in {"getattr", "mknod", "unlink"} : Begin(Op(kind, f, None, None, 0))
    \/ \E n \in Sizes : Begin(Op("truncate", f, None, None, n))
    \/ \E g \in Name \ {f} : Begin(Op("rename", f, g, None, 0))
    \/ \E d \in Fd, kind \in {"open", "create"} :
         fd[d] = None /\ Begin(Op(kind, f, None, d, 0))
DirCall == Begin(Op("readdir", None, None, None, 0))
FdCall == \E d \in Fd, kind \in {"flush", "release"} :
            Usable(d) /\ Begin(Op(kind, fd[d].f, None, d, 0))

\* nxtfs_open gives the descriptor its record; a failure may give it none.
\* nxtfs_close frees it, or loses it if the flush has failed.
NewFd(o) ==
  CASE o.kind \in {"open", "create"} ->
         [fd EXCEPT ![o.d] =
            IF ret = "failed" THEN None ELSE IF ret = "null" THEN Null
            ELSE [f |-> o.f, data |-> buf, dirty |-> FALSE]]
    [] o.kind = "flush" /\ ret = "ok" -> [fd EXCEPT ![o.d].dirty = FALSE]
    [] o.kind = "release" -> [fd EXCEPT ![o.d] = None]
    [] OTHER -> fd

\* Faulty: the number of the brick's error is returned as it is.
ToldRaw(e) == IF e = "none" THEN "ok" ELSE e
\* nxtfs_error: not every error has a number, and 0 is success.
Told(e) == IF e = "none" THEN "ok" ELSE "failed"

\* nxt_list expects the error that ends the search, whenever it was set.
Return ==
  /\ call # None /\ todo = <<>> /\ reply = "none"
  /\ fd' = NewFd(call)
  /\ LET ended == call.kind = "readdir" /\ error = "notfound" IN
       /\ error' = IF ended THEN "none" ELSE error
       /\ reply' = IF call.kind = "readdir" /\ ~ended THEN Told(error)
                   ELSE IF ret = "failed" THEN "failed" ELSE "ok"
  /\ h' = None /\ w' = None /\ buf' = <<>> /\ want' = 0 /\ k' = 0
  /\ ret' = "ok" /\ trouble' = FALSE
  /\ UNCHANGED <<brickVars, call, todo, found, before, fails>>

\* The kernel has the answer.
Finish == /\ reply # "none"
          /\ call' = None /\ reply' = "none" /\ found' = {} /\ before' = file
          /\ UNCHANGED <<brickVars, error, fd, todo, h, w, buf, want, k, ret,
                         trouble, fails>>

Edit(d, s) == /\ fd' = [fd EXCEPT ![d].data = s, ![d].dirty = TRUE]
              /\ UNCHANGED <<brickVars, error, call, opVars, reply, ghostVars>>

\* Beyond the end of the buffer a write is refused.
WriteBuf(d, off, n, x) ==
  /\ call = None /\ Usable(d)
  /\ off <= Len(fd[d].data)
  /\ LET s == Written(fd[d].data, off, n, x) IN Len(s) \in Sizes /\ Edit(d, s)

Ftruncate(d, n) == /\ call = None /\ Usable(d)
                   /\ Edit(d, Resized(fd[d].data, n))

\* The program is killed, or an operation uses a descriptor without a record.
End ==
  /\ call' = None /\ todo' = <<>> /\ fd' = [d \in Fd |-> None]
  /\ error' = "none" /\ reply' = "none" /\ found' = {}
  /\ h' = None /\ w' = None /\ buf' = <<>> /\ want' = 0 /\ k' = 0
  /\ ret' = "ok" /\ trouble' = FALSE
  /\ fails' = fails + Cardinality({x \in {h, w} \ {None} : open[x] # None})
  /\ fails' <= MaxFails
  /\ before' = file
  /\ UNCHANGED brickVars

-----------------------------------------------------------------------------
(* The brick's answers to the file commands.                               *)

Answer(ok, f, o, x, e) ==
  [ok |-> ok, file |-> f, open |-> o, x |-> x, err |-> e, lost |-> FALSE]
Refused(e) == Answer(FALSE, file, open, None, e)
Free == {x \in Hnd : open[x] = None}
Given(f, mode, files) ==
  {Answer(TRUE, files, [open EXCEPT ![x] = [f |-> f, mode |-> mode]], x, "none") : x \in Free}
Busy(f, modes) == \E x \in Hnd : open[x] # None /\ open[x].f = f /\ open[x].mode \in modes
Used == LET f[S \in SUBSET Name] ==
              IF S = {} THEN 0
              ELSE LET n == CHOOSE n \in S : TRUE
                   IN f[S \ {n}] + (IF file[n] = None THEN 0 ELSE Len(file[n]))
        IN f[Name]

AsksRead(f) == IF Free = {} \/ Busy(f, {"write"}) THEN {Refused("mapped")}
               ELSE IF file[f] = None THEN {Refused("notfound")}
               ELSE Given(f, "read", file)

\* Too little room is one of two errors, and nxtfs_error knows one of them.
\* Whether there are files of no bytes is not known.
AsksWrite(f, n) ==
  (IF Free = {} \/ file[f] # None THEN {Refused("mapped")}
   ELSE IF Used + n > Space THEN {Refused("mapped"), Refused("none")}
   ELSE Given(f, "write", [file EXCEPT ![f] = Blank(n)]))
  \cup {Refused("mapped") : i \in {1} \ 1 .. n}

\* The first name of S, with a handle or another one's handle
AsksFind(S) == IF Free = {} THEN {Refused("mapped")}
               ELSE IF S = {} THEN {Refused("notfound")}
               ELSE UNION {Given(f, "read", file) : f \in S}
AsksNext(S, x) == IF S = {} THEN {Refused("notfound")}
                  ELSE {Answer(TRUE, file, [open EXCEPT ![x].f = f], x, "none") : f \in S}

AsksClose(x) == {Answer(TRUE, file, [open EXCEPT ![x] = None], x, "none")}
AsksRemove(f) == IF file[f] = None THEN {Refused("notfound")}
                 ELSE IF Busy(f, {"read", "write"}) THEN {Refused("mapped")}
                 ELSE {Answer(TRUE, [file EXCEPT ![f] = None], open, None, "none")}
AsksMove(f, off, s) ==
  {Answer(TRUE, [file EXCEPT ![f] = [i \in 1 .. Len(@) |->
      IF i > off /\ i <= off + Len(s) THEN s[i - off] ELSE @[i]]], open, None, "none")}

\* The command l is at the head of todo.
At(l) == todo # <<>> /\ Head(todo) = l
\* It is executed with the answer b, whose way back fails, or not executed.
Lost(b, e) == {[a EXCEPT !.lost = TRUE] :
                 a \in {Answer(FALSE, b.file, b.open, None, e), Refused(e)}}
\* One of the answers A, or a failure: a connection error, an error of the
\* brick, or no reply, which leaves the error of before.
Answers(A) == A \cup UNION {UNION {Lost(b, e) : e \in {"none", "mapped", error}} : b \in A}
Takes(r) == /\ IF r.lost THEN fails < MaxFails /\ fails' = fails + 1 /\ trouble' = TRUE
               ELSE UNCHANGED <<trouble, fails>>
            /\ file' = r.file /\ open' = r.open
            /\ error' = IF r.ok THEN error ELSE r.err
            /\ UNCHANGED <<fd, call, reply, before>>

-----------------------------------------------------------------------------
(* The commands.                                                           *)

Target == IF call.kind = "rename" THEN call.g ELSE call.f
Source == CASE call.kind \in {"mknod", "create"} -> <<Zero>>
            [] call.kind \in {"flush", "release"} -> fd[call.d].data
            [] OTHER -> buf
\* nxtfs_truncate does not make empty files
NewSize == IF call.n = 0 THEN 1 ELSE call.n
After(n) == SubSeq(todo, n + 1, Len(todo))

\* nxt_file_open with NXT_OREAD
OpenRead ==
  At("OpenRead") /\ \E r \in Answers(AsksRead(call.f)) :
    /\ Takes(r)
    /\ h' = r.x
    /\ IF r.ok
       THEN LET size == Len(file[call.f]) IN
            /\ todo' = Tail(todo)
            /\ buf' = Blank(IF call.kind = "truncate" THEN NewSize ELSE size)
            /\ want' = IF call.kind = "truncate" THEN Min2(size, NewSize) ELSE size
            /\ k' = 0 /\ UNCHANGED ret
       ELSE /\ todo' = <<>> /\ UNCHANGED <<buf, want, k>>
            /\ IF call.kind \in {"open", "create"} THEN ret' \in {"failed", "null"}
               ELSE ret' = Told(r.err)
    /\ UNCHANGED <<w, found>>

\* nxt_file_read and nxt_file_write: whole chunks, and then what is left, even
\* if nothing is; the first failure ends it.
Part == IF k < (want \div Chunk) * Chunk THEN Chunk ELSE want % Chunk
\* Faulty: it ends with the last whole chunk.
MoreWhole(r) == r.ok /\ k + Chunk < (want \div Chunk) * Chunk
More(r) == r.ok /\ k < (want \div Chunk) * Chunk

ReadPart ==
  LET f == open[h].f IN
  At("ReadPart") /\ \E r \in Answers(AsksMove(f, 0, <<>>)) :
    /\ Takes(r)
    /\ buf' = IF ~r.ok THEN buf
              ELSE [i \in 1 .. Len(buf) |->
                      IF i > k /\ i <= k + Part THEN file[f][i] ELSE buf[i]]
    /\ k' = IF r.ok THEN k + Part ELSE k
    /\ todo' = IF More(r) THEN todo ELSE Tail(todo)
    /\ UNCHANGED <<h, w, want, ret, found>>

WritePart ==
  LET f == open[w].f
      A == AsksMove(f, k, SubSeq(Source, k + 1, k + Part)) IN
  At("WritePart") /\ \E r \in Answers(A) :
    /\ Takes(r)
    /\ k' = IF r.ok THEN k + Part ELSE k
    /\ todo' = IF More(r) THEN todo ELSE Tail(todo)
    /\ UNCHANGED <<h, w, buf, want, ret, found>>

\* nxt_file_close: nobody looks at its result.
Close(label, x) ==
  At(label) /\ \E r \in Answers(AsksClose(x)) :
    /\ Takes(r)
    /\ todo' = Tail(todo)
    /\ UNCHANGED <<h, w, buf, want, k, ret, found>>
CloseRead == Close("CloseRead", h)
CloseWrite == Close("CloseWrite", w)
CloseFound == Close("CloseFound", h)

\* nxt_file_open with NXT_OWLINE.  After a failure nxtfs_create goes on, and
\* so does nxtfs_rename when there is no number for the error.
OpenWrite ==
  LET A == AsksWrite(Target, Len(Source)) IN
  At("OpenWrite") /\ \E r \in Answers(A) :
    /\ Takes(r)
    /\ w' = r.x /\ k' = 0
    /\ want' = Len(Source)
    /\ IF r.ok THEN todo' = Tail(todo) /\ UNCHANGED ret
       ELSE CASE call.kind \in {"flush", "release"} -> todo' = <<>> /\ ret' = "failed"
              [] call.kind = "create" -> todo' = After(3) /\ UNCHANGED ret
              [] call.kind = "rename" ->
                   /\ ret' = Told(r.err)
                   /\ todo' = IF ret' = "ok" THEN After(3) ELSE <<"CloseRead">>
              [] OTHER -> todo' = <<>> /\ ret' = Told(r.err)
    /\ UNCHANGED <<h, buf, found>>

\* nxt_file_remove, whose result only nxtfs_unlink looks at
Remove ==
  At("Remove") /\ \E r \in Answers(AsksRemove(call.f)) :
    /\ Takes(r)
    /\ todo' = Tail(todo)
    /\ ret' = IF r.ok \/ call.kind # "unlink" THEN ret ELSE Told(r.err)
    /\ UNCHANGED <<h, w, buf, want, k, found>>

\* nxt_file_find_first: of the file that is overwritten, or of all of them.
FindFirst ==
  LET S == {f \in Name : file[f] # None /\ call.f \in {f, None}} IN
  At("FindFirst") /\ \E r \in Answers(AsksFind(S)) :
    /\ Takes(r)
    /\ h' = r.x
    /\ IF call.kind = "readdir"
       THEN /\ todo' = IF r.ok THEN Tail(todo) ELSE <<>>
            /\ found' = IF r.ok THEN {open'[r.x].f} ELSE {}
       ELSE todo' = After(IF r.ok THEN 1 ELSE 3) /\ UNCHANGED found
    /\ UNCHANGED <<w, buf, want, k, ret>>

FindNext ==
  LET S == {f \in Name : file[f] # None /\ f \notin found} IN
  At("FindNext") /\ \E r \in Answers(AsksNext(S, h)) :
    /\ Takes(r)
    /\ found' = IF r.ok THEN found \cup {open'[h].f} ELSE found
    /\ todo' = IF r.ok THEN todo ELSE Tail(todo)
    /\ UNCHANGED <<h, w, buf, want, k, ret>>

-----------------------------------------------------------------------------
Next ==
  \/ NamedCall \/ DirCall \/ FdCall \/ Return \/ Finish \/ End
  \/ \E d \in Fd : \/ \E n \in Sizes : Ftruncate(d, n)
                   \/ \E off, n \in 0 .. Longest, x \in Data :
                        WriteBuf(d, off, n, x)
  \/ OpenRead \/ ReadPart \/ CloseRead
  \/ OpenWrite \/ WritePart \/ CloseWrite
  \/ FindFirst \/ FindNext \/ CloseFound \/ Remove

Spec == Init /\ [][Next]_vars
=============================================================================
