------------------------------ MODULE NxtFiles ------------------------------
(***************************************************************************)
(* What the file system of nxt_mount promises: each operation looks atomic, *)
(* and does what it is for or fails.  A failure leaves the files as they    *)
(* were, except that an operation that replaces a file may lose it.  When a *)
(* transfer to the brick fails during an operation, or the program ends,    *)
(* only the files that the operation names may be damaged.                  *)
(***************************************************************************)
EXTENDS Integers, Sequences

CONSTANTS Name, Fd, Data, Zero, Junk, None, Null,
          Sizes    \* bound: cells that a file can have

VARIABLES file,   \* contents by name
          view,   \* open descriptors: name, contents, not written back yet
          call,   \* the operation under way
          trouble,\* a transfer has failed in it
          reply,  \* what the last one returned
          listed, \* the names readdir has found
          leaked  \* an earlier failure may have left files open on the brick

filesVars == <<file, view, call, trouble, reply, listed, leaked>>

Cell == Data \cup {Zero, Junk}

\* s with n cells; what is in new ones is not defined
Resized(s, n) == [i \in 1 .. n |-> IF i <= Len(s) THEN s[i] ELSE Junk]
\* s with n cells x from off on
Written(s, off, n, x) ==
  [i \in 1 .. (IF off + n > Len(s) THEN off + n ELSE Len(s)) |->
     IF i > off /\ i <= off + n THEN x ELSE s[i]]

Operation ==
  [kind : {"open", "create", "flush", "release", "getattr", "readdir", "mknod",
           "unlink", "rename", "truncate"},
   f : Name \cup {None}, g : Name \cup {None}, d : Fd \cup {None}, n : Sizes \cup {0}]

FilesInit == /\ file \in [Name -> Seq(Cell) \cup {None}]
             /\ view = [d \in Fd |-> None]
             /\ call = None /\ trouble = FALSE /\ reply = "none"
             /\ listed = {} /\ leaked = FALSE

Call == /\ call = None /\ call' \in Operation
        /\ UNCHANGED <<file, view, trouble, reply, listed, leaked>>

Trouble == /\ call # None /\ reply = "none" /\ trouble' = TRUE /\ leaked' = TRUE
           /\ UNCHANGED <<file, view, call, reply, listed>>

Seen(f, s) == [f |-> f, data |-> s, dirty |-> FALSE]

\* The operation o does what it is for.  A rename may leave the old file when
\* that is open on the brick.
Done(o) ==
  /\ reply' = "ok"
  /\ listed' = IF o.kind = "readdir" THEN {f \in Name : file[f] # None} ELSE listed
  /\ CASE o.kind \in {"getattr", "readdir"} -> UNCHANGED <<file, view>>
       [] o.kind = "mknod" ->
            /\ file[o.f] = None /\ file' = [file EXCEPT ![o.f] = <<Zero>>]
            /\ UNCHANGED view
       [] o.kind = "unlink" ->
            /\ file[o.f] # None /\ file' = [file EXCEPT ![o.f] = None]
            /\ UNCHANGED view
       [] o.kind = "open" ->
            /\ file[o.f] # None /\ view' = [view EXCEPT ![o.d] = Seen(o.f, file[o.f])]
            /\ UNCHANGED file
       [] o.kind = "create" ->
            /\ file' = [file EXCEPT ![o.f] = IF @ = None THEN <<Zero>> ELSE @]
            /\ view' = [view EXCEPT ![o.d] = Seen(o.f, file'[o.f])]
       [] o.kind \in {"flush", "release"} ->
            /\ file' = IF view[o.d].dirty
                       THEN [file EXCEPT ![o.f] = view[o.d].data] ELSE file
            /\ view' = [view EXCEPT ![o.d] =
                 IF o.kind = "release" THEN None ELSE [@ EXCEPT !.dirty = FALSE]]
       [] o.kind = "truncate" ->
            /\ file[o.f] # None
            /\ file' = [file EXCEPT ![o.f] = Resized(@, IF o.n = 0 THEN 1 ELSE o.n)]
            /\ UNCHANGED view
       [] o.kind = "rename" ->
            /\ file[o.f] # None /\ file[o.g] = None
            /\ LET copied == [file EXCEPT ![o.g] = file[o.f]] IN
                 \/ file' = [copied EXCEPT ![o.f] = None]
                 \/ leaked /\ file' = copied
            /\ UNCHANGED view

\* What o names may be gone, or be anything, when O is true.
Replaces == {"flush", "release", "truncate", "rename"}
OnlyIts(o) == \A f \in Name \ {o.f, o.g} : file'[f] = file[f]
Views(o) == /\ \A d \in Fd \ {o.d} : view'[d] = view[d]
            /\ o.kind = "release" => view'[o.d] = None
            /\ o.kind = "flush" => view'[o.d] = view[o.d]

\* The operation fails for another reason than a transfer.  An open or create
\* that fails may return success with a descriptor that names no file.
Failed(o) ==
  /\ reply' \in {"ok", "failed"} /\ Views(o)
  /\ o.kind \in {"flush", "release", "readdir"} => reply' = "failed"
  /\ o.kind \in {"open", "create"} =>
       view'[o.d] \in IF reply' = "ok" THEN {Null} ELSE {None}
  /\ o.kind \notin {"open", "create", "flush", "release"} => view' = view
  /\ OnlyIts(o)
  /\ o.g # None => file'[o.g] = file[o.g]
  /\ \/ file'[o.f] = file[o.f]
     \/ file'[o.f] = None /\ o.kind \in Replaces
     \/ file'[o.f] = <<Zero>> /\ file[o.f] = None /\ o.kind = "create"

Return ==
  /\ call # None /\ reply = "none" /\ reply' # "none"
  /\ IF trouble THEN OnlyIts(call) /\ \A d \in Fd \ {call.d} : view'[d] = view[d]
                ELSE Done(call) \/ Failed(call)
  /\ trouble' = FALSE /\ UNCHANGED <<call, leaked>>

Finish == /\ reply # "none"
          /\ call' = None /\ reply' = "none" /\ listed' = {}
          /\ UNCHANGED <<file, view, trouble, leaked>>

Ready(d) == view[d] \notin {None, Null} /\ call = None
Edit(d, s) == /\ view' = [view EXCEPT ![d].data = s, ![d].dirty = TRUE]
              /\ UNCHANGED <<file, call, trouble, reply, listed, leaked>>

Write(d, off, n, x) == /\ Ready(d) /\ off <= Len(view[d].data)
                       /\ Edit(d, Written(view[d].data, off, n, x))
Ftruncate(d, n) == Ready(d) /\ Edit(d, Resized(view[d].data, n))

\* The program ends, in the middle of an operation or not.
End == /\ view' = [d \in Fd |-> None]
       /\ IF call = None THEN UNCHANGED file ELSE OnlyIts(call)
       /\ call' = None /\ trouble' = FALSE /\ reply' = "none" /\ listed' = {}
       /\ leaked' \in {leaked, TRUE}

FilesNext ==
  \/ Call \/ Trouble \/ Return \/ Finish \/ End
  \/ \E d \in Fd, n \in Sizes :
       \/ Ftruncate(d, n)
       \/ \E off, len \in 0 .. n, x \in Data : Write(d, off, len, x)

FilesSpec == FilesInit /\ [][FilesNext]_filesVars
=============================================================================
