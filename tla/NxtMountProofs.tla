---------------------------- MODULE NxtMountProofs ----------------------------
(***************************************************************************)
(* Proofs about nxt_mount, for all files, sizes and numbers of handles and  *)
(* whatever fails: its operations give back the handles of the brick on     *)
(* every path (HInv), its state has its types, and its users see the file   *)
(* system of NxtFiles (FilesInv: what an operation has done to the files    *)
(* when it is about to send a command).                                    *)
(***************************************************************************)
EXTENDS NxtMountProperties, TLAPS, FiniteSetTheorems

OpensH == {"OpenRead", "FindFirst"}
ClosesH == {"CloseRead", "CloseFound"}

\* From the p-th of the commands t on, a handle that is held now is closed
\* before another one is opened in its place.
ClosesFrom(t, p, opens, closes) ==
  \E i \in p .. Len(t) : t[i] \in closes /\ \A j \in p .. (i - 1) : t[j] \notin opens
HoldsH(t, p) == ClosesFrom(t, p, OpensH, ClosesH)
HoldsW(t, p) == ClosesFrom(t, p, {"OpenWrite"}, {"CloseWrite"})

\* Commands that close what they open, and that may be cut short where nothing
\* is open: but for rename, which goes on to close the old file.
Orderly(kind, t) ==
  /\ t \in Seq(Commands)
  /\ \A p \in DOMAIN t :
       /\ t[p] \in OpensH => HoldsH(t, p + 1) /\ ~HoldsW(t, p)
       /\ t[p] = "OpenWrite" =>
            /\ HoldsW(t, p + 1)
            /\ IF kind = "rename" THEN Len(t) = p + 4 /\ t[p + 3] = "CloseRead"
               ELSE ~HoldsH(t, p)
       /\ t[p] = "FindNext" => HoldsH(t, p)

\* The p-th of the commands t
Nth(t, p) == IF p \in 1 .. Len(t) THEN t[p] ELSE "end"

Replacing == {"flush", "release", "truncate"}

\* The command l of an operation is followed by m.
Follows(kind, l, m) ==
  \/ l = "OpenRead" /\ m = "ReadPart" /\ kind \in {"open", "create", "rename", "truncate"}
  \/ l = "OpenRead" /\ m = "CloseRead" /\ kind = "getattr"
  \/ l = "ReadPart" /\ m = "CloseRead" /\ kind \in {"open", "create", "truncate"}
  \/ l = "ReadPart" /\ m = "OpenWrite" /\ kind = "rename"
  \/ l = "CloseRead" /\ m = "end" /\ kind \in {"open", "create", "getattr"}
  \/ l = "CloseRead" /\ m = "Remove" /\ kind = "rename"
  \/ l = "CloseRead" /\ m = "FindFirst" /\ kind = "truncate"
  \/ l = "FindFirst" /\ m = "FindNext" /\ kind = "readdir"
  \/ l = "FindFirst" /\ m = "CloseFound" /\ kind \in Replacing
  \/ l = "FindNext" /\ m = "CloseFound" /\ kind = "readdir"
  \/ l = "CloseFound" /\ m = "end" /\ kind = "readdir"
  \/ l = "CloseFound" /\ m = "Remove" /\ kind \in Replacing
  \/ l = "Remove" /\ m = "end" /\ kind \in {"unlink", "rename"}
  \/ l = "Remove" /\ m = "OpenWrite" /\ kind \in Replacing
  \/ l = "OpenWrite" /\ m = "WritePart" /\ kind \in Replacing \cup {"mknod", "create", "rename"}
  \/ l = "WritePart" /\ m = "CloseWrite" /\ kind \in Replacing \cup {"mknod", "create", "rename"}
  \/ l = "CloseWrite" /\ m = "end" /\ kind \in Replacing \cup {"mknod"}
  \/ l = "CloseWrite" /\ m = "OpenRead" /\ kind = "create"
  \/ l = "CloseWrite" /\ m = "CloseRead" /\ kind = "rename"
\* Commands in their order to the last, or a rename that was given up
Course(kind, t) ==
  /\ t \in Seq(Commands)
  /\ \/ \A p \in 1 .. Len(t) : Follows(kind, t[p], Nth(t, p + 1))
     \/ kind = "rename" /\ t = <<"CloseRead">>

Opened(o) == {x \in Hnd : o[x] # None}
\* The handles that the commands to come will close
Held == {x \in {h} : HoldsH(todo, 1)} \cup {x \in {w} : HoldsW(todo, 1)}

Counted == DOMAIN open = Hnd /\ fails \in Nat /\ Cardinality(Opened(open) \ Held) <= fails
HInv == Counted /\ IF call = None THEN todo = <<>> ELSE Orderly(call.kind, todo)

-----------------------------------------------------------------------------
(* Sequences of commands.                                                  *)

\* What is left of a sequence closes what the sequence would have closed.
LEMMA ClosesShift ==
  ASSUME NEW t \in Seq(Commands), NEW s \in Seq(Commands), NEW n \in Nat,
         Len(s) = Len(t) - n, \A i \in 1 .. Len(s) : s[i] = t[i + n],
         NEW p \in Nat \ {0}, NEW opens, NEW closes
  PROVE  ClosesFrom(s, p, opens, closes) <=> ClosesFrom(t, p + n, opens, closes)
<1>1. ASSUME NEW i \in p .. Len(s), s[i] \in closes, \A j \in p .. (i - 1) : s[j] \notin opens
      PROVE  ClosesFrom(t, p + n, opens, closes)
  <2>1. i + n \in (p + n) .. Len(t) /\ t[i + n] \in closes
    BY <1>1
  <2>2. ASSUME NEW j \in (p + n) .. (i + n - 1) PROVE t[j] \notin opens
    <3>1. j - n \in p .. (i - 1) /\ j - n \in 1 .. Len(s) /\ (j - n) + n = j
      BY Len(s) \in Nat
    <3> QED BY <1>1, <3>1
  <2> QED BY <2>1, <2>2 DEF ClosesFrom
<1>2. ASSUME NEW i \in (p + n) .. Len(t), t[i] \in closes,
             \A j \in (p + n) .. (i - 1) : t[j] \notin opens
      PROVE  ClosesFrom(s, p, opens, closes)
  <2>1. i - n \in p .. Len(s) /\ i - n \in 1 .. Len(s) /\ (i - n) + n = i
    BY Len(s) \in Nat, Len(t) \in Nat
  <2>2. s[i - n] \in closes
    BY <1>2, <2>1
  <2>3. ASSUME NEW j \in p .. (i - n - 1) PROVE s[j] \notin opens
    <3>1. j + n \in (p + n) .. (i - 1) /\ j \in 1 .. Len(s)
      BY <2>1, Len(s) \in Nat
    <3> QED BY <1>2, <3>1
  <2> QED BY <2>1, <2>2, <2>3 DEF ClosesFrom
<1> QED BY <1>1, <1>2 DEF ClosesFrom

LEMMA HoldsShift ==
  ASSUME NEW t \in Seq(Commands), NEW s \in Seq(Commands), NEW n \in Nat,
         Len(s) = Len(t) - n, \A i \in 1 .. Len(s) : s[i] = t[i + n]
  PROVE  \A p \in Nat \ {0} : /\ HoldsH(s, p) <=> HoldsH(t, p + n)
                              /\ HoldsW(s, p) <=> HoldsW(t, p + n)
<1> SUFFICES ASSUME NEW p \in Nat \ {0}
             PROVE  /\ HoldsH(s, p) <=> HoldsH(t, p + n)
                    /\ HoldsW(s, p) <=> HoldsW(t, p + n)
  OBVIOUS
<1>1. ClosesFrom(s, p, OpensH, ClosesH) <=> ClosesFrom(t, p + n, OpensH, ClosesH)
  BY ClosesShift
<1>2. ClosesFrom(s, p, {"OpenWrite"}, {"CloseWrite"})
        <=> ClosesFrom(t, p + n, {"OpenWrite"}, {"CloseWrite"})
  BY ClosesShift
<1> QED BY <1>1, <1>2 DEF HoldsH, HoldsW

LEMMA OrderlyShift ==
  ASSUME NEW kind, NEW t, Orderly(kind, t), NEW s \in Seq(Commands), NEW n \in Nat,
         Len(s) = Len(t) - n, \A i \in 1 .. Len(s) : s[i] = t[i + n]
  PROVE  Orderly(kind, s)
<1>1. t \in Seq(Commands) /\ Len(t) \in Nat /\ Len(s) \in Nat
  BY DEF Orderly
<1>2. ASSUME NEW p \in DOMAIN s
      PROVE  /\ s[p] \in OpensH => HoldsH(s, p + 1) /\ ~HoldsW(s, p)
             /\ s[p] = "OpenWrite" =>
                  /\ HoldsW(s, p + 1)
                  /\ IF kind = "rename" THEN Len(s) = p + 4 /\ s[p + 3] = "CloseRead"
                     ELSE ~HoldsH(s, p)
             /\ s[p] = "FindNext" => HoldsH(s, p)
  <2>1. p \in 1 .. Len(s) /\ p \in Nat \ {0} /\ p + 1 \in Nat \ {0} /\ p + n \in DOMAIN t
    BY <1>1
  <2>2. s[p] = t[p + n]
    BY <2>1
  <2>3. /\ HoldsH(s, p) <=> HoldsH(t, p + n)
        /\ HoldsW(s, p) <=> HoldsW(t, p + n)
        /\ HoldsH(s, p + 1) <=> HoldsH(t, p + 1 + n)
        /\ HoldsW(s, p + 1) <=> HoldsW(t, p + 1 + n)
    BY <1>1, <2>1, HoldsShift
  <2>4. p + 1 + n = p + n + 1
    BY <2>1
  <2>5. CASE kind = "rename" /\ s[p] = "OpenWrite"
    <3>1. Len(t) = (p + n) + 4 /\ t[(p + n) + 3] = "CloseRead"
      BY <2>1, <2>2, <2>5 DEF Orderly
    <3>2. Len(s) = p + 4 /\ p + 3 \in 1 .. Len(s) /\ (p + 3) + n = (p + n) + 3
      BY <1>1, <2>1, <3>1
    <3>3. s[p + 3] = "CloseRead"
      BY <3>1, <3>2
    <3> QED BY <2>1, <2>2, <2>3, <2>4, <2>5, <3>2, <3>3 DEF Orderly, OpensH
  <2>6. CASE ~(kind = "rename" /\ s[p] = "OpenWrite")
    BY <2>1, <2>2, <2>3, <2>4, <2>6 DEF Orderly
  <2> QED BY <2>5, <2>6
<1> QED BY <1>2 DEF Orderly

LEMMA NothingLeft == \A kind : Orderly(kind, <<>>) /\ ~HoldsH(<<>>, 1) /\ ~HoldsW(<<>>, 1)
BY DEF Orderly, HoldsH, HoldsW, ClosesFrom

LEMMA AfterOrderly ==
  ASSUME NEW kind, Orderly(kind, todo), NEW n \in Nat PROVE Orderly(kind, After(n))
<1>1. todo \in Seq(Commands) /\ Len(todo) \in Nat
  BY DEF Orderly
<1>2. CASE n <= Len(todo)
  <2>1. /\ After(n) \in Seq(Commands) /\ Len(After(n)) = Len(todo) - n
        /\ \A i \in 1 .. Len(After(n)) : After(n)[i] = todo[i + n]
    BY <1>1, <1>2 DEF After
  <2> QED BY <2>1, OrderlyShift
<1>3. CASE n > Len(todo)
  <2>1. After(n) = <<>>
    BY <1>1, <1>3 DEF After
  <2> QED BY <2>1, NothingLeft
<1> QED BY <1>1, <1>2, <1>3

\* What the first command says of those behind it
LEMMA TailHolds ==
  ASSUME NEW kind, NEW t, Orderly(kind, t), t # <<>>
  PROVE  /\ Orderly(kind, Tail(t)) /\ Head(t) \in Commands
         /\ Head(t) \notin ClosesH /\ HoldsH(t, 1) => HoldsH(Tail(t), 1)
         /\ Head(t) # "CloseWrite" /\ HoldsW(t, 1) => HoldsW(Tail(t), 1)
         /\ Head(t) \in OpensH =>
              HoldsH(Tail(t), 1) /\ ~HoldsH(t, 1) /\ ~HoldsW(t, 1)
         /\ Head(t) = "OpenWrite" =>
              /\ HoldsW(Tail(t), 1) /\ ~HoldsW(t, 1)
              /\ kind # "rename" => ~HoldsH(t, 1)
              /\ kind = "rename" => Len(t) = 5 /\ t[4] = "CloseRead"
         /\ Head(t) = "FindNext" => HoldsH(t, 1)
<1>1. /\ t \in Seq(Commands) /\ Len(t) \in Nat /\ 1 \in DOMAIN t /\ Head(t) = t[1]
      /\ Tail(t) \in Seq(Commands) /\ Len(Tail(t)) = Len(t) - 1
      /\ \A i \in 1 .. Len(Tail(t)) : Tail(t)[i] = t[i + 1]
  BY DEF Orderly
<1>2. Orderly(kind, Tail(t))
  BY <1>1, OrderlyShift
<1>3. (HoldsH(Tail(t), 1) <=> HoldsH(t, 2)) /\ (HoldsW(Tail(t), 1) <=> HoldsW(t, 2))
  <2>1. \A p \in Nat \ {0} : /\ HoldsH(Tail(t), p) <=> HoldsH(t, p + 1)
                             /\ HoldsW(Tail(t), p) <=> HoldsW(t, p + 1)
    BY <1>1, HoldsShift
  <2> QED BY <2>1, 1 + 1 = 2
<1>4. ASSUME NEW opens, NEW closes, ClosesFrom(t, 1, opens, closes), t[1] \notin closes
      PROVE  ClosesFrom(t, 2, opens, closes) /\ t[1] \notin opens
  BY <1>1, <1>4 DEF ClosesFrom
<1>5. Head(t) \notin ClosesH /\ HoldsH(t, 1) => HoldsH(Tail(t), 1) /\ Head(t) \notin OpensH
  BY <1>1, <1>3, <1>4 DEF HoldsH
<1>6. Head(t) # "CloseWrite" /\ HoldsW(t, 1) => HoldsW(Tail(t), 1) /\ Head(t) # "OpenWrite"
  BY <1>1, <1>3, <1>4 DEF HoldsW
<1>7. /\ t[1] \in OpensH => HoldsH(t, 2) /\ ~HoldsW(t, 1)
      /\ t[1] = "OpenWrite" =>
           /\ HoldsW(t, 2)
           /\ IF kind = "rename" THEN Len(t) = 5 /\ t[4] = "CloseRead" ELSE ~HoldsH(t, 1)
      /\ t[1] = "FindNext" => HoldsH(t, 1)
  BY <1>1, 1 + 1 = 2, 1 + 4 = 5, 1 + 3 = 4 DEF Orderly
<1>8. OpensH \cap ClosesH = {} /\ Head(t) \in Commands
  BY <1>1 DEF OpensH, ClosesH
<1> QED BY <1>1, <1>2, <1>3, <1>5, <1>6, <1>7, <1>8

\* A sequence of n commands in front of others
LEMMA Join ==
  ASSUME NEW a \in Seq(Commands), NEW b \in Seq(Commands), NEW n \in Nat, Len(a) = n
  PROVE  /\ a \o b \in Seq(Commands) /\ Len(a \o b) = n + Len(b)
         /\ \A i \in 1 .. n : (a \o b)[i] = a[i]
         /\ \A i \in 1 .. Len(b) : (a \o b)[n + i] = b[i]
OBVIOUS

LEMMA ThreeAndMore ==
  ASSUME NEW a \in Seq(Commands), NEW b \in Seq(Commands), Len(a) = 3, Len(b) = 3 \/ Len(b) = 6
  PROVE  /\ a \o b \in Seq(Commands) /\ Len(a \o b) = 3 + Len(b)
         /\ (a \o b)[1] = a[1] /\ (a \o b)[2] = a[2] /\ (a \o b)[3] = a[3]
         /\ (a \o b)[4] = b[1] /\ (a \o b)[5] = b[2] /\ (a \o b)[6] = b[3]
         /\ Len(b) = 6 =>
              (a \o b)[7] = b[4] /\ (a \o b)[8] = b[5] /\ (a \o b)[9] = b[6]
<1>1. /\ a \o b \in Seq(Commands) /\ Len(a \o b) = 3 + Len(b)
      /\ \A i \in 1 .. 3 : (a \o b)[i] = a[i]
      /\ \A i \in 1 .. Len(b) : (a \o b)[3 + i] = b[i]
  <2>1. 3 \in Nat /\ Len(b) \in Nat
    OBVIOUS
  <2> QED BY <2>1, Join
<1>2. /\ 1 \in 1 .. Len(b) /\ 2 \in 1 .. Len(b) /\ 3 \in 1 .. Len(b)
      /\ Len(b) = 6 => 4 \in 1 .. Len(b) /\ 5 \in 1 .. Len(b) /\ 6 \in 1 .. Len(b)
  <2>1. CASE Len(b) = 3
    BY <2>1
  <2>2. CASE Len(b) = 6
    BY <2>2
  <2> QED BY <2>1, <2>2
<1>3. /\ (a \o b)[3 + 1] = b[1] /\ (a \o b)[3 + 2] = b[2] /\ (a \o b)[3 + 3] = b[3]
      /\ Len(b) = 6 =>
           (a \o b)[3 + 4] = b[4] /\ (a \o b)[3 + 5] = b[5] /\ (a \o b)[3 + 6] = b[6]
  BY <1>1, <1>2, Zenon
<1>4. /\ 3 + 1 = 4 /\ 3 + 2 = 5 /\ 3 + 3 = 6 /\ 3 + 4 = 7 /\ 3 + 5 = 8 /\ 3 + 6 = 9
      /\ 1 \in 1 .. 3 /\ 2 \in 1 .. 3 /\ 3 \in 1 .. 3
  OBVIOUS
<1> QED BY <1>1, <1>3, <1>4, Zenon

\* The file that is replaced is found, closed and removed, and written anew.
LEMMA OverwriteIs ==
  /\ Overwrite \in Seq(Commands) /\ Len(Overwrite) = 6
  /\ Overwrite[1] = "FindFirst" /\ Overwrite[2] = "CloseFound" /\ Overwrite[3] = "Remove"
  /\ Overwrite[4] = "OpenWrite" /\ Overwrite[5] = "WritePart" /\ Overwrite[6] = "CloseWrite"
<1> DEFINE a == <<"FindFirst", "CloseFound", "Remove">>
           b == <<"OpenWrite", "WritePart", "CloseWrite">>
<1>1. /\ a \in Seq(Commands) /\ Len(a) = 3
      /\ a[1] = "FindFirst" /\ a[2] = "CloseFound" /\ a[3] = "Remove"
      /\ b \in Seq(Commands) /\ Len(b) = 3
      /\ b[1] = "OpenWrite" /\ b[2] = "WritePart" /\ b[3] = "CloseWrite"
  BY DEF Commands
<1>2. Overwrite = a \o b
  BY DEF Overwrite, WriteNew
<1> HIDE DEF a, b
<1> QED BY <1>1, <1>2, ThreeAndMore

\* The commands of every operation, one by one
Three(t, a, b, c) == Len(t) = 3 /\ t[1] = a /\ t[2] = b /\ t[3] = c
Six(t, a, b, c, d, e, f) ==
  Len(t) = 6 /\ t[1] = a /\ t[2] = b /\ t[3] = c /\ t[4] = d /\ t[5] = e /\ t[6] = f
Sequence(kind, t) ==
  /\ kind = "open" => Three(t, "OpenRead", "ReadPart", "CloseRead")
  /\ kind = "getattr" => Len(t) = 2 /\ t[1] = "OpenRead" /\ t[2] = "CloseRead"
  /\ kind = "readdir" => Three(t, "FindFirst", "FindNext", "CloseFound")
  /\ kind = "mknod" => Three(t, "OpenWrite", "WritePart", "CloseWrite")
  /\ kind = "create" => Six(t, "OpenWrite", "WritePart", "CloseWrite",
                                 "OpenRead", "ReadPart", "CloseRead")
  /\ kind \in {"flush", "release"} =>
       Six(t, "FindFirst", "CloseFound", "Remove", "OpenWrite", "WritePart", "CloseWrite")
  /\ kind = "unlink" => Len(t) = 1 /\ t[1] = "Remove"
  /\ kind = "rename" =>
       /\ Len(t) = 7
       /\ t[1] = "OpenRead" /\ t[2] = "ReadPart" /\ t[3] = "OpenWrite" /\ t[4] = "WritePart"
       /\ t[5] = "CloseWrite" /\ t[6] = "CloseRead" /\ t[7] = "Remove"
  /\ kind = "truncate" =>
       /\ Len(t) = 9
       /\ t[1] = "OpenRead" /\ t[2] = "ReadPart" /\ t[3] = "CloseRead"
       /\ t[4] = "FindFirst" /\ t[5] = "CloseFound" /\ t[6] = "Remove"
       /\ t[7] = "OpenWrite" /\ t[8] = "WritePart" /\ t[9] = "CloseWrite"

LEMMA StepsAre ==
  ASSUME NEW o, o.kind \in Kind
  PROVE  \/ Steps(o) \in Seq(Commands) /\ Sequence(o.kind, Steps(o))
         \/ o.kind \in {"flush", "release"} /\ Steps(o) = <<>> /\ ~fd[o.d].dirty
<1> USE DEF Three, Six
<1>1. CASE o.kind = "open"
  <2>1. Steps(o) = <<"OpenRead", "ReadPart", "CloseRead">>
    BY <1>1 DEF Steps, ReadAll
  <2> QED BY <1>1, <2>1 DEF Sequence, Commands
<1>2. CASE o.kind = "getattr"
  <2>1. Steps(o) = <<"OpenRead", "CloseRead">>
    BY <1>2 DEF Steps
  <2> QED BY <1>2, <2>1 DEF Sequence, Commands
<1>3. CASE o.kind = "readdir"
  <2>1. Steps(o) = <<"FindFirst", "FindNext", "CloseFound">>
    BY <1>3 DEF Steps
  <2> QED BY <1>3, <2>1 DEF Sequence, Commands
<1>4. CASE o.kind = "mknod"
  <2>1. Steps(o) = <<"OpenWrite", "WritePart", "CloseWrite">>
    BY <1>4 DEF Steps, WriteNew
  <2> QED BY <1>4, <2>1 DEF Sequence, Commands
<1>5. CASE o.kind = "create"
  <2> DEFINE a == <<"OpenWrite", "WritePart", "CloseWrite">>
             b == <<"OpenRead", "ReadPart", "CloseRead">>
             t == Steps(o)
  <2>1. /\ a \in Seq(Commands) /\ Len(a) = 3
        /\ a[1] = "OpenWrite" /\ a[2] = "WritePart" /\ a[3] = "CloseWrite"
        /\ b \in Seq(Commands) /\ Len(b) = 3
        /\ b[1] = "OpenRead" /\ b[2] = "ReadPart" /\ b[3] = "CloseRead"
    BY DEF Commands
  <2>2. t = a \o b
    BY <1>5 DEF Steps, WriteNew, ReadAll
  <2> HIDE DEF a, b, t
  <2>3. /\ t \in Seq(Commands) /\ Len(t) = 6
        /\ t[1] = "OpenWrite" /\ t[2] = "WritePart" /\ t[3] = "CloseWrite"
        /\ t[4] = "OpenRead" /\ t[5] = "ReadPart" /\ t[6] = "CloseRead"
    BY <2>1, <2>2, ThreeAndMore
  <2>4. Sequence("create", t)
    BY <2>3 DEF Sequence
  <2> QED BY <1>5, <2>3, <2>4 DEF t
<1>6. CASE o.kind \in {"flush", "release"}
  <2>1. Steps(o) = IF fd[o.d].dirty THEN Overwrite ELSE <<>>
    BY <1>6 DEF Steps
  <2>2. Overwrite \in Seq(Commands) /\ Sequence(o.kind, Overwrite)
    BY <1>6, OverwriteIs DEF Sequence
  <2> QED BY <1>6, <2>1, <2>2
<1>7. CASE o.kind = "unlink"
  <2>1. Steps(o) = <<"Remove">>
    BY <1>7 DEF Steps
  <2> QED BY <1>7, <2>1 DEF Sequence, Commands
<1>8. CASE o.kind = "rename"
  <2> DEFINE a == <<"OpenRead", "ReadPart">>
             b == <<"OpenWrite", "WritePart", "CloseWrite">>
             c == <<"CloseRead", "Remove">>
             d == a \o b
             t == Steps(o)
  <2>1. /\ a \in Seq(Commands) /\ Len(a) = 2 /\ a[1] = "OpenRead" /\ a[2] = "ReadPart"
        /\ b \in Seq(Commands) /\ Len(b) = 3
        /\ b[1] = "OpenWrite" /\ b[2] = "WritePart" /\ b[3] = "CloseWrite"
        /\ c \in Seq(Commands) /\ Len(c) = 2 /\ c[1] = "CloseRead" /\ c[2] = "Remove"
    BY DEF Commands
  <2>2. t = d \o c
    BY <1>8 DEF Steps, WriteNew
  <2> HIDE DEF a, b, c, t
  <2>3. /\ d \in Seq(Commands) /\ Len(d) = 5
        /\ \A i \in 1 .. 2 : d[i] = a[i]
        /\ \A i \in 1 .. 3 : d[2 + i] = b[i]
    <3>1. /\ a \o b \in Seq(Commands) /\ Len(a \o b) = 2 + Len(b)
          /\ \A i \in 1 .. 2 : (a \o b)[i] = a[i]
          /\ \A i \in 1 .. Len(b) : (a \o b)[2 + i] = b[i]
      BY <2>1, Join, 2 \in Nat
    <3> QED BY <2>1, <3>1
  <2>4. /\ d[1] = a[1] /\ d[2] = a[2]
        /\ d[2 + 1] = b[1] /\ d[2 + 2] = b[2] /\ d[2 + 3] = b[3]
    BY <2>3
  <2> HIDE DEF d
  <2>5. /\ t \in Seq(Commands) /\ Len(t) = 7
        /\ \A i \in 1 .. 5 : t[i] = d[i]
        /\ \A i \in 1 .. 2 : t[5 + i] = c[i]
    <3>1. /\ d \o c \in Seq(Commands) /\ Len(d \o c) = 5 + Len(c)
          /\ \A i \in 1 .. 5 : (d \o c)[i] = d[i]
          /\ \A i \in 1 .. Len(c) : (d \o c)[5 + i] = c[i]
      BY <2>1, <2>3, Join, 5 \in Nat, Zenon
    <3>2. Len(c) = 2 /\ 5 + 2 = 7
      BY <2>1
    <3> QED BY <2>2, <3>1, <3>2, Zenon
  <2>6. t[5 + 1] = c[1] /\ t[5 + 2] = c[2]
    BY <2>5
  <2>7. /\ t[1] = "OpenRead" /\ t[2] = "ReadPart" /\ t[3] = "OpenWrite" /\ t[4] = "WritePart"
        /\ t[5] = "CloseWrite" /\ t[6] = "CloseRead" /\ t[7] = "Remove"
    BY <2>1, <2>4, <2>5, <2>6
  <2>8. Sequence("rename", t)
    BY <2>5, <2>7 DEF Sequence
  <2> QED BY <1>8, <2>5, <2>8 DEF t
<1>9. CASE o.kind = "truncate"
  <2> DEFINE a == <<"OpenRead", "ReadPart", "CloseRead">>
             t == Steps(o)
  <2>1. /\ a \in Seq(Commands) /\ Len(a) = 3
        /\ a[1] = "OpenRead" /\ a[2] = "ReadPart" /\ a[3] = "CloseRead"
    BY DEF Commands
  <2>2. t = a \o Overwrite
    BY <1>9 DEF Steps, ReadAll
  <2> HIDE DEF a, t
  <2>3. Overwrite \in Seq(Commands) /\ Len(Overwrite) = 6
    BY OverwriteIs
  <2>4. /\ t \in Seq(Commands) /\ Len(t) = 9
        /\ t[1] = a[1] /\ t[2] = a[2] /\ t[3] = a[3]
        /\ t[4] = Overwrite[1] /\ t[5] = Overwrite[2] /\ t[6] = Overwrite[3]
        /\ t[7] = Overwrite[4] /\ t[8] = Overwrite[5] /\ t[9] = Overwrite[6]
    <3> DEFINE u == a \o Overwrite
    <3>1. /\ u \in Seq(Commands) /\ Len(u) = 3 + Len(Overwrite)
          /\ u[1] = a[1] /\ u[2] = a[2] /\ u[3] = a[3]
          /\ u[4] = Overwrite[1] /\ u[5] = Overwrite[2] /\ u[6] = Overwrite[3]
          /\ Len(Overwrite) = 6 =>
               u[7] = Overwrite[4] /\ u[8] = Overwrite[5] /\ u[9] = Overwrite[6]
      BY <2>1, <2>3, ThreeAndMore
    <3>2. t = u
      BY <2>2
    <3> HIDE DEF u
    <3> QED BY <2>3, <3>1, <3>2
  <2>5. Sequence("truncate", t)
    BY <2>1, <2>4, OverwriteIs DEF Sequence
  <2> QED BY <1>9, <2>4, <2>5 DEF t
<1> QED BY <1>1, <1>2, <1>3, <1>4, <1>5, <1>6, <1>7, <1>8, <1>9 DEF Kind

\* Every operation begins with an orderly sequence, which takes its course.
LEMMA StepsOrderly ==
  ASSUME NEW o, o.kind \in Kind PROVE Orderly(o.kind, Steps(o)) /\ Course(o.kind, Steps(o))
<1> DEFINE t == Steps(o)
<1>1. \/ t \in Seq(Commands) /\ Sequence(o.kind, t)
      \/ t = <<>>
  BY StepsAre
<1> HIDE DEF t
<1>2. CASE t = <<>>
  BY <1>2, NothingLeft DEF t, Course
<1>3. CASE t \in Seq(Commands) /\ Sequence(o.kind, t)
  <2> DEFINE kind == o.kind
  <2> SUFFICES Orderly(kind, t) /\ Course(kind, t)
    BY DEF t
  <2>0. kind \in Kind /\ Sequence(kind, t)
    BY <1>3
  <2>1. t \in Seq(Commands)
    BY <1>3
  <2> HIDE DEF kind
  <2> USE DEF Orderly, HoldsH, HoldsW, ClosesFrom, OpensH, ClosesH, Course, Follows, Nth, Replacing
  <2>2. CASE kind = "open"
    <3>1. /\ Len(t) = 3 /\ t[1] = "OpenRead" /\ t[2] = "ReadPart"
          /\ t[3] = "CloseRead"
      BY <2>0, <2>2 DEF Sequence, Three, Six
    <3>2. Orderly("open", t)
      BY <2>1, <3>1
    <3>3. Course("open", t)
      BY <2>1, <3>1
    <3> QED BY <2>2, <3>2, <3>3
  <2>3. CASE kind = "getattr"
    <3>1. Len(t) = 2 /\ t[1] = "OpenRead" /\ t[2] = "CloseRead"
      BY <2>0, <2>3 DEF Sequence, Three, Six
    <3>2. Orderly("getattr", t)
      BY <2>1, <3>1
    <3>3. Course("getattr", t)
      BY <2>1, <3>1
    <3> QED BY <2>3, <3>2, <3>3
  <2>4. CASE kind = "readdir"
    <3>1. /\ Len(t) = 3 /\ t[1] = "FindFirst" /\ t[2] = "FindNext"
          /\ t[3] = "CloseFound"
      BY <2>0, <2>4 DEF Sequence, Three, Six
    <3>2. Orderly("readdir", t)
      BY <2>1, <3>1
    <3>3. Course("readdir", t)
      BY <2>1, <3>1
    <3> QED BY <2>4, <3>2, <3>3
  <2>5. CASE kind = "mknod"
    <3>1. /\ Len(t) = 3 /\ t[1] = "OpenWrite" /\ t[2] = "WritePart"
          /\ t[3] = "CloseWrite"
      BY <2>0, <2>5 DEF Sequence, Three, Six
    <3>2. Orderly("mknod", t)
      BY <2>1, <3>1
    <3>3. Course("mknod", t)
      BY <2>1, <3>1
    <3> QED BY <2>5, <3>2, <3>3
  <2>6. CASE kind = "unlink"
    <3>1. Len(t) = 1 /\ t[1] = "Remove"
      BY <2>0, <2>6 DEF Sequence, Three, Six
    <3>2. Orderly("unlink", t)
      BY <2>1, <3>1
    <3>3. Course("unlink", t)
      BY <2>1, <3>1
    <3> QED BY <2>6, <3>2, <3>3
  <2>7. CASE kind = "create"
    <3>1. /\ Len(t) = 6 /\ t[1] = "OpenWrite" /\ t[2] = "WritePart"
          /\ t[3] = "CloseWrite" /\ t[4] = "OpenRead" /\ t[5] = "ReadPart"
          /\ t[6] = "CloseRead"
      BY <2>0, <2>7 DEF Sequence, Three, Six
    <3>2. Orderly("create", t)
      BY <2>1, <3>1
    <3>3. Course("create", t)
      BY <2>1, <3>1
    <3> QED BY <2>7, <3>2, <3>3
  <2>8. CASE kind = "flush"
    <3>1. /\ Len(t) = 6 /\ t[1] = "FindFirst" /\ t[2] = "CloseFound"
          /\ t[3] = "Remove" /\ t[4] = "OpenWrite" /\ t[5] = "WritePart"
          /\ t[6] = "CloseWrite"
      BY <2>0, <2>8 DEF Sequence, Three, Six
    <3>2. Orderly("flush", t)
      BY <2>1, <3>1
    <3>3. Course("flush", t)
      BY <2>1, <3>1
    <3> QED BY <2>8, <3>2, <3>3
  <2>9. CASE kind = "rename"
    <3>1. /\ Len(t) = 7 /\ t[1] = "OpenRead" /\ t[2] = "ReadPart"
          /\ t[3] = "OpenWrite" /\ t[4] = "WritePart" /\ t[5] = "CloseWrite"
          /\ t[6] = "CloseRead" /\ t[7] = "Remove"
      BY <2>0, <2>9 DEF Sequence, Three, Six
    <3>2. Orderly("rename", t)
      BY <2>1, <3>1
    <3>3. Course("rename", t)
      BY <2>1, <3>1
    <3> QED BY <2>9, <3>2, <3>3
  <2>10. CASE kind = "truncate"
    <3>1. /\ Len(t) = 9 /\ t[1] = "OpenRead" /\ t[2] = "ReadPart"
          /\ t[3] = "CloseRead" /\ t[4] = "FindFirst" /\ t[5] = "CloseFound"
          /\ t[6] = "Remove" /\ t[7] = "OpenWrite" /\ t[8] = "WritePart"
          /\ t[9] = "CloseWrite"
      BY <2>0, <2>10 DEF Sequence, Three, Six
    <3>2. Orderly("truncate", t)
      BY <2>1, <3>1
    <3>3. Course("truncate", t)
      BY <2>1, <3>1
    <3> QED BY <2>10, <3>2, <3>3
  <2>11. CASE kind = "release"
    <3>1. /\ Len(t) = 6 /\ t[1] = "FindFirst" /\ t[2] = "CloseFound"
          /\ t[3] = "Remove" /\ t[4] = "OpenWrite" /\ t[5] = "WritePart"
          /\ t[6] = "CloseWrite"
      BY <2>0, <2>11 DEF Sequence, Three, Six
    <3>2. Orderly("release", t)
      BY <2>1, <3>1
    <3>3. Course("release", t)
      BY <2>1, <3>1
    <3> QED BY <2>11, <3>2, <3>3
  <2> HIDE DEF Orderly, Course
  <2> QED BY <2>0, <2>2, <2>3, <2>4, <2>5, <2>6, <2>7, <2>8, <2>9, <2>10, <2>11 DEF Kind
<1> QED BY <1>1, <1>2, <1>3

-----------------------------------------------------------------------------
(* The answers of the brick.                                               *)

\* The handles of o are those that are open now, and y perhaps.
Grown(o, y) == DOMAIN o = Hnd /\ \A x \in Hnd : o[x] # None => open[x] # None \/ x = y

\* A command opens one handle at most, and says which.
LEMMA Gives ==
  ASSUME DOMAIN open = Hnd, NEW f, NEW mode, NEW files
  PROVE  \A a \in Given(f, mode, files) : a.ok /\ ~a.lost /\ Grown(a.open, a.x)
BY DEF Given, Answer, Grown

LEMMA Refuses ==
  ASSUME NEW e PROVE LET a == Refused(e) IN ~a.ok /\ ~a.lost /\ a.open = open
BY DEF Refused, Answer

LEMMA Openers ==
  ASSUME DOMAIN open = Hnd, NEW A,
         \/ \E f : A = AsksRead(f)
         \/ \E f, n : A = AsksWrite(f, n)
         \/ \E S : A = AsksFind(S)
  PROVE  \A a \in A : /\ a.ok => Grown(a.open, a.x)
                      /\ ~a.ok => a.open = open
                      /\ ~a.lost
<1>1. ASSUME NEW a \in A
      PROVE  \/ \E f, mode, files : a \in Given(f, mode, files)
             \/ \E e : a = Refused(e)
  <2>1. ASSUME NEW f, A = AsksRead(f)
        PROVE  a \in Given(f, "read", file) \/ a \in {Refused("mapped"), Refused("notfound")}
    BY <2>1 DEF AsksRead
  <2>2. ASSUME NEW f, NEW n, A = AsksWrite(f, n)
        PROVE  \/ a \in Given(f, "write", [file EXCEPT ![f] = Blank(n)])
               \/ a \in {Refused("mapped"), Refused("none")}
    BY <2>2 DEF AsksWrite
  <2>3. ASSUME NEW S, A = AsksFind(S)
        PROVE  \/ \E f \in S : a \in Given(f, "read", file)
               \/ a \in {Refused("mapped"), Refused("notfound")}
    BY <2>3 DEF AsksFind
  <2> QED BY <2>1, <2>2, <2>3
<1> QED BY <1>1, Gives, Refuses

LEMMA Others ==
  ASSUME DOMAIN open = Hnd
  PROVE  /\ \A f, off, q : \A a \in AsksMove(f, off, q) : ~a.lost /\ a.open = open
         /\ \A f : \A a \in AsksRemove(f) : ~a.lost /\ a.open = open
         /\ \A x : \A a \in AsksClose(x) :
              /\ a.ok /\ ~a.lost /\ DOMAIN a.open = Hnd
              /\ \A z \in Hnd : a.open[z] # None => open[z] # None /\ z # x
         /\ \A S, x : \A a \in AsksNext(S, x) :
              ~a.lost /\ Grown(a.open, x) /\ (~a.ok => a.open = open)
<1>1. ASSUME NEW f, NEW off, NEW q, NEW a \in AsksMove(f, off, q) PROVE ~a.lost /\ a.open = open
  BY DEF AsksMove, Answer
<1>2. ASSUME NEW f, NEW a \in AsksRemove(f) PROVE ~a.lost /\ a.open = open
  BY Refuses DEF AsksRemove, Answer
<1>3. ASSUME NEW x, NEW a \in AsksClose(x)
      PROVE  /\ a.ok /\ ~a.lost /\ DOMAIN a.open = Hnd
             /\ \A z \in Hnd : a.open[z] # None => open[z] # None /\ z # x
  BY DEF AsksClose, Answer
<1>4. ASSUME NEW S, NEW x, NEW a \in AsksNext(S, x)
      PROVE  ~a.lost /\ Grown(a.open, x) /\ (~a.ok => a.open = open)
  <2>1. CASE a = Refused("notfound")
    BY <2>1, Refuses DEF Grown
  <2>2. ASSUME NEW f \in S,
               a = Answer(TRUE, file, [open EXCEPT ![x].f = f], x, "none")
        PROVE  a.ok /\ ~a.lost /\ Grown(a.open, x)
    BY <2>2 DEF Answer, Grown
  <2> QED BY <2>1, <2>2 DEF AsksNext
<1> QED BY <1>1, <1>2, <1>3, <1>4

\* An answer that is lost leaves the brick as it was, or as it is afterwards.
LEMMA LostOrNot ==
  ASSUME NEW A, NEW r \in Answers(A)
  PROVE  r \in A \/ (r.lost /\ ~r.ok /\ (r.open = open \/ \E b \in A : r.open = b.open))
<1>1. CASE r \in A
  BY <1>1
<1>2. CASE r \notin A
  <2>1. r \in UNION {UNION {Lost(b, e) : e \in {"none", "mapped", error}} : b \in A}
    BY <1>2 DEF Answers
  <2>2. PICK b \in A : r \in UNION {Lost(b, e) : e \in {"none", "mapped", error}}
    BY <2>1
  <2>3. PICK e \in {"none", "mapped", error} : r \in Lost(b, e)
    BY <2>2
  <2>4. r.lost /\ ~r.ok /\ (r.open = open \/ r.open = b.open)
    BY <2>3 DEF Lost, Answer, Refused
  <2> QED BY <2>4
<1> QED BY <1>1, <1>2

-----------------------------------------------------------------------------
(* The commands.                                                           *)

\* No handle is lost.
LEMMA NoMore ==
  ASSUME IsFiniteSet(Hnd), Counted, DOMAIN open' = Hnd, fails' = fails,
         Opened(open') \ Held' \subseteq Opened(open) \ Held
  PROVE  Counted'
<1>1. IsFiniteSet(Opened(open) \ Held)
  BY FS_Subset DEF Opened
<1>2. /\ Cardinality(Opened(open') \ Held') <= Cardinality(Opened(open) \ Held)
      /\ Cardinality(Opened(open') \ Held') \in Nat /\ Cardinality(Opened(open) \ Held) \in Nat
  BY <1>1, FS_Subset, FS_CardinalityType
<1> QED BY <1>2 DEF Counted

\* A transfer fails, and y is lost if it is a handle that was, or would have
\* been, in use.
LEMMA OneMore ==
  ASSUME IsFiniteSet(Hnd), Counted, NEW y, Grown(open', y), Held \ {y} \subseteq Held',
         fails' = fails + 1
  PROVE  Counted'
<1> DEFINE B == Opened(open) \ Held
           C == Opened(open') \ Held'
<1>1. IsFiniteSet(B) /\ Cardinality(B) \in Nat
  BY FS_Subset, FS_CardinalityType DEF Opened
<1>2. C \subseteq B \cup {y}
  BY DEF Opened, Grown
<1> HIDE DEF B
<1>3. /\ IsFiniteSet(B \cup {y}) /\ Cardinality(B \cup {y}) \in Nat
      /\ Cardinality(B \cup {y}) <= Cardinality(B) + 1
  <2>1. /\ IsFiniteSet(B \cup {y})
        /\ Cardinality(B \cup {y}) = IF y \in B THEN Cardinality(B) ELSE Cardinality(B) + 1
    BY <1>1, FS_AddElement
  <2> QED BY <1>1, <2>1
<1>4. Cardinality(C) <= Cardinality(B \cup {y}) /\ Cardinality(C) \in Nat
  BY <1>2, <1>3, FS_Subset, FS_CardinalityType
<1> HIDE DEF B, C
<1>5. Cardinality(C) <= fails + 1
  BY <1>1, <1>3, <1>4 DEF Counted, B
<1> QED BY <1>5 DEF Counted, C, Grown

\* Commands that neither open nor close anything.
LEMMA Quiet ==
  ASSUME IsFiniteSet(Hnd), HInv, call # None, UNCHANGED <<call, h, w>>,
         todo # <<>>, todo' \in {todo, Tail(todo)},
         Head(todo) \notin ClosesH \cup {"CloseWrite"},
         NEW A, NEW r \in Answers(A), Takes(r), \A a \in A : ~a.lost /\ a.open = open
  PROVE  HInv'
<1>1. Orderly(call.kind, todo)
  BY DEF HInv
<1>2. /\ Orderly(call'.kind, todo')
      /\ HoldsH(todo, 1) => HoldsH(todo', 1)
      /\ HoldsW(todo, 1) => HoldsW(todo', 1)
  <2>1. CASE todo' = todo
    BY <1>1, <2>1
  <2>2. CASE todo' = Tail(todo)
    BY <1>1, <2>2, TailHolds
  <2> QED BY <2>1, <2>2
<1>3. Held \subseteq Held'
  BY <1>2 DEF Held
<1>4. open' = open /\ fails' = IF r.lost THEN fails + 1 ELSE fails
  BY LostOrNot DEF Takes
<1>5. Counted'
  <2>1. CASE r.lost
    <3>1. Grown(open', None) /\ fails' = fails + 1
      BY <1>4, <2>1 DEF Grown, HInv, Counted
    <3> QED BY <1>3, <3>1, OneMore DEF HInv
  <2>2. CASE ~r.lost
    <3>1. Opened(open') \ Held' \subseteq Opened(open) \ Held
      BY <1>3, <1>4 DEF Opened
    <3> QED BY <1>4, <2>2, <3>1, NoMore DEF HInv, Counted
  <2> QED BY <2>1, <2>2
<1> QED BY <1>2, <1>5 DEF HInv

LEMMA PartsHInv ==
  ASSUME IsFiniteSet(Hnd), HInv, call # None, ReadPart \/ WritePart \/ Remove PROVE HInv'
<1> USE DEF At, ClosesH
<1>0. DOMAIN open = Hnd
  BY DEF HInv, Counted
<1>1. CASE ReadPart
  <2> DEFINE A == AsksMove(open[h].f, 0, <<>>)
  <2>1. PICK r \in Answers(A) : Takes(r) /\ todo' \in {todo, Tail(todo)} /\ UNCHANGED <<h, w>>
    BY <1>1 DEF ReadPart
  <2>2. \A a \in A : ~a.lost /\ a.open = open
    BY <1>0, Others
  <2>3. todo # <<>> /\ Head(todo) \notin ClosesH \cup {"CloseWrite"} /\ UNCHANGED call
    BY <1>1, <2>1 DEF ReadPart, Takes
  <2> HIDE DEF A
  <2> QED BY <2>1, <2>2, <2>3, Quiet
<1>2. CASE WritePart
  <2> DEFINE A == AsksMove(open[w].f, k, SubSeq(Source, k + 1, k + Part))
  <2>1. PICK r \in Answers(A) : Takes(r) /\ todo' \in {todo, Tail(todo)} /\ UNCHANGED <<h, w>>
    BY <1>2 DEF WritePart
  <2>2. \A a \in A : ~a.lost /\ a.open = open
    BY <1>0, Others
  <2>3. todo # <<>> /\ Head(todo) \notin ClosesH \cup {"CloseWrite"} /\ UNCHANGED call
    BY <1>2, <2>1 DEF WritePart, Takes
  <2> HIDE DEF A
  <2> QED BY <2>1, <2>2, <2>3, Quiet
<1>3. CASE Remove
  <2> DEFINE A == AsksRemove(call.f)
  <2>1. PICK r \in Answers(A) : Takes(r) /\ todo' \in {todo, Tail(todo)} /\ UNCHANGED <<h, w>>
    BY <1>3 DEF Remove
  <2>2. \A a \in A : ~a.lost /\ a.open = open
    BY <1>0, Others
  <2>3. todo # <<>> /\ Head(todo) \notin ClosesH \cup {"CloseWrite"} /\ UNCHANGED call
    BY <1>3, <2>1 DEF Remove, Takes
  <2> HIDE DEF A
  <2> QED BY <2>1, <2>2, <2>3, Quiet
<1> QED BY <1>1, <1>2, <1>3

\* nxt_file_close: x is given back, or the transfer failed and x may be lost.
LEMMA Closing ==
  ASSUME IsFiniteSet(Hnd), HInv, UNCHANGED <<call, h, w>>, NEW x,
         Held \ {x} \subseteq Held', NEW r \in Answers(AsksClose(x)), Takes(r)
  PROVE  Counted'
<1>1. DOMAIN open = Hnd /\ Counted
  BY DEF HInv, Counted
<1>2. \A a \in AsksClose(x) :
        /\ a.ok /\ ~a.lost /\ DOMAIN a.open = Hnd
        /\ \A z \in Hnd : a.open[z] # None => open[z] # None /\ z # x
  BY <1>1, Others
<1>3. open' = r.open /\ fails' = IF r.lost THEN fails + 1 ELSE fails
  BY DEF Takes
<1>4. CASE r \in AsksClose(x)
  <2>1. Opened(open') \ Held' \subseteq Opened(open) \ Held /\ DOMAIN open' = Hnd
    BY <1>2, <1>3, <1>4 DEF Opened
  <2> QED BY <1>1, <1>2, <1>3, <1>4, <2>1, NoMore
<1>5. CASE r.lost /\ (r.open = open \/ \E b \in AsksClose(x) : r.open = b.open)
  <2>1. Grown(open', x) /\ fails' = fails + 1
    BY <1>1, <1>2, <1>3, <1>5 DEF Grown
  <2> QED BY <1>1, <2>1, OneMore
<1> QED BY <1>4, <1>5, LostOrNot

LEMMA ClosesHInv ==
  ASSUME IsFiniteSet(Hnd), HInv, call # None, CloseRead \/ CloseWrite \/ CloseFound PROVE HInv'
<1>1. Orderly(call.kind, todo)
  BY DEF HInv
<1>2. ASSUME NEW label \in ClosesH, Close(label, h) PROVE HInv'
  <2>1. PICK r \in Answers(AsksClose(h)) :
          Takes(r) /\ todo' = Tail(todo) /\ UNCHANGED <<h, w>>
    BY <1>2 DEF Close
  <2>2. todo # <<>> /\ Head(todo) # "CloseWrite" /\ UNCHANGED call
    BY <1>2, <2>1 DEF Close, At, Takes, ClosesH
  <2>3. Orderly(call'.kind, todo') /\ (HoldsW(todo, 1) => HoldsW(todo', 1))
    BY <1>1, <2>1, <2>2, TailHolds
  <2>4. Held \ {h} \subseteq Held'
    BY <2>1, <2>3 DEF Held
  <2>5. Counted'
    BY <2>1, <2>2, <2>4, Closing
  <2> QED BY <2>2, <2>3, <2>5 DEF HInv
<1>3. CASE CloseWrite
  <2>1. PICK r \in Answers(AsksClose(w)) :
          Takes(r) /\ todo' = Tail(todo) /\ UNCHANGED <<h, w>>
    BY <1>3 DEF CloseWrite, Close
  <2>2. todo # <<>> /\ Head(todo) \notin ClosesH /\ UNCHANGED call
    BY <1>3, <2>1 DEF CloseWrite, Close, At, Takes, ClosesH
  <2>3. Orderly(call'.kind, todo') /\ (HoldsH(todo, 1) => HoldsH(todo', 1))
    BY <1>1, <2>1, <2>2, TailHolds
  <2>4. Held \ {w} \subseteq Held'
    BY <2>1, <2>3 DEF Held
  <2>5. Counted'
    BY <2>1, <2>2, <2>4, Closing
  <2> QED BY <2>2, <2>3, <2>5 DEF HInv
<1> QED BY <1>2, <1>3 DEF CloseRead, CloseFound, ClosesH

\* nxt_file_find_next goes on with the handle of the search.
LEMMA FindNextHInv ==
  ASSUME IsFiniteSet(Hnd), HInv, call # None, FindNext PROVE HInv'
<1> DEFINE S == {f \in Name : file[f] # None /\ f \notin found}
           A == AsksNext(S, h)
<1>1. Orderly(call.kind, todo) /\ DOMAIN open = Hnd /\ Counted
  BY DEF HInv, Counted
<1>2. PICK r \in Answers(A) :
        Takes(r) /\ todo' \in {todo, Tail(todo)} /\ UNCHANGED <<h, w>>
  BY DEF FindNext
<1>3. todo # <<>> /\ Head(todo) = "FindNext" /\ UNCHANGED call
  BY <1>2 DEF FindNext, At, Takes
<1>4. \A a \in A : ~a.lost /\ Grown(a.open, h)
  BY <1>1, Others
<1> HIDE DEF A
<1>5. HoldsH(todo, 1) /\ HoldsH(todo', 1) /\ (HoldsW(todo, 1) => HoldsW(todo', 1))
      /\ Orderly(call'.kind, todo')
  <2>1. CASE todo' = todo
    BY <1>1, <1>3, <2>1, TailHolds
  <2>2. CASE todo' = Tail(todo)
    BY <1>1, <1>3, <2>2, TailHolds DEF ClosesH
  <2> QED BY <1>2, <2>1, <2>2
<1>6. Held \subseteq Held' /\ h \in Held'
  BY <1>2, <1>5 DEF Held
<1>7. Grown(open', h) /\ fails' = IF r.lost THEN fails + 1 ELSE fails
  BY <1>1, <1>2, <1>4, LostOrNot DEF Takes, Grown
<1>8. Counted'
  <2>1. CASE r.lost
    BY <1>1, <1>6, <1>7, <2>1, OneMore
  <2>2. CASE ~r.lost
    <3>1. Opened(open') \ Held' \subseteq Opened(open) \ Held /\ DOMAIN open' = Hnd
      BY <1>6, <1>7 DEF Opened, Grown
    <3> QED BY <1>1, <1>7, <2>2, <3>1, NoMore
  <2> QED BY <2>1, <2>2
<1> QED BY <1>3, <1>5, <1>8 DEF HInv

\* A handle that was opened is held; a refusal drops no handle.
LEMMA OpensOne ==
  ASSUME IsFiniteSet(Hnd), HInv, NEW A,
         \A a \in A : (a.ok => Grown(a.open, a.x)) /\ (~a.ok => a.open = open) /\ ~a.lost,
         NEW r \in Answers(A), Takes(r), Held \subseteq Held', r.ok => r.x \in Held'
  PROVE  Counted'
<1>1. DOMAIN open = Hnd /\ Counted
  BY DEF HInv, Counted
<1>2. open' = r.open /\ fails' = IF r.lost THEN fails + 1 ELSE fails
  BY DEF Takes
<1>3. CASE r \in A
  <2>1. Opened(open') \ Held' \subseteq Opened(open) \ Held /\ DOMAIN open' = Hnd
    BY <1>1, <1>2, <1>3 DEF Opened, Grown
  <2> QED BY <1>1, <1>2, <1>3, <2>1, NoMore
<1>4. CASE r.lost /\ (r.open = open \/ \E b \in A : r.open = b.open)
  <2>1. \E y : Grown(open', y)
    <3>1. CASE r.open = open
      BY <1>1, <1>2, <3>1 DEF Grown
    <3>2. ASSUME NEW b \in A, r.open = b.open PROVE \E y : Grown(open', y)
      <4>1. CASE b.ok
        BY <1>2, <3>2, <4>1
      <4>2. CASE ~b.ok
        BY <1>1, <1>2, <3>2, <4>2 DEF Grown
      <4> QED BY <4>1, <4>2
    <3> QED BY <1>4, <3>1, <3>2
  <2> QED BY <1>1, <1>2, <1>4, <2>1, OneMore
<1> QED BY <1>3, <1>4, LostOrNot

\* nxt_file_open for reading and nxt_file_find_first
LEMMA OpensHInv ==
  ASSUME IsFiniteSet(Hnd), HInv, call # None, OpenRead \/ FindFirst PROVE HInv'
<1>1. Orderly(call.kind, todo) /\ DOMAIN open = Hnd
  BY DEF HInv, Counted
<1>2. todo # <<>> /\ Head(todo) \in OpensH
  BY DEF OpenRead, FindFirst, At, OpensH
<1>3. /\ Orderly(call.kind, Tail(todo)) /\ HoldsH(Tail(todo), 1)
      /\ ~HoldsH(todo, 1) /\ ~HoldsW(todo, 1)
  BY <1>1, <1>2, TailHolds
<1>4. After(1) = Tail(todo)
  BY <1>1, <1>2 DEF After, Orderly
<1>5. PICK A : /\ (\E f : A = AsksRead(f)) \/ (\E S : A = AsksFind(S))
               /\ \E r \in Answers(A) :
                    /\ Takes(r) /\ h' = r.x
                    /\ IF r.ok THEN todo' = Tail(todo) ELSE todo' \in {<<>>, After(3), Tail(todo)}
  <2>1. CASE OpenRead
    BY <2>1 DEF OpenRead
  <2>2. CASE FindFirst
    BY <1>4, <2>2 DEF FindFirst
  <2> QED BY <2>1, <2>2
<1>6. PICK r \in Answers(A) :
        /\ Takes(r) /\ h' = r.x
        /\ IF r.ok THEN todo' = Tail(todo) ELSE todo' \in {<<>>, After(3), Tail(todo)}
  BY <1>5
<1>7. call' = call /\ Orderly(call.kind, todo')
  BY <1>1, <1>3, <1>6, NothingLeft, AfterOrderly, 3 \in Nat DEF Takes
<1>8. Held = {} /\ (r.ok => r.x \in Held')
  BY <1>3, <1>6 DEF Held
<1>9. \A a \in A : (a.ok => Grown(a.open, a.x)) /\ (~a.ok => a.open = open) /\ ~a.lost
  BY <1>1, <1>5, Openers
<1>10. Counted'
  BY <1>6, <1>8, <1>9, OpensOne
<1> QED BY <1>7, <1>10 DEF HInv

\* nxt_file_open for writing: after a failure rename still closes the old file.
LEMMA OpenWriteHInv ==
  ASSUME IsFiniteSet(Hnd), HInv, call # None, OpenWrite PROVE HInv'
<1>1. Orderly(call.kind, todo) /\ DOMAIN open = Hnd
  BY DEF HInv, Counted
<1>2. todo # <<>> /\ Head(todo) = "OpenWrite"
  BY DEF OpenWrite, At
<1>3. /\ Orderly(call.kind, Tail(todo)) /\ HoldsW(Tail(todo), 1) /\ ~HoldsW(todo, 1)
      /\ HoldsH(todo, 1) => HoldsH(Tail(todo), 1)
      /\ call.kind # "rename" => ~HoldsH(todo, 1)
      /\ call.kind = "rename" => Len(todo) = 5 /\ todo[4] = "CloseRead"
  BY <1>1, <1>2, TailHolds DEF ClosesH
<1> DEFINE A == AsksWrite(Target, Len(Source))
<1>4. PICK r \in Answers(A) :
        /\ Takes(r) /\ w' = r.x /\ h' = h
        /\ IF r.ok THEN todo' = Tail(todo)
           ELSE IF call.kind = "rename" THEN todo' \in {After(3), <<"CloseRead">>}
           ELSE todo' \in {<<>>, After(3)}
  BY DEF OpenWrite
<1>5. \A a \in A : (a.ok => Grown(a.open, a.x)) /\ (~a.ok => a.open = open) /\ ~a.lost
  BY <1>1, Openers
<1> HIDE DEF A
<1>6. CASE r.ok
  <2>1. Held \subseteq Held' /\ r.x \in Held'
    BY <1>3, <1>4, <1>6 DEF Held
  <2>2. Counted'
    BY <1>4, <1>5, <2>1, OpensOne
  <2> QED BY <1>3, <1>4, <1>6, <2>2 DEF HInv, Takes
<1>7. CASE ~r.ok /\ call.kind # "rename"
  <2>1. Held \subseteq Held'
    BY <1>3, <1>7 DEF Held
  <2>2. Counted'
    BY <1>4, <1>5, <1>7, <2>1, OpensOne
  <2>3. Orderly(call.kind, todo')
    BY <1>1, <1>4, <1>7, NothingLeft, AfterOrderly, 3 \in Nat
  <2> QED BY <1>4, <2>2, <2>3 DEF HInv, Takes
<1>8. CASE ~r.ok /\ call.kind = "rename"
  <2>1. /\ Orderly(call.kind, After(3))
        /\ After(3) \in Seq(Commands) /\ Len(After(3)) = 2 /\ After(3)[1] = "CloseRead"
    <3>1. Orderly(call.kind, After(3))
      BY <1>1, AfterOrderly, 3 \in Nat
    <3>2. todo \in Seq(Commands) /\ Len(todo) = 5 /\ todo[4] = "CloseRead"
      BY <1>1, <1>3, <1>8 DEF Orderly
    <3>3. Len(After(3)) = 2 /\ After(3)[1] = todo[4] /\ After(3) \in Seq(Commands)
      BY <3>2 DEF After
    <3> QED BY <3>1, <3>2, <3>3
  <2>2. HoldsH(After(3), 1)
    BY <2>1 DEF HoldsH, ClosesFrom, ClosesH
  <2>3. Orderly(call.kind, <<"CloseRead">>) /\ HoldsH(<<"CloseRead">>, 1)
    BY DEF Orderly, HoldsH, ClosesFrom, ClosesH, OpensH, Commands
  <2>4. Orderly(call.kind, todo') /\ HoldsH(todo', 1)
    BY <1>4, <1>8, <2>1, <2>2, <2>3
  <2>5. Held \subseteq Held'
    BY <1>3, <1>4, <2>4 DEF Held
  <2>6. Counted'
    BY <1>4, <1>5, <1>8, <2>5, OpensOne
  <2> QED BY <1>4, <2>4, <2>6 DEF HInv, Takes
<1> QED BY <1>6, <1>7, <1>8

-----------------------------------------------------------------------------
(* Operations begin and end.                                               *)

\* The brick is left alone, and nothing is held.
LEMMA Idle ==
  ASSUME IsFiniteSet(Hnd), HInv, UNCHANGED <<open, fails>>, todo = <<>> PROVE Counted'
<1>1. Held = {}
  BY NothingLeft DEF Held
<1>2. Opened(open') \ Held' \subseteq Opened(open) \ Held
  BY <1>1 DEF Opened
<1> QED BY <1>2, NoMore DEF HInv, Counted

\* What an operation names
Named(o) ==
  /\ o \in Operation
  /\ IF o.kind = "readdir" THEN o.f = None ELSE o.f \in Name
  /\ IF o.kind = "rename" THEN o.g \in Name \ {o.f} ELSE o.g = None
  /\ o.kind \in {"open", "create", "flush", "release"} => o.d \in Fd

LEMMA CallIs ==
  ASSUME TypeOK, NamedCall \/ DirCall \/ FdCall
  PROVE  \E o \in Operation :
           /\ Begin(o) /\ Named(o) /\ o # None
           /\ o.kind \in {"flush", "release"} => Usable(o.d) /\ fd[o.d].f = o.f
<1>1. CASE NamedCall
  <2>1. PICK f \in Name :
          \/ \E kind \in {"getattr", "mknod", "unlink"} : Begin(Op(kind, f, None, None, 0))
          \/ \E n \in Sizes : Begin(Op("truncate", f, None, None, n))
          \/ \E g \in Name \ {f} : Begin(Op("rename", f, g, None, 0))
          \/ \E d \in Fd, kind \in {"open", "create"} : Begin(Op(kind, f, None, d, 0))
    BY <1>1 DEF NamedCall
  <2>2. PICK kind \in Kind, g \in Name \cup {None}, d \in Fd \cup {None}, n \in Sizes \cup {0} :
          /\ Begin(Op(kind, f, g, d, n))
          /\ kind \notin {"readdir", "flush", "release"}
          /\ IF kind = "rename" THEN g \in Name \ {f} ELSE g = None
          /\ kind \in {"open", "create"} => d \in Fd
    BY <2>1 DEF Kind
  <2> DEFINE o == Op(kind, f, g, d, n)
  <2>3. o \in Operation /\ o # None /\ o.kind = kind /\ o.f = f /\ o.g = g /\ o.d = d
    BY <2>2, ApartAssumption DEF Op, Operation
  <2> HIDE DEF o
  <2>4. Named(o)
    BY <2>2, <2>3 DEF Named
  <2> QED BY <2>2, <2>3, <2>4 DEF o
<1>2. CASE DirCall
  <2> DEFINE o == Op("readdir", None, None, None, 0)
  <2>1. Begin(o)
    BY <1>2 DEF DirCall
  <2>2. o \in Operation /\ o # None /\ o.kind = "readdir" /\ o.f = None /\ o.g = None
    BY ApartAssumption DEF Op, Operation, Kind
  <2> HIDE DEF o
  <2> QED BY <2>1, <2>2 DEF Named
<1>3. CASE FdCall
  <2>1. PICK d \in Fd, kind \in {"flush", "release"} :
          Usable(d) /\ Begin(Op(kind, fd[d].f, None, d, 0))
    BY <1>3 DEF FdCall
  <2>2. fd[d].f \in Name
    BY <2>1 DEF TypeOK, Usable, Record
  <2> DEFINE o == Op(kind, fd[d].f, None, d, 0)
  <2>3. /\ o \in Operation /\ o # None /\ o.kind = kind /\ o.f = fd[d].f /\ o.g = None
        /\ o.d = d
    BY <2>2, ApartAssumption DEF Op, Operation, Kind
  <2>4. Begin(o)
    BY <2>1
  <2> HIDE DEF o
  <2> QED BY <2>1, <2>2, <2>3, <2>4 DEF Named
<1> QED BY <1>1, <1>2, <1>3

LEMMA CallsHInv ==
  ASSUME IsFiniteSet(Hnd), TypeOK, HInv, NamedCall \/ DirCall \/ FdCall
  PROVE  HInv'
<1>1. PICK o \in Operation : Begin(o) /\ o # None
  BY CallIs
<1>2. call = None /\ call' = o /\ todo' = Steps(o) /\ UNCHANGED <<open, fails>>
  BY <1>1 DEF Begin, brickVars, ghostVars
<1>3. Orderly(call'.kind, todo')
  BY <1>1, <1>2, StepsOrderly DEF Operation
<1>4. Counted'
  BY <1>2, Idle DEF HInv
<1> QED BY <1>1, <1>2, <1>3, <1>4 DEF HInv

LEMMA ReturnsHInv ==
  ASSUME IsFiniteSet(Hnd), HInv,
         \/ Return
         \/ call # None /\ todo = <<>> /\ Finish
  PROVE  HInv'
<1>1. todo = <<>> /\ todo' = todo /\ UNCHANGED <<open, fails>>
  BY DEF Return, Finish, brickVars
<1>2. Counted'
  BY <1>1, Idle
<1>3. call' \in {call, None}
  BY DEF Return, Finish
<1> QED BY <1>1, <1>2, <1>3, NothingLeft DEF HInv

\* Editing a buffer is no business of the brick.
LEMMA EditsHInv ==
  ASSUME HInv, \/ \E d, n : Ftruncate(d, n)
               \/ \E d, off, n, x : WriteBuf(d, off, n, x)
               \/ UNCHANGED vars
  PROVE  HInv'
<1>1. UNCHANGED <<open, fails, call, todo, h, w>>
  BY DEF Ftruncate, WriteBuf, Edit, brickVars, opVars, ghostVars, vars
<1> QED BY <1>1 DEF HInv, Counted, Opened, Held, Grown

\* A program that ends counts the handles that it has held.
LEMMA EndHInv == ASSUME IsFiniteSet(Hnd), HInv, End PROVE HInv'
<1> DEFINE L == {x \in {h, w} \ {None} : open[x] # None}
           B == Opened(open) \ Held
<1>1. /\ IsFiniteSet(B) /\ Cardinality(B) \in Nat
      /\ IsFiniteSet(L) /\ Cardinality(L) \in Nat
  <2>1. IsFiniteSet({h, w})
    <3>1. IsFiniteSet({h}) /\ IsFiniteSet({w})
      BY FS_Singleton
    <3>2. IsFiniteSet({h} \cup {w})
      BY <3>1, FS_Union
    <3> QED BY <3>2, {h} \cup {w} = {h, w}
  <2> QED BY <2>1, FS_Subset, FS_CardinalityType DEF Opened
<1>2. Opened(open) \subseteq B \cup L
  BY ApartAssumption DEF Opened, Held
<1>3. IsFiniteSet(B \cup L) /\ Cardinality(B \cup L) <= Cardinality(B) + Cardinality(L)
  <2>1. IsFiniteSet(B \cup L) /\ IsFiniteSet(B \cap L)
    BY <1>1, FS_Union, FS_Subset
  <2>2. /\ Cardinality(B \cup L) = Cardinality(B) + Cardinality(L) - Cardinality(B \cap L)
        /\ Cardinality(B \cap L) \in Nat
    BY <1>1, <2>1, FS_Union, FS_CardinalityType
  <2> QED BY <1>1, <2>1, <2>2
<1>4. /\ Cardinality(Opened(open)) <= Cardinality(B \cup L)
      /\ Cardinality(Opened(open)) \in Nat /\ Cardinality(B \cup L) \in Nat
  BY <1>2, <1>3, FS_Subset, FS_CardinalityType
<1>5. Cardinality(B) <= fails /\ fails \in Nat
  BY DEF HInv, Counted
<1>6. fails' = fails + Cardinality(L) /\ open' = open /\ todo' = <<>> /\ call' = None
  BY DEF End, brickVars
<1> HIDE DEF B, L
<1>7. Cardinality(Opened(open)) <= fails' /\ fails' \in Nat
  BY <1>1, <1>3, <1>4, <1>5, <1>6
<1>8. Held' = {}
  BY <1>6, NothingLeft DEF Held
<1>9. Opened(open') \ Held' = Opened(open)
  BY <1>6, <1>8
<1> QED BY <1>6, <1>7, <1>9 DEF HInv, Counted

\* A command is under way only in an operation.
LEMMA Within ==
  ASSUME HInv, \/ OpenRead \/ ReadPart \/ CloseRead \/ OpenWrite \/ WritePart \/ CloseWrite
               \/ FindFirst \/ FindNext \/ CloseFound \/ Remove
  PROVE  call # None
BY DEF HInv, OpenRead, ReadPart, CloseRead, OpenWrite, WritePart, CloseWrite, FindFirst,
       FindNext, CloseFound, Remove, Close, At

\* Only an operation whose commands are done has a reply.
Replied == reply # "none" => call # None /\ todo = <<>>

LEMMA NextHInv ==
  ASSUME IsFiniteSet(Hnd), TypeOK, HInv, Replied, [Next]_vars
  PROVE  HInv'
<1>1. CASE NamedCall \/ DirCall \/ FdCall
  BY <1>1, CallsHInv
<1>2. CASE Return \/ Finish
  <2>1. Finish => call # None /\ todo = <<>>
    BY DEF Finish, Replied
  <2> QED BY <1>2, <2>1, ReturnsHInv
<1>3. CASE End
  BY <1>3, EndHInv
<1>4. CASE \/ \E d \in Fd : \/ \E n \in Sizes : Ftruncate(d, n)
                          \/ \E off, n \in 0 .. Longest, x \in Data : WriteBuf(d, off, n, x)
           \/ UNCHANGED vars
  BY <1>4, EditsHInv
<1>5. CASE ReadPart \/ WritePart \/ Remove
  BY <1>5, Within, PartsHInv
<1>6. CASE CloseRead \/ CloseWrite \/ CloseFound
  BY <1>6, Within, ClosesHInv
<1>7. CASE FindNext
  BY <1>7, Within, FindNextHInv
<1>8. CASE OpenRead \/ FindFirst
  BY <1>8, Within, OpensHInv
<1>9. CASE OpenWrite
  BY <1>9, Within, OpenWriteHInv
<1> QED BY <1>1, <1>2, <1>3, <1>4, <1>5, <1>6, <1>7, <1>8, <1>9 DEF Next

LEMMA InitHInv == Init => HInv
<1> SUFFICES ASSUME Init PROVE HInv
  OBVIOUS
<1>1. Opened(open) \ Held = {}
  BY DEF Init, Opened
<1>2. Cardinality(Opened(open) \ Held) = 0
  BY <1>1, FS_EmptySet
<1> QED BY <1>2 DEF Init, HInv, Counted

-----------------------------------------------------------------------------
(* What an operation has done to the files when it is about to send a       *)
(* command, from which follows what it has done when it returns.            *)

\* Moving bytes: k is a number of whole chunks.
Chunked == \E q \in 0 .. (want \div Chunk) : k = q * Chunk
Reads == /\ h \in Hnd /\ open[h] # None /\ open[h].f = call.f
         /\ file[call.f] # None
         /\ want <= Len(file[call.f]) /\ want <= Len(buf) /\ Chunked
Writes == /\ w \in Hnd /\ open[w] # None /\ open[w].f = Target
          /\ file[Target] # None
          /\ Len(file[Target]) = Len(Source) /\ want = Len(Source) /\ Chunked
\* The buffer has the bytes of a file, whether they could be read or not.
Loaded ==
  LET l == Nth(todo, 1) IN
  \/ /\ call.kind \in {"open", "create"}
     /\ l \in {"ReadPart", "CloseRead"} \/ (l = "end" /\ ret = "ok")
  \/ call.kind \in {"rename", "truncate"} /\ l \notin {"OpenRead", "end"}

OthersKept == \A x \in Name \ {call.f, call.g} : file[x] = before[x]
WritesBack == call.kind \in {"flush", "release"} =>
              /\ Usable(call.d) /\ fd[call.d].f = call.f
              /\ todo # <<>> => fd[call.d].dirty
InPlace ==
  LET l == Nth(todo, 1) IN
  /\ call.kind # "readdir" => found = {}
  /\ todo # <<>> => ret = "ok" \/ (call.kind = "rename" /\ todo = <<"CloseRead">>)
  /\ l = "ReadPart" => Reads
  /\ l = "WritePart" => Writes
  /\ l = "FindNext" => h \in Hnd /\ open[h] # None
  /\ Loaded => buf \in Content
Running == OthersKept /\ WritesBack /\ InPlace
Placed ==
  IF call = None
  THEN todo = <<>> /\ reply = "none" /\ ~trouble /\ before = file /\ found = {} /\ ret = "ok"
  ELSE /\ Named(call) /\ Course(call.kind, todo)
       /\ IF reply = "none" THEN Running ELSE todo = <<>> /\ ~trouble /\ ret = "ok"

\* The files as they were, without the old one, and with the new one
Same == file = before
Gone == file = [before EXCEPT ![call.f] = None]
New == call.kind \in {"mknod", "create", "rename"} => before[Target] = None
Wrote == New /\ file = [before EXCEPT ![Target] = Source]
\* The first k bytes of s, of n
Partly(s, n) == [i \in 1 .. n |-> IF i <= k THEN s[i] ELSE Junk]
Room == IF call.kind = "truncate" THEN NewSize ELSE Len(file[call.f])
Kept(s) == IF call.kind = "truncate" THEN Resized(s, NewSize) ELSE s
Got == before[call.f] # None /\ buf = Kept(before[call.f])
Names == {x \in Name : file[x] # None}

Ended ==
  /\ call.kind \in {"open", "getattr"} => Same
  /\ call.kind = "create" => Same \/ Wrote
  /\ call.kind = "readdir" => Same /\ (error = "mapped" \/ (error = "notfound" /\ found = Names))
  /\ call.kind = "mknod" => Same \/ (ret = "ok" /\ Wrote)
  /\ call.kind = "unlink" => Same \/ (ret = "ok" /\ before[call.f] # None /\ Gone)
  /\ call.kind \in {"flush", "release"} =>
       \/ ret = "ok" /\ IF fd[call.d].dirty THEN Wrote ELSE Same
       \/ ret = "failed" /\ (Same \/ Gone)
  /\ call.kind = "truncate" => Same \/ Gone \/ (ret = "ok" /\ Got /\ Wrote)
  /\ call.kind = "rename" =>
       \/ Same \/ Gone
       \/ /\ ret = "ok" /\ Got /\ New
          /\ \/ Wrote /\ fails > 0
             \/ file = [before EXCEPT ![call.g] = buf, ![call.f] = None]

FilesAre ==
  LET l == Nth(todo, 1) IN
  /\ l \in {"OpenRead", "ReadPart"} => Same \/ (call.kind = "create" /\ Wrote)
  /\ l = "CloseRead" => \/ Same
                        \/ call.kind = "create" /\ Wrote
                        \/ call.kind = "rename" /\ Wrote /\ Nth(todo, 2) = "Remove"
  /\ l \in {"FindFirst", "FindNext", "CloseFound"} => Same
  /\ l = "Remove" => Same \/ (call.kind = "rename" /\ Wrote)
  /\ l = "OpenWrite" => Same \/ (call.kind \in Replacing /\ Gone)
  /\ l = "WritePart" =>
       New /\ file = [before EXCEPT ![Target] = Partly(Source, Len(Source))]
  /\ l = "CloseWrite" => Wrote
  /\ l = "end" => Ended

BufferIs ==
  LET l == Nth(todo, 1) IN
  /\ l = "ReadPart" =>
       want = Min2(Len(file[call.f]), Room) /\ buf = Partly(file[call.f], Room)
  /\ call.kind \in {"open", "create"} /\ (l = "CloseRead" \/ (l = "end" /\ ret = "ok")) =>
       file[call.f] # None /\ buf = file[call.f]
  /\ call.kind \in {"rename", "truncate"} /\ l \notin {"OpenRead", "ReadPart", "end"} => Got

NamesAre ==
  LET l == Nth(todo, 1) IN
  call.kind = "readdir" => /\ l = "FindFirst" => found = {}
                           /\ l = "FindNext" => found \subseteq Names
                           /\ l = "CloseFound" => error = "notfound" /\ found = Names

\* No transfer has failed.
Clean == call # None /\ reply = "none" /\ ~trouble => FilesAre /\ BufferIs /\ NamesAre

FilesInv == TypeOK /\ Placed /\ Clean

-----------------------------------------------------------------------------
(* Commands, contents and numbers.                                         *)

LEMMA CourseAfter ==
  ASSUME NEW kind, NEW t, Course(kind, t), NEW n \in 0 .. Len(t)
  PROVE  /\ Course(kind, SubSeq(t, n + 1, Len(t)))
         /\ \A p \in Nat \ {0} : Nth(SubSeq(t, n + 1, Len(t)), p) = Nth(t, n + p)
<1> DEFINE s == SubSeq(t, n + 1, Len(t))
<1>1. /\ t \in Seq(Commands) /\ Len(t) \in Nat
      /\ s \in Seq(Commands) /\ Len(s) = Len(t) - n
      /\ \A i \in 1 .. Len(s) : s[i] = t[n + i]
  BY DEF Course
<1>2. s = t \/ s = <<>> \/ t # <<"CloseRead">>
  BY <1>1
<1> HIDE DEF s
<1>3. ASSUME NEW p \in Nat \ {0} PROVE Nth(s, p) = Nth(t, n + p)
  BY <1>1 DEF Nth
<1>4. CASE s = t \/ s = <<>>
  <2>1. Course(kind, <<>>)
    BY DEF Course
  <2> QED BY <1>3, <1>4, <2>1 DEF s
<1>5. CASE t # <<"CloseRead">>
  <2>1. ASSUME NEW p \in 1 .. Len(s) PROVE Follows(kind, s[p], Nth(s, p + 1))
    <3>1. n + p \in 1 .. Len(t) /\ s[p] = t[n + p] /\ p + 1 \in Nat \ {0}
      BY <1>1
    <3>2. Nth(s, p + 1) = Nth(t, n + (p + 1)) /\ n + (p + 1) = (n + p) + 1
      BY <1>3, <3>1
    <3> QED BY <1>5, <3>1, <3>2 DEF Course
  <2> QED BY <1>1, <1>3, <2>1 DEF s, Course
<1> QED BY <1>2, <1>4, <1>5

\* What follows the first command
LEMMA CourseTail ==
  ASSUME NEW kind, NEW t, Course(kind, t), t # <<>>
  PROVE  /\ t \in Seq(Commands) /\ Tail(t) \in Seq(Commands)
         /\ Course(kind, Tail(t)) /\ Head(t) = Nth(t, 1) /\ Head(t) \in Commands
         /\ Nth(Tail(t), 1) = Nth(t, 2) /\ Nth(Tail(t), 2) = Nth(t, 3)
         /\ \/ /\ Follows(kind, Nth(t, 1), Nth(t, 2))
               /\ Nth(t, 2) # "end" => Follows(kind, Nth(t, 2), Nth(t, 3))
               /\ Nth(t, 2) # "end" /\ Nth(t, 3) # "end" =>
                    Follows(kind, Nth(t, 3), Nth(t, 4)) /\ 3 \in 0 .. Len(t)
            \/ /\ kind = "rename" /\ t = <<"CloseRead">>
               /\ Nth(t, 1) = "CloseRead" /\ Nth(t, 2) = "end"
<1>1. t \in Seq(Commands) /\ Len(t) \in Nat /\ Len(t) >= 1 /\ Tail(t) = SubSeq(t, 2, Len(t))
  BY DEF Course
<1>2. /\ Course(kind, SubSeq(t, 1 + 1, Len(t)))
      /\ \A p \in Nat \ {0} : Nth(SubSeq(t, 1 + 1, Len(t)), p) = Nth(t, 1 + p)
  BY <1>1, CourseAfter
<1>3. Course(kind, Tail(t)) /\ Nth(Tail(t), 1) = Nth(t, 2) /\ Nth(Tail(t), 2) = Nth(t, 3)
  <2>1. SubSeq(t, 1 + 1, Len(t)) = Tail(t) /\ 1 + 1 = 2 /\ 1 + 2 = 3
    BY <1>1
  <2>2. /\ Nth(SubSeq(t, 1 + 1, Len(t)), 1) = Nth(t, 1 + 1)
        /\ Nth(SubSeq(t, 1 + 1, Len(t)), 2) = Nth(t, 1 + 2)
    BY <1>2
  <2> QED BY <1>2, <2>1, <2>2
<1>4. Head(t) = Nth(t, 1) /\ Head(t) \in Commands /\ Tail(t) \in Seq(Commands)
  BY <1>1 DEF Nth
<1>5. CASE kind = "rename" /\ t = <<"CloseRead">>
  <2>1. Nth(t, 1) = "CloseRead" /\ Nth(t, 2) = "end"
    BY <1>5 DEF Nth
  <2> QED BY <1>1, <1>3, <1>4, <1>5, <2>1
<1>6. CASE \A p \in 1 .. Len(t) : Follows(kind, t[p], Nth(t, p + 1))
  <2>1. ASSUME NEW p \in Nat \ {0}, p = 1 \/ Nth(t, p) # "end"
        PROVE  Follows(kind, Nth(t, p), Nth(t, p + 1)) /\ p \in 0 .. Len(t)
    BY <1>1, <1>6, <2>1 DEF Nth
  <2>2. 1 + 1 = 2 /\ 2 + 1 = 3 /\ 3 + 1 = 4
    OBVIOUS
  <2> QED BY <1>1, <1>3, <1>4, <2>1, <2>2
<1> QED BY <1>5, <1>6 DEF Course

LEMMA ShortCourses == \A kind : Course(kind, <<>>) /\ Nth(<<>>, 1) = "end"
BY DEF Course, Nth

LEMMA LongestIs == Longest \in Sizes /\ Longest \in Nat /\ \A m \in Sizes : m \in 0 .. Longest
<1>1. \E n \in Sizes : \A m \in Sizes : m <= n
  BY MountAssumption
<1>2. Longest \in Sizes /\ \A m \in Sizes : m <= Longest
  BY <1>1 DEF Longest
<1> QED BY <1>2, MountAssumption

LEMMA ContentIs ==
  /\ \A s \in Content : /\ Len(s) \in Sizes /\ s \in [1 .. Len(s) -> Cell]
                        /\ Len(s) \in Nat /\ s # None
  /\ \A n \in Sizes : \A s \in [1 .. n -> Cell] : s \in Content /\ Len(s) = n
<1>1. ASSUME NEW n \in Sizes, NEW s \in [1 .. n -> Cell] PROVE s \in Content /\ Len(s) = n
  <2>1. n \in Nat
    BY MountAssumption
  <2>2. Len(s) = n
    BY <2>1
  <2> QED BY <2>2 DEF Content
<1>2. ASSUME NEW s \in Content
      PROVE  Len(s) \in Sizes /\ s \in [1 .. Len(s) -> Cell] /\ Len(s) \in Nat /\ s # None
  <2>1. PICK n \in Sizes : s \in [1 .. n -> Cell]
    BY DEF Content
  <2>2. Len(s) = n
    BY <1>1, <2>1
  <2> QED BY <2>1, <2>2, MountAssumption, ApartAssumption
<1> QED BY <1>1, <1>2

LEMMA NoneMoved == \A n \in Nat : 0 \in 0 .. (n \div Chunk) /\ 0 = 0 * Chunk
<1> SUFFICES ASSUME NEW n \in Nat PROVE 0 \in 0 .. (n \div Chunk) /\ 0 = 0 * Chunk
  OBVIOUS
<1>1. Chunk \in Nat \ {0}
  BY MountAssumption
<1>2. n \div Chunk \in Nat
  BY <1>1
<1> QED BY <1>1, <1>2

\* The parts end with all that is wanted.
LEMMA Parts ==
  ASSUME want \in Nat, Chunked
  PROVE  /\ k \in Nat /\ Part \in Nat /\ k + Part <= want
         /\ IF k < (want \div Chunk) * Chunk
            THEN \E q \in 0 .. (want \div Chunk) : k + Part = q * Chunk
            ELSE k + Part = want
<1> DEFINE d == want \div Chunk
           m == want % Chunk
<1>1. Chunk \in Nat \ {0}
  BY MountAssumption
<1>2. d \in Nat /\ m \in Nat /\ want = d * Chunk + m
  BY <1>1
<1>3. PICK q \in 0 .. d : k = q * Chunk
  BY DEF Chunked
<1>4. Part = IF k < d * Chunk THEN Chunk ELSE m
  BY DEF Part
<1> HIDE DEF d, m
<1>5. d - q \in Nat /\ (d - q) * Chunk \in Nat /\ (d - q) * Chunk = d * Chunk - q * Chunk
  BY <1>1, <1>2, <1>3
<1>6. q * Chunk \in Nat /\ d * Chunk \in Nat /\ k <= d * Chunk
  BY <1>1, <1>2, <1>3, <1>5
<1>7. CASE k < d * Chunk
  <2>1. q # d
    BY <1>3, <1>7, <1>6
  <2>2. q + 1 \in 0 .. d /\ (q + 1) * Chunk = q * Chunk + Chunk
    BY <1>1, <1>2, <1>3, <2>1
  <2>3. d - (q + 1) \in Nat /\ (d - (q + 1)) * Chunk \in Nat
    BY <1>1, <1>2, <2>2
  <2>4. (d - (q + 1)) * Chunk = d * Chunk - (q + 1) * Chunk
    BY <1>1, <1>2, <1>3
  <2>5. k + Part <= want
    BY <1>1, <1>2, <1>3, <1>4, <1>6, <1>7, <2>2, <2>3, <2>4
  <2>6. k + Part = (q + 1) * Chunk /\ k \in Nat /\ Part \in Nat
    BY <1>1, <1>3, <1>4, <1>6, <1>7, <2>2
  <2> QED BY <1>7, <2>2, <2>5, <2>6 DEF d
<1>8. CASE ~(k < d * Chunk)
  <2>1. k = d * Chunk /\ Part = m
    BY <1>3, <1>4, <1>6, <1>8
  <2>2. k + Part = want /\ k \in Nat /\ Part \in Nat /\ k + Part <= want
    BY <1>2, <1>6, <2>1
  <2> QED BY <1>8, <2>2 DEF d
<1> QED BY <1>7, <1>8

-----------------------------------------------------------------------------
(* What the answers say.                                                   *)

\* a opens a free handle, or is a refusal that changes nothing.
Opens(a, f, mode) ==
  a.ok /\ \E x \in Hnd : /\ open[x] = None /\ a.x = x
                         /\ a.open = [open EXCEPT ![x] = [f |-> f, mode |-> mode]]
Refusal(a, errs) == ~a.ok /\ a.file = file /\ a.open = open /\ a.x = None /\ a.err \in errs

LEMMA GivenIs ==
  ASSUME NEW f, NEW mode, NEW files, NEW a \in Given(f, mode, files)
  PROVE  ~a.lost /\ a.file = files /\ Opens(a, f, mode)
<1>1. PICK x \in Free :
        a = Answer(TRUE, files, [open EXCEPT ![x] = [f |-> f, mode |-> mode]], x, "none")
  BY DEF Given
<1>2. x \in Hnd /\ open[x] = None
  BY DEF Free
<1> QED BY <1>1, <1>2 DEF Opens, Answer

LEMMA RefusedIs ==
  \A e : LET a == Refused(e) IN ~a.lost /\ Refusal(a, {e})
BY DEF Refused, Refusal, Answer

LEMMA ReadAnswers ==
  ASSUME NEW f, NEW a \in AsksRead(f)
  PROVE  /\ ~a.lost /\ a.file = file
         /\ \/ Opens(a, f, "read") /\ file[f] # None
            \/ Refusal(a, {"mapped", "notfound"})
<1>1. \/ a = Refused("mapped") \/ a = Refused("notfound")
      \/ a \in Given(f, "read", file) /\ file[f] # None
  BY DEF AsksRead
<1> QED BY <1>1, GivenIs, RefusedIs DEF Refusal

LEMMA WriteAnswers ==
  ASSUME NEW f, NEW n, NEW a \in AsksWrite(f, n)
  PROVE  /\ ~a.lost
         /\ \/ /\ Opens(a, f, "write") /\ file[f] = None
               /\ a.file = [file EXCEPT ![f] = Blank(n)]
            \/ Refusal(a, {"mapped", "none"})
<1>1. \/ a = Refused("mapped") \/ a = Refused("none")
      \/ a \in Given(f, "write", [file EXCEPT ![f] = Blank(n)]) /\ file[f] = None
  BY DEF AsksWrite
<1> QED BY <1>1, GivenIs, RefusedIs DEF Refusal

LEMMA FindAnswers ==
  ASSUME NEW S, NEW a \in AsksFind(S)
  PROVE  /\ ~a.lost /\ a.file = file
         /\ \/ \E f \in S : Opens(a, f, "read")
            \/ Refusal(a, {"mapped"}) \/ (S = {} /\ Refusal(a, {"notfound"}))
<1>1. \/ a = Refused("mapped") \/ (S = {} /\ a = Refused("notfound"))
      \/ \E f \in S : a \in Given(f, "read", file)
  BY DEF AsksFind
<1> QED BY <1>1, GivenIs, RefusedIs DEF Refusal

LEMMA NextAnswers ==
  ASSUME NEW S, NEW x, NEW a \in AsksNext(S, x)
  PROVE  /\ ~a.lost /\ a.file = file
         /\ \/ /\ a.ok /\ a.x = x
               /\ \E f \in S : a.open = [open EXCEPT ![x].f = f]
            \/ S = {} /\ Refusal(a, {"notfound"})
<1>1. CASE S = {}
  <2>1. a = Refused("notfound")
    BY <1>1 DEF AsksNext
  <2> QED BY <1>1, <2>1, RefusedIs DEF Refusal
<1>2. CASE S # {}
  <2>1. PICK f \in S : a = Answer(TRUE, file, [open EXCEPT ![x].f = f], x, "none")
    BY <1>2 DEF AsksNext
  <2> QED BY <2>1 DEF Answer
<1> QED BY <1>1, <1>2

LEMMA CloseAnswers ==
  ASSUME NEW x, NEW a \in AsksClose(x)
  PROVE  ~a.lost /\ a.ok /\ a.x = x /\ a.file = file /\ a.open = [open EXCEPT ![x] = None]
BY DEF AsksClose, Answer

LEMMA RemoveAnswers ==
  ASSUME NEW f, NEW a \in AsksRemove(f)
  PROVE  /\ ~a.lost /\ a.open = open /\ a.x = None
         /\ \/ a.ok /\ file[f] # None /\ a.file = [file EXCEPT ![f] = None]
            \/ /\ Refusal(a, {"notfound", "mapped"})
               /\ file[f] = None \/ Busy(f, {"read", "write"})
<1>1. CASE file[f] = None
  <2>1. a = Refused("notfound")
    BY <1>1 DEF AsksRemove
  <2> QED BY <1>1, <2>1, RefusedIs DEF Refusal
<1>2. CASE file[f] # None /\ Busy(f, {"read", "write"})
  <2>1. a = Refused("mapped")
    BY <1>2 DEF AsksRemove
  <2> QED BY <1>2, <2>1, RefusedIs DEF Refusal
<1>3. CASE file[f] # None /\ ~Busy(f, {"read", "write"})
  <2>1. a = Answer(TRUE, [file EXCEPT ![f] = None], open, None, "none")
    BY <1>3 DEF AsksRemove
  <2> QED BY <1>3, <2>1 DEF Answer
<1> QED BY <1>1, <1>2, <1>3

\* The bytes s from off on
Moved(t, off, s) ==
  [i \in 1 .. Len(t) |-> IF i > off /\ i <= off + Len(s) THEN s[i - off] ELSE t[i]]
LEMMA MoveAnswers ==
  ASSUME NEW f, NEW off, NEW s, NEW a \in AsksMove(f, off, s)
  PROVE  /\ ~a.lost /\ a.ok /\ a.open = open /\ a.x = None
         /\ a.file = [file EXCEPT ![f] = Moved(file[f], off, s)]
BY DEF AsksMove, Answer, Moved

\* A command is answered, or its transfer fails; then it is executed or not.
Executed(a) == file' = a.file /\ open' = a.open
LEMMA Taken ==
  ASSUME NEW A, \A a \in A : ~a.lost, NEW r \in Answers(A), Takes(r)
  PROVE  /\ UNCHANGED <<fd, call, reply, before>>
         /\ \/ /\ r \in A /\ Executed(r) /\ UNCHANGED <<trouble, fails>>
               /\ error' = IF r.ok THEN error ELSE r.err
            \/ /\ ~r.ok /\ r.x = None /\ trouble' = TRUE
               /\ fails < MaxFails /\ fails' = fails + 1
               /\ error' = r.err /\ r.err \in {"none", "mapped", error}
               /\ \E b \in A : UNCHANGED <<file, open>> \/ Executed(b)
<1>1. /\ UNCHANGED <<fd, call, reply, before>> /\ file' = r.file /\ open' = r.open
      /\ error' = IF r.ok THEN error ELSE r.err
      /\ IF r.lost THEN fails < MaxFails /\ fails' = fails + 1 /\ trouble' = TRUE
         ELSE UNCHANGED <<trouble, fails>>
  BY DEF Takes
<1>2. CASE r \in A
  BY <1>1, <1>2 DEF Executed
<1>3. CASE r \notin A
  <2>1. r \in UNION {UNION {Lost(b, e) : e \in {"none", "mapped", error}} : b \in A}
    BY <1>3 DEF Answers
  <2>2. PICK b \in A : r \in UNION {Lost(b, e) : e \in {"none", "mapped", error}}
    BY <2>1
  <2>3. PICK e \in {"none", "mapped", error} : r \in Lost(b, e)
    BY <2>2
  <2>4. /\ r.lost /\ ~r.ok /\ r.x = None /\ r.err = e
        /\ (r.file = file /\ r.open = open) \/ (r.file = b.file /\ r.open = b.open)
    BY <2>3 DEF Lost, Answer, Refused
  <2> QED BY <1>1, <2>4 DEF Executed
<1> QED BY <1>2, <1>3

-----------------------------------------------------------------------------
(* The types of what the brick has and of the rest.                        *)

FileType == [Name -> Content \cup {None}]
OpenType == [Hnd -> Opening \cup {None}]
LocalTypes ==
  /\ todo \in Seq(Commands) /\ {h, w} \subseteq Hnd \cup {None}
  /\ buf \in Content \cup {<<>>} /\ {want, k} \subseteq 0 .. Longest
  /\ ret \in {"ok", "failed", "null"} /\ found \subseteq Name
\* An answer to a command of this operation
Sane(a) ==
  /\ ~a.lost /\ a.file \in FileType /\ a.open \in OpenType /\ a.x \in Hnd \cup {None}
  /\ ~a.ok => a.err \in Errors
  /\ \A y \in Name \ {call.f, call.g} : a.file[y] = file[y]

LEMMA Typed ==
  ASSUME TypeOK, Placed
  PROVE  /\ file \in FileType /\ open \in OpenType /\ error \in Errors
         /\ fd \in [Fd -> Record \cup {None, Null}] /\ before \in FileType
         /\ LocalTypes /\ fails \in Nat /\ MaxFails \in Nat
         /\ call # None => Named(call) /\ Course(call.kind, todo)
         /\ call # None /\ reply = "none" => Running
<1>1. todo \in Seq(Commands)
  <2>1. CASE call = None
    <3>1. todo = <<>>
      BY <2>1 DEF Placed
    <3> QED BY <3>1
  <2>2. CASE call # None
    <3>1. Course(call.kind, todo)
      BY <2>2 DEF Placed
    <3> QED BY <3>1 DEF Course
  <2> QED BY <2>1, <2>2
<1> QED BY <1>1, MountAssumption DEF TypeOK, Placed, FileType, OpenType, LocalTypes

\* An operation that takes an answer goes on from a place to a place.
LEMMA Goes ==
  ASSUME TypeOK, Placed, call # None, reply = "none",
         NEW A, \A a \in A : Sane(a), NEW r \in Answers(A), Takes(r),
         LocalTypes', Course(call.kind, todo'), InPlace',
         todo' # <<>> => todo # <<>>
  PROVE  TypeOK' /\ Placed'
<1>1. /\ UNCHANGED <<fd, call, reply, before>>
      /\ \/ /\ r \in A /\ Executed(r) /\ UNCHANGED <<trouble, fails>>
            /\ error' = IF r.ok THEN error ELSE r.err
         \/ /\ trouble' = TRUE /\ fails < MaxFails /\ fails' = fails + 1
            /\ error' \in {"none", "mapped", error}
            /\ \E b \in A : UNCHANGED <<file, open>> \/ Executed(b)
  BY Taken DEF Sane
<1>2. file \in FileType /\ open \in OpenType /\ error \in Errors /\ fails \in Nat /\ MaxFails \in Nat
  BY Typed
<1>3. file' \in FileType /\ open' \in OpenType
  BY <1>1, <1>2 DEF Sane, Executed
<1>4. error' \in Errors
  BY <1>1, <1>2 DEF Sane, Errors
<1>5. trouble' \in BOOLEAN /\ fails' \in 0 .. MaxFails
  <2>1. trouble' \in BOOLEAN
    BY <1>1, Zenon DEF TypeOK
  <2>2. fails' = fails \/ (fails < MaxFails /\ fails' = fails + 1)
    BY <1>1, Zenon
  <2>3. fails' \in 0 .. MaxFails
    BY <1>2, <2>2 DEF TypeOK
  <2> QED BY <2>1, <2>3
<1>6. TypeOK'
  BY <1>1, <1>3, <1>4, <1>5 DEF TypeOK, LocalTypes, FileType, OpenType
<1>7. OthersKept'
  BY <1>1, Typed DEF Running, OthersKept, Sane, Executed
<1>8. WritesBack'
  BY <1>1, Typed DEF Running, WritesBack, Usable
<1>9. Named(call)
  BY Typed
<1> QED BY <1>1, <1>6, <1>7, <1>8, <1>9 DEF Placed, Running

-----------------------------------------------------------------------------
(* The commands again.                                                     *)

LEMMA Still ==
  ASSUME UNCHANGED <<file, before, call, buf, fd>>
  PROVE  /\ Same' <=> Same
         /\ Gone' <=> Gone
         /\ New' <=> New
         /\ Wrote' <=> Wrote
         /\ Got' <=> Got
         /\ Names' = Names
BY DEF Same, Gone, New, Wrote, Got, Names, Target, Source, Kept, NewSize

\* Within an operation, and what is known then
LEMMA Busily ==
  ASSUME FilesInv, todo # <<>>
  PROVE  /\ TypeOK /\ Placed /\ call # None /\ reply = "none"
         /\ Named(call) /\ Course(call.kind, todo) /\ Running
         /\ ~trouble => FilesAre /\ BufferIs /\ NamesAre
BY Zenon DEF FilesInv, Placed, Clean

LEMMA CloseFiles == ASSUME FilesInv, CloseRead \/ CloseWrite \/ CloseFound PROVE FilesInv'
<1>1. PICK x \in Hnd \cup {None} :
        /\ todo # <<>> /\ Head(todo) \in {"CloseRead", "CloseWrite", "CloseFound"}
        /\ \E r \in Answers(AsksClose(x)) :
             /\ Takes(r) /\ todo' = Tail(todo)
             /\ UNCHANGED <<h, w, buf, want, k, ret, found>>
  BY DEF CloseRead, CloseWrite, CloseFound, Close, At, FilesInv, TypeOK
<1> DEFINE A == AsksClose(x)
           l == Nth(todo, 1)
           m == Nth(todo', 1)
<1>2. PICK r \in Answers(A) : Takes(r)
  BY <1>1
<1>3. /\ TypeOK /\ Placed /\ call # None /\ reply = "none"
      /\ Named(call) /\ Course(call.kind, todo) /\ Running
      /\ ~trouble => FilesAre /\ BufferIs /\ NamesAre
  BY <1>1, Busily
<1>4. \A a \in A : Sane(a) /\ a.file = file /\ a.ok
  <2> SUFFICES ASSUME NEW a \in A PROVE Sane(a) /\ a.file = file /\ a.ok
    OBVIOUS
  <2>1. ~a.lost /\ a.ok /\ a.x = x /\ a.file = file /\ a.open = [open EXCEPT ![x] = None]
    BY CloseAnswers
  <2>2. file \in FileType /\ open \in OpenType
    BY <1>3, Typed
  <2>3. a.open \in OpenType
    BY <2>1, <2>2 DEF OpenType
  <2> QED BY <1>1, <2>1, <2>2, <2>3 DEF Sane
<1>5. /\ Course(call.kind, todo') /\ l \in {"CloseRead", "CloseWrite", "CloseFound"}
      /\ m = Nth(todo, 2) /\ Nth(todo', 2) = Nth(todo, 3) /\ todo' \in Seq(Commands)
      /\ \/ Follows(call.kind, l, m)
         \/ call.kind = "rename" /\ todo = <<"CloseRead">> /\ l = "CloseRead" /\ m = "end"
      /\ l = "CloseWrite" /\ m = "CloseRead" => Nth(todo, 3) = "Remove"
  <2>1. l \in {"CloseRead", "CloseWrite", "CloseFound"} /\ todo' = Tail(todo)
    BY <1>1, <1>3, CourseTail
  <2>2. \/ Follows(call.kind, l, Nth(todo, 2)) /\ (Nth(todo, 2) # "end" =>
                 Follows(call.kind, Nth(todo, 2), Nth(todo, 3)))
        \/ /\ call.kind = "rename" /\ todo = <<"CloseRead">>
           /\ l = "CloseRead" /\ Nth(todo, 2) = "end"
    BY <1>1, <1>3, CourseTail
  <2>3. l = "CloseWrite" /\ Nth(todo, 2) = "CloseRead" => Nth(todo, 3) = "Remove"
    BY <2>2 DEF Follows, Replacing
  <2> QED BY <1>1, <1>3, <2>1, <2>2, <2>3, CourseTail
<1>6. UNCHANGED <<fd, call, reply, before>>
  BY <1>2, <1>4, Taken DEF Sane
<1> HIDE DEF A, l, m
<1>7. InPlace'
  <2>1. InPlace /\ l = Nth(todo, 1) /\ m = Nth(todo', 1) /\ todo # <<>>
    BY <1>1, <1>3 DEF Running, l, m
  <2>2. m \notin {"ReadPart", "WritePart", "FindNext"}
    BY <1>5 DEF Follows, Replacing
  <2>3. todo' # <<>> => ret' = "ok"
    <3>1. todo = <<"CloseRead">> => todo' = <<>>
      BY <1>1
    <3> QED BY <1>1, <2>1, <3>1 DEF InPlace
  <2>4. call.kind # "readdir" => found' = {}
    BY <1>1, <2>1 DEF InPlace
  <2>5. Loaded' => Loaded
    BY <1>1, <1>5, <1>6, <2>1 DEF Loaded, Follows, Replacing
  <2>6. Loaded' => buf' \in Content
    BY <1>1, <2>1, <2>5 DEF InPlace
  <2> QED BY <1>6, <2>1, <2>2, <2>3, <2>4, <2>6 DEF InPlace
<1>8. TypeOK' /\ Placed'
  <2>1. LocalTypes'
    BY <1>1, <1>3, <1>5, Typed DEF LocalTypes
  <2> QED BY <1>1, <1>2, <1>3, <1>4, <1>5, <1>7, <2>1, Goes
<1>9. Clean'
  <2> SUFFICES ASSUME ~trouble' PROVE FilesAre' /\ BufferIs' /\ NamesAre'
    BY DEF Clean
  <2>1. UNCHANGED <<file, error, fails>> /\ ~trouble
    BY <1>2, <1>4, Taken DEF Sane, Executed
  <2>2. /\ UNCHANGED <<file, before, call, buf, fd, ret, found, error, fails>>
        /\ l = Nth(todo, 1) /\ m = Nth(todo', 1)
    BY <1>1, <1>6, <2>1 DEF l, m
  <2>3. /\ Same' <=> Same
        /\ Gone' <=> Gone
        /\ New' <=> New
        /\ Wrote' <=> Wrote
        /\ Got' <=> Got
        /\ Names' = Names
    BY <2>2, Still
  <2>4. FilesAre /\ BufferIs /\ NamesAre
    BY <1>3, <2>1
  <2>5. /\ l # "CloseRead" => ret = "ok"
        /\ call.kind \in {"flush", "release"} => fd[call.d].dirty
    <3>1. todo = <<"CloseRead">> => l = "CloseRead"
      BY <2>2 DEF Nth
    <3>2. InPlace /\ WritesBack
      BY <1>3 DEF Running
    <3>3. l # "CloseRead" => ret = "ok"
      BY <1>1, <3>1, <3>2, Zenon DEF InPlace
    <3> QED BY <1>1, <3>2, <3>3 DEF WritesBack
  <2>6. /\ l = "CloseRead" => \/ Same
                              \/ call.kind = "create" /\ Wrote
                              \/ call.kind = "rename" /\ Wrote /\ Nth(todo, 2) = "Remove"
        /\ l = "CloseFound" => Same
        /\ l = "CloseWrite" => Wrote
    BY <2>2, <2>4 DEF FilesAre
  <2>7. m = "end" => Ended'
    <3>1. CASE l = "CloseRead"
      BY <1>5, <2>2, <2>3, <2>6, <3>1 DEF Follows, Replacing, Ended
    <3>2. CASE l = "CloseFound"
      BY <1>5, <2>2, <2>3, <2>4, <2>6, <3>2 DEF Follows, Replacing, Ended, NamesAre
    <3>3. CASE l = "CloseWrite"
      BY <1>5, <2>2, <2>3, <2>4, <2>5, <2>6, <3>3 DEF Follows, Replacing, Ended, BufferIs
    <3> QED BY <1>5, <3>1, <3>2, <3>3
  <2>8. FilesAre'
    BY <1>5, <2>2, <2>3, <2>6, <2>7 DEF Follows, Replacing, FilesAre
  <2>9. BufferIs'
    BY <1>5, <2>2, <2>3, <2>4 DEF Follows, Replacing, BufferIs
  <2>10. NamesAre'
    BY <1>5, <2>2, <2>3, <2>4 DEF Follows, Replacing, NamesAre
  <2> QED BY <2>8, <2>9, <2>10
<1> QED BY <1>8, <1>9 DEF FilesInv

\* Before its last command a rename holds no handle: if none has been lost, the
\* old file is not open.
LEMMA NoneOpen ==
  ASSUME IsFiniteSet(Hnd), HInv, call # None, todo \in Seq(Commands),
         Nth(todo, 1) = "Remove", Nth(todo, 2) = "end", fails = 0, NEW f, NEW modes
  PROVE  ~Busy(f, modes)
<1>1. Len(todo) = 1 /\ todo[1] = "Remove"
  <2>1. Len(todo) \in Nat /\ 1 \in 1 .. Len(todo) /\ todo[1] = "Remove"
    BY DEF Nth
  <2>2. 2 \in 1 .. Len(todo) => todo[2] = "end" /\ todo[2] \in Commands
    BY DEF Nth
  <2>3. 2 \notin 1 .. Len(todo)
    BY <2>2 DEF Commands
  <2>4. Len(todo) = 1
    <3> DEFINE n == Len(todo)
    <3>1. n \in Nat /\ 1 \in 1 .. n /\ 2 \notin 1 .. n
      BY <2>1, <2>3
    <3> HIDE DEF n
    <3>2. n = 1
      BY <3>1
    <3> QED BY <3>2 DEF n
  <2> QED BY <2>1, <2>4
<1>2. ~HoldsH(todo, 1) /\ ~HoldsW(todo, 1)
  BY <1>1 DEF HoldsH, HoldsW, ClosesFrom, ClosesH
<1>3. Held = {}
  BY <1>2 DEF Held
<1>4. Cardinality(Opened(open)) <= 0 /\ IsFiniteSet(Opened(open))
  <2>1. Opened(open) \ Held = Opened(open)
    BY <1>3
  <2> QED BY <2>1, FS_Subset DEF HInv, Counted, Opened
<1>5. Opened(open) = {}
  BY <1>4, FS_EmptySet, FS_CardinalityType
<1> QED BY <1>5 DEF Busy, Opened

LEMMA RemoveFiles == ASSUME IsFiniteSet(Hnd), HInv, FilesInv, Remove PROVE FilesInv'
<1> DEFINE A == AsksRemove(call.f)
           l == Nth(todo, 1)
           m == Nth(todo', 1)
<1>1. PICK r \in Answers(A) :
        /\ Takes(r) /\ todo' = Tail(todo)
        /\ ret' = IF r.ok \/ call.kind # "unlink" THEN ret ELSE Told(r.err)
        /\ UNCHANGED <<h, w, buf, want, k, found>>
  BY DEF Remove
<1>2. todo # <<>> /\ Head(todo) = "Remove"
  BY DEF Remove, At
<1>3. /\ TypeOK /\ Placed /\ call # None /\ reply = "none"
      /\ Named(call) /\ Course(call.kind, todo) /\ Running
      /\ ~trouble => FilesAre /\ BufferIs /\ NamesAre
  BY <1>2, Busily
<1>4. /\ Course(call.kind, todo') /\ l = "Remove" /\ m = Nth(todo, 2)
      /\ todo \in Seq(Commands) /\ todo' \in Seq(Commands)
      /\ \/ m = "end" /\ call.kind \in {"unlink", "rename"}
         \/ m = "OpenWrite" /\ call.kind \in Replacing
  <2>1. Course(call.kind, Tail(todo)) /\ l = Head(todo) /\ Nth(Tail(todo), 1) = Nth(todo, 2)
    BY <1>2, <1>3, CourseTail
  <2>2. Follows(call.kind, "Remove", Nth(todo, 2))
    BY <1>2, <1>3, <2>1, CourseTail
  <2> QED BY <1>1, <1>2, <2>1, <2>2 DEF Follows, Course
<1>5. call.f \in Name /\ call.kind # "readdir" /\ (call.kind = "rename" => call.g \in Name \ {call.f})
  BY <1>3, <1>4 DEF Named, Replacing
<1>6. \A a \in A : Sane(a)
  <2> SUFFICES ASSUME NEW a \in A PROVE Sane(a)
    OBVIOUS
  <2>1. /\ ~a.lost /\ a.open = open /\ a.x = None
        /\ \/ a.ok /\ a.file = [file EXCEPT ![call.f] = None]
           \/ a.file = file /\ a.err \in Errors
    BY RemoveAnswers DEF Refusal, Errors
  <2>2. file \in FileType /\ open \in OpenType
    BY <1>3, Typed
  <2>3. a.file \in FileType /\ \A y \in Name \ {call.f, call.g} : a.file[y] = file[y]
    BY <1>5, <2>1, <2>2 DEF FileType
  <2> QED BY <2>1, <2>2, <2>3 DEF Sane
<1>7. UNCHANGED <<fd, call, reply, before>>
  BY <1>1, <1>6, Taken DEF Sane
<1> HIDE DEF l, m
<1>8. InPlace'
  <2>1. InPlace /\ l = Nth(todo, 1) /\ m = Nth(todo', 1)
    BY <1>3 DEF Running, l, m
  <2>2. todo' # <<>> => ret' = "ok"
    <3>1. todo # <<"CloseRead">>
      BY <1>4, <2>1 DEF Nth
    <3>2. todo' = <<>> \/ call.kind # "unlink"
      BY <1>4, <2>1 DEF Nth, Commands, Replacing
    <3> QED BY <1>1, <1>2, <2>1, <3>1, <3>2 DEF InPlace
  <2>3. found' = {}
    BY <1>1, <1>5, <2>1 DEF InPlace
  <2>4. Loaded' => Loaded
    BY <1>4, <1>7, <2>1 DEF Loaded, Replacing
  <2>5. Loaded' => buf' \in Content
    BY <1>1, <2>1, <2>4 DEF InPlace
  <2> QED BY <1>4, <1>7, <2>1, <2>2, <2>3, <2>5 DEF InPlace
<1>9. TypeOK' /\ Placed'
  <2>1. LocalTypes'
    BY <1>1, <1>3, <1>4, Typed DEF LocalTypes, Told
  <2> QED BY <1>1, <1>2, <1>3, <1>4, <1>6, <1>8, <2>1, Goes
<1>10. Clean'
  <2> SUFFICES ASSUME ~trouble' PROVE FilesAre' /\ BufferIs' /\ NamesAre'
    BY DEF Clean
  <2>1. r \in A /\ Executed(r) /\ UNCHANGED fails /\ ~trouble
    BY <1>1, <1>6, Taken DEF Sane
  <2>2. /\ UNCHANGED <<before, call, buf, fd, found, fails>>
        /\ l = Nth(todo, 1) /\ m = Nth(todo', 1)
    BY <1>1, <1>7, <2>1 DEF l, m
  <2>3. /\ FilesAre /\ BufferIs /\ ret = "ok"
        /\ Same \/ (call.kind = "rename" /\ Wrote)
        /\ call.kind \in {"rename", "truncate"} => Got
    <3>1. todo # <<"CloseRead">> /\ InPlace /\ FilesAre /\ BufferIs
      BY <1>3, <1>4, <2>1, <2>2 DEF Nth, Running
    <3> QED BY <1>2, <1>4, <2>2, <3>1 DEF InPlace, FilesAre, BufferIs
  <2>4. file \in FileType /\ before \in FileType
    BY <1>3, Typed
  <2>5. Got' <=> Got
    BY <2>2 DEF Got, Kept, NewSize
  <2>6. CASE r.ok
    <3>1. file[call.f] # None /\ file' = [file EXCEPT ![call.f] = None] /\ ret' = "ok"
      <4>1. file[call.f] # None /\ r.file = [file EXCEPT ![call.f] = None]
        BY <2>1, <2>6, RemoveAnswers DEF Refusal
      <4>2. ret' = ret
        BY <1>1, <2>6, Zenon
      <4> QED BY <2>1, <2>3, <4>1, <4>2 DEF Executed
    <3>2. CASE Same
      <4>1. before[call.f] # None /\ Gone'
        BY <2>2, <3>1, <3>2 DEF Same, Gone
      <4>2. FilesAre'
        BY <1>4, <2>2, <3>1, <4>1 DEF FilesAre, Ended, Replacing
      <4>3. BufferIs' /\ NamesAre'
        BY <1>4, <1>5, <2>2, <2>3, <2>5 DEF BufferIs, NamesAre, Replacing
      <4> QED BY <4>2, <4>3
    <3>3. CASE call.kind = "rename" /\ Wrote
      <4>1. New' /\ file' = [before' EXCEPT ![call'.g] = buf', ![call'.f] = None]
        BY <1>5, <2>2, <2>4, <3>1, <3>3 DEF Wrote, New, Target, Source, FileType
      <4>2. FilesAre'
        BY <1>4, <2>2, <2>3, <2>5, <3>1, <3>3, <4>1 DEF FilesAre, Ended, Replacing
      <4>3. BufferIs' /\ NamesAre'
        BY <1>4, <1>5, <2>2, <2>3, <2>5 DEF BufferIs, NamesAre, Replacing
      <4> QED BY <4>2, <4>3
    <3> QED BY <2>3, <3>2, <3>3
  <2>7. CASE ~r.ok
    <3>1. /\ file' = file /\ ret' \in {"ok", "failed"}
          /\ call.kind # "unlink" => ret' = "ok"
          /\ file[call.f] = None \/ Busy(call.f, {"read", "write"})
      <4>1. r.file = file /\ (file[call.f] = None \/ Busy(call.f, {"read", "write"}))
        BY <2>1, <2>7, RemoveAnswers DEF Refusal
      <4>2. ret' = IF call.kind # "unlink" THEN ret ELSE Told(r.err)
        BY <1>1, <2>7, Zenon
      <4> QED BY <2>1, <2>3, <4>1, <4>2 DEF Executed, Told
    <3>2. CASE Same
      <4>1. Same'
        BY <2>2, <3>1, <3>2 DEF Same
      <4>2. FilesAre'
        BY <1>4, <2>2, <3>1, <4>1 DEF FilesAre, Ended, Replacing
      <4>3. BufferIs' /\ NamesAre'
        BY <1>4, <1>5, <2>2, <2>3, <2>5 DEF BufferIs, NamesAre, Replacing
      <4> QED BY <4>2, <4>3
    <3>3. CASE call.kind = "rename" /\ Wrote
      <4>1. file[call.f] # None
        BY <1>5, <2>3, <2>4, <3>3 DEF Wrote, Target, Got, FileType
      <4>2. fails > 0
        BY <1>3, <1>4, <2>2, <3>1, <3>3, <4>1, NoneOpen, Typed DEF Replacing
      <4>3. Wrote' /\ New'
        BY <2>2, <3>1, <3>3 DEF Wrote, New, Target, Source
      <4>4. FilesAre'
        BY <1>4, <2>2, <2>3, <2>5, <3>1, <3>3, <4>2, <4>3 DEF FilesAre, Ended, Replacing
      <4>5. BufferIs' /\ NamesAre'
        BY <1>4, <1>5, <2>2, <2>3, <2>5 DEF BufferIs, NamesAre, Replacing
      <4> QED BY <4>4, <4>5
    <3> QED BY <2>3, <3>2, <3>3
  <2> QED BY <2>6, <2>7
<1> QED BY <1>9, <1>10 DEF FilesInv

\* The handle that an answer opens
LEMMA OpensSane ==
  ASSUME open \in OpenType, NEW f \in Name, NEW mode \in {"read", "write"}, NEW a,
         Opens(a, f, mode)
  PROVE  a.ok /\ a.x \in Hnd /\ a.open \in OpenType /\ a.open[a.x].f = f /\ a.open[a.x] # None
<1>1. PICK x \in Hnd : a.x = x /\ a.open = [open EXCEPT ![x] = [f |-> f, mode |-> mode]]
  BY DEF Opens
<1>2. [f |-> f, mode |-> mode] \in Opening /\ [f |-> f, mode |-> mode] # None
  BY ApartAssumption DEF Opening
<1>3. /\ a.open \in OpenType /\ a.open[x] = [f |-> f, mode |-> mode]
  BY <1>1, <1>2 DEF OpenType
<1> QED BY <1>1, <1>2, <1>3 DEF Opens

LEMMA FindFirstFiles == ASSUME FilesInv, FindFirst PROVE FilesInv'
<1> DEFINE S == {f \in Name : file[f] # None /\ call.f \in {f, None}}
           A == AsksFind(S)
           l == Nth(todo, 1)
           m == Nth(todo', 1)
<1>1. PICK r \in Answers(A) :
        /\ Takes(r) /\ h' = r.x
        /\ IF call.kind = "readdir"
           THEN /\ todo' = IF r.ok THEN Tail(todo) ELSE <<>>
                /\ found' = IF r.ok THEN {open'[r.x].f} ELSE {}
           ELSE todo' = After(IF r.ok THEN 1 ELSE 3) /\ UNCHANGED found
        /\ UNCHANGED <<w, buf, want, k, ret>>
  BY DEF FindFirst
<1>2. todo # <<>> /\ Head(todo) = "FindFirst"
  BY DEF FindFirst, At
<1>3. /\ TypeOK /\ Placed /\ call # None /\ reply = "none"
      /\ Named(call) /\ Course(call.kind, todo) /\ Running
      /\ ~trouble => FilesAre /\ BufferIs /\ NamesAre
  BY <1>2, Busily
<1>4. l = "FindFirst" /\ call.kind \in Replacing \cup {"readdir"} /\ todo \in Seq(Commands)
  <2>1. l = Head(todo) /\ todo \in Seq(Commands)
    BY <1>2, <1>3, CourseTail
  <2>2. Follows(call.kind, "FindFirst", Nth(todo, 2))
    BY <1>2, <1>3, <2>1, CourseTail
  <2> QED BY <1>2, <2>1, <2>2 DEF Follows
<1>5. /\ Course(call.kind, todo') /\ todo' \in Seq(Commands)
      /\ IF call.kind = "readdir" THEN m = IF r.ok THEN "FindNext" ELSE "end"
         ELSE m = IF r.ok THEN "CloseFound" ELSE "OpenWrite"
  <2>1. /\ Course(call.kind, Tail(todo)) /\ Nth(Tail(todo), 1) = Nth(todo, 2)
        /\ Follows(call.kind, "FindFirst", Nth(todo, 2))
    <3>1. Course(call.kind, Tail(todo)) /\ Nth(Tail(todo), 1) = Nth(todo, 2)
      BY <1>2, <1>3, CourseTail
    <3>2. Follows(call.kind, "FindFirst", Nth(todo, 2))
      BY <1>2, <1>3, <1>4, CourseTail
    <3> QED BY <3>1, <3>2
  <2>2. CASE r.ok
    <3>1. todo' = Tail(todo)
      <4>1. Tail(todo) = After(1)
        BY <1>2, <1>4 DEF After
      <4> QED BY <1>1, <2>2, <4>1
    <3>2. IF call.kind = "readdir" THEN m = "FindNext" ELSE m = "CloseFound"
      BY <1>4, <2>1, <3>1 DEF Follows, Replacing
    <3> QED BY <2>1, <2>2, <3>1, <3>2 DEF Course
  <2>3. CASE ~r.ok /\ call.kind = "readdir"
    <3>1. todo' = <<>>
      BY <1>1, <2>3
    <3> QED BY <2>3, <3>1, ShortCourses
  <2>4. CASE ~r.ok /\ call.kind # "readdir"
    <3>1. todo' = After(3) /\ Nth(todo, 2) = "CloseFound"
      BY <1>1, <1>4, <2>1, <2>4 DEF Follows, Replacing
    <3>2. Follows(call.kind, "CloseFound", Nth(todo, 3))
      BY <1>2, <1>3, <1>4, <3>1, CourseTail
    <3>3. Nth(todo, 3) = "Remove"
      BY <1>4, <2>4, <3>2 DEF Follows, Replacing
    <3>4. Follows(call.kind, "Remove", Nth(todo, 4)) /\ 3 \in 0 .. Len(todo)
      BY <1>2, <1>3, <1>4, <3>1, <3>3, CourseTail
    <3>5. Nth(todo, 4) = "OpenWrite"
      BY <1>4, <2>4, <3>4 DEF Follows, Replacing
    <3>6. Course(call.kind, After(3)) /\ Nth(After(3), 1) = Nth(todo, 3 + 1) /\ 3 + 1 = 4
      BY <1>3, <3>4, CourseAfter DEF After
    <3> QED BY <2>4, <3>1, <3>5, <3>6 DEF Course
  <2> QED BY <2>2, <2>3, <2>4
<1>6. \A a \in A : Sane(a) /\ a.file = file /\ (a.ok => a.x \in Hnd /\ a.open[a.x] # None
                                                          /\ a.open[a.x].f \in S)
  <2> SUFFICES ASSUME NEW a \in A
               PROVE  Sane(a) /\ a.file = file /\ (a.ok => a.x \in Hnd /\ a.open[a.x] # None
                                                           /\ a.open[a.x].f \in S)
    OBVIOUS
  <2>1. file \in FileType /\ open \in OpenType
    BY <1>3, Typed
  <2>2. /\ ~a.lost /\ a.file = file
        /\ (\E f \in S : Opens(a, f, "read")) \/ Refusal(a, {"mapped", "notfound"})
    BY FindAnswers DEF Refusal
  <2>3. ASSUME NEW f \in S, Opens(a, f, "read")
        PROVE  a.ok /\ a.x \in Hnd /\ a.open \in OpenType /\ a.open[a.x].f = f
               /\ a.open[a.x] # None
    BY <2>1, <2>3, OpensSane
  <2> QED BY <2>1, <2>2, <2>3 DEF Sane, Refusal, Errors
<1>7. UNCHANGED <<fd, call, reply, before>>
  BY <1>1, <1>6, Taken DEF Sane
<1>8. r.ok => r.x \in Hnd /\ open'[r.x] # None /\ open'[r.x].f \in S
  BY <1>1, <1>6, Taken DEF Sane, Executed
<1>9. r.x \in Hnd \cup {None}
  BY <1>1, <1>6, Taken DEF Sane
<1> HIDE DEF A, S, l, m
<1>10. InPlace'
  <2>1. InPlace /\ l = Nth(todo, 1) /\ m = Nth(todo', 1) /\ ret = "ok"
    <3>1. todo # <<"CloseRead">>
      BY <1>4 DEF Nth, l
    <3> QED BY <1>2, <1>3, <3>1 DEF Running, InPlace, l, m
  <2>2. m = "FindNext" => h' \in Hnd /\ open'[h'] # None
    BY <1>1, <1>5, <1>8
  <2>3. call.kind # "readdir" => found' = {}
    BY <1>1, <2>1 DEF InPlace
  <2>4. Loaded' => Loaded
    BY <1>4, <1>5, <1>7, <2>1 DEF Loaded, Replacing
  <2>5. Loaded' => buf' \in Content
    BY <1>1, <2>1, <2>4 DEF InPlace
  <2> QED BY <1>1, <1>5, <1>7, <2>1, <2>2, <2>3, <2>5 DEF InPlace
<1>11. TypeOK' /\ Placed'
  <2>1. LocalTypes'
    BY <1>1, <1>3, <1>5, <1>8, <1>9, Typed DEF LocalTypes, S
  <2> QED BY <1>1, <1>2, <1>3, <1>5, <1>6, <1>10, <2>1, Goes
<1>12. Clean'
  <2> SUFFICES ASSUME ~trouble' PROVE FilesAre' /\ BufferIs' /\ NamesAre'
    BY DEF Clean
  <2>1. /\ r \in A /\ ~trouble /\ file' = file /\ error' = IF r.ok THEN error ELSE r.err
    BY <1>1, <1>6, Taken DEF Sane, Executed
  <2>2. /\ UNCHANGED <<file, before, call, buf, fd>>
        /\ l = Nth(todo, 1) /\ m = Nth(todo', 1)
    BY <1>1, <1>7, <2>1 DEF l, m
  <2>3. (Same' <=> Same) /\ (Got' <=> Got) /\ Names' = Names
    BY <2>2, Still
  <2>4. Same /\ (call.kind = "truncate" => Got)
    BY <1>3, <1>4, <2>1, <2>2 DEF FilesAre, BufferIs
  <2>5. call.kind = "readdir" => S = Names
    BY <1>3 DEF Named, S, Names
  <2>6. ~r.ok => r.err = "mapped" \/ (S = {} /\ r.err = "notfound")
    BY <2>1, FindAnswers DEF Refusal, Opens, A
  <2>7. FilesAre'
    BY <1>1, <1>4, <1>5, <2>1, <2>2, <2>3, <2>4, <2>5, <2>6 DEF FilesAre, Ended, Replacing
  <2>8. BufferIs'
    BY <1>4, <1>5, <2>2, <2>3, <2>4 DEF BufferIs, Replacing
  <2>9. NamesAre'
    BY <1>1, <1>4, <1>5, <1>8, <2>2, <2>3, <2>5 DEF NamesAre, Replacing
  <2> QED BY <2>7, <2>8, <2>9
<1> QED BY <1>11, <1>12 DEF FilesInv

LEMMA FindNextFiles == ASSUME FilesInv, FindNext PROVE FilesInv'
<1> DEFINE S == {f \in Name : file[f] # None /\ f \notin found}
           A == AsksNext(S, h)
           l == Nth(todo, 1)
           m == Nth(todo', 1)
<1>1. PICK r \in Answers(A) :
        /\ Takes(r)
        /\ found' = IF r.ok THEN found \cup {open'[h].f} ELSE found
        /\ todo' = IF r.ok THEN todo ELSE Tail(todo)
        /\ UNCHANGED <<h, w, buf, want, k, ret>>
  BY DEF FindNext
<1>2. todo # <<>> /\ Head(todo) = "FindNext"
  BY DEF FindNext, At
<1>3. /\ TypeOK /\ Placed /\ call # None /\ reply = "none"
      /\ Named(call) /\ Course(call.kind, todo) /\ Running
      /\ ~trouble => FilesAre /\ BufferIs /\ NamesAre
  BY <1>2, Busily
<1>4. /\ l = "FindNext" /\ call.kind = "readdir"
      /\ todo \in Seq(Commands) /\ todo' \in Seq(Commands) /\ Course(call.kind, todo')
      /\ m = IF r.ok THEN "FindNext" ELSE "CloseFound"
  <2>1. /\ l = Head(todo) /\ todo \in Seq(Commands)
        /\ Course(call.kind, Tail(todo)) /\ Nth(Tail(todo), 1) = Nth(todo, 2)
        /\ Tail(todo) \in Seq(Commands)
    BY <1>2, <1>3, CourseTail
  <2>2. Follows(call.kind, "FindNext", Nth(todo, 2))
    BY <1>2, <1>3, <2>1, CourseTail
  <2>3. call.kind = "readdir" /\ Nth(todo, 2) = "CloseFound"
    BY <2>2 DEF Follows
  <2> QED BY <1>1, <1>2, <1>3, <2>1, <2>3
<1>5. InPlace /\ l = Nth(todo, 1) /\ m = Nth(todo', 1) /\ h \in Hnd /\ open[h] # None /\ ret = "ok"
  <2>1. todo # <<"CloseRead">>
    BY <1>4 DEF Nth
  <2> QED BY <1>2, <1>3, <1>4, <2>1 DEF Running, InPlace
<1>6. \A a \in A : /\ Sane(a) /\ a.file = file
                   /\ a.ok => a.open[h] # None /\ a.open[h].f \in S
                   /\ ~a.ok => S = {} /\ a.err = "notfound"
  <2> SUFFICES ASSUME NEW a \in A
               PROVE  /\ Sane(a) /\ a.file = file
                      /\ a.ok => a.open[h] # None /\ a.open[h].f \in S
                      /\ ~a.ok => S = {} /\ a.err = "notfound"
    OBVIOUS
  <2>1. file \in FileType /\ open \in OpenType
    BY <1>3, Typed
  <2>2. /\ ~a.lost /\ a.file = file
        /\ \/ a.ok /\ a.x = h /\ \E f \in S : a.open = [open EXCEPT ![h].f = f]
           \/ S = {} /\ Refusal(a, {"notfound"})
    BY NextAnswers
  <2>3. ASSUME NEW f \in S, a.ok, a.x = h, a.open = [open EXCEPT ![h].f = f]
        PROVE  a.open \in OpenType /\ a.open[h].f = f /\ a.open[h] # None
    <3>1. open[h] \in Opening
      BY <1>5, <2>1 DEF OpenType
    <3>2. a.open[h] = [open[h] EXCEPT !.f = f] /\ [open[h] EXCEPT !.f = f] \in Opening
      BY <1>5, <2>1, <2>3, <3>1 DEF OpenType, Opening
    <3>3. a.open[h].f = f /\ a.open[h] # None
      BY <3>1, <3>2, ApartAssumption DEF Opening
    <3>4. a.open \in OpenType
      BY <2>1, <2>3, <3>2 DEF OpenType
    <3> QED BY <3>3, <3>4
  <2> QED BY <1>5, <2>1, <2>2, <2>3 DEF Sane, Refusal, Errors
<1>7. UNCHANGED <<fd, call, reply, before>>
  BY <1>1, <1>6, Taken DEF Sane
<1>8. r.ok => open'[h] # None /\ open'[h].f \in S
  BY <1>1, <1>6, Taken DEF Sane, Executed
<1> HIDE DEF A, S, l, m
<1>9. InPlace'
  <2>1. m = "FindNext" => h' \in Hnd /\ open'[h'] # None
    BY <1>1, <1>4, <1>5, <1>8
  <2>2. ~Loaded'
    BY <1>4, <1>7 DEF Loaded
  <2> QED BY <1>1, <1>4, <1>5, <1>7, <2>1, <2>2 DEF InPlace
<1>10. TypeOK' /\ Placed'
  <2>1. LocalTypes'
    BY <1>1, <1>3, <1>4, <1>8, Typed DEF LocalTypes, S
  <2> QED BY <1>1, <1>2, <1>3, <1>4, <1>6, <1>9, <2>1, Goes
<1>11. Clean'
  <2> SUFFICES ASSUME ~trouble' PROVE FilesAre' /\ BufferIs' /\ NamesAre'
    BY DEF Clean
  <2>1. /\ r \in A /\ ~trouble /\ file' = file /\ error' = IF r.ok THEN error ELSE r.err
    BY <1>1, <1>6, Taken DEF Sane, Executed
  <2>2. UNCHANGED <<file, before, call, buf, fd>>
    BY <1>1, <1>7, <2>1
  <2>3. (Same' <=> Same) /\ Names' = Names
    BY <2>2, Still
  <2>4. Same /\ found \subseteq Names
    BY <1>3, <1>4, <1>5, <2>1 DEF FilesAre, NamesAre
  <2>5. S \subseteq Names /\ (S = {} => found = Names)
    BY <2>4 DEF S, Names
  <2>6. ~r.ok => S = {} /\ r.err = "notfound"
    BY <1>6, <2>1
  <2>7. FilesAre'
    BY <1>4, <1>5, <2>2, <2>3, <2>4 DEF FilesAre
  <2>8. BufferIs'
    BY <1>4, <1>5, <2>2 DEF BufferIs
  <2>9. NamesAre'
    BY <1>1, <1>4, <1>5, <1>8, <2>1, <2>3, <2>4, <2>5, <2>6 DEF NamesAre
  <2> QED BY <2>7, <2>8, <2>9
<1> QED BY <1>10, <1>11 DEF FilesInv

LEMMA OpenReadFiles == ASSUME FilesInv, OpenRead PROVE FilesInv'
<1> DEFINE A == AsksRead(call.f)
           l == Nth(todo, 1)
           m == Nth(todo', 1)
<1>1. PICK r \in Answers(A) :
        /\ Takes(r) /\ h' = r.x
        /\ r.ok => /\ todo' = Tail(todo) /\ UNCHANGED ret /\ k' = 0 /\ buf' = Blank(Room)
                   /\ want' = IF call.kind = "truncate" THEN Min2(Len(file[call.f]), NewSize)
                              ELSE Len(file[call.f])
        /\ ~r.ok => /\ todo' = <<>> /\ UNCHANGED <<buf, want, k>>
                    /\ IF call.kind \in {"open", "create"} THEN ret' \in {"failed", "null"}
                       ELSE ret' = Told(r.err)
        /\ UNCHANGED <<w, found>>
  BY DEF OpenRead, Room
<1>2. todo # <<>> /\ Head(todo) = "OpenRead"
  BY DEF OpenRead, At
<1>3. /\ TypeOK /\ Placed /\ call # None /\ reply = "none"
      /\ Named(call) /\ Course(call.kind, todo) /\ Running
      /\ ~trouble => FilesAre /\ BufferIs /\ NamesAre
  BY <1>2, Busily
<1>4. l = Head(todo) /\ todo \in Seq(Commands)
  BY <1>2, <1>3, CourseTail
<1>5. Follows(call.kind, "OpenRead", Nth(todo, 2))
  BY <1>2, <1>3, <1>4, CourseTail
<1>6. /\ l = "OpenRead" /\ call.kind \in {"open", "create", "rename", "truncate", "getattr"}
      /\ todo' \in Seq(Commands) /\ Course(call.kind, todo')
      /\ m = IF r.ok THEN IF call.kind = "getattr" THEN "CloseRead" ELSE "ReadPart" ELSE "end"
  <2>1. CASE r.ok
    <3>1. /\ Course(call.kind, Tail(todo)) /\ Nth(Tail(todo), 1) = Nth(todo, 2)
          /\ Tail(todo) \in Seq(Commands)
      BY <1>2, <1>3, CourseTail
    <3> QED BY <1>1, <1>2, <1>4, <1>5, <2>1, <3>1 DEF Follows
  <2>2. CASE ~r.ok
    <3>1. todo' = <<>>
      BY <1>1, <2>2
    <3>2. m = "end" /\ Course(call.kind, todo') /\ todo' \in Seq(Commands)
      BY <3>1, ShortCourses DEF Course
    <3>3. call.kind \in {"open", "create", "rename", "truncate", "getattr"}
      BY <1>5 DEF Follows
    <3> QED BY <1>2, <1>4, <2>2, <3>2, <3>3
  <2> QED BY <2>1, <2>2
<1>7. call.f \in Name
  BY <1>3, <1>6 DEF Named
<1>8. \A a \in A : /\ Sane(a) /\ a.file = file
                   /\ a.ok => /\ a.x \in Hnd /\ a.open[a.x] # None /\ a.open[a.x].f = call.f
                              /\ file[call.f] # None
  <2> SUFFICES ASSUME NEW a \in A
               PROVE  /\ Sane(a) /\ a.file = file
                      /\ a.ok => /\ a.x \in Hnd /\ a.open[a.x] # None
                                 /\ a.open[a.x].f = call.f /\ file[call.f] # None
    OBVIOUS
  <2>1. file \in FileType /\ open \in OpenType
    BY <1>3, Typed
  <2>2. /\ ~a.lost /\ a.file = file
        /\ \/ Opens(a, call.f, "read") /\ file[call.f] # None
           \/ Refusal(a, {"mapped", "notfound"})
    BY ReadAnswers
  <2>3. CASE Opens(a, call.f, "read")
    <3>1. a.ok /\ a.x \in Hnd /\ a.open \in OpenType /\ a.open[a.x].f = call.f
          /\ a.open[a.x] # None
      BY <1>7, <2>1, <2>3, OpensSane
    <3> QED BY <2>1, <2>2, <3>1 DEF Sane, Refusal
  <2>4. CASE Refusal(a, {"mapped", "notfound"})
    BY <2>1, <2>2, <2>4 DEF Sane, Refusal, Errors
  <2> QED BY <2>2, <2>3, <2>4
<1>9. UNCHANGED <<fd, call, reply, before>> /\ r.x \in Hnd \cup {None}
  BY <1>1, <1>8, Taken DEF Sane
<1>10. r.ok => /\ r.x \in Hnd /\ open'[r.x] # None /\ open'[r.x].f = call.f
               /\ file[call.f] # None /\ file' = file
  BY <1>1, <1>8, Taken DEF Sane, Executed
<1>11. InPlace /\ l = Nth(todo, 1) /\ m = Nth(todo', 1) /\ ret = "ok"
  <2>1. todo # <<"CloseRead">>
    BY <1>6 DEF Nth
  <2> QED BY <1>2, <1>3, <2>1 DEF Running, InPlace
<1> HIDE DEF A, l, m
<1>12. r.ok => /\ file[call.f] \in Content /\ Room \in Sizes /\ Room \in Nat
               /\ buf' \in Content /\ Len(buf') = Room
               /\ Len(file[call.f]) \in Nat /\ want' = Min2(Len(file[call.f]), Room)
               /\ want' \in 0 .. Longest /\ want' <= Len(file[call.f]) /\ want' <= Room
               /\ Chunked'
  <2> SUFFICES ASSUME r.ok
               PROVE  /\ file[call.f] \in Content /\ Room \in Sizes /\ Room \in Nat
                      /\ buf' \in Content /\ Len(buf') = Room
                      /\ Len(file[call.f]) \in Nat /\ want' = Min2(Len(file[call.f]), Room)
                      /\ want' \in 0 .. Longest /\ want' <= Len(file[call.f]) /\ want' <= Room
                      /\ Chunked'
    OBVIOUS
  <2> DEFINE n == Len(file[call.f])
  <2>1. file[call.f] \in Content
    BY <1>3, <1>7, <1>10, Typed DEF FileType
  <2>2. n \in Sizes /\ n \in Nat
    BY <2>1, ContentIs
  <2>3. NewSize \in Sizes
    BY <1>3, MountAssumption DEF NewSize, Named, Operation
  <2>4. Room \in Sizes /\ Room \in Nat
    BY <2>2, <2>3, MountAssumption DEF Room
  <2>5. buf' \in Content /\ Len(buf') = Room
    <3>1. Blank(Room) \in [1 .. Room -> Cell]
      BY DEF Blank, Cell
    <3> QED BY <1>1, <2>4, <3>1, ContentIs
  <2> HIDE DEF n
  <2>6. want' = Min2(n, Room)
    <3>1. call.kind = "truncate" => Room = NewSize /\ want' = Min2(n, NewSize)
      BY <1>1 DEF Room, n
    <3>2. call.kind # "truncate" => Room = n /\ want' = n
      BY <1>1 DEF Room, n
    <3> QED BY <2>2, <3>1, <3>2 DEF Min2
  <2>7. want' \in {n, Room} /\ want' <= n /\ want' <= Room
    BY <2>2, <2>4, <2>6 DEF Min2
  <2>8. want' \in 0 .. Longest
    BY <2>2, <2>4, <2>7, LongestIs
  <2>9. Chunked'
    <3>1. Chunk \in Nat \ {0} /\ k' = 0 /\ want' \in Nat
      BY <1>1, <2>2, <2>4, <2>7, MountAssumption
    <3>2. 0 \in 0 .. (want' \div Chunk) /\ 0 = 0 * Chunk
      BY <3>1, NoneMoved
    <3> QED BY <3>1, <3>2 DEF Chunked
  <2> QED BY <2>1, <2>2, <2>4, <2>5, <2>6, <2>7, <2>8, <2>9 DEF n
<1>13. InPlace'
  <2>1. m = "ReadPart" => Reads'
    <3>1. m = "ReadPart" => r.ok
      BY <1>6
    <3>2. r.ok => Reads'
      BY <1>1, <1>9, <1>10, <1>12 DEF Reads
    <3> QED BY <3>1, <3>2
  <2>2. todo' # <<>> => ret' = "ok"
    BY <1>1, <1>11
  <2>3. found' = {}
    BY <1>1, <1>6, <1>11 DEF InPlace
  <2>4. Loaded' => r.ok
    BY <1>1, <1>6, <1>9, <1>11 DEF Loaded
  <2>5. Loaded' => buf' \in Content
    BY <1>12, <2>4
  <2> QED BY <1>6, <1>11, <2>1, <2>2, <2>3, <2>5 DEF InPlace
<1>14. TypeOK' /\ Placed'
  <2>1. 0 \in 0 .. Longest
    BY LongestIs
  <2>2. LocalTypes'
    <3>1. LocalTypes
      BY <1>3, Typed
    <3>2. {want', k'} \subseteq 0 .. Longest /\ buf' \in Content \cup {<<>>} /\ ret' \in {"ok", "failed", "null"}
      BY <1>1, <1>12, <2>1, <3>1 DEF LocalTypes, Told
    <3> QED BY <1>1, <1>6, <1>9, <3>1, <3>2 DEF LocalTypes
  <2> QED BY <1>1, <1>2, <1>3, <1>6, <1>8, <1>13, <2>2, Goes
<1>15. Clean'
  <2> SUFFICES ASSUME ~trouble' PROVE FilesAre' /\ BufferIs' /\ NamesAre'
    BY DEF Clean
  <2>1. ~trouble /\ file' = file
    BY <1>1, <1>8, Taken DEF Sane, Executed
  <2>2. UNCHANGED <<file, before, call, fd>>
    BY <1>9, <2>1
  <2>3. (Same' <=> Same) /\ (call.kind = "create" => (Wrote' <=> Wrote)) /\ Room' = Room
    BY <2>2 DEF Same, Wrote, New, Target, Source, Room, NewSize
  <2>4. Same \/ (call.kind = "create" /\ Wrote)
    BY <1>3, <1>6, <1>11, <2>1 DEF FilesAre
  <2>5. FilesAre'
    BY <1>6, <1>11, <2>2, <2>3, <2>4 DEF FilesAre, Ended
  <2>6. BufferIs'
    <3>1. r.ok => Partly(file[call.f], Room)' = Blank(Room)
      <4>1. r.ok => k' = 0 /\ Room \in Nat
        BY <1>1, <1>12
      <4>2. r.ok => \A i \in 1 .. Room : ~(i <= k')
        BY <4>1
      <4> QED BY <2>2, <2>3, <4>2 DEF Partly, Blank
    <3>2. m = "ReadPart" => r.ok
      BY <1>6
    <3>3. m = "ReadPart" => want' = Min2(Len(file'[call'.f]), Room') /\ buf' = Partly(file[call.f], Room)'
      BY <1>1, <1>12, <2>2, <2>3, <3>1, <3>2
    <3>4. m = "end" => ret' \notin {"ok"} \/ call.kind \notin {"open", "create"}
      BY <1>1, <1>6
    <3> QED BY <1>6, <1>11, <2>2, <3>3, <3>4 DEF BufferIs
  <2>7. NamesAre'
    BY <1>6, <2>2 DEF NamesAre
  <2> QED BY <2>5, <2>6, <2>7
<1> QED BY <1>14, <1>15 DEF FilesInv

LEMMA AllRead ==
  ASSUME NEW s \in Content, NewSize \in Nat,
         NEW n, n = IF call.kind = "truncate" THEN NewSize ELSE Len(s)
  PROVE  [i \in 1 .. n |-> IF i <= Min2(Len(s), n) THEN s[i] ELSE Junk] = Kept(s)
<1>1. Len(s) \in Nat /\ s \in [1 .. Len(s) -> Cell]
  BY ContentIs
<1>2. ASSUME NEW x \in Nat, NEW y \in Nat
      PROVE  \A i \in 1 .. y : (i <= Min2(x, y) <=> i <= x) /\ (x = y => i <= Min2(x, y))
  BY DEF Min2
<1>3. CASE call.kind = "truncate"
  <2>1. n = NewSize /\ n \in Nat
    BY <1>3
  <2>2. \A i \in 1 .. n : i <= Min2(Len(s), n) <=> i <= Len(s)
    BY <1>1, <1>2, <2>1
  <2> QED BY <1>3, <2>1, <2>2 DEF Kept, Resized
<1>4. CASE call.kind # "truncate"
  <2>1. n = Len(s)
    BY <1>4
  <2>2. \A i \in 1 .. n : i <= Min2(Len(s), n)
    BY <1>1, <1>2, <2>1
  <2>3. [i \in 1 .. n |-> IF i <= Min2(Len(s), n) THEN s[i] ELSE Junk] = [i \in 1 .. n |-> s[i]]
    BY <2>2
  <2>4. [i \in 1 .. n |-> s[i]] = s
    BY <1>1, <2>1
  <2> QED BY <1>4, <2>3, <2>4 DEF Kept
<1> QED BY <1>3, <1>4

LEMMA NothingMoved == \A s \in Content : Moved(s, 0, <<>>) = s
<1> SUFFICES ASSUME NEW s \in Content PROVE Moved(s, 0, <<>>) = s
  OBVIOUS
<1>1. s \in [1 .. Len(s) -> Cell] /\ Len(s) \in Nat
  BY ContentIs
<1>2. Moved(s, 0, <<>>) = [i \in 1 .. Len(s) |-> s[i]]
  <2>1. \A i \in 1 .. Len(s) : ~(i > 0 /\ i <= 0 + Len(<<>>))
    BY <1>1
  <2> QED BY <2>1 DEF Moved
<1> QED BY <1>1, <1>2

LEMMA ReadPartFiles == ASSUME FilesInv, ReadPart PROVE FilesInv'
<1> DEFINE A == AsksMove(open[h].f, 0, <<>>)
           s == file[call.f]
           l == Nth(todo, 1)
           m == Nth(todo', 1)
<1>1. PICK r \in Answers(A) :
        /\ Takes(r)
        /\ buf' = IF ~r.ok THEN buf
                  ELSE [i \in 1 .. Len(buf) |->
                          IF i > k /\ i <= k + Part THEN file[open[h].f][i] ELSE buf[i]]
        /\ k' = IF r.ok THEN k + Part ELSE k
        /\ todo' = IF More(r) THEN todo ELSE Tail(todo)
        /\ UNCHANGED <<h, w, want, ret, found>>
  BY DEF ReadPart
<1>2. todo # <<>> /\ Head(todo) = "ReadPart"
  BY DEF ReadPart, At
<1>3. /\ TypeOK /\ Placed /\ call # None /\ reply = "none"
      /\ Named(call) /\ Course(call.kind, todo) /\ Running
      /\ ~trouble => FilesAre /\ BufferIs /\ NamesAre
  BY <1>2, Busily
<1>4. l = Head(todo) /\ todo \in Seq(Commands)
  BY <1>2, <1>3, CourseTail
<1>5. Follows(call.kind, "ReadPart", Nth(todo, 2))
  BY <1>2, <1>3, <1>4, CourseTail
<1>6. /\ l = "ReadPart" /\ call.kind \in {"open", "create", "rename", "truncate"}
      /\ todo' \in Seq(Commands) /\ Course(call.kind, todo')
      /\ m = IF More(r) THEN "ReadPart" ELSE IF call.kind = "rename" THEN "OpenWrite" ELSE "CloseRead"
  <2>1. /\ Course(call.kind, Tail(todo)) /\ Nth(Tail(todo), 1) = Nth(todo, 2)
        /\ Tail(todo) \in Seq(Commands)
    BY <1>2, <1>3, CourseTail
  <2>2. /\ call.kind \in {"open", "create", "rename", "truncate"}
        /\ Nth(todo, 2) = IF call.kind = "rename" THEN "OpenWrite" ELSE "CloseRead"
    BY <1>5 DEF Follows
  <2> QED BY <1>1, <1>2, <1>3, <1>4, <2>1, <2>2
<1>7. InPlace /\ l = Nth(todo, 1) /\ m = Nth(todo', 1) /\ ret = "ok" /\ Reads /\ buf \in Content
  <2>1. todo # <<"CloseRead">>
    BY <1>6 DEF Nth
  <2>2. Loaded
    BY <1>6 DEF Loaded
  <2> QED BY <1>2, <1>3, <1>6, <2>1, <2>2 DEF Running, InPlace
<1>8. call.f \in Name /\ s \in Content /\ open[h].f = call.f
  <2>1. call.f \in Name
    BY <1>3, <1>6 DEF Named
  <2> QED BY <1>3, <1>7, <2>1, Typed DEF Reads, FileType
<1>9. \A a \in A : Sane(a) /\ a.ok /\ a.file = file /\ a.open = open
  <2> SUFFICES ASSUME NEW a \in A PROVE Sane(a) /\ a.ok /\ a.file = file /\ a.open = open
    OBVIOUS
  <2>1. file \in FileType /\ open \in OpenType
    BY <1>3, Typed
  <2>2. /\ ~a.lost /\ a.ok /\ a.open = open /\ a.x = None
        /\ a.file = [file EXCEPT ![open[h].f] = Moved(file[open[h].f], 0, <<>>)]
    BY MoveAnswers
  <2>3. a.file = file
    BY <1>8, <2>1, <2>2, NothingMoved DEF FileType
  <2> QED BY <2>1, <2>2, <2>3 DEF Sane
<1>10. UNCHANGED <<fd, call, reply, before, file, open>>
  <2>1. /\ UNCHANGED <<fd, call, reply, before>>
        /\ \E b \in A : UNCHANGED <<file, open>> \/ Executed(b)
    BY <1>1, <1>9, Taken DEF Sane
  <2> QED BY <1>9, <2>1 DEF Executed
<1>11. /\ s \in [1 .. Len(s) -> Cell] /\ Len(s) \in Nat
       /\ buf \in [1 .. Len(buf) -> Cell] /\ Len(buf) \in Sizes /\ Len(buf) \in Nat
       /\ want \in Nat /\ want <= Len(s) /\ want <= Len(buf) /\ Chunked
  BY <1>3, <1>7, <1>8, ContentIs, LongestIs, Typed DEF Reads, LocalTypes
<1>12. /\ k \in Nat /\ Part \in Nat /\ k + Part <= want
       /\ IF k < (want \div Chunk) * Chunk
          THEN \E q \in 0 .. (want \div Chunk) : k + Part = q * Chunk
          ELSE k + Part = want
  BY <1>11, Parts
<1> HIDE DEF A, s, l, m
<1>13. buf' \in Content /\ Len(buf') = Len(buf)
  <2>1. CASE r.ok
    <3>1. buf' = [i \in 1 .. Len(buf) |-> IF i > k /\ i <= k + Part THEN s[i] ELSE buf[i]]
      BY <1>1, <1>8, <2>1 DEF s
    <3>2. \A i \in 1 .. Len(buf) : i > k /\ i <= k + Part => i \in 1 .. Len(s)
      BY <1>11, <1>12
    <3>3. \A i \in 1 .. Len(buf) : (IF i > k /\ i <= k + Part THEN s[i] ELSE buf[i]) \in Cell
      BY <1>11, <3>2
    <3>4. buf' \in [1 .. Len(buf) -> Cell]
      BY <3>1, <3>3
    <3> QED BY <1>11, <3>4, ContentIs
  <2>2. CASE ~r.ok
    BY <1>1, <1>7, <2>2
  <2> QED BY <2>1, <2>2
<1>14. k' \in 0 .. want /\ (More(r) => Chunked')
  <2>1. k' \in 0 .. want
    BY <1>1, <1>11, <1>12
  <2>2. ASSUME More(r) PROVE Chunked'
    <3>1. k < (want \div Chunk) * Chunk /\ r.ok
      BY <2>2 DEF More
    <3>2. \E q \in 0 .. (want \div Chunk) : k + Part = q * Chunk
      BY <1>12, <3>1
    <3>3. k' = k + Part /\ want' = want
      BY <1>1, <3>1
    <3> QED BY <3>2, <3>3 DEF Chunked
  <2> QED BY <2>1, <2>2
<1>15. InPlace'
  <2>1. m = "ReadPart" => Reads'
    <3>1. m = "ReadPart" => Chunked'
      BY <1>6, <1>14
    <3> QED BY <1>1, <1>7, <1>10, <1>13, <3>1 DEF Reads
  <2>2. found' = {} /\ ret' = "ok"
    BY <1>1, <1>6, <1>7 DEF InPlace
  <2> QED BY <1>6, <1>7, <1>13, <2>1, <2>2 DEF InPlace
<1>16. TypeOK' /\ Placed'
  <2>1. LocalTypes
    BY <1>3, Typed
  <2>2. k' \in 0 .. Longest
    <3>1. want \in 0 .. Longest /\ Longest \in Nat
      BY <2>1, LongestIs DEF LocalTypes
    <3> QED BY <1>14, <3>1
  <2>3. LocalTypes'
    BY <1>1, <1>6, <1>13, <2>1, <2>2 DEF LocalTypes
  <2> QED BY <1>1, <1>2, <1>3, <1>6, <1>9, <1>15, <2>3, Goes
<1>17. Clean'
  <2> SUFFICES ASSUME ~trouble' PROVE FilesAre' /\ BufferIs' /\ NamesAre'
    BY DEF Clean
  <2>1. ~trouble /\ r.ok
    BY <1>1, <1>9, Taken DEF Sane
  <2>2. /\ Same' <=> Same
        /\ call.kind = "create" => (Wrote' <=> Wrote)
        /\ Room' = Room
    BY <1>10 DEF Same, Wrote, New, Target, Source, Room, NewSize
  <2>3. Same \/ (call.kind = "create" /\ Wrote)
    BY <1>3, <1>6, <1>7, <2>1 DEF FilesAre
  <2>4. FilesAre'
    BY <1>6, <1>7, <1>10, <2>2, <2>3 DEF FilesAre
  <2>5. /\ want = Min2(Len(s), Room) /\ buf = Partly(s, Room)
        /\ Room = IF call.kind = "truncate" THEN NewSize ELSE Len(s)
    BY <1>3, <1>6, <1>7, <2>1 DEF BufferIs, s, Room
  <2>6. NewSize \in Nat /\ Room \in Nat
    <3>1. NewSize \in Nat
      BY <1>3, MountAssumption DEF NewSize, Named, Operation
    <3> QED BY <1>11, <2>5, <3>1
  <2>7. Len(buf) = Room
    BY <2>5, <2>6 DEF Partly
  <2>8. buf' = [i \in 1 .. Room |-> IF i <= k + Part THEN s[i] ELSE Junk] /\ k' = k + Part
    <3>1. buf' = [i \in 1 .. Len(buf) |-> IF i > k /\ i <= k + Part THEN s[i] ELSE buf[i]]
      BY <1>1, <1>8, <2>1 DEF s
    <3>2. \A i \in 1 .. Room : (IF i > k /\ i <= k + Part THEN s[i] ELSE buf[i])
                                 = (IF i <= k + Part THEN s[i] ELSE Junk)
      <4> DEFINE n == Room
                 p == Part
      <4>1. n \in Nat /\ p \in Nat /\ k \in Nat
        BY <1>12, <2>6
      <4>2. \A i \in 1 .. n : buf[i] = IF i <= k THEN s[i] ELSE Junk
        BY <2>5 DEF Partly
      <4> HIDE DEF n, p
      <4>3. \A i \in 1 .. n : (IF i > k /\ i <= k + p THEN s[i] ELSE buf[i])
                                = (IF i <= k + p THEN s[i] ELSE Junk)
        BY <4>1, <4>2
      <4> QED BY <4>3 DEF n, p
    <3>3. k' = k + Part
      BY <1>1, <2>1
    <3> QED BY <2>7, <3>1, <3>2, <3>3
  <2>9. CASE More(r)
    <3>1. want' = Min2(Len(file'[call'.f]), Room')
      BY <1>1, <1>10, <2>2, <2>5 DEF s
    <3>2. buf' = Partly(file[call.f], Room)'
      BY <1>10, <2>2, <2>8 DEF Partly, s
    <3> QED BY <1>6, <1>7, <1>10, <2>4, <2>9, <3>1, <3>2 DEF BufferIs, NamesAre
  <2>10. CASE ~More(r)
    <3>1. k + Part = want
      BY <1>12, <2>1, <2>10 DEF More
    <3>2. buf' = Kept(s)
      BY <1>8, <2>5, <2>6, <2>8, <3>1, AllRead
    <3>3. call.kind \in {"open", "create"} => file'[call'.f] # None /\ buf' = file'[call'.f]
      BY <1>7, <1>10, <3>2 DEF Kept, s, Reads
    <3>4. call.kind \in {"rename", "truncate"} => Got'
      <4>1. call.kind \in {"rename", "truncate"} => before[call.f] = s /\ s # None
        BY <1>7, <2>3 DEF Same, s, Reads
      <4> QED BY <1>10, <3>2, <4>1 DEF Got, Kept, NewSize
    <3> QED BY <1>6, <1>7, <1>10, <2>4, <2>10, <3>3, <3>4 DEF BufferIs, NamesAre
  <2> QED BY <2>9, <2>10
<1> QED BY <1>16, <1>17 DEF FilesInv

\* What is written, and where
LEMMA SourceIs ==
  ASSUME TypeOK, Placed, call # None, reply = "none", todo # <<>>, Named(call), Running,
         Nth(todo, 1) \in {"OpenWrite", "WritePart"},
         call.kind \in Replacing \cup {"mknod", "create", "rename"}
  PROVE  /\ Source \in Content /\ Target \in Name /\ Target \in {call.f, call.g}
         /\ call.kind # "rename" => Target = call.f
<1>1. Source \in Content
  <2>1. CASE call.kind \in {"mknod", "create"}
    <3>1. <<Zero>> \in [1 .. 1 -> Cell] /\ 1 \in Sizes
      BY MountAssumption DEF Cell
    <3>2. Source = <<Zero>>
      BY <2>1 DEF Source
    <3> QED BY <3>1, <3>2, ContentIs
  <2>2. CASE call.kind \in {"flush", "release"}
    <3>1. Usable(call.d) /\ call.d \in Fd /\ fd[call.d] \in Record \cup {None, Null}
      BY <2>2, Typed DEF Running, WritesBack, Named
    <3>2. fd[call.d].data \in Content
      BY <3>1 DEF Usable, Record
    <3>3. Source = fd[call.d].data
      BY <2>2 DEF Source
    <3> QED BY <3>2, <3>3
  <2>3. CASE call.kind \in {"rename", "truncate"}
    <3>1. Loaded
      BY <2>3 DEF Loaded
    <3>2. Source = buf
      BY <2>3 DEF Source
    <3> QED BY <3>1, <3>2 DEF Running, InPlace
  <2> QED BY <2>1, <2>2, <2>3 DEF Replacing
<1>2. Target \in Name /\ Target \in {call.f, call.g} /\ (call.kind # "rename" => Target = call.f)
  BY DEF Target, Named, Replacing
<1> QED BY <1>1, <1>2

LEMMA OpenWriteFiles == ASSUME FilesInv, OpenWrite PROVE FilesInv'
<1> DEFINE A == AsksWrite(Target, Len(Source))
           l == Nth(todo, 1)
           m == Nth(todo', 1)
<1>1. PICK r \in Answers(A) :
        /\ Takes(r) /\ w' = r.x /\ k' = 0 /\ want' = Len(Source)
        /\ IF r.ok THEN todo' = Tail(todo) /\ UNCHANGED ret
           ELSE CASE call.kind \in {"flush", "release"} -> todo' = <<>> /\ ret' = "failed"
                  [] call.kind = "create" -> todo' = After(3) /\ UNCHANGED ret
                  [] call.kind = "rename" ->
                       /\ ret' = Told(r.err)
                       /\ todo' = IF ret' = "ok" THEN After(3) ELSE <<"CloseRead">>
                  [] OTHER -> todo' = <<>> /\ ret' = Told(r.err)
        /\ UNCHANGED <<h, buf, found>>
  BY DEF OpenWrite
<1>2. todo # <<>> /\ Head(todo) = "OpenWrite"
  BY DEF OpenWrite, At
<1>3. /\ TypeOK /\ Placed /\ call # None /\ reply = "none"
      /\ Named(call) /\ Course(call.kind, todo) /\ Running
      /\ ~trouble => FilesAre /\ BufferIs /\ NamesAre
  BY <1>2, Busily
<1>4. /\ l = Head(todo) /\ todo \in Seq(Commands) /\ Tail(todo) \in Seq(Commands)
      /\ Course(call.kind, Tail(todo)) /\ Nth(Tail(todo), 1) = Nth(todo, 2)
  BY <1>2, <1>3, CourseTail
<1>5. Follows(call.kind, "OpenWrite", Nth(todo, 2))
  BY <1>2, <1>3, <1>4, CourseTail
<1>6. /\ l = "OpenWrite" /\ Nth(todo, 2) = "WritePart"
      /\ call.kind \in Replacing \cup {"mknod", "create", "rename"}
  BY <1>2, <1>4, <1>5 DEF Follows
<1>7. InPlace /\ l = Nth(todo, 1) /\ m = Nth(todo', 1) /\ ret = "ok"
  <2>1. todo # <<"CloseRead">>
    BY <1>6 DEF Nth
  <2> QED BY <1>2, <1>3, <2>1 DEF Running, InPlace
<1>8. /\ r.ok => m = "WritePart" /\ ret' = "ok" /\ todo' \in Seq(Commands)
                 /\ Course(call.kind, todo')
      /\ ~r.ok /\ call.kind \in Replacing \cup {"mknod"} => todo' = <<>> /\ m = "end"
      /\ ~r.ok /\ call.kind \in {"flush", "release"} => ret' = "failed"
      /\ ~r.ok /\ call.kind \notin {"flush", "release"} => ret' \in {"ok", "failed"}
  <2>1. CASE r.ok
    <3>1. todo' = Tail(todo) /\ ret' = ret
      BY <1>1, <2>1
    <3> QED BY <1>4, <1>6, <1>7, <2>1, <3>1
  <2>2. CASE ~r.ok /\ call.kind \in {"flush", "release"}
    <3>1. todo' = <<>> /\ ret' = "failed"
      BY <1>1, <2>2
    <3> QED BY <2>2, <3>1, ShortCourses
  <2>3. CASE ~r.ok /\ call.kind \in {"truncate", "mknod"}
    <3>1. todo' = <<>> /\ ret' = Told(r.err)
      BY <1>1, <2>3
    <3> QED BY <2>3, <3>1, ShortCourses DEF Told
  <2>4. CASE ~r.ok /\ call.kind = "create"
    <3>1. ret' = ret
      BY <1>1, <2>4
    <3> QED BY <1>7, <2>4, <3>1 DEF Replacing
  <2>5. CASE ~r.ok /\ call.kind = "rename"
    <3>1. ret' = Told(r.err)
      BY <1>1, <2>5
    <3> QED BY <2>5, <3>1 DEF Told, Replacing
  <2> QED BY <1>6, <2>1, <2>2, <2>3, <2>4, <2>5 DEF Replacing
<1>9. /\ ~r.ok /\ call.kind = "create" => m = "OpenRead" /\ todo' \in Seq(Commands)
                                         /\ Course(call.kind, todo') /\ ret' = "ok"
      /\ ~r.ok /\ call.kind = "rename" => /\ m = "CloseRead" /\ todo' \in Seq(Commands)
                                         /\ Course(call.kind, todo')
                                         /\ (ret' = "ok" \/ todo' = <<"CloseRead">>)
  <2>1. /\ Course(call.kind, After(3)) /\ Nth(After(3), 1) = Nth(todo, 4)
        /\ After(3) \in Seq(Commands) /\ Follows(call.kind, "CloseWrite", Nth(todo, 4))
    <3>1. Follows(call.kind, "WritePart", Nth(todo, 3))
      BY <1>2, <1>3, <1>4, <1>6, CourseTail
    <3>2. Nth(todo, 3) = "CloseWrite"
      BY <3>1 DEF Follows
    <3>3. Follows(call.kind, "CloseWrite", Nth(todo, 4)) /\ 3 \in 0 .. Len(todo)
      BY <1>2, <1>3, <1>4, <1>6, <3>2, CourseTail
    <3>4. Course(call.kind, After(3)) /\ Nth(After(3), 1) = Nth(todo, 3 + 1) /\ 3 + 1 = 4
      BY <1>3, <3>3, CourseAfter DEF After
    <3> QED BY <3>3, <3>4 DEF Course
  <2>2. CASE ~r.ok /\ call.kind = "create"
    <3>1. todo' = After(3) /\ ret' = ret
      BY <1>1, <2>2
    <3>2. Nth(todo, 4) = "OpenRead"
      BY <2>1, <2>2 DEF Follows, Replacing
    <3> QED BY <1>7, <2>1, <2>2, <3>1, <3>2
  <2>3. CASE ~r.ok /\ call.kind = "rename"
    <3>1. todo' = IF ret' = "ok" THEN After(3) ELSE <<"CloseRead">>
      BY <1>1, <2>3
    <3>2. Nth(todo, 4) = "CloseRead"
      BY <2>1, <2>3 DEF Follows, Replacing
    <3>3. CASE ret' = "ok"
      BY <2>1, <2>3, <3>1, <3>2, <3>3
    <3>4. CASE ret' # "ok"
      <4>1. todo' = <<"CloseRead">>
        BY <3>1, <3>4
      <4>2. todo' \in Seq(Commands) /\ Course("rename", todo') /\ m = "CloseRead"
        BY <4>1 DEF Course, Commands, Nth
      <4> QED BY <2>3, <4>1, <4>2
    <3> QED BY <3>3, <3>4
  <2> QED BY <2>2, <2>3
<1>10. todo' \in Seq(Commands) /\ Course(call.kind, todo')
  <2>1. todo' = <<>> => todo' \in Seq(Commands) /\ Course(call.kind, todo')
    BY ShortCourses DEF Course
  <2> QED BY <1>6, <1>8, <1>9, <2>1
<1>11. /\ Source \in Content /\ Target \in Name /\ Target \in {call.f, call.g}
       /\ call.kind # "rename" => Target = call.f
       /\ Len(Source) \in Sizes /\ Len(Source) \in Nat
       /\ Blank(Len(Source)) \in Content /\ Len(Blank(Len(Source))) = Len(Source)
  <2>1. /\ Source \in Content /\ Target \in Name /\ Target \in {call.f, call.g}
        /\ call.kind # "rename" => Target = call.f
    BY <1>2, <1>3, <1>6, SourceIs
  <2>2. Len(Source) \in Sizes /\ Len(Source) \in Nat
    BY <2>1, ContentIs
  <2>3. Blank(Len(Source)) \in [1 .. Len(Source) -> Cell]
    BY DEF Blank, Cell
  <2> QED BY <2>1, <2>2, <2>3, ContentIs
<1> DEFINE into == [file EXCEPT ![Target] = Blank(Len(Source))]
<1>12. \A a \in A : /\ Sane(a)
                    /\ a.ok => /\ a.x \in Hnd /\ a.open[a.x] # None /\ a.open[a.x].f = Target
                               /\ file[Target] = None /\ a.file = into
                    /\ ~a.ok => a.file = file
  <2> SUFFICES ASSUME NEW a \in A
               PROVE  /\ Sane(a)
                      /\ a.ok => /\ a.x \in Hnd /\ a.open[a.x] # None /\ a.open[a.x].f = Target
                                 /\ file[Target] = None /\ a.file = into
                      /\ ~a.ok => a.file = file
    OBVIOUS
  <2>1. file \in FileType /\ open \in OpenType
    BY <1>3, Typed
  <2>2. /\ ~a.lost
        /\ \/ Opens(a, Target, "write") /\ file[Target] = None /\ a.file = into
           \/ Refusal(a, {"mapped", "none"})
    BY WriteAnswers
  <2>3. CASE Opens(a, Target, "write") /\ file[Target] = None /\ a.file = into
    <3>1. a.ok /\ a.x \in Hnd /\ a.open \in OpenType /\ a.open[a.x].f = Target
          /\ a.open[a.x] # None
      BY <1>11, <2>1, <2>3, OpensSane
    <3>2. a.file \in FileType /\ \A y \in Name \ {Target} : a.file[y] = file[y]
      BY <1>11, <2>1, <2>3 DEF FileType
    <3> QED BY <1>11, <2>2, <2>3, <3>1, <3>2 DEF Sane
  <2>4. CASE Refusal(a, {"mapped", "none"})
    BY <2>1, <2>2, <2>4 DEF Sane, Refusal, Errors
  <2> QED BY <2>2, <2>3, <2>4
<1>13. UNCHANGED <<fd, call, reply, before>> /\ r.x \in Hnd \cup {None}
  BY <1>1, <1>12, Taken DEF Sane
<1>14. r.ok => /\ r.x \in Hnd /\ open'[r.x] # None /\ open'[r.x].f = Target
               /\ file[Target] = None /\ file' = into
  BY <1>1, <1>12, Taken DEF Sane, Executed
<1>15. Target' = Target /\ Source' = Source
  BY <1>1, <1>13 DEF Target, Source
<1> HIDE DEF A, l, m, into
<1>16. InPlace'
  <2>1. m = "WritePart" => Writes'
    <3>1. m = "WritePart" => r.ok
      BY <1>6, <1>8, <1>9 DEF Replacing
    <3>2. r.ok => file'[Target] = Blank(Len(Source))
      BY <1>3, <1>11, <1>14, Typed DEF into, FileType
    <3>3. r.ok => file'[Target] # None /\ Len(file'[Target]) = Len(Source)
      BY <1>11, <3>2, ApartAssumption
    <3>4. Chunked'
      <4>1. want' = Len(Source) /\ k' = 0
        BY <1>1
      <4>2. 0 \in 0 .. (Len(Source) \div Chunk) /\ 0 = 0 * Chunk
        BY <1>11, NoneMoved
      <4> QED BY <4>1, <4>2 DEF Chunked
    <3> QED BY <1>1, <1>14, <1>15, <3>1, <3>3, <3>4 DEF Writes
  <2>2. todo' # <<>> => ret' = "ok" \/ (call.kind = "rename" /\ todo' = <<"CloseRead">>)
    BY <1>6, <1>8, <1>9
  <2>3. found' = {}
    BY <1>1, <1>6, <1>7 DEF InPlace, Replacing
  <2>4. m \in {"WritePart", "OpenRead", "CloseRead", "end"} /\ (m = "CloseRead" => call.kind = "rename")
        /\ (m = "end" => call.kind # "create")
    BY <1>6, <1>8, <1>9 DEF Replacing
  <2>5. Loaded' => Loaded
    BY <1>6, <1>7, <1>13, <2>4 DEF Loaded, Replacing
  <2>6. Loaded' => buf' \in Content
    BY <1>1, <1>7, <2>5 DEF InPlace
  <2> QED BY <1>7, <1>13, <2>1, <2>2, <2>3, <2>4, <2>6 DEF InPlace
<1>17. TypeOK' /\ Placed'
  <2>1. LocalTypes
    BY <1>3, Typed
  <2>2. {want', k'} \subseteq 0 .. Longest
    BY <1>1, <1>11, LongestIs
  <2>3. ret' \in {"ok", "failed", "null"}
    BY <1>6, <1>8, <1>9 DEF Replacing
  <2>4. LocalTypes'
    BY <1>1, <1>10, <1>13, <2>1, <2>2, <2>3 DEF LocalTypes
  <2> QED BY <1>1, <1>2, <1>3, <1>10, <1>12, <1>16, <2>4, Goes
<1>18. Clean'
  <2> SUFFICES ASSUME ~trouble' PROVE FilesAre' /\ BufferIs' /\ NamesAre'
    BY DEF Clean
  <2>1. ~trouble /\ (~r.ok => file' = file)
    BY <1>1, <1>12, Taken DEF Sane, Executed
  <2>2. Same \/ (call.kind \in Replacing /\ Gone)
    BY <1>3, <1>6, <1>7, <2>1 DEF FilesAre
  <2>3. call.kind \in {"rename", "truncate"} => Got
    BY <1>3, <1>6, <1>7, <2>1 DEF BufferIs
  <2>4. Got' <=> Got
    BY <1>1, <1>13 DEF Got, Kept, NewSize
  <2>5. NamesAre'
    BY <1>6, <1>13 DEF NamesAre, Replacing
  <2>6. CASE r.ok
    <3>1. m = "WritePart" /\ file[Target] = None /\ file' = into
      BY <1>8, <1>14, <2>6
    <3>2. New'
      <4>1. call.kind \in {"mknod", "create", "rename"} => Same
        BY <2>2 DEF Replacing
      <4> QED BY <1>13, <1>15, <3>1, <4>1 DEF New, Same
    <3>3. Partly(Source, Len(Source))' = Blank(Len(Source))
      <4>1. \A i \in 1 .. Len(Source) : ~(i <= k')
        BY <1>1, <1>11
      <4> QED BY <1>15, <4>1 DEF Partly, Blank
    <3>4. file' = [before EXCEPT ![Target] = Blank(Len(Source))]
      <4>1. CASE Same
        BY <3>1, <4>1 DEF Same, into
      <4>2. CASE call.kind \in Replacing /\ Gone
        <5>1. Target = call.f
          BY <1>11, <4>2 DEF Replacing
        <5> QED BY <1>3, <3>1, <4>2, <5>1, Typed DEF Gone, into, FileType
      <4> QED BY <2>2, <4>1, <4>2
    <3>5. FilesAre'
      BY <1>7, <1>13, <1>15, <3>1, <3>2, <3>3, <3>4 DEF FilesAre
    <3>6. BufferIs'
      BY <1>7, <1>13, <2>3, <2>4, <3>1 DEF BufferIs
    <3> QED BY <2>5, <3>5, <3>6
  <2>7. CASE ~r.ok
    <3>1. file' = file
      BY <2>1, <2>7
    <3>2. UNCHANGED <<file, before, call, buf, fd>>
      BY <1>1, <1>13, <3>1
    <3>3. (Same' <=> Same) /\ (Gone' <=> Gone)
      BY <3>2, Still
    <3>4. call.kind \in Replacing \cup {"mknod"} => FilesAre'
      <4>1. call.kind \in Replacing \cup {"mknod"} => m = "end"
        BY <1>8, <2>7
      <4> QED BY <1>7, <1>8, <2>2, <2>7, <3>2, <3>3, <4>1 DEF FilesAre, Ended, Replacing
    <3>5. call.kind = "create" => FilesAre'
      BY <1>7, <1>9, <2>2, <2>7, <3>2, <3>3 DEF FilesAre, Replacing
    <3>6. call.kind = "rename" => FilesAre'
      BY <1>7, <1>9, <2>2, <2>7, <3>2, <3>3 DEF FilesAre, Replacing
    <3>7. BufferIs'
      BY <1>6, <1>7, <1>8, <1>9, <1>13, <2>3, <2>4, <2>7 DEF BufferIs, Replacing
    <3> QED BY <1>6, <2>5, <3>4, <3>5, <3>6, <3>7
  <2> QED BY <2>6, <2>7
<1> QED BY <1>17, <1>18 DEF FilesInv

\* Writing q bytes of s from the p-th on
LEMMA MovedIs ==
  ASSUME NEW t \in Content, NEW s \in Content, Len(t) = Len(s),
         NEW p \in Nat, NEW q \in Nat, p + q <= Len(s)
  PROVE  LET u == Moved(t, p, SubSeq(s, p + 1, p + q)) IN
         /\ u = [i \in 1 .. Len(s) |-> IF i > p /\ i <= p + q THEN s[i] ELSE t[i]]
         /\ u \in Content /\ Len(u) = Len(s)
<1> DEFINE n == Len(s)
           v == SubSeq(s, p + 1, p + q)
           u == Moved(t, p, v)
<1>1. n \in Sizes /\ n \in Nat /\ s \in [1 .. n -> Cell] /\ t \in [1 .. n -> Cell] /\ Len(t) = n
  BY ContentIs
<1>2. s \in Seq(Cell)
  BY <1>1
<1> HIDE DEF n
<1>3. Len(v) = q /\ \A i \in 1 .. q : v[i] = s[p + i]
  BY <1>1, <1>2 DEF n
<1> HIDE DEF v
<1>4. u = [i \in 1 .. n |-> IF i > p /\ i <= p + q THEN v[i - p] ELSE t[i]]
  BY <1>1, <1>3 DEF Moved
<1>5. \A i \in 1 .. n : i > p /\ i <= p + q => v[i - p] = s[i]
  <2> SUFFICES ASSUME NEW i \in 1 .. n, i > p, i <= p + q PROVE v[i - p] = s[i]
    OBVIOUS
  <2>1. i - p \in 1 .. q /\ p + (i - p) = i
    BY <1>1
  <2> QED BY <1>3, <2>1
<1>6. u = [i \in 1 .. n |-> IF i > p /\ i <= p + q THEN s[i] ELSE t[i]]
  BY <1>4, <1>5
<1>7. u \in [1 .. n -> Cell]
  BY <1>1, <1>6
<1> HIDE DEF u
<1>8. u \in Content /\ Len(u) = n
  BY <1>1, <1>7, ContentIs
<1> QED BY <1>6, <1>8 DEF n, u, v

LEMMA WritePartFiles == ASSUME FilesInv, WritePart PROVE FilesInv'
<1> DEFINE s == Source
           t == file[Target]
           u == Moved(t, k, SubSeq(s, k + 1, k + Part))
           A == AsksMove(open[w].f, k, SubSeq(s, k + 1, k + Part))
           l == Nth(todo, 1)
           m == Nth(todo', 1)
<1>1. PICK r \in Answers(A) :
        /\ Takes(r)
        /\ k' = IF r.ok THEN k + Part ELSE k
        /\ todo' = IF More(r) THEN todo ELSE Tail(todo)
        /\ UNCHANGED <<h, w, buf, want, ret, found>>
  BY DEF WritePart
<1>2. todo # <<>> /\ Head(todo) = "WritePart"
  BY DEF WritePart, At
<1>3. /\ TypeOK /\ Placed /\ call # None /\ reply = "none"
      /\ Named(call) /\ Course(call.kind, todo) /\ Running
      /\ ~trouble => FilesAre /\ BufferIs /\ NamesAre
  BY <1>2, Busily
<1>4. /\ l = Head(todo) /\ todo \in Seq(Commands) /\ Tail(todo) \in Seq(Commands)
      /\ Course(call.kind, Tail(todo)) /\ Nth(Tail(todo), 1) = Nth(todo, 2)
  BY <1>2, <1>3, CourseTail
<1>5. Follows(call.kind, "WritePart", Nth(todo, 2))
  BY <1>2, <1>3, <1>4, CourseTail
<1>6. /\ l = "WritePart" /\ Nth(todo, 2) = "CloseWrite"
      /\ call.kind \in Replacing \cup {"mknod", "create", "rename"}
      /\ todo' \in Seq(Commands) /\ Course(call.kind, todo')
      /\ m = IF More(r) THEN "WritePart" ELSE "CloseWrite"
  BY <1>1, <1>2, <1>3, <1>4, <1>5 DEF Follows
<1>7. InPlace /\ l = Nth(todo, 1) /\ m = Nth(todo', 1) /\ ret = "ok" /\ Writes
  <2>1. todo # <<"CloseRead">>
    BY <1>6 DEF Nth
  <2> QED BY <1>2, <1>3, <1>6, <2>1 DEF Running, InPlace
<1>8. /\ s \in Content /\ Target \in Name /\ Target \in {call.f, call.g} /\ open[w].f = Target
      /\ t \in Content /\ Len(t) = Len(s) /\ want = Len(s) /\ Len(s) \in Nat
  <2>1. s \in Content /\ Target \in Name /\ Target \in {call.f, call.g}
    BY <1>2, <1>3, <1>6, SourceIs
  <2>2. t \in Content
    BY <1>3, <1>7, <2>1, Typed DEF Writes, FileType
  <2> QED BY <1>7, <2>1, <2>2, ContentIs DEF Writes
<1>9. /\ k \in Nat /\ Part \in Nat /\ k + Part <= want
      /\ IF k < (want \div Chunk) * Chunk
         THEN \E q \in 0 .. (want \div Chunk) : k + Part = q * Chunk
         ELSE k + Part = want
  BY <1>7, <1>8, Parts DEF Writes
<1> HIDE DEF s, t
<1>10. /\ u = [i \in 1 .. Len(s) |-> IF i > k /\ i <= k + Part THEN s[i] ELSE t[i]]
       /\ u \in Content /\ Len(u) = Len(s)
  <2>1. k + Part <= Len(s)
    BY <1>8, <1>9
  <2> QED BY <1>8, <1>9, <2>1, MovedIs
<1> DEFINE into == [file EXCEPT ![Target] = u]
<1>11. \A a \in A : Sane(a) /\ a.ok /\ a.open = open /\ a.file = into
  <2> SUFFICES ASSUME NEW a \in A PROVE Sane(a) /\ a.ok /\ a.open = open /\ a.file = into
    OBVIOUS
  <2>1. file \in FileType /\ open \in OpenType
    BY <1>3, Typed
  <2>2. /\ ~a.lost /\ a.ok /\ a.open = open /\ a.x = None
        /\ a.file = [file EXCEPT ![open[w].f] =
                       Moved(file[open[w].f], k, SubSeq(s, k + 1, k + Part))]
    BY MoveAnswers
  <2>3. a.file = into
    BY <1>8, <2>2 DEF t
  <2> HIDE DEF u
  <2>4. into \in FileType /\ \A y \in Name \ {Target} : into[y] = file[y]
    BY <1>8, <1>10, <2>1 DEF FileType
  <2> QED BY <1>8, <2>1, <2>2, <2>3, <2>4 DEF Sane
<1> HIDE DEF A, u
<1>12. UNCHANGED <<fd, call, reply, before, open>>
  <2>1. /\ UNCHANGED <<fd, call, reply, before>>
        /\ \E b \in A : UNCHANGED <<file, open>> \/ Executed(b)
    BY <1>1, <1>11, Taken DEF Sane
  <2> QED BY <1>11, <2>1 DEF Executed
<1>13. r.ok => file' = into
  BY <1>1, <1>11, Taken DEF Sane, Executed
<1>14. Target' = Target /\ Source' = s
  BY <1>1, <1>12 DEF Target, Source, s
<1> HIDE DEF l, m, into
<1>15. k' \in 0 .. want /\ (More(r) => r.ok /\ Chunked')
  <2>1. k' \in 0 .. want
    <3>1. k' = k + Part \/ k' = k
      BY <1>1, Zenon
    <3> QED BY <1>8, <1>9, <3>1
  <2>2. ASSUME More(r) PROVE r.ok /\ Chunked'
    <3>1. k < (want \div Chunk) * Chunk /\ r.ok
      BY <2>2 DEF More
    <3>2. \E q \in 0 .. (want \div Chunk) : k + Part = q * Chunk
      BY <1>9, <3>1
    <3>3. k' = k + Part /\ want' = want
      BY <1>1, <3>1
    <3> QED BY <3>1, <3>2, <3>3 DEF Chunked
  <2> QED BY <2>1, <2>2
<1>16. r.ok => file'[Target] = u /\ u # None
  BY <1>3, <1>8, <1>10, <1>13, Typed, ApartAssumption DEF into, FileType
<1>17. InPlace'
  <2>1. m = "WritePart" => Writes'
    <3>1. m = "WritePart" => r.ok /\ Chunked'
      BY <1>6, <1>15
    <3> QED BY <1>1, <1>7, <1>8, <1>10, <1>12, <1>14, <1>16, <3>1 DEF Writes
  <2>2. found' = {} /\ ret' = "ok"
    BY <1>1, <1>6, <1>7 DEF InPlace, Replacing
  <2>3. Loaded' => Loaded
    BY <1>6, <1>7, <1>12 DEF Loaded
  <2>4. Loaded' => buf' \in Content
    BY <1>1, <1>7, <2>3 DEF InPlace
  <2> QED BY <1>6, <1>7, <2>1, <2>2, <2>4 DEF InPlace
<1>18. TypeOK' /\ Placed'
  <2>1. LocalTypes
    BY <1>3, Typed
  <2>2. k' \in 0 .. Longest
    <3>1. want \in 0 .. Longest /\ Longest \in Nat
      BY <2>1, LongestIs DEF LocalTypes
    <3> QED BY <1>15, <3>1
  <2>3. LocalTypes'
    BY <1>1, <1>6, <2>1, <2>2 DEF LocalTypes
  <2> QED BY <1>1, <1>2, <1>3, <1>6, <1>11, <1>17, <2>3, Goes
<1>19. Clean'
  <2> SUFFICES ASSUME ~trouble' PROVE FilesAre' /\ BufferIs' /\ NamesAre'
    BY DEF Clean
  <2>1. ~trouble /\ r.ok
    BY <1>1, <1>11, Taken DEF Sane
  <2>2. New /\ file = [before EXCEPT ![Target] = Partly(s, Len(s))]
    BY <1>3, <1>6, <1>7, <2>1 DEF FilesAre, s
  <2>3. New'
    BY <1>12, <1>14, <2>2 DEF New
  <2>4. t = Partly(s, Len(s))
    BY <1>3, <1>8, <2>2, Typed DEF t, FileType
  <2>5. u = [i \in 1 .. Len(s) |-> IF i <= k + Part THEN s[i] ELSE Junk] /\ k' = k + Part
    <3> DEFINE n == Len(s)
               p == Part
    <3>1. n \in Nat /\ p \in Nat /\ k \in Nat
      BY <1>8, <1>9
    <3>2. \A i \in 1 .. n : t[i] = IF i <= k THEN s[i] ELSE Junk
      BY <2>4 DEF Partly
    <3>3. k' = k + p
      BY <1>1, <2>1
    <3>4. u = [i \in 1 .. n |-> IF i > k /\ i <= k + p THEN s[i] ELSE t[i]]
      BY <1>10
    <3> HIDE DEF n, p
    <3>5. \A i \in 1 .. n : (IF i > k /\ i <= k + p THEN s[i] ELSE t[i])
                              = (IF i <= k + p THEN s[i] ELSE Junk)
      BY <3>1, <3>2
    <3> QED BY <3>3, <3>4, <3>5 DEF n, p
  <2>6. file' = [before EXCEPT ![Target] = u]
    BY <1>3, <1>8, <1>13, <2>1, <2>2, Typed DEF into, FileType
  <2>7. (Got' <=> Got) /\ (call.kind \in {"rename", "truncate"} => Got)
    <3>1. Got' <=> Got
      BY <1>1, <1>12 DEF Got, Kept, NewSize
    <3> QED BY <1>3, <1>6, <1>7, <2>1, <3>1 DEF BufferIs
  <2>8. BufferIs' /\ NamesAre'
    BY <1>6, <1>7, <1>12, <2>7 DEF BufferIs, NamesAre, Replacing
  <2>9. CASE More(r)
    <3>1. file' = [before EXCEPT ![Target] = Partly(Source, Len(Source))']
      BY <1>14, <2>5, <2>6 DEF Partly
    <3> QED BY <1>6, <1>7, <1>12, <1>14, <2>3, <2>8, <2>9, <3>1 DEF FilesAre
  <2>10. CASE ~More(r)
    <3>1. k + Part = Len(s)
      BY <1>8, <1>9, <2>1, <2>10 DEF More
    <3>2. u = s
      <4>1. s \in [1 .. Len(s) -> Cell]
        BY <1>8, ContentIs
      <4>2. \A i \in 1 .. Len(s) : i <= k + Part
        BY <1>8, <3>1
      <4>3. u = [i \in 1 .. Len(s) |-> s[i]]
        BY <2>5, <4>2
      <4> QED BY <4>1, <4>3
    <3>3. Wrote'
      BY <1>12, <1>14, <2>3, <2>6, <3>2 DEF Wrote
    <3> QED BY <1>6, <1>7, <2>8, <2>10, <3>3 DEF FilesAre
  <2> QED BY <2>9, <2>10
<1> QED BY <1>18, <1>19 DEF FilesInv

-----------------------------------------------------------------------------
(* The operations again.                                                   *)

LEMMA InitFiles == Init => FilesInv
<1> SUFFICES ASSUME Init PROVE FilesInv
  OBVIOUS
<1>1. <<Zero>> \in Content
  <2>1. <<Zero>> \in [1 .. 1 -> Cell] /\ 1 \in Sizes
    BY MountAssumption DEF Cell
  <2> QED BY <2>1, ContentIs
<1>2. 0 \in 0 .. Longest /\ 0 \in 0 .. MaxFails
  BY LongestIs, MountAssumption
<1>3. TypeOK
  <2>1. file \in [Name -> Content \cup {None}] /\ before = file
    BY <1>1 DEF Init
  <2>2. open \in [Hnd -> Opening \cup {None}] /\ fd \in [Fd -> Record \cup {None, Null}]
    BY DEF Init
  <2>3. todo = <<>> /\ buf = <<>> /\ want = 0 /\ k = 0 /\ fails = 0 /\ trouble = FALSE
    BY DEF Init
  <2>4. \A i \in DOMAIN todo : todo[i] \in Commands
    BY <2>3
  <2> QED BY <1>2, <2>1, <2>2, <2>3, <2>4 DEF Init, TypeOK, Errors
<1>4. Placed /\ Clean
  BY DEF Init, Placed, Clean
<1> QED BY <1>3, <1>4 DEF FilesInv

LEMMA CallsFiles == ASSUME FilesInv, NamedCall \/ DirCall \/ FdCall PROVE FilesInv'
<1>1. PICK o \in Operation :
        /\ Begin(o) /\ Named(o) /\ o # None
        /\ o.kind \in {"flush", "release"} => Usable(o.d) /\ fd[o.d].f = o.f
  BY CallIs DEF FilesInv
<1>2. /\ call = None /\ call' = o /\ todo' = Steps(o)
      /\ UNCHANGED <<file, open, error, fd, h, w, buf, want, k, ret, found, reply, before,
                     trouble, fails>>
  BY <1>1 DEF Begin, brickVars, ghostVars
<1>3. /\ reply = "none" /\ ~trouble /\ before = file /\ found = {} /\ ret = "ok"
  BY <1>2 DEF FilesInv, Placed
<1>4. Course(o.kind, todo') /\ o.kind \in Kind
  BY <1>1, <1>2, StepsOrderly DEF Operation
<1> DEFINE m == Nth(todo', 1)
<1>5. \/ /\ todo' # <<>>
         /\ o.kind \in {"open", "getattr", "rename", "truncate"} => m = "OpenRead"
         /\ o.kind \in {"readdir", "flush", "release"} => m = "FindFirst"
         /\ o.kind \in {"mknod", "create"} => m = "OpenWrite"
         /\ o.kind = "unlink" => m = "Remove"
      \/ o.kind \in {"flush", "release"} /\ todo' = <<>> /\ m = "end" /\ ~fd[o.d].dirty
  <2>1. CASE todo' \in Seq(Commands) /\ Sequence(o.kind, todo')
    <3>1. /\ Len(todo') >= 1
          /\ o.kind \in {"open", "getattr", "rename", "truncate"} => todo'[1] = "OpenRead"
          /\ o.kind \in {"readdir", "flush", "release"} => todo'[1] = "FindFirst"
          /\ o.kind \in {"mknod", "create"} => todo'[1] = "OpenWrite"
          /\ o.kind = "unlink" => todo'[1] = "Remove"
      BY <1>4, <2>1 DEF Sequence, Three, Six, Kind
    <3>2. m = todo'[1] /\ todo' # <<>>
      BY <2>1, <3>1 DEF Nth
    <3> QED BY <3>1, <3>2
  <2>2. CASE o.kind \in {"flush", "release"} /\ todo' = <<>> /\ ~fd[o.d].dirty
    BY <2>2, ShortCourses
  <2> QED BY <1>2, <1>4, <2>1, <2>2, StepsAre
<1>6. m \in {"OpenRead", "FindFirst", "OpenWrite", "Remove", "end"}
  BY <1>4, <1>5 DEF Kind
<1>7. o.kind \in {"flush", "release"} /\ todo' # <<>> => fd[o.d].dirty
  BY <1>2 DEF Steps
<1> HIDE DEF m
<1>8. TypeOK'
  <2>1. todo' \in Seq(Commands)
    BY <1>4 DEF Course
  <2>2. call' \in Operation
    BY <1>1, <1>2
  <2> QED BY <1>2, <2>1, <2>2 DEF FilesInv, TypeOK
<1>9. Placed'
  <2>1. OthersKept'
    BY <1>2, <1>3 DEF OthersKept
  <2>2. WritesBack'
    BY <1>1, <1>2, <1>7 DEF WritesBack, Usable
  <2>3. ~Loaded'
    BY <1>2, <1>5, <1>6 DEF Loaded, m
  <2>4. InPlace'
    BY <1>2, <1>3, <1>6, <2>3 DEF InPlace, m
  <2> QED BY <1>1, <1>2, <1>3, <1>4, <2>1, <2>2, <2>4 DEF Placed, Running
<1>10. Clean'
  <2>1. Same'
    BY <1>2, <1>3 DEF Same
  <2>2. FilesAre'
    BY <1>2, <1>3, <1>5, <1>6, <2>1 DEF FilesAre, Ended, m
  <2>3. BufferIs'
    BY <1>2, <1>3, <1>5, <1>6 DEF BufferIs, m
  <2>4. NamesAre'
    BY <1>2, <1>3, <1>5, <1>6 DEF NamesAre, m
  <2> QED BY <2>2, <2>3, <2>4 DEF Clean
<1> QED BY <1>8, <1>9, <1>10 DEF FilesInv

LEMMA ReturnFiles == ASSUME FilesInv, Return PROVE FilesInv'
<1>1. /\ call # None /\ todo = <<>> /\ reply = "none" /\ fd' = NewFd(call)
      /\ error' \in {"none", error}
      /\ reply' \in {"ok", "failed"}
      /\ h' = None /\ w' = None /\ buf' = <<>> /\ want' = 0 /\ k' = 0
      /\ ret' = "ok" /\ trouble' = FALSE
      /\ UNCHANGED <<file, open, call, todo, found, before, fails>>
  BY DEF Return, Told, brickVars
<1>2. TypeOK /\ Placed
  BY DEF FilesInv
<1>3. Named(call) /\ Course(call.kind, todo) /\ Running
  BY <1>1, <1>2, Typed
<1>4. call.kind \in {"open", "create"} /\ ret = "ok" => buf \in Content
  <2>1. call.kind \in {"open", "create"} /\ ret = "ok" => Loaded
    BY <1>1, ShortCourses DEF Loaded
  <2> QED BY <1>3, <2>1 DEF Running, InPlace
<1>5. fd' \in [Fd -> Record \cup {None, Null}]
  <2>1. fd \in [Fd -> Record \cup {None, Null}]
    BY <1>2, Typed
  <2>2. CASE call.kind \in {"open", "create"}
    <3>1. fd' = [fd EXCEPT ![call.d] =
                   IF ret = "failed" THEN None ELSE IF ret = "null" THEN Null
                   ELSE [f |-> call.f, data |-> buf, dirty |-> FALSE]]
      BY <1>1, <2>2 DEF NewFd
    <3>2. call.f \in Name /\ ret \in {"ok", "failed", "null"}
      BY <1>2, <1>3, <2>2 DEF Named, TypeOK
    <3>3. ret = "ok" => [f |-> call.f, data |-> buf, dirty |-> FALSE] \in Record
      BY <1>4, <2>2, <3>2 DEF Record
    <3> QED BY <2>1, <3>1, <3>2, <3>3
  <2>3. CASE call.kind = "flush" /\ ret = "ok"
    <3>1. fd' = [fd EXCEPT ![call.d].dirty = FALSE]
      BY <1>1, <2>3 DEF NewFd
    <3>2. call.d \in Fd /\ fd[call.d] \in Record
      BY <1>3, <2>1, <2>3 DEF Running, WritesBack, Usable, Named
    <3>3. [fd[call.d] EXCEPT !.dirty = FALSE] \in Record
      BY <3>2 DEF Record
    <3> QED BY <2>1, <3>1, <3>2, <3>3
  <2>4. CASE call.kind = "release"
    <3>1. fd' = [fd EXCEPT ![call.d] = None]
      BY <1>1, <2>4 DEF NewFd
    <3> QED BY <2>1, <3>1
  <2>5. CASE /\ call.kind \notin {"open", "create", "release"}
             /\ ~(call.kind = "flush" /\ ret = "ok")
    <3>1. fd' = fd
      BY <1>1, <2>5 DEF NewFd
    <3> QED BY <2>1, <3>1
  <2> QED BY <2>2, <2>3, <2>4, <2>5
<1>6. TypeOK'
  <2>1. 0 \in 0 .. Longest
    BY LongestIs
  <2> QED BY <1>1, <1>2, <1>5, <2>1 DEF TypeOK, Errors
<1>7. Placed'
  BY <1>1, <1>3 DEF Placed
<1>8. Clean'
  BY <1>1 DEF Clean
<1> QED BY <1>6, <1>7, <1>8 DEF FilesInv

LEMMA FinishFiles == ASSUME FilesInv, Finish PROVE FilesInv'
<1>1. /\ reply # "none" /\ call' = None /\ reply' = "none" /\ found' = {} /\ before' = file
      /\ UNCHANGED <<file, open, error, fd, todo, h, w, buf, want, k, ret, trouble, fails>>
  BY DEF Finish, brickVars
<1>2. todo = <<>> /\ ~trouble /\ ret = "ok"
  BY <1>1 DEF FilesInv, Placed
<1>3. TypeOK'
  BY <1>1 DEF FilesInv, TypeOK
<1>4. Placed' /\ Clean'
  BY <1>1, <1>2 DEF Placed, Clean
<1> QED BY <1>3, <1>4 DEF FilesInv

LEMMA EndFiles == ASSUME FilesInv, End PROVE FilesInv'
<1>1. /\ call' = None /\ todo' = <<>> /\ fd' = [d \in Fd |-> None]
      /\ error' = "none" /\ reply' = "none" /\ found' = {}
      /\ h' = None /\ w' = None /\ buf' = <<>> /\ want' = 0 /\ k' = 0
      /\ ret' = "ok" /\ trouble' = FALSE /\ before' = file /\ UNCHANGED <<file, open>>
  BY DEF End, brickVars
<1>2. fails' \in 0 .. MaxFails
  <2> DEFINE L == {x \in {h, w} \ {None} : open[x] # None}
  <2>1. IsFiniteSet({h, w})
    <3>1. IsFiniteSet({h}) /\ IsFiniteSet({w})
      BY FS_Singleton
    <3>2. IsFiniteSet({h} \cup {w})
      BY <3>1, FS_Union
    <3> QED BY <3>2, {h} \cup {w} = {h, w}
  <2>2. Cardinality(L) \in Nat
    BY <2>1, FS_Subset, FS_CardinalityType
  <2>3. fails' = fails + Cardinality(L) /\ fails' <= MaxFails
    BY DEF End
  <2> HIDE DEF L
  <2> QED BY <2>2, <2>3, Typed DEF FilesInv
<1>3. TypeOK'
  <2>1. 0 \in 0 .. Longest
    BY LongestIs
  <2>2. fd' \in [Fd -> Record \cup {None, Null}]
    BY <1>1
  <2>3. /\ file \in [Name -> Content \cup {None}] /\ open \in [Hnd -> Opening \cup {None}]
    BY DEF FilesInv, TypeOK
  <2>4. \A i \in DOMAIN todo' : todo'[i] \in Commands
    BY <1>1
  <2> QED BY <1>1, <1>2, <2>1, <2>2, <2>3, <2>4 DEF TypeOK, Errors
<1>4. Placed' /\ Clean'
  BY <1>1 DEF Placed, Clean
<1> QED BY <1>3, <1>4 DEF FilesInv

\* The edits of a buffer that a descriptor has
LEMMA EditIs ==
  ASSUME TypeOK, NEW d \in Fd, Usable(d)
  PROVE  /\ fd[d] \in Record /\ fd[d].data \in Content
         /\ \A n \in Sizes : Resized(fd[d].data, n) \in Content
         /\ \A off, n \in 0 .. Longest, x \in Data :
              LET s == Written(fd[d].data, off, n, x) IN
              off <= Len(fd[d].data) /\ Len(s) \in Sizes => s \in Content
<1>1. fd[d] \in Record /\ fd[d].data \in Content
  BY DEF TypeOK, Usable, Record
<1> DEFINE s == fd[d].data
           n == Len(s)
<1>2. n \in Sizes /\ n \in Nat /\ s \in [1 .. n -> Cell]
  BY <1>1, ContentIs
<1> HIDE DEF n, s
<1>3. ASSUME NEW m \in Sizes PROVE Resized(s, m) \in Content
  <2>1. m \in Nat
    BY MountAssumption
  <2>2. \A i \in 1 .. m : (IF i <= n THEN s[i] ELSE Junk) \in Cell
    BY <1>2, <2>1 DEF Cell
  <2>3. Resized(s, m) = [i \in 1 .. m |-> IF i <= n THEN s[i] ELSE Junk]
    BY DEF Resized, n
  <2>4. Resized(s, m) \in [1 .. m -> Cell]
    BY <2>2, <2>3
  <2> QED BY <2>4, ContentIs
<1>4. ASSUME NEW off \in 0 .. Longest, NEW m \in 0 .. Longest, NEW x \in Data, off <= n,
             Len(Written(s, off, m, x)) \in Sizes
      PROVE  Written(s, off, m, x) \in Content
  <2> DEFINE top == IF off + m > n THEN off + m ELSE n
             t == Written(s, off, m, x)
  <2>1. off \in Nat /\ m \in Nat /\ top \in Nat
    BY <1>2, LongestIs
  <2>2. t = [i \in 1 .. top |-> IF i > off /\ i <= off + m THEN x ELSE s[i]]
    BY DEF Written, n
  <2>3. \A i \in 1 .. top : (i > off /\ i <= off + m) \/ i \in 1 .. n
    BY <1>2, <1>4, <2>1
  <2>4. \A i \in 1 .. top : (IF i > off /\ i <= off + m THEN x ELSE s[i]) \in Cell
    BY <1>2, <2>3 DEF Cell
  <2> HIDE DEF top, t
  <2>5. t \in [1 .. top -> Cell]
    BY <2>2, <2>4
  <2>6. Len(t) = top
    BY <2>1, <2>5
  <2>7. top \in Sizes
    BY <1>4, <2>6 DEF t
  <2> QED BY <2>5, <2>7, ContentIs DEF t
<1> QED BY <1>1, <1>3, <1>4 DEF s, n

LEMMA EditsFiles ==
  ASSUME FilesInv, NEW d \in Fd,
         \/ \E n \in Sizes : Ftruncate(d, n)
         \/ \E off, n \in 0 .. Longest, x \in Data : WriteBuf(d, off, n, x)
  PROVE  FilesInv'
<1>1. PICK s \in Content : call = None /\ Usable(d) /\ Edit(d, s)
  <2>1. CASE \E n \in Sizes : Ftruncate(d, n)
    BY <2>1, EditIs DEF Ftruncate, FilesInv
  <2>2. CASE \E off, n \in 0 .. Longest, x \in Data : WriteBuf(d, off, n, x)
    <3>1. PICK off \in 0 .. Longest, n \in 0 .. Longest, x \in Data : WriteBuf(d, off, n, x)
      BY <2>2
    <3> DEFINE s == Written(fd[d].data, off, n, x)
    <3>2. /\ call = None /\ Usable(d) /\ off <= Len(fd[d].data) /\ Len(s) \in Sizes
          /\ Edit(d, s)
      BY <3>1 DEF WriteBuf
    <3>3. s \in Content
      BY <3>2, EditIs DEF FilesInv
    <3> QED BY <3>2, <3>3
  <2> QED BY <2>1, <2>2
<1>2. /\ fd' = [fd EXCEPT ![d].data = s, ![d].dirty = TRUE]
      /\ UNCHANGED <<file, open, error, call, todo, h, w, buf, want, k, ret, found, reply,
                     before, trouble, fails>>
  BY <1>1 DEF Edit, brickVars, opVars, ghostVars
<1>3. fd \in [Fd -> Record \cup {None, Null}] /\ fd[d] \in Record
  BY <1>1, Typed, EditIs DEF FilesInv
<1>4. [fd[d] EXCEPT !.data = s, !.dirty = TRUE] \in Record
  BY <1>1, <1>3 DEF Record
<1>5. fd' \in [Fd -> Record \cup {None, Null}]
  BY <1>2, <1>3, <1>4
<1>6. TypeOK'
  BY <1>2, <1>5 DEF FilesInv, TypeOK
<1>7. Placed' /\ Clean'
  BY <1>1, <1>2 DEF FilesInv, Placed, Clean
<1> QED BY <1>6, <1>7 DEF FilesInv

LEMMA StutterFiles == ASSUME FilesInv, UNCHANGED vars PROVE FilesInv'
<1>1. /\ UNCHANGED <<file, open, error, fd, call, todo, h, w, buf, want, k, ret, found, reply,
                     before, trouble, fails>>
  BY DEF vars, brickVars, opVars, ghostVars
<1>2. TypeOK'
  BY <1>1 DEF FilesInv, TypeOK
<1>3. /\ Same' = Same /\ Gone' = Gone /\ New' = New /\ Wrote' = Wrote /\ Got' = Got
      /\ Names' = Names /\ Target' = Target /\ Source' = Source /\ Room' = Room
      /\ Chunked' = Chunked /\ Loaded' = Loaded
  BY <1>1 DEF Same, Gone, New, Wrote, Got, Kept, NewSize, Names, Target, Source, Room, Chunked,
              Loaded
<1>4. Placed'
  <2>1. Running' = Running
    BY <1>1, <1>3 DEF Running, OthersKept, WritesBack, Usable, InPlace, Reads, Writes
  <2> QED BY <1>1, <2>1 DEF FilesInv, Placed
<1>5. Clean'
  <2>1. FilesAre' = FilesAre
    BY <1>1, <1>3 DEF FilesAre, Ended, Partly
  <2>2. BufferIs' = BufferIs /\ NamesAre' = NamesAre
    BY <1>1, <1>3 DEF BufferIs, NamesAre, Partly
  <2> QED BY <1>1, <2>1, <2>2 DEF FilesInv, Clean
<1> QED BY <1>2, <1>4, <1>5 DEF FilesInv

-----------------------------------------------------------------------------
MountInv == HInv /\ FilesInv

LEMMA NextMountInv ==
  ASSUME IsFiniteSet(Hnd), MountInv, [Next]_vars PROVE MountInv'
<1>1. HInv /\ FilesInv /\ TypeOK /\ Replied
  BY DEF MountInv, FilesInv, Placed, Replied
<1>2. HInv'
  BY <1>1, NextHInv
<1>3. CASE NamedCall \/ DirCall \/ FdCall
  BY <1>1, <1>2, <1>3, CallsFiles DEF MountInv
<1>4. CASE Return \/ Finish \/ End
  BY <1>1, <1>2, <1>4, ReturnFiles, FinishFiles, EndFiles DEF MountInv
<1>5. CASE \E d \in Fd : \/ \E n \in Sizes : Ftruncate(d, n)
                         \/ \E off, n \in 0 .. Longest, x \in Data : WriteBuf(d, off, n, x)
  BY <1>1, <1>2, <1>5, EditsFiles DEF MountInv
<1>6. CASE OpenRead \/ ReadPart \/ OpenWrite \/ WritePart
  BY <1>1, <1>2, <1>6, OpenReadFiles, ReadPartFiles, OpenWriteFiles, WritePartFiles DEF MountInv
<1>7. CASE CloseRead \/ CloseWrite \/ CloseFound
  BY <1>1, <1>2, <1>7, CloseFiles DEF MountInv
<1>8. CASE FindFirst \/ FindNext \/ Remove
  BY <1>1, <1>2, <1>8, FindFirstFiles, FindNextFiles, RemoveFiles DEF MountInv
<1>9. CASE UNCHANGED vars
  BY <1>1, <1>2, <1>9, StutterFiles DEF MountInv
<1> QED BY <1>3, <1>4, <1>5, <1>6, <1>7, <1>8, <1>9 DEF Next

\* Every state is one of those that MountInv describes.
LEMMA MountHolds == ASSUME IsFiniteSet(Hnd) PROVE Spec => []MountInv
<1>1. Init => MountInv
  BY InitHInv, InitFiles DEF MountInv
<1>2. MountInv /\ [Next]_vars => MountInv'
  BY NextMountInv
<1> QED BY <1>1, <1>2, PTL DEF Spec

\* The state of nxt_mount has its types: what moves bytes stays within the
\* buffers, the files and the sizes that there are.
THEOREM MountTypes == ASSUME IsFiniteSet(Hnd) PROVE Spec => []TypeOK
<1>1. MountInv => TypeOK
  BY DEF MountInv, FilesInv
<1> QED BY <1>1, MountHolds, PTL

\* Between two operations of nxt_mount the brick has no more handles open than
\* transfers have failed and killed programs have left: nxtfs_open, nxtfs_create,
\* nxtfs_rename and the others close what they open on each of their paths.
THEOREM HandlesGivenBack == ASSUME IsFiniteSet(Hnd) PROVE Spec => []HandlesReturned
<1>1. MountInv => HandlesReturned
  <2> SUFFICES ASSUME HInv, call = None PROVE Cardinality(Opened(open)) <= fails
    BY DEF MountInv, HandlesReturned, Opened
  <2>1. Held = {}
    BY NothingLeft DEF HInv, Held
  <2>2. Opened(open) \ Held = Opened(open)
    BY <2>1
  <2> QED BY <2>2 DEF HInv, Counted
<1> QED BY <1>1, MountHolds, PTL

-----------------------------------------------------------------------------
(* The file system that users see: a step of the program is one of NxtFiles *)
(* or changes nothing that they see.                                       *)

LEMMA ShownInit == Init => Files0!FilesInit
<1> SUFFICES ASSUME Init PROVE Files0!FilesInit
  OBVIOUS
<1>1. <<Zero>> \in Seq(Cell)
  BY DEF Cell
<1>2. ShownFile \in [Name -> Seq(Cell) \cup {None}]
  BY <1>1 DEF Init, ShownFile
<1>3. ShownNames = {} /\ (fails > 0) = FALSE
  BY DEF Init, ShownNames
<1> QED BY <1>2, <1>3 DEF Init, Files0!FilesInit, Files0!Cell, Cell

LEMMA ShownCall ==
  ASSUME MountInv, NamedCall \/ DirCall \/ FdCall PROVE Files0!Call
<1>1. PICK o \in Operation : Begin(o) /\ o # None
  BY CallIs DEF MountInv, FilesInv
<1>2. /\ call = None /\ call' = o
      /\ UNCHANGED <<file, fd, found, reply, before, trouble, fails>>
  BY <1>1 DEF Begin, brickVars, ghostVars
<1>3. reply = "none" /\ before = file
  BY <1>2 DEF MountInv, FilesInv, Placed
<1>4. ShownFile' = ShownFile /\ ShownNames' = ShownNames
  BY <1>1, <1>2, <1>3 DEF ShownFile, ShownNames
<1>5. call' \in Files0!Operation
  BY <1>2 DEF Files0!Operation, Operation, Kind
<1> QED BY <1>2, <1>4, <1>5 DEF Files0!Call

\* A command is not seen, unless its transfer fails.
LEMMA ShownCommand ==
  ASSUME MountInv, todo # <<>>, NEW A, \A a \in A : ~a.lost, NEW r \in Answers(A), Takes(r)
  PROVE  Files0!Trouble \/ UNCHANGED Files0!filesVars
<1>1. call # None /\ reply = "none" /\ fails \in Nat
  BY Busily, Typed DEF MountInv
<1>2. /\ UNCHANGED <<fd, call, reply, before>>
      /\ UNCHANGED <<trouble, fails>> \/ (trouble' = TRUE /\ fails' = fails + 1)
  BY Taken
<1>3. ShownFile' = ShownFile /\ ShownNames' = ShownNames
  BY <1>1, <1>2 DEF ShownFile, ShownNames
<1>4. CASE UNCHANGED <<trouble, fails>>
  BY <1>2, <1>3, <1>4 DEF Files0!filesVars
<1>5. CASE trouble' = TRUE /\ fails' = fails + 1
  <2>1. (fails > 0)' = TRUE
    BY <1>1, <1>5
  <2> QED BY <1>1, <1>2, <1>3, <1>5, <2>1 DEF Files0!Trouble
<1> QED BY <1>2, <1>4, <1>5

LEMMA ShownCommands ==
  ASSUME MountInv, \/ OpenRead \/ ReadPart \/ CloseRead \/ OpenWrite \/ WritePart \/ CloseWrite
                   \/ FindFirst \/ FindNext \/ CloseFound \/ Remove
  PROVE  Files0!Trouble \/ UNCHANGED Files0!filesVars
<1>1. todo # <<>>
  BY DEF OpenRead, ReadPart, CloseRead, OpenWrite, WritePart, CloseWrite, FindFirst, FindNext,
         CloseFound, Remove, Close, At
<1>2. PICK A :
        /\ \/ \E f : A = AsksRead(f)
           \/ \E f, n : A = AsksWrite(f, n)
           \/ \E S : A = AsksFind(S)
           \/ \E f, off, s : A = AsksMove(f, off, s)
           \/ \E f : A = AsksRemove(f)
           \/ \E x : A = AsksClose(x)
           \/ \E S, x : A = AsksNext(S, x)
        /\ \E r \in Answers(A) : Takes(r)
  BY DEF OpenRead, ReadPart, CloseRead, OpenWrite, WritePart, CloseWrite, FindFirst, FindNext,
         CloseFound, Remove, Close
<1>3. \A a \in A : ~a.lost
  <2>1. DOMAIN open = Hnd
    BY DEF MountInv, HInv, Counted
  <2>2. CASE \/ \E f : A = AsksRead(f)
             \/ \E f, n : A = AsksWrite(f, n)
             \/ \E S : A = AsksFind(S)
    BY <2>1, <2>2, Openers
  <2>3. CASE \/ \E f, off, s : A = AsksMove(f, off, s)
             \/ \E f : A = AsksRemove(f)
             \/ \E x : A = AsksClose(x)
             \/ \E S, x : A = AsksNext(S, x)
    BY <2>1, <2>3, Others
  <2> QED BY <1>2, <2>2, <2>3
<1> QED BY <1>1, <1>2, <1>3, ShownCommand

LEMMA ShownEdit ==
  ASSUME MountInv, NEW d \in Fd,
         \/ \E n \in Sizes : Ftruncate(d, n)
         \/ \E off, n \in 0 .. Longest, x \in Data : WriteBuf(d, off, n, x)
  PROVE  \E n \in Sizes : \/ Files0!Ftruncate(d, n)
                          \/ \E off, len \in 0 .. n, x \in Data : Files0!Write(d, off, len, x)
<1>1. ASSUME NEW s, call = None, Usable(d), Edit(d, s)
      PROVE  Files0!Ready(d) /\ Files0!Edit(d, s)
  <2>1. /\ fd' = [fd EXCEPT ![d].data = s, ![d].dirty = TRUE]
        /\ UNCHANGED <<file, call, trouble, reply, found, before, fails>>
    BY <1>1 DEF Edit, brickVars, opVars, ghostVars
  <2>2. ShownFile' = ShownFile /\ ShownNames' = ShownNames
    BY <2>1 DEF ShownFile, ShownNames
  <2> QED BY <1>1, <2>1, <2>2 DEF Usable, Files0!Ready, Files0!Edit
<1>2. CASE \E n \in Sizes : Ftruncate(d, n)
  BY <1>1, <1>2 DEF Ftruncate, Files0!Ftruncate, Resized, Files0!Resized
<1>3. CASE \E off, n \in 0 .. Longest, x \in Data : WriteBuf(d, off, n, x)
  <2>1. PICK off \in 0 .. Longest, n \in 0 .. Longest, x \in Data : WriteBuf(d, off, n, x)
    BY <1>3
  <2>2. Files0!Write(d, off, n, x)
    BY <1>1, <2>1 DEF WriteBuf, Files0!Write, Written, Files0!Written
  <2> QED BY <2>2, LongestIs
<1> QED BY <1>2, <1>3

LEMMA ShownFinish == ASSUME MountInv, Finish PROVE Files0!Finish
<1>1. /\ reply # "none" /\ call' = None /\ reply' = "none"
      /\ UNCHANGED <<file, fd, trouble, fails>>
  BY DEF Finish, brickVars
<1>2. ShownFile' = ShownFile /\ ShownNames' = {}
  BY <1>1 DEF ShownFile, ShownNames
<1> QED BY <1>1, <1>2 DEF Files0!Finish

LEMMA ShownEnd == ASSUME MountInv, End PROVE Files0!End
<1>1. /\ call' = None /\ fd' = [d \in Fd |-> None] /\ reply' = "none" /\ trouble' = FALSE
      /\ file' = file
  BY DEF End, brickVars
<1>2. ShownFile' = file /\ ShownNames' = {}
  BY <1>1 DEF ShownFile, ShownNames
<1>3. IF call = None THEN ShownFile' = ShownFile ELSE Files0!OnlyIts(call)
  <2>1. CASE call = None \/ reply # "none"
    BY <1>2, <2>1 DEF ShownFile, Files0!OnlyIts
  <2>2. CASE call # None /\ reply = "none"
    <3>1. ShownFile = before /\ OthersKept
      BY <2>2, Typed DEF ShownFile, MountInv, FilesInv, Running
    <3> QED BY <1>2, <2>2, <3>1 DEF OthersKept, Files0!OnlyIts
  <2> QED BY <2>1, <2>2
<1>4. (fails > 0)' \in {fails > 0, TRUE}
  <2> DEFINE L == {x \in {h, w} \ {None} : open[x] # None}
  <2>1. IsFiniteSet({h, w})
    <3>1. IsFiniteSet({h}) /\ IsFiniteSet({w})
      BY FS_Singleton
    <3>2. IsFiniteSet({h} \cup {w})
      BY <3>1, FS_Union
    <3> QED BY <3>2, {h} \cup {w} = {h, w}
  <2>2. Cardinality(L) \in Nat /\ fails' = fails + Cardinality(L) /\ fails \in Nat
    BY <2>1, FS_Subset, FS_CardinalityType, Typed DEF End, MountInv, FilesInv
  <2> HIDE DEF L
  <2>3. (fails' > 0) = TRUE \/ (fails' > 0) = (fails > 0)
    BY <2>2
  <2> QED BY <2>3, Zenon
<1> QED BY <1>1, <1>2, <1>3, <1>4 DEF Files0!End

-----------------------------------------------------------------------------
(* What an operation returns.                                              *)

\* All that is known of an operation that returns, and the new descriptors
Returning ==
  /\ call # None /\ reply = "none" /\ call' = call /\ todo = <<>>
  /\ Named(call) /\ OthersKept /\ WritesBack
  /\ file \in FileType /\ before \in FileType /\ file' = file
  /\ fd \in [Fd -> Record \cup {None, Null}] /\ fd' = NewFd(call)
  /\ ret \in {"ok", "failed", "null"}
  /\ ShownFile = before /\ ShownFile' = file
  /\ ShownNames = {} /\ ShownNames' = found /\ (call.kind # "readdir" => found = {})
  /\ ~trouble =>
       /\ Ended
       /\ call.kind \in {"open", "create"} /\ ret = "ok" =>
            file[call.f] # None /\ buf = file[call.f]
  /\ IF call.kind = "readdir"
     THEN reply' = "failed" \/ (reply' = "ok" /\ error # "mapped")
     ELSE reply' = IF ret = "failed" THEN "failed" ELSE "ok"

LEMMA ReturnIs == ASSUME MountInv, Return PROVE Returning
<1>1. /\ call # None /\ todo = <<>> /\ reply = "none" /\ fd' = NewFd(call)
      /\ UNCHANGED <<file, call, found>>
      /\ reply' = IF call.kind = "readdir" /\ ~(call.kind = "readdir" /\ error = "notfound")
                  THEN Told(error)
                  ELSE IF ret = "failed" THEN "failed" ELSE "ok"
  BY DEF Return, brickVars
<1>2. TypeOK /\ Placed
  BY DEF MountInv, FilesInv
<1>3. Named(call) /\ Running /\ LocalTypes
  BY <1>1, <1>2, Typed
<1>4. ~trouble => FilesAre /\ BufferIs
  BY <1>1 DEF MountInv, FilesInv, Clean
<1>5. Nth(todo, 1) = "end"
  BY <1>1, ShortCourses
<1>6. ~trouble => /\ Ended
                  /\ call.kind \in {"open", "create"} /\ ret = "ok" =>
                       file[call.f] # None /\ buf = file[call.f]
  BY <1>4, <1>5 DEF FilesAre, BufferIs
<1>7. IF call.kind = "readdir"
      THEN reply' = "failed" \/ (reply' = "ok" /\ error # "mapped")
      ELSE reply' = IF ret = "failed" THEN "failed" ELSE "ok"
  BY <1>1 DEF Told
<1>8. /\ ShownFile = before /\ ShownFile' = file
      /\ ShownNames = {} /\ ShownNames' = found /\ (call.kind # "readdir" => found = {})
  <2>1. reply' # "none"
    BY <1>7
  <2> QED BY <1>1, <1>3, <2>1 DEF ShownFile, ShownNames, Running, InPlace
<1> QED BY <1>1, <1>2, <1>3, <1>6, <1>7, <1>8, Typed DEF Returning, Running, LocalTypes

\* An operation that goes wrong without a trouble, as far as files go
LEMMA FailedFiles ==
  ASSUME Returning, Same \/ (call.kind \in Replacing \cup {"rename"} /\ Gone)
  PROVE  /\ Files0!OnlyIts(call)
         /\ call.g # None => ShownFile'[call.g] = ShownFile[call.g]
         /\ \/ ShownFile'[call.f] = ShownFile[call.f]
            \/ ShownFile'[call.f] = None /\ call.kind \in Files0!Replaces
<1>1. CASE Same
  BY <1>1 DEF Returning, Same, Files0!OnlyIts
<1>2. CASE call.kind \in Replacing \cup {"rename"} /\ Gone
  <2>1. call.f \in Name /\ (call.g # None => call.g # call.f)
    BY <1>2 DEF Returning, Named, Replacing
  <2>2. call.kind \in Files0!Replaces
    BY <1>2 DEF Replacing, Files0!Replaces
  <2>3. ShownFile = before /\ ShownFile' = [before EXCEPT ![call.f] = None]
    BY <1>2 DEF Returning, Gone
  <2>4. before \in FileType
    BY DEF Returning
  <2> HIDE DEF ShownFile
  <2>5. \A x : x # call.f => ShownFile'[x] = ShownFile[x]
    BY <2>3
  <2>6. ShownFile'[call.f] = None
    BY <2>1, <2>3, <2>4 DEF FileType
  <2> QED BY <2>1, <2>2, <2>5, <2>6 DEF Files0!OnlyIts
<1> QED BY <1>1, <1>2

LEMMA ReturnsLooking ==
  ASSUME Returning, ~trouble, call.kind \in {"getattr", "readdir", "mknod", "unlink"}
  PROVE  Files0!Done(call) \/ Files0!Failed(call)
<1>1. fd' = fd /\ call.f \in Name \cup {None} /\ call.g = None
  BY DEF Returning, NewFd, Named
<1>2. ASSUME Same, call.kind = "readdir" => reply' = "failed" PROVE Files0!Failed(call)
  <2>1. /\ Files0!OnlyIts(call) /\ ShownFile'[call.f] = ShownFile[call.f]
    BY <1>2 DEF Returning, Same, Files0!OnlyIts
  <2>2. reply' \in {"ok", "failed"}
    BY DEF Returning
  <2> QED BY <1>1, <1>2, <2>1, <2>2 DEF Files0!Failed, Files0!Views
<1>3. CASE call.kind = "getattr"
  BY <1>2, <1>3 DEF Returning, Ended
<1>4. CASE call.kind = "readdir"
  <2>1. Same /\ (error = "mapped" \/ found = Names)
    BY <1>4 DEF Returning, Ended
  <2>2. CASE reply' = "failed"
    BY <1>2, <2>1, <2>2
  <2>3. CASE reply' = "ok"
    <3>1. ShownNames' = {f \in Name : ShownFile[f] # None} /\ ShownFile' = ShownFile
      BY <1>4, <2>1, <2>3 DEF Returning, Same, Names
    <3> QED BY <1>1, <1>4, <2>3, <3>1 DEF Files0!Done
  <2> QED BY <1>4, <2>2, <2>3 DEF Returning
<1>5. CASE call.kind = "mknod"
  <2>1. CASE Same
    BY <1>2, <1>5, <2>1
  <2>2. CASE ret = "ok" /\ Wrote
    <3>1. /\ ShownFile[call.f] = None /\ ShownFile' = [ShownFile EXCEPT ![call.f] = <<Zero>>]
          /\ reply' = "ok" /\ ShownNames' = ShownNames
      BY <1>5, <2>2 DEF Returning, Wrote, New, Target, Source
    <3> QED BY <1>1, <1>5, <3>1 DEF Files0!Done
  <2> QED BY <1>5, <2>1, <2>2 DEF Returning, Ended
<1>6. CASE call.kind = "unlink"
  <2>1. CASE Same
    BY <1>2, <1>6, <2>1
  <2>2. CASE ret = "ok" /\ before[call.f] # None /\ Gone
    <3>1. /\ ShownFile[call.f] # None /\ ShownFile' = [ShownFile EXCEPT ![call.f] = None]
          /\ reply' = "ok" /\ ShownNames' = ShownNames
      BY <1>6, <2>2 DEF Returning, Gone
    <3> QED BY <1>1, <1>6, <3>1 DEF Files0!Done
  <2> QED BY <1>6, <2>1, <2>2 DEF Returning, Ended
<1> QED BY <1>3, <1>4, <1>5, <1>6

LEMMA ReturnsOpening ==
  ASSUME Returning, ~trouble, call.kind \in {"open", "create"}
  PROVE  Files0!Done(call) \/ Files0!Failed(call)
<1>1. /\ call.f \in Name /\ call.g = None /\ call.d \in Fd /\ ShownNames' = ShownNames
      /\ fd' = [fd EXCEPT ![call.d] =
                  IF ret = "failed" THEN None ELSE IF ret = "null" THEN Null
                  ELSE [f |-> call.f, data |-> buf, dirty |-> FALSE]]
      /\ DOMAIN fd = Fd
  BY DEF Returning, NewFd, Named
<1>2. Same \/ (call.kind = "create" /\ Wrote /\ before[call.f] = None)
  BY DEF Returning, Ended, Wrote, New, Target
<1>3. Wrote /\ call.kind = "create" => file = [before EXCEPT ![call.f] = <<Zero>>]
  BY DEF Wrote, Target, Source
<1>4. reply' = IF ret = "failed" THEN "failed" ELSE "ok"
  BY DEF Returning
<1>5. /\ ShownFile = before /\ ShownFile' = file
      /\ before \in FileType /\ ret \in {"ok", "failed", "null"}
  BY DEF Returning
<1>6. CASE ret = "ok"
  <2>1. /\ file[call.f] # None /\ fd' = [fd EXCEPT ![call.d] = Files0!Seen(call.f, file[call.f])]
        /\ reply' = "ok"
    BY <1>1, <1>4, <1>6 DEF Returning, Files0!Seen
  <2>2. CASE call.kind = "open"
    <3>1. ShownFile' = ShownFile /\ file = before
      BY <1>2, <1>5, <2>2 DEF Same
    <3> QED BY <1>1, <1>5, <2>1, <2>2, <3>1 DEF Files0!Done
  <2>3. CASE call.kind = "create"
    <3>1. file = [before EXCEPT ![call.f] = IF @ = None THEN <<Zero>> ELSE @]
      <4>1. CASE Same
        <5>1. before = file /\ before[call.f] # None
          BY <2>1, <4>1 DEF Same
        <5> QED BY <1>5, <5>1 DEF FileType
      <4>2. CASE Wrote /\ before[call.f] = None
        BY <1>3, <2>3, <4>2
      <4> QED BY <1>2, <4>1, <4>2
    <3> QED BY <1>1, <1>5, <2>1, <2>3, <3>1 DEF Files0!Done
  <2> QED BY <2>2, <2>3
<1>7. CASE ret # "ok"
  <2>1. /\ \A d \in Fd \ {call.d} : fd'[d] = fd[d]
        /\ fd'[call.d] = IF ret = "failed" THEN None ELSE Null
    BY <1>1, <1>5, <1>7
  <2>2. Files0!Views(call)
    BY <2>1 DEF Files0!Views
  <2>3. reply' \in {"ok", "failed"} /\ fd'[call.d] \in IF reply' = "ok" THEN {Null} ELSE {None}
    BY <1>4, <1>5, <1>7, <2>1
  <2>4. /\ Files0!OnlyIts(call)
        /\ \/ ShownFile'[call.f] = ShownFile[call.f]
           \/ /\ ShownFile'[call.f] = <<Zero>> /\ ShownFile[call.f] = None
              /\ call.kind = "create"
    <3>1. CASE Same
      BY <1>5, <3>1 DEF Same, Files0!OnlyIts
    <3>2. CASE call.kind = "create" /\ Wrote /\ before[call.f] = None
      <4>1. file = [before EXCEPT ![call.f] = <<Zero>>] /\ file[call.f] = <<Zero>>
        BY <1>1, <1>3, <1>5, <3>2 DEF FileType
      <4> HIDE DEF ShownFile
      <4>2. \A x \in Name \ {call.f, call.g} : ShownFile'[x] = ShownFile[x]
        BY <1>5, <4>1
      <4> QED BY <1>5, <3>2, <4>1, <4>2 DEF Files0!OnlyIts
    <3> QED BY <1>2, <3>1, <3>2
  <2> QED BY <1>1, <2>2, <2>3, <2>4 DEF Files0!Failed
<1> QED BY <1>6, <1>7

LEMMA ReturnsClosing ==
  ASSUME Returning, ~trouble, call.kind \in {"flush", "release"}
  PROVE  Files0!Done(call) \/ Files0!Failed(call)
<1>1. /\ call.f \in Name /\ call.g = None /\ call.d \in Fd /\ ShownNames' = ShownNames
      /\ fd[call.d] \in Record /\ DOMAIN fd = Fd
      /\ fd' = NewFd(call)
  BY DEF Returning, Named, WritesBack, Usable
<1>2. fd' = IF call.kind = "release" THEN [fd EXCEPT ![call.d] = None]
            ELSE IF ret = "ok" THEN [fd EXCEPT ![call.d].dirty = FALSE] ELSE fd
  BY <1>1 DEF NewFd
<1>3. ShownFile = before /\ ShownFile' = file /\ (reply' = IF ret = "failed" THEN "failed" ELSE "ok")
  BY DEF Returning
<1>4. CASE ret = "ok" /\ IF fd[call.d].dirty THEN Wrote ELSE Same
  <2>1. file = IF fd[call.d].dirty THEN [before EXCEPT ![call.f] = fd[call.d].data] ELSE before
    BY <1>4 DEF Wrote, Same, Target, Source
  <2>2. fd' = [fd EXCEPT ![call.d] =
                 IF call.kind = "release" THEN None ELSE [@ EXCEPT !.dirty = FALSE]]
    BY <1>1, <1>2, <1>4
  <2> QED BY <1>1, <1>3, <1>4, <2>1, <2>2 DEF Files0!Done
<1>5. CASE ret = "failed" /\ (Same \/ Gone)
  <2>1. /\ Files0!OnlyIts(call)
        /\ \/ ShownFile'[call.f] = ShownFile[call.f]
           \/ ShownFile'[call.f] = None /\ call.kind \in Files0!Replaces
    BY <1>5, FailedFiles DEF Replacing
  <2>2. Files0!Views(call)
    <3>1. \A d \in Fd \ {call.d} : fd'[d] = fd[d]
      BY <1>1, <1>2
    <3>2. call.kind = "release" => fd'[call.d] = None
      BY <1>1, <1>2
    <3>3. call.kind = "flush" => fd'[call.d] = fd[call.d]
      BY <1>1, <1>2, <1>5
    <3> QED BY <3>1, <3>2, <3>3 DEF Files0!Views
  <2>3. reply' = "failed"
    BY <1>3, <1>5
  <2> QED BY <1>1, <2>1, <2>2, <2>3 DEF Files0!Failed
<1> QED BY <1>4, <1>5 DEF Returning, Ended

LEMMA ReturnsReplacing ==
  ASSUME Returning, ~trouble, call.kind \in {"truncate", "rename"}
  PROVE  Files0!Done(call) \/ Files0!Failed(call)
<1>1. fd' = fd /\ call.f \in Name /\ ShownNames' = ShownNames
  BY DEF Returning, NewFd, Named
<1>2. ShownFile = before /\ ShownFile' = file /\ (reply' = IF ret = "failed" THEN "failed" ELSE "ok")
  BY DEF Returning
<1>3. CASE Same \/ Gone
  <2>1. /\ Files0!OnlyIts(call)
        /\ call.g # None => ShownFile'[call.g] = ShownFile[call.g]
        /\ \/ ShownFile'[call.f] = ShownFile[call.f]
           \/ ShownFile'[call.f] = None /\ call.kind \in Files0!Replaces
    BY <1>3, FailedFiles DEF Replacing
  <2>2. Files0!Views(call)
    BY <1>1 DEF Files0!Views
  <2> QED BY <1>1, <1>2, <2>1, <2>2 DEF Files0!Failed
<1>4. CASE call.kind = "truncate" /\ ret = "ok" /\ Got /\ Wrote
  <2>1. /\ before[call.f] # None
        /\ file = [before EXCEPT ![call.f] = Resized(before[call.f], NewSize)]
    BY <1>4 DEF Got, Kept, Wrote, Target, Source
  <2>2. Resized(before[call.f], NewSize)
          = Files0!Resized(before[call.f], IF call.n = 0 THEN 1 ELSE call.n)
    BY DEF NewSize, Resized, Files0!Resized
  <2> DEFINE x == Files0!Resized(before[call.f], IF call.n = 0 THEN 1 ELSE call.n)
  <2>3. file = [before EXCEPT ![call.f] = x] /\ reply' = "ok"
    BY <1>2, <1>4, <2>1, <2>2
  <2> QED BY <1>1, <1>2, <1>4, <2>1, <2>3 DEF Files0!Done
<1>5. CASE /\ call.kind = "rename" /\ ret = "ok" /\ Got /\ New
           /\ \/ Wrote /\ fails > 0
              \/ file = [before EXCEPT ![call.g] = buf, ![call.f] = None]
  <2>1. before[call.f] # None /\ buf = before[call.f] /\ before[call.g] = None /\ reply' = "ok"
    BY <1>2, <1>5 DEF Got, Kept, New, Target
  <2> DEFINE copied == [before EXCEPT ![call.g] = before[call.f]]
  <2>2. file = [copied EXCEPT ![call.f] = None] \/ (fails > 0 /\ file = copied)
    BY <1>5, <2>1 DEF Wrote, Target, Source
  <2> QED BY <1>1, <1>2, <1>5, <2>1, <2>2 DEF Files0!Done
<1> QED BY <1>3, <1>4, <1>5 DEF Returning, Ended

LEMMA ShownReturn == ASSUME MountInv, Return PROVE Files0!Return
<1>1. Returning /\ trouble' = FALSE /\ fails' = fails
  BY ReturnIs DEF Return
<1>2. call # None /\ reply = "none" /\ reply' # "none" /\ call' = call
  BY <1>1 DEF Returning
<1>3. CASE trouble
  <2>1. Files0!OnlyIts(call)
    BY <1>1 DEF Returning, OthersKept, Files0!OnlyIts
  <2>2. \A d \in Fd \ {call.d} : fd'[d] = fd[d]
    <3>1. fd' = NewFd(call) /\ DOMAIN fd = Fd
      BY <1>1 DEF Returning
    <3> QED BY <3>1 DEF NewFd
  <2> QED BY <1>1, <1>2, <1>3, <2>1, <2>2 DEF Files0!Return
<1>4. CASE ~trouble
  <2>1. call.kind \in Kind
    BY <1>1 DEF Returning, Named, Operation
  <2>2. Files0!Done(call) \/ Files0!Failed(call)
    BY <1>1, <1>4, <2>1, ReturnsLooking, ReturnsOpening, ReturnsClosing, ReturnsReplacing
    DEF Kind
  <2> QED BY <1>1, <1>2, <1>4, <2>2 DEF Files0!Return
<1> QED BY <1>3, <1>4

\* To its users nxt_mount is the file system of NxtFiles: what nxtfs_open, create,
\* flush, release, rename, truncate and the others do to the files, command by
\* command and with failures at any of them, is one atomic step that does what the
\* operation is for, or a failure that harms no other file.
THEOREM MountIsFiles == ASSUME IsFiniteSet(Hnd) PROVE Spec => IsFiles
<1>1. Init => Files0!FilesInit
  BY ShownInit
<1>2. MountInv /\ [Next]_vars => [Files0!FilesNext]_Files0!filesVars
  <2> SUFFICES ASSUME MountInv, [Next]_vars PROVE [Files0!FilesNext]_Files0!filesVars
    OBVIOUS
  <2>1. CASE NamedCall \/ DirCall \/ FdCall
    BY <2>1, ShownCall DEF Files0!FilesNext
  <2>2. CASE Return
    BY <2>2, ShownReturn DEF Files0!FilesNext
  <2>3. CASE Finish \/ End
    BY <2>3, ShownFinish, ShownEnd DEF Files0!FilesNext
  <2>4. CASE \E d \in Fd : \/ \E n \in Sizes : Ftruncate(d, n)
                           \/ \E off, n \in 0 .. Longest, x \in Data : WriteBuf(d, off, n, x)
    BY <2>4, ShownEdit DEF Files0!FilesNext
  <2>5. CASE \/ OpenRead \/ ReadPart \/ CloseRead \/ OpenWrite \/ WritePart \/ CloseWrite
             \/ FindFirst \/ FindNext \/ CloseFound \/ Remove
    BY <2>5, ShownCommands DEF Files0!FilesNext
  <2>6. CASE UNCHANGED vars
    BY <2>6 DEF vars, brickVars, opVars, ghostVars, Files0!filesVars, ShownFile, ShownNames
  <2> QED BY <2>1, <2>2, <2>3, <2>4, <2>5, <2>6 DEF Next
<1> QED BY <1>1, <1>2, MountHolds, PTL DEF Spec, IsFiles, Files0!FilesSpec
=============================================================================
