--------------------------- MODULE NxtdTableProofs ---------------------------
(***************************************************************************)
(* Proofs about the table of NXTs, for every size of the table and every    *)
(* set of bricks and memory blocks.  IInv is inductive: Initially, and one  *)
(* lemma for each group of actions.  The safety properties follow from it,  *)
(* and so does the refinement of NxtRegistry.                               *)
(***************************************************************************)
EXTENDS NxtdTableProperties, FiniteSetTheorems, TLAPS

\* The initial states satisfy the invariant.
LEMMA Initially == Init => IInv
<1> USE TableAssumption DEF Init, Handle, Dev, ScanPC, SrvPC, Ops
<1> SUFFICES ASSUME Init PROVE IInv
  OBVIOUS
<1>1. TypeOK
  <2>1. /\ list \in [Handle -> Rec \cup {NULL}] /\ live \in [Rec -> BOOLEAN]
        /\ ropen \in [Rec -> BOOLEAN] /\ rdev \in [Rec -> Dev \cup {NULL}]
        /\ opened \in [Rec -> BOOLEAN] /\ named \in [Rec -> BOOLEAN]
    OBVIOUS
  <2>2. refs \in [USBDev -> 0 .. 2] /\ lost \in [USBDev -> 0 .. MaxLost]
    OBVIOUS
  <2>3. 0 \in 0 .. MAXNUM
    OBVIOUS
  <2> QED BY <2>1, <2>2, <2>3 DEF TypeOK
<1>2. ScanLocals /\ DeadClosed /\ Untroubled
  BY DEF ScanLocals, DeadClosed, Untroubled, Suspecting, Searching
<1>3. RefsBalanced
  BY DEF RefsBalanced, OpenRecords, Opening
<1>4. Running
  BY DEF Running, SrvLocals, Locks, SlotsAreLive, NoSharedRecord,
         OneHandlePerBrick, Searched, Packed, Removing, Names, Searching,
         Owned, Failed, Suspecting
<1> QED BY <1>1, <1>2, <1>3, <1>4 DEF IInv

-----------------------------------------------------------------------------
\* The scanner looks the devices it found up in the table; no slot and no
\* record changes.
LEMMA SearchSteps ==
  IInv /\ (
    \/ UsbList \/ UsbDone \/ BtDone \/ BtLock \/ UsbTimeout
    \/ FindSlot \/ FindType \/ FindLoad \/ FindMiss \/ FindHit
    \/ FindNothing \/ ScanCrash
    \/ \E d \in USBDev : UsbNext(d)
    \/ \E d \in BTDev : BtNext(d)
    \/ \E found \in SUBSET BTDev : BtInquire(found))
  => IInv'
<1> USE TableAssumption
    DEF IInv, TypeOK, ScanLocals, RefsBalanced, DeadClosed, Running,
        SrvLocals, Locks, SlotsAreLive, NoSharedRecord, OneHandlePerBrick,
        Searched, Packed, Removing, Names, Clearing, OpenRecords, Opening,
        Searching, Suspecting, Owned, Failed, Untroubled, NoFailure,
        Handle, Dev, ScanPC, SrvPC, Ops, tableVars, heapVars, usbVars,
        scanVars, srvVars, quitVars, ScanStep, NotScanner, Loop
<1>1. ASSUME IInv, UsbList PROVE IInv'
  BY <1>1 DEF UsbList
<1>2. ASSUME IInv, UsbDone PROVE IInv'
  BY <1>2 DEF UsbDone
<1>3. ASSUME IInv, BtDone PROVE IInv'
  BY <1>3 DEF BtDone
<1>4. ASSUME IInv, BtLock PROVE IInv'
  BY <1>4 DEF BtLock
<1>5. ASSUME IInv, UsbTimeout PROVE IInv'
  BY <1>5 DEF UsbTimeout
<1>6. ASSUME IInv, FindSlot PROVE IInv'
  BY <1>6 DEF FindSlot
<1>7. ASSUME IInv, FindMiss PROVE IInv'
  BY <1>7 DEF FindMiss, Matches
<1>8. ASSUME IInv, FindHit PROVE IInv'
  BY <1>8 DEF FindHit, Matches
<1>9. ASSUME IInv, FindNothing PROVE IInv'
  BY <1>9 DEF FindNothing
<1>10. ASSUME IInv, NEW d \in USBDev, UsbNext(d) PROVE IInv'
  BY <1>10 DEF UsbNext
<1>11. ASSUME IInv, NEW d \in BTDev, BtNext(d) PROVE IInv'
  BY <1>11 DEF BtNext
<1>12. ASSUME IInv, NEW found \in SUBSET BTDev, BtInquire(found) PROVE IInv'
  BY <1>12 DEF BtInquire
<1>13. ASSUME IInv, FindType PROVE IInv'
  BY <1>13 DEF FindType
<1>14. ASSUME IInv, FindLoad PROVE IInv'
  BY <1>14 DEF FindLoad
<1>15. ASSUME IInv, ScanCrash PROVE IInv'
  BY <1>15 DEF ScanCrash
<1> QED
  BY <1>1, <1>2, <1>3, <1>4, <1>5, <1>6, <1>7, <1>8, <1>9, <1>10, <1>11, <1>12,
     <1>13, <1>14, <1>15

\* The scanner opens a device, makes a record of it and puts the record into
\* the table.  A block that malloc returns is in no slot, except the one the
\* server is about to clear.
LEMMA AddSteps ==
  IInv /\ (
    \/ UsbOpen \/ UsbOpenFails \/ UsbNameFails \/ BtNameFails
    \/ RegLock \/ RegSlot \/ RegLog \/ RegFull
    \/ \E r \in Rec : UsbName(r)
    \/ \E r \in Rec : BtName(r))
  => IInv'
<1> USE TableAssumption
    DEF IInv, TypeOK, ScanLocals, RefsBalanced, DeadClosed, Running,
        SrvLocals, Locks, SlotsAreLive, NoSharedRecord, OneHandlePerBrick,
        Searched, Packed, Removing, Names, Clearing, OpenRecords, Opening,
        Searching, Suspecting, Owned, Failed, Untroubled, NoFailure,
        Handle, Dev, ScanPC, SrvPC, Ops, tableVars, heapVars, usbVars,
        scanVars, srvVars, quitVars, ScanStep, NotScanner, Loop
<1>1. ASSUME IInv, UsbOpen PROVE IInv'
  <2> USE <1>1 DEF UsbOpen, Claimed
  <2>1. TypeOK'
    <3>1. cur \in USBDev /\ refs[cur] = 0
      OBVIOUS
    <3>2. refs' \in [USBDev -> 0 .. 2]
      BY <3>1
    <3> QED BY ONLY <1>1, <3>2
            DEF TypeOK, IInv, UsbOpen, ScanStep, ScanPC, NotScanner, tableVars,
                heapVars, srvVars, quitVars
  <2>2. ScanLocals'
    OBVIOUS
  <2>3. DeadClosed' /\ Untroubled'
    OBVIOUS
  <2>4. RefsBalanced'
    OBVIOUS
  <2>5. quitting' = "no" => Running'
    OBVIOUS
  <2> QED BY ONLY <2>1, <2>2, <2>3, <2>4, <2>5 DEF IInv
<1>2. ASSUME IInv, UsbOpenFails PROVE IInv'
  BY <1>2 DEF UsbOpenFails
<1>3. ASSUME IInv, UsbNameFails PROVE IInv'
  BY <1>3 DEF UsbNameFails
<1>4. ASSUME IInv, BtNameFails PROVE IInv'
  BY <1>4 DEF BtNameFails
<1>5. ASSUME IInv, RegLock PROVE IInv'
  BY <1>5 DEF RegLock
<1>6. ASSUME IInv, RegSlot PROVE IInv'
  <2> USE <1>6 DEF RegSlot
  <2>1. (TypeOK /\ ScanLocals /\ RefsBalanced /\ DeadClosed /\ Untroubled)'
    OBVIOUS
  <2>2. quitting' = "no" => (SrvLocals /\ Locks)'
    OBVIOUS
  <2>3. quitting' = "no" => (SlotsAreLive /\ NoSharedRecord)'
    OBVIOUS
  <2>4. quitting' = "no" => (OneHandlePerBrick /\ Searched /\ Packed)'
    OBVIOUS
  <2>5. quitting' = "no" => (Owned /\ Failed /\ twice = {})'
    OBVIOUS
  <2> QED BY ONLY <2>1, <2>2, <2>3, <2>4, <2>5 DEF IInv, Running
<1>7. ASSUME IInv, RegFull PROVE IInv'
  BY <1>7 DEF RegFull, AfterReg
<1>8. ASSUME IInv, NEW r \in Rec, UsbName(r) PROVE IInv'
  <2> USE <1>8 DEF UsbName, Alloc
  <2>1. TypeOK'
    BY SMTT(60)
  <2>2. ScanLocals'
    OBVIOUS
  <2>3. DeadClosed' /\ Untroubled'
    OBVIOUS
  <2>4. RefsBalanced'
    OBVIOUS
  <2>5. quitting' = "no" =>
          (SrvLocals /\ Locks /\ SlotsAreLive /\ NoSharedRecord)'
    OBVIOUS
  <2>6. quitting' = "no" => (OneHandlePerBrick /\ Searched /\ Packed)'
    OBVIOUS
  <2>7. quitting' = "no" => (Owned /\ Failed /\ twice = {})'
    <3> SUFFICES ASSUME quitting = "no"
                 PROVE  (Owned /\ Failed /\ twice = {})'
      OBVIOUS
    <3>1. spc \in {"unset", "name", "free"} => r # list[si]
      OBVIOUS
    <3>2. Suspecting /\ failed # NULL => r # list[si]
      OBVIOUS
    <3>3. Owned'
      BY <3>1
    <3> QED BY <3>2, <3>3
  <2> QED BY ONLY <2>1, <2>2, <2>3, <2>4, <2>5, <2>6, <2>7 DEF IInv, Running
<1>9. ASSUME IInv, NEW r \in Rec, BtName(r) PROVE IInv'
  <2> USE <1>9 DEF BtName, Alloc
  <2>1. TypeOK'
    BY SMTT(60)
  <2>2. ScanLocals'
    OBVIOUS
  <2>3. DeadClosed' /\ Untroubled'
    OBVIOUS
  <2>4. RefsBalanced'
    OBVIOUS
  <2>5. quitting' = "no" =>
          (SrvLocals /\ Locks /\ SlotsAreLive /\ NoSharedRecord)'
    OBVIOUS
  <2>6. quitting' = "no" => (OneHandlePerBrick /\ Searched /\ Packed)'
    OBVIOUS
  <2>7. quitting' = "no" => (Owned /\ Failed /\ twice = {})'
    <3> SUFFICES ASSUME quitting = "no"
                 PROVE  (Owned /\ Failed /\ twice = {})'
      OBVIOUS
    <3>1. spc \in {"unset", "name", "free"} => r # list[si]
      OBVIOUS
    <3>2. Suspecting /\ failed # NULL => r # list[si]
      OBVIOUS
    <3>3. Owned'
      BY <3>1
    <3> QED BY <3>2, <3>3
  <2> QED BY ONLY <2>1, <2>2, <2>3, <2>4, <2>5, <2>6, <2>7 DEF IInv, Running
<1>10. ASSUME IInv, RegLog PROVE IInv'
  BY <1>10 DEF RegLog, AfterReg
<1> QED BY <1>1, <1>2, <1>3, <1>4, <1>5, <1>6, <1>7, <1>8, <1>9, <1>10

-----------------------------------------------------------------------------
\* A transfer opens at most a Bluetooth record, so the USB references stay
\* balanced, and it marks what it opens.
LEMMA TransferKeepsRefs ==
  ASSUME TypeOK, RefsBalanced, DeadClosed,
         NEW r \in Rec, live[r], NEW ok \in BOOLEAN, Transfer(r, ok),
         UNCHANGED <<live, rdev, named, refs, cpc, cur>>
  PROVE  /\ ropen' \in [Rec -> BOOLEAN] /\ opened' \in [Rec -> BOOLEAN]
         /\ RefsBalanced' /\ DeadClosed'
         /\ \A x \in Rec :
              (ropen[x] <=> opened[x]) => (ropen'[x] <=> opened'[x])
<1>1. CASE UNCHANGED <<ropen, opened>>
  BY <1>1 DEF TypeOK, RefsBalanced, DeadClosed, OpenRecords, Opening
<1>2. CASE /\ rdev[r] \in BTDev
           /\ ropen' = [ropen EXCEPT ![r] = TRUE]
           /\ opened' = [opened EXCEPT ![r] = TRUE]
  <2>1. ropen' \in [Rec -> BOOLEAN] /\ opened' \in [Rec -> BOOLEAN]
    BY <1>2 DEF TypeOK
  <2>2. DeadClosed'
    BY <1>2 DEF TypeOK, DeadClosed
  <2>3. \A d \in USBDev : OpenRecords(d)' = OpenRecords(d)
    BY <1>2, TableAssumption DEF TypeOK, OpenRecords
  <2>4. RefsBalanced'
    BY <2>3 DEF RefsBalanced, Opening
  <2>5. \A x \in Rec : (ropen[x] <=> opened[x]) => (ropen'[x] <=> opened'[x])
    BY <1>2 DEF TypeOK
  <2> QED BY <2>1, <2>2, <2>4, <2>5
<1> QED BY <1>1, <1>2 DEF Transfer

\* The server thread takes a request, walks the table or moves data.
LEMMA RequestSteps ==
  IInv /\ (
    \/ ListLock \/ ListSkip \/ ListDone \/ IoLock \/ IoUnlock
    \/ \E op \in Ops, h \in Handle : Request(op, h)
    \/ \E ok \in BOOLEAN : ListKeepalive(ok)
    \/ \E ok \in BOOLEAN : Io(ok))
  => IInv'
<1> USE TableAssumption
    DEF IInv, TypeOK, ScanLocals, RefsBalanced, DeadClosed, Running,
        SrvLocals, Locks, SlotsAreLive, NoSharedRecord, OneHandlePerBrick,
        Searched, Packed, Removing, Names, Clearing, OpenRecords, Opening,
        Searching, Suspecting, Owned, Failed, Untroubled, NoFailure,
        Handle, Dev, ScanPC, SrvPC, Ops, tableVars, heapVars, usbVars,
        scanVars, srvVars, quitVars, SrvStep, NotServer, Done
<1>1. ASSUME IInv, ListLock PROVE IInv'
  BY <1>1 DEF ListLock
<1>2. ASSUME IInv, ListSkip PROVE IInv'
  BY <1>2 DEF ListSkip
<1>3. ASSUME IInv, ListDone PROVE IInv'
  BY <1>3 DEF ListDone
<1>4. ASSUME IInv, IoLock PROVE IInv'
  BY <1>4 DEF IoLock
<1>5. ASSUME IInv, IoUnlock PROVE IInv'
  BY <1>5 DEF IoUnlock
<1>6. ASSUME IInv, NEW op \in Ops, NEW h \in Handle, Request(op, h) PROVE IInv'
  BY <1>6 DEF Request
<1>7. ASSUME IInv, NEW ok \in BOOLEAN, ListKeepalive(ok) PROVE IInv'
  <2> USE <1>7 DEF ListKeepalive, Outcome
  <2>1. list[si] \in Rec /\ live[list[si]] /\ rdev[list[si]] = Names(si)
    OBVIOUS
  <2>2. /\ ropen' \in [Rec -> BOOLEAN] /\ opened' \in [Rec -> BOOLEAN]
        /\ RefsBalanced' /\ DeadClosed'
        /\ \A x \in Rec :
             (ropen[x] <=> opened[x]) => (ropen'[x] <=> opened'[x])
    BY <2>1, TransferKeepsRefs
  <2>3. (SrvLocals /\ Locks /\ SlotsAreLive /\ NoSharedRecord)'
    OBVIOUS
  <2>4. rdev[list[si]] \in Dev
    BY ONLY <1>7, <2>1 DEF IInv, TypeOK, DeadClosed
  <2>5. TypeOK' /\ ScanLocals' /\ Untroubled'
    <3>1. si' \in 0 .. MAXNUM /\ packed' \in SUBSET (Handle \X Dev)
      BY <2>4
    <3>4. /\ failed' \in Dev \cup {NULL} /\ trouble' \in BOOLEAN
          /\ spc' \in SrvPC
      <4>1. failed' \in Dev \cup {NULL} /\ spc' \in SrvPC
        BY <2>4
      <4>2. trouble' = trouble \/ trouble' = TRUE
        BY ONLY <1>7 DEF ListKeepalive, Outcome, NoFailure
      <4>3. trouble \in BOOLEAN
        BY ONLY <1>7 DEF IInv, TypeOK
      <4>4. trouble' \in BOOLEAN
        BY ONLY <4>2, <4>3, Zenon
      <4> QED BY ONLY <4>1, <4>4
    <3>3. TypeOK'
      BY ONLY <1>7, <2>2, <3>1, <3>4
      DEF ListKeepalive, NotServer, tableVars, usbVars, scanVars, quitVars,
          IInv, TypeOK
    <3>2. ScanLocals' /\ Untroubled'
      OBVIOUS
    <3> QED BY <3>2, <3>3
  <2>6. OneHandlePerBrick' /\ Searched' /\ Failed' /\ (twice = {})'
    BY <2>4
  <2>7. Packed'
    BY SMTT(60), <2>1, <2>4
  <2>8. Owned'
    <3>1. /\ live' = live /\ named' = named /\ spc' \in {"list", "remove"}
          /\ \A x \in Rec : live[x] => (ropen'[x] <=> opened'[x])
      BY ONLY <1>7, <2>2
      DEF ListKeepalive, SrvStep, IInv, Running, Owned
    <3> QED BY <3>1
  <2> QED BY <2>2, <2>3, <2>5, <2>6, <2>7, <2>8
<1>8. ASSUME IInv, NEW ok \in BOOLEAN, Io(ok) PROVE IInv'
  <2> USE <1>8 DEF Io, Outcome
  <2>1. list[si] # NULL => list[si] \in Rec /\ live[list[si]]
    OBVIOUS
  <2>2. /\ ropen' \in [Rec -> BOOLEAN] /\ opened' \in [Rec -> BOOLEAN]
        /\ RefsBalanced' /\ DeadClosed'
        /\ \A x \in Rec :
             (ropen[x] <=> opened[x]) => (ropen'[x] <=> opened'[x])
    BY <2>1, TransferKeepsRefs
  <2>3. TypeOK' /\ ScanLocals' /\ Untroubled'
    <3>3. /\ failed' \in Dev \cup {NULL} /\ trouble' \in BOOLEAN
          /\ spc' \in SrvPC
      <4>1. failed' \in Dev \cup {NULL} /\ spc' \in SrvPC
        BY <2>1
      <4>2. trouble' = trouble \/ trouble' = TRUE
        BY ONLY <1>8 DEF Io, Outcome, NoFailure
      <4>3. trouble \in BOOLEAN
        BY ONLY <1>8 DEF IInv, TypeOK
      <4>4. trouble' \in BOOLEAN
        BY ONLY <4>2, <4>3, Zenon
      <4> QED BY ONLY <4>1, <4>4
    <3>1. TypeOK'
      BY ONLY <1>8, <2>2, <3>3
      DEF Io, NotServer, tableVars, usbVars, scanVars, quitVars, IInv, TypeOK
    <3>2. ScanLocals' /\ Untroubled'
      OBVIOUS
    <3> QED BY <3>1, <3>2
  <2>4. Owned'
    <3>1. /\ live' = live /\ named' = named /\ spc' \in {"io_ok", "io_fail"}
          /\ \A x \in Rec : live[x] => (ropen'[x] <=> opened'[x])
      BY ONLY <1>8, <2>2
      DEF Io, SrvStep, IInv, Running, Owned
    <3> QED BY <3>1
  <2>5. (SrvLocals /\ Locks /\ SlotsAreLive /\ NoSharedRecord)'
    OBVIOUS
  <2>6. (OneHandlePerBrick /\ Searched /\ Packed /\ Failed /\ twice = {})'
    OBVIOUS
  <2> QED BY <2>2, <2>3, <2>4, <2>5, <2>6
<1> QED BY ONLY <1>1, <1>2, <1>3, <1>4, <1>5, <1>6, <1>7, <1>8

-----------------------------------------------------------------------------
\* Giving back a handle releases both references of its device; no record may
\* be freed with its handle open.
LEMMA GiveBackKeeps ==
  ASSUME TypeOK, RefsBalanced,
         NEW r \in Rec, NEW S \in SUBSET What, GiveBack(r, S),
         "memory" \in S /\ opened[r] => "handle" \in S,
         opened[r] => live[r],
         UNCHANGED <<cpc, cur>>
  PROVE  /\ live' \in [Rec -> BOOLEAN] /\ opened' \in [Rec -> BOOLEAN]
         /\ named' \in [Rec -> BOOLEAN] /\ refs' \in [USBDev -> 0 .. 2]
         /\ twice' \in SUBSET (What \X (Dev \cup {NULL}))
         /\ RefsBalanced'
<1> DEFINE d == rdev[r]
<1>1. /\ live' \in [Rec -> BOOLEAN] /\ opened' \in [Rec -> BOOLEAN]
      /\ named' \in [Rec -> BOOLEAN] /\ d \in Dev \cup {NULL}
      /\ UNCHANGED rdev
  BY DEF TypeOK, GiveBack
<1>2. twice' \in SUBSET (What \X (Dev \cup {NULL}))
  BY <1>1 DEF TypeOK, GiveBack
<1>3. \A e \in USBDev, x \in Rec \ {r} :
        x \in OpenRecords(e)' <=> x \in OpenRecords(e)
  BY <1>1 DEF TypeOK, GiveBack, OpenRecords
<1>4. CASE "handle" \in S /\ opened[r] /\ d \in USBDev
  <2> PICK c \in USBDev : c = d
    BY <1>4
  <2>1. r \in OpenRecords(c)
    BY <1>4 DEF OpenRecords
  <2>2. refs[c] = 2 /\ ~Opening(c) /\ \A x \in OpenRecords(c) : x = r
    BY <1>4, <2>1 DEF RefsBalanced
  <2>3. ~opened'[r]
    BY <1>4 DEF TypeOK, GiveBack
  <2>4. \A e \in USBDev : r \notin OpenRecords(e)'
    BY <2>3 DEF OpenRecords
  <2>5. \A e \in USBDev \ {c} : r \notin OpenRecords(e)
    BY DEF OpenRecords
  <2>6. \A e \in USBDev \ {c} : OpenRecords(e)' = OpenRecords(e)
    BY <1>3, <2>4, <2>5 DEF OpenRecords
  <2>7. OpenRecords(c)' = {}
    BY <1>3, <1>4, <2>2, <2>4 DEF OpenRecords
  <2>8. /\ refs' \in [USBDev -> 0 .. 2] /\ refs'[c] = 0
        /\ \A e \in USBDev \ {c} : refs'[e] = refs[e]
    BY <1>4, <2>2 DEF TypeOK, GiveBack
  <2>9. RefsBalanced'
    BY <2>2, <2>6, <2>7, <2>8 DEF RefsBalanced, Opening
  <2> QED BY <1>1, <1>2, <2>8, <2>9
<1>5. CASE ~("handle" \in S /\ opened[r] /\ d \in USBDev)
  <2>1. UNCHANGED refs
    BY <1>5 DEF GiveBack
  <2>2. \A e \in USBDev : r \in OpenRecords(e)' <=> r \in OpenRecords(e)
    BY <1>1, <1>5 DEF TypeOK, GiveBack, OpenRecords
  <2>3. \A e \in USBDev : OpenRecords(e)' = OpenRecords(e)
    BY <1>3, <2>2 DEF OpenRecords
  <2>4. RefsBalanced'
    BY <2>1, <2>3 DEF RefsBalanced, Opening
  <2> QED BY <1>1, <1>2, <2>1, <2>4 DEF TypeOK
<1> QED BY <1>4, <1>5

\* What a step of a removal that closes or frees changes in the record.
LEMMA RemoveGives ==
  ASSUME IInv, quitting = "no", NEW w \in What, GiveBack(list[si], {w}),
         UNCHANGED <<tableVars, present, scanVars, sop, si, packed, quitVars>>,
         spc \in {"close", "name", "free"},
         w = "handle" => opened[list[si]] /\ spc = "close",
         w = "name" => spc = "name", w = "memory" => spc = "free"
  PROVE  /\ list[si] \in Rec /\ live[list[si]] /\ twice' = {}
         /\ live' \in [Rec -> BOOLEAN] /\ opened' \in [Rec -> BOOLEAN]
         /\ named' \in [Rec -> BOOLEAN] /\ refs' \in [USBDev -> 0 .. 2]
         /\ RefsBalanced' /\ UNCHANGED <<rdev, lost>>
         /\ live' = [live EXCEPT ![list[si]] = @ /\ w # "memory"]
         /\ opened' = [opened EXCEPT ![list[si]] = @ /\ w # "handle"]
         /\ named' = [named EXCEPT ![list[si]] = @ /\ w # "name"]
<1>1. /\ si \in Handle /\ list[si] \in Rec /\ live[list[si]]
  BY TableAssumption DEF IInv, TypeOK, Running, SrvLocals, Removing,
     SlotsAreLive, Clearing
<1> DEFINE r == list[si]
<1>2. Has(r, w)
  BY <1>1 DEF What, Has, IInv, Running, Owned
<1>3. w = "memory" => ~opened[r]
  BY <1>1 DEF IInv, Running, Owned
<1>4. {w} \in SUBSET What /\ ("memory" \in {w} <=> w = "memory")
  OBVIOUS
<1>5. TypeOK /\ RefsBalanced /\ UNCHANGED <<cpc, cur>>
  BY DEF IInv, scanVars
<1>6. /\ live' \in [Rec -> BOOLEAN] /\ opened' \in [Rec -> BOOLEAN]
      /\ named' \in [Rec -> BOOLEAN] /\ refs' \in [USBDev -> 0 .. 2]
      /\ RefsBalanced'
  BY <1>1, <1>3, <1>4, <1>5, GiveBackKeeps, Zenon
<1>7. twice' = {}
  BY <1>2 DEF GiveBack, IInv, Running
<1>8. /\ live' = [live EXCEPT ![r] = @ /\ w # "memory"]
      /\ opened' = [opened EXCEPT ![r] = @ /\ w # "handle"]
      /\ named' = [named EXCEPT ![r] = @ /\ w # "name"]
      /\ UNCHANGED <<rdev, lost>>
  BY DEF GiveBack
<1> QED BY <1>1, <1>6, <1>7, <1>8

\* The server thread removes a brick: close, forget the handle, free the name,
\* free the record, clear the slot.
LEMMA RemoveSteps ==
  IInv /\ (
    \/ RemoveNothing \/ RemoveBegin \/ RemoveClose \/ RemoveUnset
    \/ RemoveName \/ RemoveFree \/ RemoveClear)
  => IInv'
<1> USE TableAssumption
    DEF IInv, TypeOK, ScanLocals, RefsBalanced, DeadClosed, Running,
        SrvLocals, Locks, SlotsAreLive, NoSharedRecord, OneHandlePerBrick,
        Searched, Packed, Removing, Names, Clearing, OpenRecords, Opening,
        Searching, Suspecting, Owned, Failed, Untroubled, NoFailure,
        Handle, Dev, ScanPC, SrvPC, Ops, tableVars, heapVars, usbVars,
        scanVars, srvVars, quitVars, SrvStep, NotServer, Done, Removed
<1>1. ASSUME IInv, RemoveNothing PROVE IInv'
  BY <1>1 DEF RemoveNothing
<1>2. ASSUME IInv, RemoveBegin PROVE IInv'
  BY <1>2 DEF RemoveBegin
<1>3. ASSUME IInv, RemoveUnset PROVE IInv'
  <2> USE <1>3 DEF RemoveUnset
  <2>1. list[si] \in Rec /\ live[list[si]] /\ ~opened[list[si]]
    OBVIOUS
  <2>2. TypeOK' /\ ScanLocals' /\ DeadClosed' /\ Untroubled'
    BY <2>1
  <2>3. RefsBalanced'
    OBVIOUS
  <2>4. SrvLocals' /\ Locks' /\ SlotsAreLive' /\ NoSharedRecord'
    OBVIOUS
  <2>5. OneHandlePerBrick' /\ Searched' /\ Packed' /\ (twice = {})'
    OBVIOUS
  <2>6. Owned' /\ Failed'
    BY <2>1
  <2> QED BY <2>2, <2>3, <2>4, <2>5, <2>6
<1>4. ASSUME IInv, RemoveClear PROVE IInv'
  BY <1>4 DEF RemoveClear
<1>5. ASSUME IInv, RemoveClose, ~ropen[list[si]] PROVE IInv'
  BY <1>5 DEF RemoveClose
<1>6. ASSUME IInv, RemoveClose, ropen[list[si]] PROVE IInv'
  <2> USE <1>6 DEF RemoveClose
  <2>1. opened[list[si]]
    OBVIOUS
  <2>2. /\ list[si] \in Rec /\ live[list[si]] /\ twice' = {}
        /\ live' \in [Rec -> BOOLEAN] /\ opened' \in [Rec -> BOOLEAN]
        /\ named' \in [Rec -> BOOLEAN] /\ refs' \in [USBDev -> 0 .. 2]
        /\ RefsBalanced' /\ UNCHANGED <<rdev, lost>>
        /\ live' = [live EXCEPT ![list[si]] = @ /\ "handle" # "memory"]
        /\ opened' = [opened EXCEPT ![list[si]] = @ /\ "handle" # "handle"]
        /\ named' = [named EXCEPT ![list[si]] = @ /\ "handle" # "name"]
    BY <2>1, RemoveGives DEF What
  <2>3. TypeOK' /\ ScanLocals' /\ DeadClosed' /\ Untroubled'
    BY <2>2
  <2>4. SrvLocals' /\ Locks' /\ SlotsAreLive' /\ NoSharedRecord'
    BY <2>2
  <2>5. OneHandlePerBrick' /\ Searched' /\ Packed'
    BY <2>2
  <2>6. Owned'
    <3>1. \A x \in Rec : x # list[si] =>
            /\ (live'[x] <=> live[x]) /\ (named'[x] <=> named[x])
            /\ (opened'[x] <=> opened[x])
      BY <2>2
    <3>2. ~opened'[list[si]] /\ (named'[list[si]] <=> named[list[si]])
      <4>1. opened \in [Rec -> BOOLEAN] /\ named \in [Rec -> BOOLEAN]
        OBVIOUS
      <4>2. ~opened'[list[si]]
        BY ONLY <2>2, <4>1
      <4>3. named'[list[si]] <=> named[list[si]]
        BY ONLY <2>2, <4>1
      <4> QED BY ONLY <4>2, <4>3
    <3>3. /\ spc = "close" /\ spc' = "unset" /\ UNCHANGED <<list, si, ropen>>
      OBVIOUS
    <3> QED BY ONLY <1>6, <2>2, <3>1, <3>2, <3>3
            DEF IInv, Running, Owned, RemoveClose, SrvStep
  <2>7. Failed'
    BY <2>2
  <2> QED BY <2>2, <2>3, <2>4, <2>5, <2>6, <2>7
<1>7. ASSUME IInv, RemoveName PROVE IInv'
  <2> USE <1>7 DEF RemoveName
  <2>2. /\ list[si] \in Rec /\ live[list[si]] /\ twice' = {}
        /\ live' \in [Rec -> BOOLEAN] /\ opened' \in [Rec -> BOOLEAN]
        /\ named' \in [Rec -> BOOLEAN] /\ refs' \in [USBDev -> 0 .. 2]
        /\ RefsBalanced' /\ UNCHANGED <<rdev, lost>>
        /\ live' = [live EXCEPT ![list[si]] = @ /\ "name" # "memory"]
        /\ opened' = [opened EXCEPT ![list[si]] = @ /\ "name" # "handle"]
        /\ named' = [named EXCEPT ![list[si]] = @ /\ "name" # "name"]
    BY RemoveGives DEF What
  <2>3. TypeOK' /\ ScanLocals' /\ DeadClosed' /\ Untroubled'
    BY <2>2
  <2>4. SrvLocals' /\ Locks' /\ SlotsAreLive' /\ NoSharedRecord'
    BY <2>2
  <2>5. OneHandlePerBrick' /\ Searched' /\ Packed'
    BY <2>2
  <2>6. Owned'
    BY <2>2
  <2>7. Failed'
    BY <2>2
  <2> QED BY <2>2, <2>3, <2>4, <2>5, <2>6, <2>7
<1>8. ASSUME IInv, RemoveFree PROVE IInv'
  <2> USE <1>8 DEF RemoveFree
  <2>2. /\ list[si] \in Rec /\ live[list[si]] /\ twice' = {}
        /\ live' \in [Rec -> BOOLEAN] /\ opened' \in [Rec -> BOOLEAN]
        /\ named' \in [Rec -> BOOLEAN] /\ refs' \in [USBDev -> 0 .. 2]
        /\ RefsBalanced' /\ UNCHANGED <<rdev, lost>>
        /\ live' = [live EXCEPT ![list[si]] = @ /\ "memory" # "memory"]
        /\ opened' = [opened EXCEPT ![list[si]] = @ /\ "memory" # "handle"]
        /\ named' = [named EXCEPT ![list[si]] = @ /\ "memory" # "name"]
    BY RemoveGives DEF What
  <2>3. TypeOK' /\ ScanLocals' /\ DeadClosed' /\ Untroubled'
    BY <2>2
  <2>4. SrvLocals' /\ Locks' /\ SlotsAreLive' /\ NoSharedRecord'
    BY <2>2
  <2>5. OneHandlePerBrick' /\ Searched' /\ Packed'
    BY <2>2
  <2>6. Owned'
    <3>1. ASSUME NEW x \in Rec, live'[x] PROVE x # list[si] /\ live[x]
      BY <2>2, <3>1
    <3>2. \A x \in Rec : x # list[si] =>
            /\ (named'[x] <=> named[x]) /\ (opened'[x] <=> opened[x])
            /\ ropen'[x] = ropen[x]
      BY <2>2
    <3>3. spc = "free" /\ spc' = "clear" /\ list' = list /\ si' = si
      OBVIOUS
    <3> QED BY ONLY <1>8, <3>1, <3>2, <3>3
            DEF IInv, Running, Owned, RemoveFree, SrvStep
  <2>7. Failed'
    BY <2>2
  <2> QED BY <2>2, <2>3, <2>4, <2>5, <2>6, <2>7
<1> QED BY <1>1, <1>2, <1>3, <1>4, <1>5, <1>6, <1>7, <1>8

-----------------------------------------------------------------------------
\* The exit handler.
LEMMA QuitSteps == ASSUME IInv, Quit PROVE IInv'
<1> USE DEF NotQuit, tableVars, heapVars, usbVars, scanVars, srvVars, quitVars
<1>1. CASE QuitBegin
  BY <1>1 DEF QuitBegin, IInv, TypeOK, ScanLocals, RefsBalanced, DeadClosed,
              OpenRecords, Opening, Untroubled, Suspecting, Searching
<1>2. CASE QuitClose
  <2>1. /\ qi \in Handle /\ qi' \in 0 .. MAXNUM /\ quitting = "closing"
        /\ quitting' = "closing"
        /\ UNCHANGED <<list, mutex, present, cpc, todo, held, cur, ci, crec,
                       spc, sop, si, packed, failed, trouble, quitting>>
    BY <1>2, TableAssumption DEF QuitClose, IInv, TypeOK, Handle
  <2>2. CASE list[qi] = NULL
    BY <1>2, <2>1, <2>2
    DEF QuitClose, IInv, TypeOK, ScanLocals, RefsBalanced, DeadClosed,
        OpenRecords, Opening, Untroubled, Suspecting, Searching
  <2>3. CASE list[qi] # NULL
    <3> DEFINE r == list[qi]
               S == IF ropen[r] THEN What ELSE What \ {"handle"}
    <3>1. r \in Rec
      BY <2>1, <2>3 DEF IInv, TypeOK
    <3>2. GiveBack(r, S) /\ ropen' = [ropen EXCEPT ![r] = FALSE]
      BY <1>2, <2>3 DEF QuitClose
    <3>3. (opened[r] => ropen[r] /\ live[r]) /\ S \in SUBSET What
      BY <3>1 DEF IInv, TypeOK, DeadClosed, What
    <3>4. opened[r] => "handle" \in S
      BY <3>3 DEF What
    <3>5. TypeOK /\ RefsBalanced /\ UNCHANGED <<cpc, cur>>
      BY <2>1 DEF IInv
    <3>6. /\ live' \in [Rec -> BOOLEAN] /\ opened' \in [Rec -> BOOLEAN]
          /\ named' \in [Rec -> BOOLEAN] /\ refs' \in [USBDev -> 0 .. 2]
          /\ twice' \in SUBSET (What \X (Dev \cup {NULL}))
          /\ RefsBalanced'
      <4> HIDE DEF r, S
      <4> QED BY <3>1, <3>2, <3>3, <3>4, <3>5, GiveBackKeeps, Zenon
    <3>7. UNCHANGED <<rdev, lost>>
      BY <3>2 DEF GiveBack
    <3>8. TypeOK'
      BY <2>1, <3>1, <3>2, <3>6, <3>7 DEF IInv, TypeOK
    <3>9. ScanLocals' /\ Untroubled'
      BY <2>1 DEF IInv, ScanLocals, Untroubled, Suspecting, Searching
    <3>10. DeadClosed'
      BY <3>1, <3>2, <3>3, <3>6 DEF GiveBack, IInv, TypeOK, DeadClosed, What
    <3> QED BY <2>1, <3>6, <3>8, <3>9, <3>10 DEF IInv
  <2> QED BY <2>2, <2>3
<1>3. CASE QuitDone
  BY <1>3 DEF QuitDone, IInv, TypeOK, ScanLocals, RefsBalanced, DeadClosed,
              OpenRecords, Opening, Untroubled, Suspecting, Searching
<1>4. CASE Ended
  BY <1>4 DEF Ended, vars, IInv, TypeOK, ScanLocals, RefsBalanced, DeadClosed,
              OpenRecords, Opening, Running, SrvLocals, Locks, SlotsAreLive,
              NoSharedRecord, OneHandlePerBrick, Searched, Packed, Removing,
              Names, Clearing, Searching, Suspecting, Owned, Failed, Untroubled
<1> QED BY <1>1, <1>2, <1>3, <1>4 DEF Quit

\* Bricks come and go.
LEMMA BrickSteps == ASSUME IInv, Bricks PROVE IInv'
<1>1. /\ present' \in SUBSET Dev
      /\ UNCHANGED <<tableVars, heapVars, usbVars, scanVars, srvVars, quitVars>>
  BY DEF Bricks, Attach, Detach, IInv, TypeOK
<1> QED
  BY <1>1
  DEF tableVars, heapVars, usbVars, scanVars, srvVars, quitVars, IInv, TypeOK,
      ScanLocals, RefsBalanced, DeadClosed, Running, SrvLocals, Locks,
      SlotsAreLive, NoSharedRecord, OneHandlePerBrick, Searched, Packed,
      Removing, Names, Clearing, OpenRecords, Opening, Searching, Suspecting,
      Owned, Failed, Untroubled

-----------------------------------------------------------------------------
\* IInv is an invariant of the two threads, however they interleave.
THEOREM Invariance == Spec => []IInv
<1>1. IInv /\ [Next]_vars => IInv'
  <2> SUFFICES ASSUME IInv, [Next]_vars PROVE IInv'
    OBVIOUS
  <2>1. CASE Scan
    BY <2>1, SearchSteps, AddSteps DEF Scan
  <2>2. CASE Serve \/ Requests
    BY <2>2, RequestSteps, RemoveSteps DEF Serve, Requests
  <2>3. CASE Quit
    BY <2>3, QuitSteps
  <2>4. CASE Bricks
    BY <2>4, BrickSteps
  <2>5. CASE UNCHANGED vars
    BY <2>5
    DEF vars, tableVars, heapVars, usbVars, scanVars, srvVars, quitVars, IInv,
        TypeOK, ScanLocals, RefsBalanced, DeadClosed, Running, SrvLocals,
        Locks, SlotsAreLive, NoSharedRecord, OneHandlePerBrick, Searched,
        Packed, Removing, Names, Clearing, OpenRecords, Opening, Searching,
        Suspecting, Owned, Failed, Untroubled
  <2> QED BY <2>1, <2>2, <2>3, <2>4, <2>5 DEF Next
<1> QED BY Initially, <1>1, PTL DEF Spec

\* Every variable keeps its type; in particular no reference count of a USB
\* device becomes negative or exceeds two.
THEOREM TypeCorrectness == Spec => []TypeOK
<1>1. IInv => TypeOK
  BY DEF IInv
<1> QED BY <1>1, Invariance, PTL

\* A slot points to freed memory only while the server thread is about to
\* clear it.
THEOREM NoDanglingSlot == Spec => []SlotsAreLive
<1>1. IInv => SlotsAreLive
  BY DEF IInv, Running, SlotsAreLive
<1> QED BY <1>1, Invariance, PTL

\* A brick has at most one handle.
THEOREM UniqueHandle == Spec => []OneHandlePerBrick
<1>1. IInv => OneHandlePerBrick
  BY DEF IInv, Running, OneHandlePerBrick
<1> QED BY <1>1, Invariance, PTL

\* While nxtd runs and while it exits, the references it holds on a USB device
\* are those of its open handles, step by step of a removal.
THEOREM BalancedReferences == Spec => []RefsBalanced
<1>1. IInv => RefsBalanced
  BY DEF IInv
<1> QED BY <1>1, Invariance, PTL

\* A search without the mutex reads through an emptied slot only after some
\* transfer has failed.
THEOREM SearchesAreSafe == Spec => []CrashOnlyAfterFailure
<1>1. IInv => CrashOnlyAfterFailure
  BY DEF IInv, Untroubled, CrashOnlyAfterFailure
<1> QED BY <1>1, Invariance, PTL

\* No step of nxtd makes a brick appear or disappear.
LEMMA OnlyBricksMove ==
  Scan \/ Serve \/ Requests \/ Quit => UNCHANGED present
<1>1. Scan => UNCHANGED present
  BY DEF Scan, NotScanner, UsbList, UsbDone, FindSlot, FindType, FindLoad,
         FindMiss, FindHit, FindNothing, ScanCrash, UsbOpen, UsbOpenFails,
         UsbNameFails, BtDone, BtLock, BtNameFails, RegLock, RegSlot, RegLog,
         RegFull, UsbTimeout, UsbNext, BtNext, UsbName, BtName, BtInquire
<1>2. Serve \/ Requests => UNCHANGED present
  BY DEF Serve, Requests, NotServer, ListLock, ListSkip, ListDone, IoLock,
         IoUnlock, Request, ListKeepalive, Io, RemoveNothing, RemoveBegin,
         RemoveClose, RemoveUnset, RemoveName, RemoveFree, RemoveClear
<1>3. Quit => UNCHANGED present
  BY DEF Quit, NotQuit, QuitBegin, QuitClose, QuitDone, Ended, vars
<1> QED BY <1>1, <1>2, <1>3

\* A USB device object that nxtd looks at or has open is never reused for
\* another device, so nxtd_usb_finddev may compare pointers, unless the exit
\* handler has closed its handle a second time.
THEOREM PointersAreDevices == Spec => PointersStayValid
<1> DEFINE Reused(d) == d \in present' /\ d \notin present
<1> DEFINE Twice(d) == <<"handle", d>> \in twice
<1>1. ASSUME IInv, [Next]_vars, NEW d \in USBDev, Reused(d), ~Twice(d)
      PROVE  ~InHand(d)
  <2>1. Attach(d)
    <3>1. ~(Scan \/ Serve \/ Requests \/ Quit)
      BY <1>1, OnlyBricksMove
    <3> QED BY <1>1, <3>1 DEF Next, Bricks, Attach, Detach, vars
  <2>2. refs[d] = 0 /\ d \notin held
    BY <1>1, <2>1 DEF Attach
  <2>3. OpenRecords(d) = {}
    BY <1>1, <2>2 DEF IInv, RefsBalanced
  <2>4. d \notin todo /\ d # cur
    BY <1>1, <2>2 DEF IInv, ScanLocals
  <2> QED BY <2>3, <2>4 DEF InHand
<1>2. IInv /\ [Next]_vars =>
        [\A d \in USBDev : Reused(d) => ~InHand(d) \/ Twice(d)]_vars
  BY <1>1
<1> QED BY <1>2, Invariance, PTL DEF Spec, PointersStayValid

-----------------------------------------------------------------------------
(* The refinement.  While nxtd runs, RegSlot registers, a transfer that     *)
(* fails is a failure of its handle, RemoveFree drops, RemoveNothing        *)
(* acquits, ListDone answers, a request asks, and QuitBegin and ScanCrash   *)
(* shut the registry down; every other step leaves the registry as it is.   *)

\* The registry changes only if a slot's name, the answer, what is suspected,
\* or the state of the server thread that hides the answer does.
LEMMA SilentStep ==
  ASSUME \A h \in Handle : Names(h)' = Names(h), RegReply' = RegReply,
         RegSuspect' = RegSuspect, quitting' = quitting
  PROVE  UNCHANGED Registry!regVars
BY DEF RegTable, Registry!regVars

\* What a step of the scanner does to the table, the names in the records
\* and the server thread.
LEMMA ScanFrame ==
  Scan => /\ UNCHANGED <<spc, sop, si, packed, failed>>
          /\ ScanCrash \/ UNCHANGED quitting
          /\ \/ RegSlot /\ list[ci] = NULL
             \/ UNCHANGED list
          /\ \/ UNCHANGED rdev
             \/ \E r \in Rec : ~live[r] /\ rdev' = [rdev EXCEPT ![r] = cur]
<1> USE DEF NotScanner, tableVars, heapVars, srvVars, quitVars
<1>1. ASSUME \/ UsbList \/ UsbDone \/ FindSlot \/ FindType \/ FindLoad
             \/ FindMiss \/ FindHit \/ FindNothing \/ BtDone \/ BtLock
             \/ UsbTimeout
             \/ \E d \in USBDev : UsbNext(d)
             \/ \E d \in BTDev : BtNext(d)
             \/ \E found \in SUBSET BTDev : BtInquire(found)
      PROVE  UNCHANGED <<list, rdev, spc, sop, si, packed, failed, quitting>>
  BY <1>1 DEF UsbList, UsbDone, FindSlot, FindType, FindLoad, FindMiss,
              FindHit, FindNothing, BtDone, BtLock, UsbTimeout, UsbNext,
              BtNext, BtInquire
<1>2. ASSUME \/ UsbOpen \/ UsbOpenFails \/ UsbNameFails \/ BtNameFails
             \/ RegLock \/ RegLog \/ RegFull
      PROVE  UNCHANGED <<list, rdev, spc, sop, si, packed, failed, quitting>>
  BY <1>2 DEF UsbOpen, UsbOpenFails, UsbNameFails, BtNameFails, RegLock,
              RegLog, RegFull
<1>3. ASSUME NEW r \in Rec, UsbName(r) \/ BtName(r)
      PROVE  /\ UNCHANGED <<list, spc, sop, si, packed, failed, quitting>>
             /\ ~live[r] /\ rdev' = [rdev EXCEPT ![r] = cur]
  BY <1>3 DEF UsbName, BtName, Alloc
<1>4. ASSUME RegSlot
      PROVE  /\ UNCHANGED <<rdev, spc, sop, si, packed, failed, quitting>>
             /\ list[ci] = NULL \/ UNCHANGED list
  BY <1>4 DEF RegSlot
<1>5. ASSUME ScanCrash
      PROVE  UNCHANGED <<list, rdev, spc, sop, si, packed, failed>>
  BY <1>5 DEF ScanCrash
<1> QED BY <1>1, <1>2, <1>3, <1>4, <1>5 DEF Scan

\* A step of the scanner registers a brick, crashes nxtd or is silent.
LEMMA ScanRefines ==
  ASSUME IInv, Scan PROVE [Registry!RegNext]_(Registry!regVars)
<1>1. RegReply' = RegReply /\ UNCHANGED <<spc, si, failed>>
  BY ScanFrame DEF RegReply
<1>2. CASE ScanCrash
  <2>1. quitting' = "crashed" /\ RegSuspect' = {}
    BY <1>2 DEF ScanCrash, RegSuspect
  <2>2. RegTable' = [h \in Handle |-> NULL]
    BY <2>1 DEF RegTable
  <2> QED BY <1>1, <2>1, <2>2 DEF Registry!Shutdown, Registry!RegNext
<1> SUFFICES ASSUME ~ScanCrash PROVE [Registry!RegNext]_(Registry!regVars)
  BY <1>2
<1>3. UNCHANGED quitting /\ RegSuspect' = RegSuspect
  BY <1>1, ScanFrame DEF RegSuspect, Suspecting
<1>4. CASE quitting # "no"
  BY <1>1, <1>3, <1>4 DEF RegTable, Registry!regVars
<1>5. CASE quitting = "no" /\ RegSlot /\ list[ci] = NULL
  <2>1. /\ ci \in Handle /\ cur \in Dev /\ crec \in Rec /\ rdev[crec] = cur
        /\ list' = [list EXCEPT ![ci] = crec] /\ UNCHANGED rdev
    BY <1>5, TableAssumption
    DEF RegSlot, ScanStep, heapVars, IInv, TypeOK, ScanLocals, Running,
        Searched, Handle
  <2>2. PICK c \in Handle : c = ci
    BY <2>1
  <2>3. ~Clearing(c) /\ crec # NULL /\ list \in [Handle -> Rec \cup {NULL}]
    BY <1>5, <2>1, <2>2, TableAssumption
    DEF IInv, Running, SrvLocals, Clearing, TypeOK
  <2>4. RegTable[c] = NULL /\ \A h \in Handle : RegTable[h] # cur
    BY <1>5, <2>1, <2>2, TableAssumption
    DEF RegSlot, ScanStep, IInv, Running, Searched, RegTable, Names
  <2>5. Names(c)' = cur /\ \A h \in Handle \ {c} : Names(h)' = Names(h)
    BY <1>1, <2>1, <2>2, <2>3 DEF Names, Clearing
  <2>6. RegTable' = [RegTable EXCEPT ![c] = cur]
    BY <1>3, <1>5, <2>5 DEF RegTable
  <2>7. Registry!Register(c, cur)
    BY <1>1, <1>3, <2>4, <2>6 DEF Registry!Register, Registry!Named
  <2> QED BY <2>1, <2>7 DEF Registry!RegNext
<1>6. CASE quitting = "no" /\ ~(RegSlot /\ list[ci] = NULL)
  <2>1. \A h \in Handle : Names(h)' = Names(h)
    BY <1>1, <1>6, ScanFrame
    DEF Names, Clearing, IInv, TypeOK, Running, SlotsAreLive
  <2> QED BY <1>1, <1>3, <2>1, SilentStep
<1> QED BY <1>4, <1>5, <1>6

\* Most steps of the server thread change nothing that the registry sees.
LEMMA ServeSilent ==
  ASSUME IInv,
         \/ ListLock \/ ListSkip \/ IoLock \/ IoUnlock
         \/ RemoveBegin \/ RemoveClose \/ RemoveUnset \/ RemoveName
         \/ ListKeepalive(TRUE) \/ Io(TRUE)
  PROVE  UNCHANGED Registry!regVars
<1> USE DEF SrvStep, NotServer, tableVars, heapVars, quitVars, GiveBack,
            NoFailure, Outcome
<1>1. UNCHANGED <<list, rdev, sop, quitting, failed>> /\ quitting = "no"
  BY DEF ListLock, ListSkip, IoLock, IoUnlock, RemoveBegin, RemoveClose,
         RemoveUnset, RemoveName, ListKeepalive, Io
<1>2. /\ spc # "clear" /\ spc' # "clear" /\ spc # "idle"
      /\ (sop = "list" => spc' # "idle" /\ spc # "io_ok")
  BY DEF ListLock, ListSkip, IoLock, IoUnlock, RemoveBegin, RemoveClose,
         RemoveUnset, RemoveName, ListKeepalive, Io, Done, IInv, Running,
         SrvLocals
<1>3. sop # "list" => packed' = packed
  BY DEF ListLock, ListSkip, IoLock, IoUnlock, RemoveBegin, RemoveClose,
         RemoveUnset, RemoveName, ListKeepalive, Io, IInv, Running, SrvLocals
<1>4. /\ Suspecting' = Suspecting
      /\ Suspecting => si' = si
  <2>1. \/ spc \notin {"io_fail", "remove", "close", "unset", "name", "free"}
           /\ spc' \notin {"io_fail", "remove", "close", "unset", "name", "free"}
        \/ spc \in {"io_fail", "remove", "close", "unset", "name"}
           /\ spc' \in {"remove", "close", "unset", "name", "free"} /\ si' = si
    BY DEF ListLock, ListSkip, IoLock, IoUnlock, RemoveBegin, RemoveClose,
           RemoveUnset, RemoveName, ListKeepalive, Io, Done
  <2> QED BY <2>1 DEF Suspecting
<1>5. \A h \in Handle : Names(h)' = Names(h)
  BY <1>1, <1>2 DEF Names, Clearing
<1>6. RegReply' = RegReply
  BY <1>1, <1>2, <1>3 DEF RegReply
<1>7. RegSuspect' = RegSuspect
  BY <1>1, <1>4 DEF RegSuspect
<1> QED BY <1>1, <1>5, <1>6, <1>7, SilentStep

\* A transfer that fails, in a LIST, a SEND or a RECV.
LEMMA FailureRefines ==
  ASSUME IInv, ListKeepalive(FALSE) \/ Io(FALSE)
  PROVE  Registry!RegNext
<1> USE DEF SrvStep, NotServer, tableVars, heapVars, quitVars, Outcome
<1>1. /\ si \in Handle /\ quitting = "no" /\ spc \in {"list", "io"}
      /\ spc' \in {"remove", "io_fail"} /\ (spc = "io" => sop = "io")
      /\ UNCHANGED <<list, rdev, si, sop, packed, quitting>>
  <2>1. CASE ListKeepalive(FALSE)
    BY <2>1, TableAssumption DEF ListKeepalive, Handle, IInv, TypeOK
  <2>2. CASE Io(FALSE)
    BY <2>2 DEF Io, IInv, Running, SrvLocals, Removing
  <2> QED BY <2>1, <2>2
<1>2. PICK c \in Handle : c = si
  BY <1>1
<1>3. failed' = Names(c)
  BY <1>1, <1>2, TableAssumption DEF ListKeepalive, Io, Names, Clearing
<1>4. RegTable' = RegTable /\ RegTable[c] = Names(c)
  BY <1>1 DEF RegTable, Names, Clearing
<1>5. RegReply' = RegReply
  BY <1>1 DEF RegReply
<1>6. RegSuspect' = {<<c, RegTable[c]>>}
  BY <1>1, <1>2, <1>3, <1>4 DEF RegSuspect, Suspecting
<1> QED BY <1>4, <1>5, <1>6 DEF Registry!Fail, Registry!RegNext

\* What the server thread removes is what has failed.
LEMMA RemovalRefines ==
  ASSUME IInv, RemoveNothing \/ RemoveFree
  PROVE  Registry!RegNext
<1> USE DEF SrvStep, NotServer, tableVars, heapVars, quitVars, NoFailure
<1>1. /\ si \in Handle /\ quitting = "no" /\ Suspecting
      /\ UNCHANGED <<list, rdev, sop, packed, quitting>>
  BY DEF RemoveNothing, RemoveFree, GiveBack, Suspecting, IInv, Running,
         SrvLocals, Removing
<1>2. PICK c \in Handle : c = si
  BY <1>1
<1>3. RegSuspect = {<<c, failed>>}
  BY <1>1, <1>2 DEF RegSuspect
<1>4. CASE RemoveNothing
  <2>1. spc = "remove" /\ failed = NULL /\ list[c] = NULL /\ sop = "io"
    BY <1>1, <1>2, <1>4
    DEF RemoveNothing, IInv, Running, Failed, SrvLocals, Removing, Ops
  <2>2. spc' = "idle"
    BY <1>4, <2>1 DEF RemoveNothing, Removed, Done
  <2>3. RegTable' = RegTable /\ RegTable[c] = NULL
    BY <1>1, <2>1, <2>2 DEF RegTable, Names, Clearing
  <2>4. RegReply' = RegReply /\ RegSuspect' = {}
    BY <1>1, <2>1, <2>2 DEF RegReply, RegSuspect, Suspecting
  <2>5. Registry!Acquit(c)
    BY <1>3, <2>1, <2>3, <2>4 DEF Registry!Acquit
  <2> QED BY <2>5 DEF Registry!RegNext
<1>5. CASE RemoveFree
  <2>1. spc = "free" /\ spc' = "clear" /\ UNCHANGED si
    BY <1>5 DEF RemoveFree
  <2>2. Names(c)' = NULL /\ \A h \in Handle \ {c} : Names(h)' = Names(h)
    BY <1>1, <1>2, <2>1 DEF Names, Clearing
  <2>3. RegTable' = [RegTable EXCEPT ![c] = NULL]
    BY <1>1, <2>2 DEF RegTable
  <2>4. RegReply' = RegReply /\ RegSuspect' = {}
    BY <1>1, <2>1 DEF RegReply, RegSuspect, Suspecting
  <2>5. failed # NULL => RegTable[c] = failed
    BY <1>1, <1>2, <2>1
    DEF IInv, Running, Failed, RegTable, Names, Clearing
  <2>6. Registry!Drop(c)
    BY <1>3, <2>3, <2>4, <2>5 DEF Registry!Drop
  <2> QED BY <2>6 DEF Registry!RegNext
<1> QED BY <1>4, <1>5

\* A step of the server thread suspects, drops or acquits a brick, asks,
\* answers or is silent.
LEMMA ServeRefines ==
  ASSUME IInv, Serve \/ Requests
  PROVE  [Registry!RegNext]_(Registry!regVars)
<1> USE DEF SrvStep, NotServer, tableVars, heapVars, quitVars, NoFailure
<1>1. CASE RemoveClear
  <2>1. /\ si \in Handle /\ spc = "clear" /\ spc' # "clear" /\ quitting = "no"
        /\ list' = [list EXCEPT ![si] = NULL] /\ sop \in Ops
        /\ spc' = (IF sop = "list" THEN "list" ELSE "idle")
        /\ UNCHANGED <<rdev, sop, packed, quitting>>
    BY <1>1 DEF RemoveClear, Removed, Done, IInv, Running, SrvLocals, Removing
  <2>2. \A h \in Handle : Names(h)' = Names(h)
    BY <2>1 DEF Names, Clearing, IInv, TypeOK
  <2>3. RegReply' = RegReply /\ RegSuspect' = RegSuspect
    BY <2>1 DEF RegReply, RegSuspect, Suspecting
  <2> QED BY <2>1, <2>2, <2>3, SilentStep
<1>2. CASE ListDone
  <2>1. /\ spc = "list" /\ spc' = "idle" /\ si = MAXNUM /\ sop = "list"
        /\ quitting = "no" /\ UNCHANGED <<list, rdev, sop, packed, quitting>>
    BY <1>2 DEF ListDone, Done, IInv, Running, SrvLocals
  <2>2. RegTable' = RegTable /\ RegSuspect' = RegSuspect
    BY <2>1 DEF RegTable, Names, Clearing, RegSuspect, Suspecting
  <2>3. \A h \in Handle : h < si /\ RegTable[h] = Names(h)
    BY <2>1, TableAssumption DEF RegTable, Handle
  <2>4. packed = Registry!Snapshot
    BY <2>1, <2>3 DEF Registry!Snapshot, IInv, Running, Packed
  <2>5. RegReply = NULL /\ RegReply' = Registry!Snapshot
    BY <2>1, <2>4 DEF RegReply
  <2> QED BY <2>2, <2>5 DEF Registry!Answer, Registry!RegNext
<1>3. ASSUME NEW op \in Ops, NEW h \in Handle, Request(op, h)
      PROVE  Registry!Ask
  <2>1. /\ spc = "idle" /\ spc' \in {"list_lock", "io_lock"} /\ sop' = op
        /\ packed' = {} /\ UNCHANGED <<list, rdev, quitting>>
    BY <1>3 DEF Request
  <2>2. RegTable' = RegTable /\ RegSuspect' = RegSuspect
    BY <2>1 DEF RegTable, Names, Clearing, RegSuspect, Suspecting
  <2>3. RegReply' \in {NULL, {}}
    BY <2>1 DEF RegReply
  <2> QED BY <2>2, <2>3 DEF Registry!Ask
<1>4. ASSUME NEW ok \in BOOLEAN, ListKeepalive(ok) \/ Io(ok)
      PROVE  [Registry!RegNext]_(Registry!regVars)
  <2>1. CASE ok = TRUE
    BY ONLY IInv, <1>4, <2>1, ServeSilent
  <2>2. CASE ok = FALSE
    BY ONLY IInv, <1>4, <2>2, FailureRefines
  <2> QED BY <2>1, <2>2
<1>5. CASE \/ ListLock \/ ListSkip \/ IoLock \/ IoUnlock
           \/ RemoveBegin \/ RemoveClose \/ RemoveUnset \/ RemoveName
  BY ONLY IInv, <1>5, ServeSilent
<1>6. CASE RemoveNothing \/ RemoveFree
  BY ONLY IInv, <1>6, RemovalRefines
<1> QED
  BY ONLY Serve \/ Requests, <1>1, <1>2, <1>3, <1>4, <1>5, <1>6
  DEF Serve, Requests, Registry!RegNext

\* The exit handler shuts the registry down; what it does to the slots
\* afterwards is not seen any more.
LEMMA QuitRefines ==
  ASSUME IInv, Quit PROVE [Registry!RegNext]_(Registry!regVars)
<1>1. RegReply' = RegReply
  BY DEF Quit, QuitBegin, QuitClose, QuitDone, Ended, NotQuit, srvVars, vars,
         RegReply
<1>2. CASE QuitBegin
  BY <1>1, <1>2
  DEF QuitBegin, RegTable, RegSuspect, Registry!Shutdown, Registry!RegNext
<1>3. CASE QuitClose \/ QuitDone \/ Ended
  <2>1. quitting # "no" /\ quitting' # "no"
    BY <1>3 DEF QuitClose, QuitDone, Ended, vars, quitVars
  <2> QED BY <1>1, <2>1 DEF RegTable, RegSuspect, Registry!regVars
<1> QED BY <1>2, <1>3 DEF Quit

\* nxtd's table, with its threads, its mutex that is not always taken and its
\* removals step by step, implements the atomic registry, which drops a brick
\* only for a failure of its handle.
THEOREM Refinement == Spec => IsRegistry
<1>1. Init => Registry!RegInit
  BY DEF Init, Registry!RegInit, RegTable, RegReply, RegSuspect, Suspecting,
         Names
<1>2. IInv /\ [Next]_vars => [Registry!RegNext]_(Registry!regVars)
  <2> SUFFICES ASSUME IInv, [Next]_vars
               PROVE  [Registry!RegNext]_(Registry!regVars)
    OBVIOUS
  <2>1. CASE Bricks \/ UNCHANGED vars
    <3>1. UNCHANGED <<list, rdev, spc, sop, si, packed, failed, quitting>>
      BY <2>1 DEF Bricks, Attach, Detach, vars, tableVars, heapVars, srvVars,
                  quitVars
    <3> QED BY <3>1 DEF RegTable, RegReply, RegSuspect, Suspecting, Names,
                        Clearing, Registry!regVars
  <2> QED BY <2>1, ScanRefines, ServeRefines, QuitRefines DEF Next
<1> QED
  BY <1>1, <1>2, Invariance, PTL DEF Spec, IsRegistry, Registry!RegSpec

-----------------------------------------------------------------------------
(***************************************************************************)
(* More about the memory of nxtd: no record is lost by a registration that  *)
(* found the table full, and what the exit handler closes or frees a second *)
(* time is what an interrupted removal had begun with.  Both need more than *)
(* IInv.                                                                   *)
(***************************************************************************)
\* While the scanner looks for a free slot there is one ahead of it.  The slot
\* was free when the scanner took the mutex, and nobody else fills slots.
Room == cpc = "reg" => \E h \in Handle : h >= ci /\ list[h] = NULL
Ample == quitting = "no" /\ Cardinality(Dev) < MAXNUM
OrphanInv == NoOrphan /\ (Ample => Room)

\* What the exit handler has still to give back is there, as far as the removal
\* that the signal interrupted had not come to it: what is marked as open is
\* open; records in use have their names; and the slots still to be closed hold
\* records in use, each in one slot, and not the one that the scanner is about
\* to register.
ToClose ==
  /\ spc # "unset" => \A r \in Rec : ropen[r] => opened[r]
  /\ spc \notin {"free", "clear"} => \A r \in Rec : live[r] => named[r]
  /\ spc # "clear" =>
       /\ \A h \in Handle : h >= qi /\ list[h] # NULL =>
            /\ live[list[h]]
            /\ cpc \in {"reg_lock", "reg"} => list[h] # crec
            /\ \A k \in Handle : k >= qi /\ list[h] = list[k] => h = k
       /\ cpc \in {"reg_lock", "reg"} => live[crec]
ExitInv == TwiceOnlyIfInterrupted /\ (quitting # "no" => ToClose)

-----------------------------------------------------------------------------
(* What the steps do to the slots, to the allocated records and to the     *)
(* record in the scanner's hand.                                           *)

InHandNow == cpc \in {"reg_lock", "reg"}
Taken(r) == /\ ~live[r] /\ live' = [live EXCEPT ![r] = TRUE] /\ crec' = r
            /\ cpc \in {"usb_name", "bt_name"} /\ cpc' = "reg_lock"
            /\ rdev' = [rdev EXCEPT ![r] = cur] /\ UNCHANGED list
            /\ named' = [named EXCEPT ![r] = TRUE]
            /\ \E c \in BOOLEAN : /\ ropen' = [ropen EXCEPT ![r] = c]
                                  /\ opened' = [opened EXCEPT ![r] = c]

\* A step of the scanner crashes nxtd, registers, gives up, allocates, takes
\* the mutex for a registration, or touches no slot and no record.
LEMMA ScanMemory ==
  ASSUME Scan
  PROVE  /\ UNCHANGED <<spc, si, qi, twice>>
         /\ \/ /\ ScanCrash
               /\ UNCHANGED <<list, heapVars>> /\ ~InHandNow /\ ~InHandNow'
            \/ /\ UNCHANGED quitting
               /\ \/ RegSlot
                  \/ RegFull
                  \/ RegLock /\ UNCHANGED <<list, heapVars, crec>>
                  \/ /\ UNCHANGED <<list, heapVars>>
                     /\ ~InHandNow /\ ~InHandNow'
                  \/ \E r \in Rec : Taken(r)
<1> USE DEF NotScanner, tableVars, heapVars, scanVars, srvVars, quitVars,
            ScanStep, Loop, InHandNow
<1>1. ASSUME \/ UsbList \/ UsbDone \/ FindSlot \/ FindType \/ FindLoad
             \/ FindMiss \/ FindHit \/ FindNothing \/ BtDone \/ BtLock
             \/ UsbTimeout
             \/ \E d \in USBDev : UsbNext(d)
             \/ \E d \in BTDev : BtNext(d)
             \/ \E found \in SUBSET BTDev : BtInquire(found)
      PROVE  /\ UNCHANGED <<list, heapVars, spc, si, quitting, qi>>
             /\ ~InHandNow /\ ~InHandNow'
  BY <1>1 DEF UsbList, UsbDone, FindSlot, FindType, FindLoad, FindMiss,
              FindHit, FindNothing, BtDone, BtLock, UsbTimeout, UsbNext,
              BtNext, BtInquire
<1>2. ASSUME \/ UsbOpen \/ UsbOpenFails \/ UsbNameFails \/ BtNameFails
             \/ RegLog
      PROVE  /\ UNCHANGED <<list, heapVars, spc, si, quitting, qi>>
             /\ ~InHandNow /\ ~InHandNow'
  BY <1>2 DEF UsbOpen, UsbOpenFails, UsbNameFails, BtNameFails, RegLog, AfterReg
<1>3. ASSUME NEW r \in Rec, UsbName(r) \/ BtName(r)
      PROVE  UNCHANGED <<spc, si, quitting, qi, twice>> /\ Taken(r)
  BY <1>3 DEF UsbName, BtName, Alloc, Taken
<1>4. ASSUME RegSlot \/ RegFull
      PROVE  UNCHANGED <<spc, si, quitting, qi, twice>>
  BY <1>4 DEF RegSlot, RegFull
<1>5. ASSUME RegLock
      PROVE  UNCHANGED <<list, heapVars, crec, spc, si, quitting, qi>>
  BY <1>5 DEF RegLock
<1>6. ASSUME ScanCrash
      PROVE  /\ UNCHANGED <<list, heapVars, spc, si, qi>>
             /\ ~InHandNow /\ ~InHandNow'
  BY <1>6 DEF ScanCrash
<1> QED BY <1>1, <1>2, <1>3, <1>4, <1>5, <1>6 DEF Scan

\* A step of the server thread frees the record of a slot, clears the slot, or
\* touches neither; it works only while no signal has come.
LEMMA ServeMemory ==
  ASSUME IInv, Serve \/ Requests
  PROVE  /\ quitting = "no" /\ UNCHANGED <<scanVars, quitVars>>
         /\ \/ RemoveFree
            \/ RemoveClear
            \/ UNCHANGED <<list, live, rdev>> /\ spc # "clear" /\ spc' # "clear"
<1> USE DEF SrvStep, NotServer, tableVars, heapVars
<1>1. ASSUME \/ ListLock \/ ListSkip \/ ListDone \/ IoLock \/ IoUnlock
             \/ RemoveNothing \/ RemoveBegin \/ RemoveUnset
             \/ \E ok \in BOOLEAN : ListKeepalive(ok) \/ Io(ok)
             \/ \E op \in Ops, h \in Handle : Request(op, h)
      PROVE  /\ quitting = "no" /\ UNCHANGED <<scanVars, quitVars, list, live, rdev>>
             /\ spc # "clear" /\ spc' # "clear"
  BY <1>1 DEF ListLock, ListSkip, ListDone, IoLock, IoUnlock, RemoveNothing,
              RemoveBegin, RemoveUnset, ListKeepalive, Io, Request, Removed, Done
<1>2. ASSUME RemoveClose \/ RemoveName
      PROVE  /\ quitting = "no" /\ UNCHANGED <<scanVars, quitVars, list, live, rdev>>
             /\ spc # "clear" /\ spc' # "clear"
  BY <1>2 DEF RemoveClose, RemoveName, GiveBack, IInv, TypeOK
<1>3. ASSUME RemoveFree \/ RemoveClear
      PROVE  quitting = "no" /\ UNCHANGED <<scanVars, quitVars>>
  BY <1>3 DEF RemoveFree, RemoveClear
<1> QED BY <1>1, <1>2, <1>3 DEF Serve, Requests

-----------------------------------------------------------------------------
\* With fewer bricks than slots a slot is free when the scanner begins to
\* register: the slots name different bricks, none of them the one to
\* register, and at most one slot is waiting to be cleared.
LEMMA SlotFree ==
  ASSUME IInv, quitting = "no", cpc = "reg_lock",
         IsFiniteSet(Dev), Cardinality(Dev) < MAXNUM
  PROVE  \E h \in Handle : list[h] = NULL
<1> SUFFICES ASSUME \A h \in Handle : list[h] # NULL PROVE FALSE
  OBVIOUS
<1> DEFINE T == (Dev \ {cur}) \cup {NULL}
           f == [h \in Handle |-> Names(h)]
<1>1. cur \in Dev /\ \A h \in Handle : Names(h) # cur
  BY DEF IInv, Running, ScanLocals, Searched
<1>2. f \in [Handle -> T]
  BY <1>1 DEF Names, IInv, TypeOK
<1>3. IsFiniteSet(T) /\ Cardinality(T) = Cardinality(Dev)
  <2>1. /\ IsFiniteSet(Dev \ {cur})
        /\ Cardinality(Dev \ {cur}) = Cardinality(Dev) - 1
    BY <1>1, FS_RemoveElement
  <2>2. NULL \notin Dev \ {cur}
    BY TableAssumption DEF Dev
  <2>3. Cardinality(Dev) \in Nat
    BY FS_CardinalityType
  <2>4. /\ IsFiniteSet((Dev \ {cur}) \cup {NULL})
        /\ Cardinality((Dev \ {cur}) \cup {NULL}) = Cardinality(Dev \ {cur}) + 1
    BY <2>1, <2>2, FS_AddElement, Zenon
  <2> QED BY <2>1, <2>3, <2>4
<1>4. IsFiniteSet(Handle) /\ Cardinality(Handle) = MAXNUM
  BY TableAssumption, FS_Interval DEF Handle
<1>5. PICK h, k \in Handle : h # k /\ f[h] = f[k]
  <2>1. Cardinality(T) < Cardinality(Handle)
    BY <1>3, <1>4
  <2> HIDE DEF T, f
  <2> QED BY <1>2, <1>3, <1>4, <2>1, FS_PigeonHole, Zenon
<1>6. Names(h) = NULL /\ Names(k) = NULL
  BY <1>5 DEF IInv, Running, OneHandlePerBrick
<1>7. Clearing(h) /\ Clearing(k)
  BY <1>6 DEF Names, DeadClosed, IInv, Running, SlotsAreLive, TypeOK
<1> QED BY <1>5, <1>7 DEF Clearing

\* Registering, and allocating a record for it.
LEMMA OrphanScan ==
  ASSUME IInv, OrphanInv, IsFiniteSet(Dev), Scan PROVE OrphanInv'
<1> USE DEF OrphanInv, NoOrphan, Ample, InHandNow
<1>1. UNCHANGED <<spc, si>>
  BY ScanMemory
<1>crash. CASE ScanCrash /\ UNCHANGED <<list, heapVars>> /\ ~InHandNow /\ ~InHandNow'
  BY <1>crash DEF ScanCrash, heapVars
<1> SUFFICES ASSUME UNCHANGED quitting PROVE OrphanInv'
  BY <1>crash, ScanMemory
<1>2. \A h \in Handle : Clearing(h)' <=> Clearing(h)
  BY <1>1 DEF Clearing
<1>3. CASE RegSlot
  <2> USE <1>3 DEF RegSlot, ScanStep, heapVars, Loop
  <2>1. ci \in Handle /\ crec \in Rec /\ UNCHANGED <<live, rdev>>
    BY TableAssumption DEF IInv, TypeOK, ScanLocals, Handle
  <2>2. CASE list[ci] = NULL
    <3>1. list' = [list EXCEPT ![ci] = crec] /\ cpc' \notin {"reg_lock", "reg"}
      BY <2>2
    <3>2. (Ample => Room)'
      BY <2>1, <3>1 DEF Room
    <3>3. ASSUME Ample, NEW r \in Rec, live[r], crec # r
          PROVE  \E h \in Handle : list'[h] = r /\ ~Clearing(h)
      <4>1. PICK h \in Handle : list[h] = r /\ ~Clearing(h)
        BY <3>3
      <4>2. h # ci
        BY <2>2, <4>1, <3>3, TableAssumption
      <4> QED BY <3>1, <4>1, <4>2 DEF IInv, TypeOK
    <3>4. Ample => list'[ci] = crec /\ ~Clearing(ci)
      BY <2>1, <2>2, <3>1 DEF IInv, Running, SrvLocals, Clearing, TypeOK
    <3>5. NoOrphan'
      BY <1>1, <1>2, <2>1, <3>3, <3>4
    <3> QED BY <3>2, <3>5
  <2>3. CASE list[ci] # NULL
    <3>1. UNCHANGED <<list, cpc, crec>> /\ ci' = ci + 1
      BY <2>3 DEF tableVars
    <3>2. (Ample => Room)'
      BY <1>1, <2>1, <2>3, <3>1 DEF Room, Handle
    <3>3. NoOrphan'
      BY <1>1, <1>2, <2>1, <3>1
    <3> QED BY <3>2, <3>3
  <2> QED BY <2>2, <2>3
<1>4. CASE RegFull
  <2>1. /\ UNCHANGED <<live, rdev>> /\ ~Ample
        /\ cpc' \notin {"reg_lock", "reg"}
    BY <1>4, TableAssumption
    DEF RegFull, ScanStep, heapVars, Room, Handle, Loop, AfterReg
  <2> QED BY <1>1, <2>1 DEF Room
<1>5. CASE RegLock /\ UNCHANGED <<list, heapVars, crec>>
  <2>1. cpc = "reg_lock" /\ cpc' = "reg" /\ ci' = 0
    BY <1>5 DEF RegLock, ScanStep, IInv, ScanLocals, Searching
  <2>2. (Ample => Room)'
    BY <1>1, <1>5, <2>1, SlotFree, TableAssumption DEF Room, Handle
  <2> QED BY <1>1, <1>2, <1>5, <2>1, <2>2 DEF heapVars
<1>6. CASE UNCHANGED <<list, heapVars>> /\ ~InHandNow /\ ~InHandNow'
  BY <1>1, <1>2, <1>6 DEF Room, heapVars
<1>7. ASSUME NEW r \in Rec, Taken(r) PROVE OrphanInv'
  <2>1. cur # NULL /\ live \in [Rec -> BOOLEAN] /\ rdev \in [Rec -> Dev \cup {NULL}]
    BY <1>7, TableAssumption DEF Taken, IInv, TypeOK, ScanLocals, Dev
  <2>2. (Ample => Room)'
    BY <1>7, <2>1 DEF Room, Taken
  <2>3. NoOrphan'
    BY <1>1, <1>2, <1>7, <2>1 DEF Taken
  <2> QED BY <2>2, <2>3
<1> QED BY <1>3, <1>4, <1>5, <1>6, <1>7, ScanMemory

\* Freeing a record and clearing its slot.
LEMMA OrphanServe ==
  ASSUME IInv, OrphanInv, Serve \/ Requests PROVE OrphanInv'
<1> USE DEF OrphanInv, NoOrphan, Ample
<1>1. quitting = "no" /\ UNCHANGED <<scanVars, quitVars>>
  BY ServeMemory
<1>2. CASE RemoveFree
  <2>1. /\ si \in Handle /\ list[si] \in Rec /\ UNCHANGED <<list, rdev, si>>
        /\ spc = "free" /\ spc' = "clear"
        /\ live' = [live EXCEPT ![list[si]] = FALSE]
    BY <1>2 DEF RemoveFree, GiveBack, SrvStep, tableVars, IInv, TypeOK,
                Running, SrvLocals, Removing
  <2>2. (Ample => Room)'
    BY <1>1, <2>1 DEF Room, scanVars, quitVars, IInv, TypeOK
  <2>3. ASSUME Ample, NEW r \in Rec, live'[r]
        PROVE  live[r] /\ r # list[si]
    BY <2>1, <2>3 DEF IInv, TypeOK
  <2>4. NoOrphan'
    BY <1>1, <2>1, <2>3 DEF scanVars, quitVars, Clearing
  <2> QED BY <2>2, <2>4
<1>3. CASE RemoveClear
  <2>1. /\ si \in Handle /\ spc = "clear" /\ spc' # "clear"
        /\ list' = [list EXCEPT ![si] = NULL] /\ UNCHANGED <<live, rdev>>
    BY <1>3 DEF RemoveClear, SrvStep, heapVars, Removed, Done, IInv, Running,
                SrvLocals, Removing
  <2>2. (Ample => Room)'
    BY <1>1, <2>1 DEF Room, scanVars, quitVars, IInv, TypeOK
  <2>3. NoOrphan'
    BY <1>1, <2>1 DEF scanVars, quitVars, Clearing, IInv, TypeOK
  <2> QED BY <2>2, <2>3
<1>4. CASE UNCHANGED <<list, live, rdev>> /\ spc # "clear" /\ spc' # "clear"
  BY <1>1, <1>4 DEF Room, scanVars, quitVars, Clearing
<1> QED BY <1>2, <1>3, <1>4, ServeMemory

\* With fewer bricks than slots no record is lost because the table is full:
\* nxtd_usb_scan and nxtd_bt_scan may ignore what nxtd_nxt_reg returns.
THEOREM NoLostRecord ==
  ASSUME IsFiniteSet(Dev) PROVE Spec => []NoOrphan
<1>1. Init => OrphanInv
  BY DEF Init, OrphanInv, NoOrphan, Room
<1>2. IInv /\ OrphanInv /\ [Next]_vars => OrphanInv'
  <2> SUFFICES ASSUME IInv, OrphanInv, [Next]_vars PROVE OrphanInv'
    OBVIOUS
  <2>1. CASE Scan
    BY <2>1, OrphanScan
  <2>2. CASE Serve \/ Requests
    BY <2>2, OrphanServe
  <2>3. CASE Quit
    <3>1. /\ quitting' # "no" /\ UNCHANGED rdev
          /\ \A r \in Rec : live'[r] => live[r]
      BY <2>3 DEF Quit, QuitBegin, QuitClose, QuitDone, Ended, vars, heapVars,
                  quitVars, IInv, TypeOK, GiveBack
    <3> QED BY <3>1 DEF OrphanInv, NoOrphan, Ample
  <2>4. CASE Bricks \/ UNCHANGED vars
    <3>1. UNCHANGED <<tableVars, heapVars, scanVars, srvVars, quitVars>>
      BY <2>4 DEF Bricks, Attach, Detach, vars
    <3> QED BY <3>1 DEF tableVars, heapVars, scanVars, srvVars, quitVars,
                        OrphanInv, NoOrphan, Ample, Room, Clearing
  <2> QED BY <2>1, <2>2, <2>3, <2>4 DEF Next
<1>3. OrphanInv => NoOrphan
  BY DEF OrphanInv
<1> QED BY <1>1, <1>2, <1>3, Invariance, PTL DEF Spec

-----------------------------------------------------------------------------
\* Whatever ends nxtd, a signal or a crash, finds everything still to be closed
\* in place, but for the removal that it interrupts.
LEMMA AtEnd == ASSUME IInv, quitting = "no" PROVE ToClose
<1>1. /\ list \in [Handle -> Rec \cup {NULL}] /\ NULL \notin Rec
      /\ opened \in [Rec -> BOOLEAN] /\ ropen \in [Rec -> BOOLEAN]
      /\ named \in [Rec -> BOOLEAN]
  BY TableAssumption DEF IInv, TypeOK
<1>2. spc # "clear" => \A h \in Handle : ~Clearing(h)
  BY DEF Clearing
<1>3. spc # "unset" => \A r \in Rec : ropen[r] => opened[r]
  <2>1. ASSUME spc # "unset", NEW r \in Rec, ropen[r] PROVE opened[r]
    <3>1. live[r]
      BY <2>1 DEF IInv, DeadClosed
    <3> QED BY <1>1, <2>1, <3>1 DEF IInv, Running, Owned
  <2> QED BY <2>1
<1>4. spc \notin {"free", "clear"} => \A r \in Rec : live[r] => named[r]
  BY <1>1 DEF IInv, Running, Owned
<1> QED BY <1>1, <1>2, <1>3, <1>4
        DEF ToClose, IInv, Running, SlotsAreLive, NoSharedRecord, Searched

\* The scanner goes on while the exit handler runs: it may be given a record
\* that was just freed, but puts it into a slot of its own.
LEMMA ExitScan ==
  ASSUME IInv, ExitInv, Scan PROVE ExitInv'
<1> USE DEF ExitInv, InHandNow
<1>1. UNCHANGED <<spc, qi, twice>>
  BY ScanMemory
<1>2. quitting # "no" => quitting' # "no"
  BY ScanMemory DEF ScanCrash
<1>3. TwiceOnlyIfInterrupted'
  BY <1>1, <1>2 DEF TwiceOnlyIfInterrupted
<1>4. CASE ScanCrash /\ UNCHANGED <<list, heapVars>> /\ ~InHandNow /\ ~InHandNow'
  <2>1. ToClose
    BY AtEnd
  <2> QED BY <1>1, <1>3, <1>4, <2>1 DEF ToClose, heapVars
<1> SUFFICES ASSUME quitting # "no", UNCHANGED quitting, ToClose
             PROVE  ToClose'
  BY <1>3, <1>4, ScanMemory
<1>5. /\ live \in [Rec -> BOOLEAN] /\ list \in [Handle -> Rec \cup {NULL}]
      /\ opened \in [Rec -> BOOLEAN] /\ ropen \in [Rec -> BOOLEAN]
      /\ named \in [Rec -> BOOLEAN] /\ qi \in 0 .. MAXNUM /\ NULL \notin Rec
  BY TableAssumption DEF IInv, TypeOK
<1> USE DEF ToClose
<1>6. CASE RegSlot
  <2> USE <1>6 DEF RegSlot, ScanStep, heapVars
  <2>1. /\ ci \in Handle /\ crec \in Rec /\ cpc = "reg"
        /\ UNCHANGED <<live, ropen, opened, named>>
    BY TableAssumption DEF IInv, TypeOK, ScanLocals, Handle
  <2>2. CASE list[ci] = NULL
    <3>1. list' = [list EXCEPT ![ci] = crec] /\ cpc' \notin {"reg_lock", "reg"}
      BY <2>2
    <3> QED BY <1>1, <1>5, <2>1, <3>1
  <2>3. CASE list[ci] # NULL
    <3>1. UNCHANGED <<list, cpc, crec>>
      BY <2>3 DEF tableVars
    <3> QED BY <1>1, <2>1, <3>1
  <2> QED BY <2>2, <2>3
<1>7. CASE RegFull
  <2>1. UNCHANGED <<list, heapVars>> /\ cpc' \notin {"reg_lock", "reg"}
    BY <1>7 DEF RegFull, ScanStep, Loop, AfterReg
  <2> QED BY <1>1, <2>1 DEF heapVars
<1>8. CASE RegLock /\ UNCHANGED <<list, heapVars, crec>>
  <2>1. cpc = "reg_lock"
    BY <1>8 DEF RegLock, ScanStep
  <2> QED BY <1>1, <1>8, <2>1 DEF heapVars
<1>9. CASE UNCHANGED <<list, heapVars>> /\ ~InHandNow /\ ~InHandNow'
  BY <1>1, <1>9 DEF heapVars
<1>10. ASSUME NEW r \in Rec, Taken(r) PROVE ToClose'
  BY <1>1, <1>5, <1>10 DEF Taken
<1> QED BY <1>6, <1>7, <1>8, <1>9, <1>10, ScanMemory

\* The exit handler begins with what AtEnd says, and leaves each slot behind.
LEMMA ExitQuit ==
  ASSUME IInv, ExitInv, Quit PROVE ExitInv'
<1> USE DEF ExitInv, NotQuit, tableVars, scanVars, srvVars
<1>1. /\ live \in [Rec -> BOOLEAN] /\ list \in [Handle -> Rec \cup {NULL}]
      /\ opened \in [Rec -> BOOLEAN] /\ ropen \in [Rec -> BOOLEAN]
      /\ named \in [Rec -> BOOLEAN] /\ qi \in 0 .. MAXNUM /\ NULL \notin Rec
  BY TableAssumption DEF IInv, TypeOK
<1>2. CASE QuitBegin
  <2>1. /\ quitting = "no" /\ quitting' = "closing"
        /\ UNCHANGED <<heapVars, list, qi, cpc, crec, spc, si>>
    BY <1>2 DEF QuitBegin
  <2>2. ToClose
    BY <2>1, AtEnd
  <2> QED BY <2>1, <2>2 DEF heapVars, ToClose, TwiceOnlyIfInterrupted
<1>3. CASE QuitClose
  <2>1. /\ qi \in Handle /\ quitting = "closing" /\ quitting' = "closing"
        /\ qi' = qi + 1 /\ UNCHANGED <<list, cpc, crec, spc>> /\ ToClose
    BY <1>1, <1>3, TableAssumption DEF QuitClose, Handle
  <2>2. CASE list[qi] = NULL
    <3>1. UNCHANGED heapVars
      BY <1>3, <2>2 DEF QuitClose
    <3> QED BY <1>1, <2>1, <3>1
            DEF heapVars, Handle, ToClose, TwiceOnlyIfInterrupted
  <2>3. CASE list[qi] # NULL
    <3> DEFINE r == list[qi]
               S == IF ropen[r] THEN What ELSE What \ {"handle"}
    <3>1. /\ r \in Rec
          /\ live' = [live EXCEPT ![r] = FALSE]
          /\ named' = [named EXCEPT ![r] = FALSE]
          /\ opened' = [opened EXCEPT ![r] = @ /\ ~ropen[r]]
          /\ ropen' = [ropen EXCEPT ![r] = FALSE]
          /\ twice' = twice \cup ({w \in S : ~Has(r, w)} \X {rdev[r]})
      BY <1>1, <1>3, <2>1, <2>3 DEF QuitClose, GiveBack, What
    <3>2. \A h \in Handle : h >= qi' => h >= qi /\ h # qi
      BY <1>1, <2>1 DEF Handle
    <3>3. qi >= qi
      BY <2>1 DEF Handle
    <3>4. ASSUME spc # "unset" PROVE \A x \in Rec : ropen'[x] => opened'[x]
      BY <1>1, <2>1, <3>1, <3>4 DEF ToClose
    <3>5. ASSUME spc \notin {"free", "clear"}
          PROVE  \A x \in Rec : live'[x] => named'[x]
      BY <1>1, <2>1, <3>1, <3>5 DEF ToClose
    <3>6. ASSUME spc # "clear"
          PROVE  /\ \A h \in Handle : h >= qi' /\ list[h] # NULL =>
                      /\ live'[list[h]]
                      /\ cpc \in {"reg_lock", "reg"} => list[h] # crec
                      /\ \A k \in Handle : k >= qi' /\ list[h] = list[k] => h = k
                 /\ cpc \in {"reg_lock", "reg"} => live'[crec]
      <4>1. cpc \in {"reg_lock", "reg"} => crec \in Rec
        BY DEF IInv, ScanLocals
      <4> QED BY <1>1, <2>1, <2>3, <3>1, <3>2, <3>3, <3>6, <4>1 DEF ToClose
    <3>7. ToClose'
      BY <2>1, <3>4, <3>5, <3>6 DEF ToClose
    <3>8. /\ spc # "unset" => ~ropen[r] \/ Has(r, "handle")
          /\ spc \notin {"free", "clear"} => Has(r, "name")
          /\ spc # "clear" => Has(r, "memory")
      BY <1>1, <2>1, <2>3, <3>1, <3>3 DEF ToClose, Has
    <3>9. TwiceOnlyIfInterrupted'
      <4> SUFFICES ASSUME NEW w \in What, NEW d \in Dev \cup {NULL},
                          <<w, d>> \in twice'
                   PROVE  /\ w = "handle" => spc = "unset"
                          /\ w = "name" => spc \in {"free", "clear"}
                          /\ w = "memory" => spc = "clear"
        BY <2>1 DEF TwiceOnlyIfInterrupted
      <4>1. CASE <<w, d>> \in twice
        BY <4>1 DEF TwiceOnlyIfInterrupted
      <4>2. CASE w \in S /\ ~Has(r, w)
        <5>1. w = "handle" => ropen[r]
          BY <4>2 DEF What
        <5> QED BY <3>8, <4>2, <5>1
      <4> QED BY <3>1, <4>1, <4>2
    <3> QED BY <3>7, <3>9
  <2> QED BY <2>2, <2>3
<1>4. CASE QuitDone
  BY <1>4 DEF QuitDone, heapVars, ToClose, TwiceOnlyIfInterrupted
<1>5. CASE Ended
  BY <1>5 DEF Ended, vars, heapVars, quitVars, ToClose, TwiceOnlyIfInterrupted
<1> QED BY <1>2, <1>3, <1>4, <1>5 DEF Quit

\* quit (nxtd.c:248) closes or frees again only what the removal that the signal
\* interrupted had closed or freed and not yet forgotten.
THEOREM DoubleFree == Spec => []TwiceOnlyIfInterrupted
<1>1. Init => ExitInv
  BY DEF Init, ExitInv, TwiceOnlyIfInterrupted
<1>2. IInv /\ ExitInv /\ [Next]_vars => ExitInv'
  <2> SUFFICES ASSUME IInv, ExitInv, [Next]_vars PROVE ExitInv'
    OBVIOUS
  <2>1. CASE Scan
    BY <2>1, ExitScan
  <2>2. CASE Serve \/ Requests
    <3>1. quitting = "no" /\ quitting' = "no"
      BY <2>2, ServeMemory DEF quitVars
    <3>2. IInv'
      BY <2>2, RequestSteps, RemoveSteps DEF Serve, Requests
    <3>3. twice' = {}
      BY <3>1, <3>2 DEF IInv, Running
    <3> QED BY <3>1, <3>3 DEF ExitInv, TwiceOnlyIfInterrupted
  <2>3. CASE Quit
    BY <2>3, ExitQuit
  <2>4. CASE Bricks \/ UNCHANGED vars
    <3>1. UNCHANGED <<tableVars, heapVars, scanVars, srvVars, quitVars>>
      BY <2>4 DEF Bricks, Attach, Detach, vars
    <3> QED BY <3>1 DEF tableVars, heapVars, scanVars, srvVars, quitVars, ExitInv,
                        ToClose, TwiceOnlyIfInterrupted
  <2> QED BY <2>1, <2>2, <2>3, <2>4 DEF Next
<1>3. ExitInv => TwiceOnlyIfInterrupted
  BY DEF ExitInv
<1> QED BY <1>1, <1>2, <1>3, Invariance, PTL DEF Spec
=============================================================================
