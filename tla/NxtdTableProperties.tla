------------------------- MODULE NxtdTableProperties -------------------------
(***************************************************************************)
(* What must be true of the table of NXTs and of the two threads of nxtd.  *)
(***************************************************************************)
EXTENDS NxtdTable

TypeOK ==
  /\ list \in [Handle -> Rec \cup {NULL}]
  /\ mutex \in {Scanner, Server, NULL}
  /\ live \in [Rec -> BOOLEAN] /\ ropen \in [Rec -> BOOLEAN]
  /\ opened \in [Rec -> BOOLEAN] /\ named \in [Rec -> BOOLEAN]
  /\ twice \in SUBSET (What \X (Dev \cup {NULL}))
  /\ rdev \in [Rec -> Dev \cup {NULL}]
  /\ present \in SUBSET Dev
  /\ refs \in [USBDev -> 0 .. 2] /\ lost \in [USBDev -> 0 .. MaxLost]
  /\ cpc \in ScanPC /\ todo \in SUBSET Dev /\ held \in SUBSET USBDev
  /\ cur \in Dev \cup {NULL} /\ ci \in 0 .. MAXNUM
  /\ crec \in Rec \cup {NULL}
  /\ spc \in SrvPC /\ sop \in Ops \cup {"none"} /\ si \in 0 .. MAXNUM
  /\ packed \in SUBSET (Handle \X Dev)
  /\ failed \in Dev \cup {NULL} /\ trouble \in BOOLEAN
  /\ quitting \in {"no", "closing", "exited", "crashed"} /\ qi \in 0 .. MAXNUM

\* The slot between free(nxt) and nxts.list[handle] = 0 in nxtd_nxt_remove
Clearing(h) == spc = "clear" /\ si = h

\* While nxtd runs, the only slot that may point to freed memory is the one
\* that the server thread is about to clear, although removals after a
\* failed send or receive run without the mutex beside the scanner.
SlotsAreLive ==
  quitting = "no" =>
    \A h \in Handle : list[h] # NULL => live[list[h]] \/ Clearing(h)

\* Two handles share a record only when malloc gave the scanner the block
\* that the server has freed but whose old slot it has not cleared yet.
NoSharedRecord ==
  quitting = "no" =>
    \A h, k \in Handle :
      h # k /\ list[h] # NULL /\ list[h] = list[k] => Clearing(h) \/ Clearing(k)

Names(h) == IF list[h] = NULL \/ Clearing(h) THEN NULL ELSE rdev[list[h]]
Listed(d) == \E h \in Handle : Names(h) = d

\* A brick has one handle: finddev, which reads the table without the mutex
\* on USB, never makes the scanner add a device that is still listed.
OneHandlePerBrick ==
  quitting = "no" =>
    \A h, k \in Handle : Names(h) # NULL /\ Names(h) = Names(k) => h = k

\* With fewer bricks than slots, a record is never lost by a registration
\* that found the table full: every allocated record is in the table or on
\* its way there.  One slot must be spare, because the scanner can find a
\* brick again before the server has cleared its old slot.
NoOrphan ==
  (quitting = "no" /\ Cardinality(Dev) < MAXNUM) =>
    \A r \in Rec : live[r] =>
      \/ \E h \in Handle : list[h] = r /\ ~Clearing(h)
      \/ cpc \in {"reg_lock", "reg"} /\ crec = r

\* A USB device is opened by at most one record in use, and every reference
\* nxtd holds on it belongs to that record's handle, which keeps two, or to the
\* open the scanner is working on, except the handles nxtd_usb_opendev lost.
\* So no record is freed with its handle open.  This is also true while the
\* exit handler runs; what it closes a second time is in twice.
OpenRecords(d) == {r \in Rec : live[r] /\ opened[r] /\ rdev[r] = d}
Opening(d) == cpc = "usb_name" /\ cur = d
RefsBalanced ==
  \A d \in USBDev :
    /\ \A r, s \in OpenRecords(d) : r = s
    /\ ~(Opening(d) /\ OpenRecords(d) # {})
    /\ refs[d] = IF OpenRecords(d) # {} THEN 2 ELSE IF Opening(d) THEN 1 ELSE 0

\* A device object that the scanner is about to look at, or that an open
\* record names, is never reused for another device, so comparing pointers
\* (nxtd_usb_finddev) compares devices; the exception is a handle that the exit
\* handler has closed a second time, which drops references of others.
InHand(d) == \/ d \in todo \/ d = cur
             \/ OpenRecords(d) # {}
PointersStayValid ==
  [][\A d \in USBDev :
       d \in present' /\ d \notin present =>
         ~InHand(d) \/ <<"handle", d>> \in twice]_vars

\* What nxtd closes or frees a second time, it does in the exit handler, after
\* a signal in the middle of a removal: a handle or socket only between its
\* close and usb_handle = NULL or connected = 0, a name only after its free and
\* before the slot is cleared, and a record only between its free and the
\* clearing of the slot.  The removals themselves, and all other signals, give
\* everything back once.
TwiceOnlyIfInterrupted ==
  \A w \in What, d \in Dev \cup {NULL} : <<w, d>> \in twice =>
    /\ quitting # "no"
    /\ w = "handle" => spc = "unset"
    /\ w = "name" => spc \in {"free", "clear"}
    /\ w = "memory" => spc = "clear"

\* nxtd reads through a slot that was cleared between two loads, and dies, only
\* after a transfer has failed: as long as every brick answers and clients use
\* handles of bricks that are there, the searches without the mutex are safe.
CrashOnlyAfterFailure == quitting = "crashed" => trouble

\* The table and the answers to LIST behave like an atomic registry, in
\* which a removal happens when the record is freed.  In particular a removal,
\* which reads the slot again without the mutex, drops the brick whose transfer
\* failed, unless the slot was empty then.
Suspecting == spc \in {"io_fail", "remove", "close", "unset", "name", "free"}
RegTable == [h \in Handle |-> IF quitting = "no" THEN Names(h) ELSE NULL]
RegReply == IF sop = "list" /\ spc # "idle" THEN NULL ELSE packed
RegSuspect == IF quitting = "no" /\ Suspecting THEN {<<si, failed>>} ELSE {}

Registry == INSTANCE NxtRegistry WITH
  NoDev <- NULL, Pending <- NULL, table <- RegTable, reply <- RegReply,
  suspect <- RegSuspect

IsRegistry == Registry!RegSpec

-----------------------------------------------------------------------------
(* Fairness: both threads keep running; a mutex that is released again and *)
(* again is granted; a brick that is there does not fail to open, to answer *)
(* an inquiry or to tell its name for ever.                                *)

Fairness ==
  /\ WF_vars(Scan) /\ WF_vars(Serve)
  /\ SF_vars(RegLock) /\ SF_vars(BtLock)
  /\ SF_vars(ListLock) /\ SF_vars(IoLock)
  /\ \A d \in USBDev : /\ SF_vars(cur = d /\ UsbOpen)
                       /\ SF_vars(cur = d /\ \E r \in Rec : UsbName(r))
  /\ \A d \in BTDev :
       /\ SF_vars(\E found \in SUBSET BTDev : d \in found /\ BtInquire(found))
       /\ SF_vars(cur = d /\ \E r \in Rec : BtName(r))

FairSpec == Spec /\ Fairness

\* The behaviours of FairSpec in which no brick comes or goes and nobody sends
\* a signal: what is already missed in them needs no disturbance.
StillSpec ==
  Init /\ [][Next /\ UNCHANGED present /\ quitting' # "closing"]_vars /\ Fairness

\* A request is always finished, the removal inside LIST included, unless a
\* signal or a crash ends nxtd.
RequestsEnd == spc # "idle" ~> spc = "idle" \/ quitting # "no"

\* A brick that stays on USB is listed again and again for as long as nxtd runs,
\* whatever the clients and the other bricks do; what can end it is a signal, or
\* the crash of CrashOnlyAfterFailure.
UsbBrickListed ==
  \A d \in USBDev :
    <>[](d \in present /\ quitting = "no") => []<>Listed(d)

\* The manual page of nxtd says that a brick "connected via USB or bluetooth
\* to the computer running nxtd" can be controlled; nxtd_bt_scan gives up at
\* the first brick it already knows, so another one may never be added.
BtBrickListed ==
  \A d \in BTDev :
    <>[](d \in present /\ quitting = "no") => []<>Listed(d)

-----------------------------------------------------------------------------
(* The inductive invariant behind the safety properties: NxtdTableProofs    *)
(* shows that every step preserves it.                                     *)

\* What the threads' local variables are, and which record is in hand.
Searching == cpc \in {"find", "type", "load", "match"}
ScanLocals ==
  /\ Searching \/ cpc \in {"reg_lock", "reg", "reg_log"} => cur \in Dev
  /\ cpc \in {"usb_open", "usb_name"} => cur \in USBDev
  /\ cpc \in {"bt_lock", "bt_name"} => cur \in BTDev
  /\ cpc \in {"match", "reg_lock", "reg"} => crec \in Rec
  /\ cpc \in {"type", "load", "match", "reg_log"} => ci < MAXNUM
  /\ ~Searching /\ cpc \notin {"reg", "reg_log"} => ci = 0
  /\ cpc \in {"usb_list", "usb_next", "usb_timeout", "bt_inquire", "bt_next"}
       => cur = NULL
  /\ todo \cap USBDev \subseteq held
  /\ cur \in USBDev => cur \in held

Removing == spc \in {"remove", "close", "unset", "name", "free", "clear"}
SrvLocals ==
  /\ spc \in {"idle", "list_lock"} => si = 0
  /\ spc \in {"list_lock", "list"} => sop = "list"
  /\ spc = "list_lock" => packed = {}
  /\ spc \in {"io_lock", "io", "io_ok", "io_fail"} => sop = "io"
  /\ Removing => sop \in Ops
  /\ Removing \/ (sop = "io" /\ spc # "idle") => si \in Handle
  /\ spc \in {"close", "unset", "name", "free", "clear"} => list[si] # NULL

\* A removal has given back the handle, then the name, then the memory of the
\* record; what the fields say of all other records in use is true.
Owned ==
  \A r \in Rec : live[r] =>
    /\ ropen[r] <=> opened[r] \/ (spc = "unset" /\ r = list[si])
    /\ spc \in {"unset", "name", "free"} /\ r = list[si] => ~opened[r]
    /\ named[r] <=> ~(spc = "free" /\ r = list[si])

\* A transfer has failed, and the brick it failed with is still in the slot
\* that the removal reads.
Failed ==
  /\ Suspecting /\ failed # NULL => list[si] # NULL /\ rdev[list[si]] = failed
  /\ Suspecting /\ sop = "list" => failed # NULL

Locks ==
  /\ cpc \in {"reg", "reg_log"} \/ (Searching /\ cur \in BTDev)
       => mutex = Scanner
  /\ spc = "list" \/ (Removing /\ sop = "list")
     \/ spc \in {"io", "io_ok", "io_fail"} => mutex = Server

\* The scanner has looked at the slots below ci in vain, or at all of them;
\* the slot it is looking at can only have been cleared since.
Searched ==
  /\ Searching => \A h \in Handle : h < ci => Names(h) # cur
  /\ cpc = "match" => list[ci] \in {crec, NULL}
  /\ cpc \in {"usb_open", "usb_name", "bt_name", "reg_lock", "reg"} =>
       \A h \in Handle : Names(h) # cur
  /\ cpc \in {"reg_lock", "reg"} =>
       /\ live[crec] /\ rdev[crec] = cur
       /\ \A h \in Handle : list[h] = crec => Clearing(h)

\* The answer under construction is the table below si.
Packed ==
  spc = "list" \/ (Removing /\ sop = "list") =>
    packed = {<<h, Names(h)>> : h \in {k \in Handle : k < si /\ Names(k) # NULL}}

Running == /\ SrvLocals /\ Locks /\ SlotsAreLive /\ NoSharedRecord
           /\ OneHandlePerBrick /\ Searched /\ Packed /\ Owned /\ Failed
           /\ twice = {}

\* A record in use is that of a brick, a freed one owns nothing, and what is
\* open is marked as open.
DeadClosed ==
  \A r \in Rec :
    /\ live[r] => rdev[r] # NULL
    /\ ~live[r] => ~ropen[r] /\ ~named[r]
    /\ opened[r] => ropen[r]

\* No slot is cleared before a transfer fails.
Untroubled ==
  ~trouble => /\ ~Suspecting /\ spc # "clear" /\ quitting # "crashed"
              /\ cpc \in {"type", "load", "reg_log"} => list[ci] # NULL

IInv == /\ TypeOK /\ ScanLocals /\ RefsBalanced /\ DeadClosed /\ Untroubled
        /\ quitting = "no" => Running

=============================================================================
