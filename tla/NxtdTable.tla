----------------------------- MODULE NxtdTable -----------------------------
(***************************************************************************)
(* The table of NXTs of nxtd and the two threads that work on it:          *)
(*                                                                         *)
(*   scanner  looks for bricks on USB and Bluetooth and adds records        *)
(*            (nxtd_scanner, nxtd_usb_scan, nxtd_bt_scan, nxtd_nxt_reg);    *)
(*   server   answers the clients and removes the records of bricks that    *)
(*            fail (nxtd_list, nxtd_send, nxtd_recv, nxtd_nxt_remove), and  *)
(*            on a signal runs the exit handler (quit).                     *)
(*                                                                         *)
(* nxtd_list, nxtd_send, nxtd_recv, nxtd_nxt_reg and nxtd_bt_finddev take   *)
(* nxts.mutex.  nxtd_usb_finddev and the removal after a failed send or     *)
(* receive do not.  A removal closes, forgets the handle, frees the name,   *)
(* frees the record and only then clears the slot; the signal may come      *)
(* between any two of these steps.  Records are memory: a freed one can be  *)
(* read through a slot that still points to it, and malloc may hand it out  *)
(* again.  A slot that is loaded again after it was found in use may have   *)
(* been cleared: nxtd then reads through NULL and dies.                     *)
(***************************************************************************)
EXTENDS Integers, FiniteSets

CONSTANTS MAXNUM,   \* NXTD_MAXNUM
          USBDev,   \* libusb device objects that can be a brick
          BTDev,    \* Bluetooth addresses of bricks
          Rec,      \* memory blocks a struct nxtd_nxt can live in
          NULL,
          Scanner, Server,
          MaxLost   \* bound: handles lost on one device by failed opens

ASSUME TableAssumption ==
  /\ MAXNUM \in Nat \ {0}
  /\ MaxLost \in Nat
  /\ USBDev \cap BTDev = {}
  /\ NULL \notin USBDev \cup BTDev \cup Rec
  /\ Scanner # Server /\ NULL \notin {Scanner, Server}

Handle == 0 .. (MAXNUM - 1)
Dev == USBDev \cup BTDev

VARIABLES
  list, mutex,          \* struct nxts
  live, rdev, ropen,    \* the records: allocated, usb_dev or bt_addr, and
                        \*   whether usb_handle # NULL or connected # 0
  opened, named,        \* whether that handle or socket is in fact open,
                        \*   and the name of the record allocated
  twice,                \* history: what was closed or freed once more
  present,              \* bricks attached or in radio range
  refs, lost,           \* USB: references and handles nxtd holds; handles
                        \*   that nxtd_usb_opendev opened and dropped
  cpc, todo, held, cur, ci, crec,   \* scanner thread
  spc, sop, si, packed,             \* server thread
  failed, trouble,      \* history: the brick whose transfer failed, until
                        \*   it is removed; whether any transfer has failed
  quitting, qi          \* exit handler, or a crash

tableVars == <<list, mutex>>
heapVars  == <<live, rdev, ropen, opened, named, twice>>
usbVars   == <<refs, lost>>
scanVars  == <<cpc, todo, held, cur, ci, crec>>
srvVars   == <<spc, sop, si, packed, failed, trouble>>
quitVars  == <<quitting, qi>>
vars == <<tableVars, heapVars, present, usbVars, scanVars, srvVars, quitVars>>

ScanPC == {"usb_list", "usb_next", "find", "type", "load", "match",
           "usb_open", "usb_name", "bt_inquire", "bt_next", "bt_lock",
           "bt_name", "reg_lock", "reg", "reg_log", "usb_timeout"}
SrvPC == {"idle", "list_lock", "list", "io_lock", "io", "io_ok", "io_fail",
          "remove", "close", "unset", "name", "free", "clear"}
Ops == {"list", "io"}   \* LIST, and SEND or RECV

Init ==
  /\ list = [h \in Handle |-> NULL] /\ mutex = NULL
  /\ live = [r \in Rec |-> FALSE] /\ rdev = [r \in Rec |-> NULL]
  /\ ropen = [r \in Rec |-> FALSE] /\ opened = [r \in Rec |-> FALSE]
  /\ named = [r \in Rec |-> FALSE] /\ twice = {}
  /\ present \in SUBSET Dev
  /\ refs = [d \in USBDev |-> 0] /\ lost = [d \in USBDev |-> 0]
  /\ cpc = "usb_list" /\ todo = {} /\ held = {} /\ cur = NULL /\ ci = 0
  /\ crec = NULL
  /\ spc = "idle" /\ sop = "none" /\ si = 0 /\ packed = {}
  /\ failed = NULL /\ trouble = FALSE
  /\ quitting = "no" /\ qi = 0

-----------------------------------------------------------------------------
(* The bricks.  A USB device object is reused for a new device only when   *)
(* nobody holds a reference to it, or when closing a handle twice has      *)
(* dropped references of others; a Bluetooth address comes and goes.       *)

Attach(d) ==
  /\ d \notin present
  /\ d \in USBDev => \/ refs[d] = 0 /\ lost[d] = 0 /\ d \notin held
                     \/ <<"handle", d>> \in twice
  /\ present' = present \cup {d}
  /\ UNCHANGED <<tableVars, heapVars, usbVars, scanVars, srvVars, quitVars>>

Detach(d) ==
  /\ present' = present \ {d}
  /\ d \in present
  /\ UNCHANGED <<tableVars, heapVars, usbVars, scanVars, srvVars, quitVars>>

-----------------------------------------------------------------------------
(* The scanner thread.  It runs until the process has exited or crashed.   *)

ScanStep(from) == cpc = from /\ quitting \in {"no", "closing"}
NotScanner == UNCHANGED <<present, srvVars, quitVars>>
\* back to a loop over the devices found: the locals of its body are gone
Loop(pc) == cpc' = pc /\ cur' = NULL /\ ci' = 0 /\ crec' = NULL

\* Faulty: the list, and with it the references, is given back at once.
UsbListDropped ==
  /\ ScanStep("usb_list")
  /\ todo' = present \cap USBDev
  /\ cpc' = "usb_next"
  /\ UNCHANGED <<tableVars, heapVars, usbVars, held, cur, ci, crec>>
  /\ NotScanner

\* libusb_get_device_list: a snapshot that keeps its devices referenced
UsbList ==
  /\ ScanStep("usb_list")
  /\ todo' = present \cap USBDev
  /\ held' = present \cap USBDev
  /\ cpc' = "usb_next"
  /\ UNCHANGED <<tableVars, heapVars, usbVars, cur, ci, crec>> /\ NotScanner

UsbNext(d) ==
  /\ ScanStep("usb_next")
  /\ d \in todo
  /\ todo' = todo \ {d} /\ cur' = d
  /\ cpc' = "find"
  /\ UNCHANGED <<tableVars, heapVars, usbVars, held, ci, crec>> /\ NotScanner

\* libusb_free_device_list
UsbDone ==
  /\ ScanStep("usb_next")
  /\ todo = {}
  /\ held' = {}
  /\ cpc' = "bt_inquire"
  /\ UNCHANGED <<tableVars, heapVars, usbVars, todo, cur, ci, crec>>
  /\ NotScanner

\* The finddev loops load a slot to compare it with NULL, again for the type
\* of its record, and a third time for the record itself.
FindSlot ==
  /\ ScanStep("find")
  /\ ci < MAXNUM
  /\ IF list[ci] = NULL THEN ci' = ci + 1 /\ UNCHANGED cpc
                       ELSE cpc' = "type" /\ UNCHANGED ci
  /\ UNCHANGED <<tableVars, heapVars, usbVars, todo, held, cur, crec>>
  /\ NotScanner

\* A freed record may have any type.
FindType ==
  /\ ScanStep("type")
  /\ list[ci] # NULL
  /\ \E fits \in BOOLEAN :
       /\ live[list[ci]] =>
            fits = (rdev[list[ci]] \in USBDev <=> cur \in USBDev)
       /\ IF fits THEN cpc' = "load" /\ UNCHANGED ci
                  ELSE cpc' = "find" /\ ci' = ci + 1
  /\ UNCHANGED <<tableVars, heapVars, usbVars, todo, held, cur, crec>>
  /\ NotScanner

FindLoad ==
  /\ ScanStep("load")
  /\ list[ci] # NULL
  /\ crec' = list[ci] /\ cpc' = "match"
  /\ UNCHANGED <<tableVars, heapVars, usbVars, todo, held, cur, ci>>
  /\ NotScanner

\* The slot was cleared since it was found in use, or since it was filled
\* (nxtd_nxt_reg loads it again for the log): nxtd reads through NULL.
ScanCrash ==
  /\ cpc \in {"type", "load", "reg_log"} /\ quitting \in {"no", "closing"}
  /\ list[ci] = NULL
  /\ quitting' = "crashed"
  /\ UNCHANGED <<tableVars, heapVars, present, usbVars, scanVars, srvVars, qi>>

\* Reading a freed record may find its old contents or garbage.
Matches(found) == IF live[crec] THEN found = (rdev[crec] = cur)
                                ELSE found => rdev[crec] = cur

FindMiss ==
  /\ ScanStep("match")
  /\ Matches(FALSE)
  /\ ci' = ci + 1 /\ crec' = NULL /\ cpc' = "find"
  /\ UNCHANGED <<tableVars, heapVars, usbVars, todo, held, cur>> /\ NotScanner

\* A known USB device is skipped; a known Bluetooth device ends the scan.
FindHit ==
  /\ ScanStep("match")
  /\ Matches(TRUE)
  /\ \/ /\ cur \in USBDev
        /\ Loop("usb_next")
        /\ UNCHANGED <<mutex, todo>>
     \/ /\ cur \in BTDev
        /\ Loop("usb_list") /\ todo' = {}
        /\ mutex' = NULL
  /\ UNCHANGED <<list, heapVars, usbVars, held>> /\ NotScanner

\* Faulty: the loop stops one slot early.
FindNothingEarly ==
  /\ ScanStep("find")
  /\ ci >= MAXNUM - 1
  /\ \/ cur \in USBDev /\ cpc' = "usb_open" /\ UNCHANGED mutex
     \/ cur \in BTDev /\ cpc' = "bt_name" /\ mutex' = NULL
  /\ ci' = 0
  /\ UNCHANGED <<list, heapVars, usbVars, todo, held, cur, crec>> /\ NotScanner

FindNothing ==
  /\ ScanStep("find")
  /\ ci = MAXNUM
  /\ \/ cur \in USBDev /\ cpc' = "usb_open" /\ UNCHANGED mutex
     \/ cur \in BTDev /\ cpc' = "bt_name" /\ mutex' = NULL
  /\ ci' = 0
  /\ UNCHANGED <<list, heapVars, usbVars, todo, held, cur, crec>> /\ NotScanner

\* The interface of a device can be claimed by one handle only.
Claimed(d) == \E r \in Rec : live[r] /\ opened[r] /\ rdev[r] = d

UsbOpen ==
  /\ ScanStep("usb_open")
  /\ cur \in present /\ ~Claimed(cur)
  /\ refs' = [refs EXCEPT ![cur] = @ + 1]
  /\ cpc' = "usb_name"
  /\ UNCHANGED <<tableVars, heapVars, lost, todo, held, cur, ci, crec>>
  /\ NotScanner

\* Not a brick, or libusb_open failed, or a later call failed and the
\* opened handle is lost.
UsbOpenFails ==
  /\ ScanStep("usb_open")
  /\ \/ UNCHANGED lost
     \/ lost[cur] < MaxLost /\ lost' = [lost EXCEPT ![cur] = @ + 1]
  /\ Loop("usb_next")
  /\ UNCHANGED <<tableVars, heapVars, refs, todo, held>> /\ NotScanner

\* malloc: any block that is free, the one just freed included
Alloc(r, connected) ==
  /\ ~live[r]
  /\ live' = [live EXCEPT ![r] = TRUE]
  /\ rdev' = [rdev EXCEPT ![r] = cur]
  /\ ropen' = [ropen EXCEPT ![r] = connected]
  /\ opened' = [opened EXCEPT ![r] = connected]
  /\ named' = [named EXCEPT ![r] = TRUE]
  /\ crec' = r
  /\ UNCHANGED twice

\* nxtd_usb_getname succeeds; libusb_ref_device
UsbName(r) ==
  /\ ScanStep("usb_name")
  /\ cur \in present
  /\ Alloc(r, TRUE)
  /\ refs' = [refs EXCEPT ![cur] = @ + 1]
  /\ cpc' = "reg_lock"
  /\ UNCHANGED <<tableVars, lost, todo, held, cur, ci>> /\ NotScanner

\* Faulty: the handle is not closed.
UsbNameFailsOpen ==
  /\ ScanStep("usb_name")
  /\ Loop("usb_next")
  /\ UNCHANGED <<tableVars, heapVars, usbVars, todo, held>> /\ NotScanner

UsbNameFails ==
  /\ ScanStep("usb_name")
  /\ refs' = [refs EXCEPT ![cur] = @ - 1]
  /\ Loop("usb_next")
  /\ UNCHANGED <<tableVars, heapVars, lost, todo, held>> /\ NotScanner

\* hci_inquiry: the bricks that answered, none when it failed
BtInquire(found) ==
  /\ ScanStep("bt_inquire")
  /\ found \subseteq present \cap BTDev
  /\ todo' = found
  /\ cpc' = "bt_next"
  /\ UNCHANGED <<tableVars, heapVars, usbVars, held, cur, ci, crec>>
  /\ NotScanner

BtNext(d) ==
  /\ ScanStep("bt_next")
  /\ d \in todo
  /\ todo' = todo \ {d} /\ cur' = d
  /\ cpc' = "bt_lock"
  /\ UNCHANGED <<tableVars, heapVars, usbVars, held, ci, crec>> /\ NotScanner

BtDone ==
  /\ ScanStep("bt_next")
  /\ todo = {}
  /\ cpc' = "usb_list"
  /\ UNCHANGED <<tableVars, heapVars, usbVars, todo, held, cur, ci, crec>>
  /\ NotScanner

BtLock ==
  /\ ScanStep("bt_lock")
  /\ mutex = NULL
  /\ mutex' = Scanner
  /\ cpc' = "find"
  /\ UNCHANGED <<list, heapVars, usbVars, todo, held, cur, ci, crec>>
  /\ NotScanner

\* hci_read_remote_name succeeds for a brick; the record is not connected
BtName(r) ==
  /\ ScanStep("bt_name")
  /\ cur \in present
  /\ Alloc(r, FALSE)
  /\ cpc' = "reg_lock"
  /\ UNCHANGED <<tableVars, usbVars, todo, held, cur, ci>> /\ NotScanner

BtNameFails ==
  /\ ScanStep("bt_name")
  /\ Loop("bt_next")
  /\ UNCHANGED <<tableVars, heapVars, usbVars, todo, held>> /\ NotScanner

\* Faulty: the mutex is not waited for.
RegLockBarges ==
  /\ ScanStep("reg_lock")
  /\ mutex' = Scanner
  /\ cpc' = "reg"
  /\ UNCHANGED <<list, heapVars, usbVars, todo, held, cur, ci, crec>>
  /\ NotScanner

RegLock ==
  /\ ScanStep("reg_lock")
  /\ mutex = NULL
  /\ mutex' = Scanner
  /\ cpc' = "reg"
  /\ UNCHANGED <<list, heapVars, usbVars, todo, held, cur, ci, crec>>
  /\ NotScanner

AfterReg == IF cur \in USBDev THEN "usb_timeout" ELSE "bt_next"

\* The slot is filled; the mutex is kept until it is logged.
RegSlot ==
  /\ ScanStep("reg")
  /\ ci < MAXNUM
  /\ IF list[ci] = NULL
       THEN /\ list' = [list EXCEPT ![ci] = crec]
            /\ cpc' = "reg_log" /\ crec' = NULL /\ UNCHANGED ci
       ELSE ci' = ci + 1 /\ UNCHANGED <<list, cpc, crec>>
  /\ UNCHANGED <<mutex, cur, heapVars, usbVars, todo, held>> /\ NotScanner

\* Faulty: the mutex is not released on success.
RegLogKeepsLock ==
  /\ ScanStep("reg_log")
  /\ list[ci] # NULL
  /\ Loop(AfterReg)
  /\ UNCHANGED <<tableVars, heapVars, usbVars, todo, held>> /\ NotScanner

RegLog ==
  /\ ScanStep("reg_log")
  /\ list[ci] # NULL
  /\ mutex' = NULL /\ Loop(AfterReg)
  /\ UNCHANGED <<list, heapVars, usbVars, todo, held>> /\ NotScanner

\* Faulty: the last slot is never used.
RegFullEarly ==
  /\ ScanStep("reg")
  /\ ci >= MAXNUM - 1
  /\ mutex' = NULL /\ Loop(AfterReg)
  /\ UNCHANGED <<list, heapVars, usbVars, todo, held>> /\ NotScanner

\* No free slot: the -1 is ignored and the record belongs to nobody.
RegFull ==
  /\ ScanStep("reg")
  /\ ci = MAXNUM
  /\ mutex' = NULL /\ Loop(AfterReg)
  /\ UNCHANGED <<list, heapVars, usbVars, todo, held>> /\ NotScanner

\* nxtd_usb_timeout(nxt) writes conn_timeout of a record that the server
\* may already have freed; nothing else changes.
UsbTimeout ==
  /\ ScanStep("usb_timeout")
  /\ cpc' = "usb_next"
  /\ UNCHANGED <<tableVars, heapVars, usbVars, todo, held, cur, ci, crec>>
  /\ NotScanner

-----------------------------------------------------------------------------
(* The server thread.  It stops working on a request when a signal makes   *)
(* it run the exit handler.                                                *)

SrvStep(from) == spc = from /\ quitting = "no"
NotServer == UNCHANGED <<present, scanVars, quitVars>>
NoFailure == UNCHANGED <<failed, trouble>>

\* back to select in nxtnet_srv_mainloop
Done == spc' = "idle" /\ si' = 0

\* nxtnet_srv_mainloop received a request: its buffer held the last reply.
Request(op, h) ==
  /\ SrvStep("idle")
  /\ sop' = op /\ packed' = {}
  /\ IF op = "list" THEN spc' = "list_lock" /\ UNCHANGED si
                    ELSE spc' = "io_lock" /\ si' = h
  /\ UNCHANGED <<tableVars, heapVars, usbVars>> /\ NoFailure /\ NotServer

\* Faulty: LIST walks the table without waiting for the mutex.
ListLockBarges ==
  /\ SrvStep("list_lock")
  /\ mutex' = Server /\ spc' = "list"
  /\ UNCHANGED <<list, heapVars, usbVars, sop, si, packed>>
  /\ NoFailure /\ NotServer

ListLock ==
  /\ SrvStep("list_lock")
  /\ mutex = NULL
  /\ mutex' = Server /\ spc' = "list"
  /\ UNCHANGED <<list, heapVars, usbVars, sop, si, packed>>
  /\ NoFailure /\ NotServer

ListSkip ==
  /\ SrvStep("list")
  /\ si < MAXNUM /\ list[si] = NULL
  /\ si' = si + 1
  /\ UNCHANGED <<tableVars, heapVars, usbVars, spc, sop, packed>>
  /\ NoFailure /\ NotServer

\* A transfer with the brick of record r, which connects on demand.
Transfer(r, ok) ==
  /\ ok => rdev[r] \in present
  /\ \/ UNCHANGED <<ropen, opened>> /\ (ok => ropen[r])
     \/ /\ rdev[r] \in present \cap BTDev
        /\ ropen' = [ropen EXCEPT ![r] = TRUE]
        /\ opened' = [opened EXCEPT ![r] = TRUE]

\* What is known of a transfer with brick d (NULL: no brick) after it.
Outcome(d, ok) == IF ok THEN NoFailure ELSE failed' = d /\ trouble' = TRUE

\* nxtd_keepalive: the brick answers and is packed, or it is removed.
ListKeepalive(ok) ==
  /\ SrvStep("list")
  /\ si < MAXNUM /\ list[si] # NULL
  /\ Transfer(list[si], ok)
  /\ IF ok THEN /\ packed' = packed \cup {<<si, rdev[list[si]]>>}
                /\ si' = si + 1 /\ UNCHANGED spc
           ELSE spc' = "remove" /\ UNCHANGED <<si, packed>>
  /\ Outcome(rdev[list[si]], ok)
  /\ UNCHANGED <<tableVars, live, rdev, named, twice, usbVars, sop>>
  /\ NotServer

ListDone ==
  /\ SrvStep("list")
  /\ si = MAXNUM
  /\ mutex' = NULL /\ Done
  /\ UNCHANGED <<list, heapVars, usbVars, sop, packed>>
  /\ NoFailure /\ NotServer

IoLock ==
  /\ SrvStep("io_lock")
  /\ mutex = NULL
  /\ mutex' = Server /\ spc' = "io"
  /\ UNCHANGED <<list, heapVars, usbVars, sop, si, packed>>
  /\ NoFailure /\ NotServer

\* A transfer fails when the brick is gone or does not move exactly the
\* bytes asked for.
Io(ok) ==
  /\ SrvStep("io")
  /\ \/ list[si] = NULL /\ ~ok /\ UNCHANGED <<ropen, opened>>
        /\ Outcome(NULL, ok)
     \/ list[si] # NULL /\ Transfer(list[si], ok)
        /\ Outcome(rdev[list[si]], ok)
  /\ spc' = IF ok THEN "io_ok" ELSE "io_fail"
  /\ UNCHANGED <<tableVars, live, rdev, named, twice, usbVars, sop, si, packed>>
  /\ NotServer

\* Faulty: a handle is removed after a transfer that succeeded.
IoUnlockRemoves ==
  /\ SrvStep("io_ok") \/ SrvStep("io_fail")
  /\ spc' = "remove" /\ UNCHANGED si
  /\ mutex' = NULL
  /\ UNCHANGED <<list, heapVars, usbVars, sop, packed>>
  /\ NoFailure /\ NotServer

IoUnlock ==
  /\ \/ SrvStep("io_ok") /\ Done
     \/ SrvStep("io_fail") /\ spc' = "remove" /\ UNCHANGED si
  /\ mutex' = NULL
  /\ UNCHANGED <<list, heapVars, usbVars, sop, packed>>
  /\ NoFailure /\ NotServer

\* nxtd_nxt_remove returns to its caller, with or without the mutex held
Removed == IF sop = "list" THEN spc' = "list" /\ si' = si + 1
                           ELSE Done

RemoveNothing ==
  /\ SrvStep("remove")
  /\ list[si] = NULL
  /\ Removed
  /\ UNCHANGED <<tableVars, heapVars, usbVars, sop, packed>>
  /\ NoFailure /\ NotServer

RemoveBegin ==
  /\ SrvStep("remove")
  /\ list[si] # NULL
  /\ spc' = "close"
  /\ UNCHANGED <<tableVars, heapVars, usbVars, sop, si, packed>>
  /\ NoFailure /\ NotServer

What == {"handle", "name", "memory"}
Has(r, w) == \/ w = "handle" /\ opened[r]
             \/ w = "name" /\ named[r]
             \/ w = "memory" /\ live[r]

\* Faulty: the device is not unreferenced when its handle is closed.
GiveBackHandle(r, S) ==
  /\ opened' = [opened EXCEPT ![r] = @ /\ "handle" \notin S]
  /\ named' = [named EXCEPT ![r] = @ /\ "name" \notin S]
  /\ live' = [live EXCEPT ![r] = @ /\ "memory" \notin S]
  /\ IF "handle" \in S /\ opened[r] /\ rdev[r] \in USBDev
       THEN refs' = [refs EXCEPT ![rdev[r]] = @ - 1]
       ELSE UNCHANGED refs
  /\ twice' = twice \cup ({w \in S : ~Has(r, w)} \X {rdev[r]})
  /\ UNCHANGED <<rdev, lost>>

\* What the set S names of record r is closed or freed.  With a USB handle
\* go the reference that libusb_open took and the one of libusb_ref_device.
GiveBack(r, S) ==
  /\ opened' = [opened EXCEPT ![r] = @ /\ "handle" \notin S]
  /\ named' = [named EXCEPT ![r] = @ /\ "name" \notin S]
  /\ live' = [live EXCEPT ![r] = @ /\ "memory" \notin S]
  /\ IF "handle" \in S /\ opened[r] /\ rdev[r] \in USBDev
       THEN refs' = [refs EXCEPT ![rdev[r]] = @ - 2]
       ELSE UNCHANGED refs
  /\ twice' = twice \cup ({w \in S : ~Has(r, w)} \X {rdev[r]})
  /\ UNCHANGED <<rdev, lost>>

\* nxtd_usb_disconnect and nxtd_bt_disconnect: what is open is closed ...
RemoveClose ==
  /\ SrvStep("close")
  /\ IF ropen[list[si]]
       THEN GiveBack(list[si], {"handle"}) /\ spc' = "unset"
       ELSE UNCHANGED <<heapVars, usbVars>> /\ spc' = "name"
  /\ UNCHANGED <<tableVars, ropen, sop, si, packed>> /\ NoFailure /\ NotServer

\* ... and then marked as closed.
RemoveUnset ==
  /\ SrvStep("unset")
  /\ ropen' = [ropen EXCEPT ![list[si]] = FALSE]
  /\ spc' = "name"
  /\ UNCHANGED <<tableVars, live, rdev, opened, named, twice, usbVars>>
  /\ UNCHANGED <<sop, si, packed>> /\ NoFailure /\ NotServer

\* nxtd_usb_close and nxtd_bt_close: free(nxt->nxt.name) ...
RemoveName ==
  /\ SrvStep("name")
  /\ GiveBack(list[si], {"name"})
  /\ spc' = "free"
  /\ UNCHANGED <<tableVars, ropen, sop, si, packed>> /\ NoFailure /\ NotServer

\* ... and free(nxt)
RemoveFree ==
  /\ SrvStep("free")
  /\ GiveBack(list[si], {"memory"})
  /\ spc' = "clear" /\ failed' = NULL
  /\ UNCHANGED <<tableVars, ropen, sop, si, packed, trouble>> /\ NotServer

\* Faulty: the slot keeps pointing to the freed record.
RemoveClearNot ==
  /\ SrvStep("clear")
  /\ Removed
  /\ UNCHANGED <<tableVars, heapVars, usbVars, sop, packed>>
  /\ NoFailure /\ NotServer

RemoveClear ==
  /\ SrvStep("clear")
  /\ list' = [list EXCEPT ![si] = NULL]
  /\ Removed
  /\ UNCHANGED <<mutex, heapVars, usbVars, sop, packed>>
  /\ NoFailure /\ NotServer

-----------------------------------------------------------------------------
(* The exit handler: whatever the server thread was doing stays undone,    *)
(* and the slots are closed but not cleared.                               *)

NotQuit == UNCHANGED <<tableVars, present, scanVars, srvVars>>

QuitBegin ==
  /\ quitting = "no"
  /\ quitting' = "closing"
  /\ UNCHANGED <<heapVars, usbVars, qi>> /\ NotQuit

QuitClose ==
  /\ quitting = "closing"
  /\ qi < MAXNUM
  /\ IF list[qi] = NULL
       THEN UNCHANGED <<heapVars, usbVars>>
       ELSE LET r == list[qi]
            IN  /\ GiveBack(r, IF ropen[r] THEN What ELSE What \ {"handle"})
                /\ ropen' = [ropen EXCEPT ![r] = FALSE]
  /\ qi' = qi + 1
  /\ UNCHANGED quitting /\ NotQuit

QuitDone ==
  /\ quitting = "closing"
  /\ qi = MAXNUM
  /\ quitting' = "exited"
  /\ UNCHANGED <<heapVars, usbVars, qi>> /\ NotQuit

Ended == quitting \in {"exited", "crashed"} /\ UNCHANGED vars

-----------------------------------------------------------------------------
Scan ==
  \/ UsbList \/ UsbDone
  \/ FindSlot \/ FindType \/ FindLoad \/ FindMiss \/ FindHit \/ FindNothing
  \/ ScanCrash
  \/ UsbOpen \/ UsbOpenFails \/ UsbNameFails
  \/ BtDone \/ BtLock \/ BtNameFails
  \/ RegLock \/ RegSlot \/ RegLog \/ RegFull \/ UsbTimeout
  \/ \E d \in USBDev : UsbNext(d)
  \/ \E d \in BTDev : BtNext(d)
  \/ \E r \in Rec : UsbName(r) \/ BtName(r)
  \/ \E found \in SUBSET BTDev : BtInquire(found)

Serve ==
  \/ ListLock \/ ListSkip \/ ListDone \/ IoLock \/ IoUnlock
  \/ \E ok \in BOOLEAN : ListKeepalive(ok) \/ Io(ok)
  \/ RemoveNothing \/ RemoveBegin \/ RemoveClose \/ RemoveUnset
  \/ RemoveName \/ RemoveFree \/ RemoveClear

Requests == \E op \in Ops, h \in Handle : Request(op, h)

Quit == QuitBegin \/ QuitClose \/ QuitDone \/ Ended

Bricks == \E d \in Dev : Attach(d) \/ Detach(d)

Next == Scan \/ Serve \/ Requests \/ Quit \/ Bricks

Spec == Init /\ [][Next]_vars

=============================================================================
