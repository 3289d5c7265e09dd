---------------------------- MODULE NxtRegistry ----------------------------
(***************************************************************************)
(* What the table of NXTs promises to the clients of nxtd: a handle names  *)
(* at most one brick, a brick has at most one handle, a handle is never    *)
(* handed to another brick without having been dropped in between, a brick *)
(* is dropped only when it failed, and an answer to LIST is the table of a *)
(* single instant.  No threads, no locks and no memory management are      *)
(* visible here; NxtdTable has them, and implements this specification.    *)
(***************************************************************************)
CONSTANTS Handle,   \* indices into the table
          Dev,      \* bricks, one per way of reaching them
          NoDev,    \* what an unused handle names
          Pending   \* the value of reply while a LIST is being answered

VARIABLES table,    \* table[h]: the brick that handle h names, or NoDev
          reply,    \* the last answer, a set of <<handle, brick>>, or Pending
          suspect   \* the handle that failed last and what it named then,
                    \* as a set of at most one pair

regVars == <<table, reply, suspect>>

Named == {d \in Dev : \E h \in Handle : table[h] = d}

Snapshot == {<<h, table[h]>> : h \in {k \in Handle : table[k] # NoDev}}

RegInit == /\ table = [h \in Handle |-> NoDev]
           /\ reply = {}
           /\ suspect = {}

Register(h, d) == /\ table[h] = NoDev
                  /\ d \notin Named
                  /\ table' = [table EXCEPT ![h] = d]
                  /\ UNCHANGED <<reply, suspect>>

\* A transfer through a handle fails.
Fail(h) == /\ suspect' = {<<h, table[h]>>}
           /\ UNCHANGED <<table, reply>>

\* The handle that failed is dropped, and with it the brick that failed.  If
\* the handle named no brick when it failed, one that was registered under it
\* since may be dropped: the one drop of a brick that did nothing wrong.
Drop(h) == /\ <<h, table[h]>> \in suspect \/ <<h, NoDev>> \in suspect
           /\ table' = [table EXCEPT ![h] = NoDev]
           /\ suspect' = {}
           /\ UNCHANGED reply

\* There is nothing to drop.
Acquit(h) == /\ <<h, NoDev>> \in suspect /\ table[h] = NoDev
             /\ suspect' = {}
             /\ UNCHANGED <<table, reply>>

\* A request arrives: the previous answer is overwritten.
Ask == /\ reply' \in {Pending, {}}
       /\ UNCHANGED <<table, suspect>>

Answer == /\ reply = Pending
          /\ reply' = Snapshot
          /\ UNCHANGED <<table, suspect>>

Shutdown == /\ table' = [h \in Handle |-> NoDev]
            /\ suspect' = {}
            /\ UNCHANGED reply

RegNext == \/ \E h \in Handle, d \in Dev : Register(h, d)
           \/ \E h \in Handle : Fail(h) \/ Drop(h) \/ Acquit(h)
           \/ Ask
           \/ Answer
           \/ Shutdown

RegSpec == RegInit /\ [][RegNext]_regVars
=============================================================================
