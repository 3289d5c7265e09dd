------------------------- MODULE NxtMountProperties -------------------------
(***************************************************************************)
(* What must be true of nxt_mount.                                         *)
(***************************************************************************)
EXTENDS NxtMount

Errors == {"none", "notfound", "mapped"}
Commands == {"OpenRead", "ReadPart", "CloseRead", "OpenWrite", "WritePart",
             "CloseWrite", "FindFirst", "FindNext", "CloseFound", "Remove"}

TypeOK ==
  /\ file \in [Name -> Content \cup {None}]
  /\ open \in [Hnd -> Opening \cup {None}]
  /\ error \in Errors
  /\ fd \in [Fd -> Record \cup {None, Null}]
  /\ call \in Operation \cup {None}
  /\ \A i \in DOMAIN todo : todo[i] \in Commands
  /\ {h, w} \subseteq Hnd \cup {None}
  /\ buf \in Content \cup {<<>>} /\ {want, k} \subseteq 0 .. Longest
  /\ ret \in {"ok", "failed", "null"} /\ found \subseteq Name
  /\ reply \in {"none", "ok", "failed"}
  /\ before \in [Name -> Content \cup {None}]
  /\ trouble \in BOOLEAN /\ fails \in 0 .. MaxFails

\* An operation gives back the handles of the brick that it has used, on
\* every path through the code; each failed transfer may cost one.
HandlesReturned ==
  call = None => Cardinality({x \in Hnd : open[x] # None}) <= fails

\* The mount is a file system: its operations look atomic, and what they do
\* and leave alone is what NxtFiles says, whatever fails on the way.
ShownFile == IF call = None \/ reply # "none" THEN file ELSE before
ShownNames == IF reply # "none" THEN found ELSE {}
Files0 == INSTANCE NxtFiles WITH file <- ShownFile, view <- fd,
                                 listed <- ShownNames, leaked <- fails > 0
IsFiles == Files0!FilesSpec
=============================================================================
