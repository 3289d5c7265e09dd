-------------------------- MODULE NxtNetProperties --------------------------
(***************************************************************************)
(* What must be true of the connections between nxtd and its clients.      *)
(***************************************************************************)
EXTENDS NxtNet

Answers == [op : Op, n : Value]

TypeOK ==
  /\ up \in BOOLEAN
  /\ cpc \in [Client -> CliPC] /\ asked \in [Client -> Op \cup {"none"}]
  /\ got \in [Client -> Answers \cup {Failure}]
  /\ shut \in [Client -> BOOLEAN]
  /\ c2s \in [Client -> Seq(Op)] /\ s2c \in [Client -> Seq(Answers)]
  /\ late \in [Client -> {"no", "body", "header"}]
  /\ backlog \in Seq(Client) /\ conn \in [Fd -> Client \cup {None}]
  /\ master \in SUBSET (Fd \cup {Listen}) /\ ready \in SUBSET (Fd \cup {Listen})
  /\ fdsMax \in Int
  /\ spc \in SrvPC
  /\ cur \in Client \cup {None} /\ req \in Op \cup {"none"}
  /\ garbled \in BOOLEAN

\* select watches exactly the listening socket and the sockets of the
\* clients: fds_max, which is only ever decreased by one and never searched
\* for, stays at or above all of them.
Watched ==
  /\ master = {Listen} \cup {f \in Fd : conn[f] # None}
  /\ \A f \in master : f <= fdsMax

\* A connection has one descriptor in nxtd, or it is waiting to be accepted,
\* or nxtd has closed it.
Places(c) == Cardinality({f \in Fd : conn[f] = c})
               + Cardinality({k \in DOMAIN backlog : backlog[k] = c})
OneSocketEach == \A c \in Client : Places(c) = IF shut[c] THEN 0 ELSE 1

\* The loop over fds_read never reads from a client that has sent nothing:
\* nothing that happens earlier in the pass, not even a descriptor that is
\* closed and given to another client, can make nxtnet_recv wait for one.
NeverWaitsForIdle ==
  up /\ spc = "loop" => \A f \in ready : Readable(f)

\* With at most three bricks, nxtnet_recv never finds an answer that it does
\* not expect, although RECV is answered as SEND.
AnswersExpected ==
  \A c \in Client : cpc[c] = "wait" /\ s2c[c] # <<>> => Accepted(c)

\* Every call is executed at most once, only with the password, and returns
\* what was executed for it: one buffer and one thread serve all clients.
Pending(c) == c2s[c] # <<>> \/ cur = c
RpcPhase == [c \in Client |->
  IF cpc[c] # "wait" THEN "idle"
  ELSE IF Pending(c) THEN "asked"
  ELSE IF s2c[c] # <<>> THEN "executed" ELSE "ignored"]
RpcCall == [c \in Client |->
  IF RpcPhase[c] = "asked" THEN [op |-> asked[c], n |-> Unknown]
  ELSE IF RpcPhase[c] = "executed" THEN s2c[c][1]
  ELSE [op |-> "none", n |-> Unknown]]

Rpc == INSTANCE NxtRpc WITH phase <- RpcPhase, call <- RpcCall

IsRpc == Rpc!RpcSpec

-----------------------------------------------------------------------------
(* Fairness: nxtd runs its loop, the network delivers what a living host    *)
(* has sent, and a client reads the answer it waits for.                    *)

Fairness ==
  /\ WF_vars(MainLoop)
  /\ \A c \in Client : /\ WF_vars(Arrive(c))
                       /\ WF_vars(CliReceive(c) \/ CliReject(c))
                       /\ WF_vars(CliEndOfFile(c))

FairSpec == Spec /\ Fairness

\* A host that vanished in the middle of a packet stops nxtd for everybody.
Torn == \E c \in Client : cpc[c] = "vanished" /\ late[c] # "no"

\* Every call of a client that nxtd answers returns, whatever the others do,
\* unless a host has vanished in the middle of a packet.
CallsReturn ==
  \A c \in Trusted : cpc[c] = "wait" ~> cpc[c] # "wait" \/ Torn
=============================================================================
