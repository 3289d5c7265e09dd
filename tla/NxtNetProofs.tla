----------------------------- MODULE NxtNetProofs -----------------------------
(***************************************************************************)
(* Proofs about the connections between nxtd and its clients, for all       *)
(* clients, hosts, descriptors and answers.  NInv is inductive.            *)
(***************************************************************************)
EXTENDS NxtNetProperties, TLAPS, FiniteSetTheorems

\* A client has at most one descriptor or place in the accept queue, and has
\* none when nxtd has closed its end.
Sockets ==
  /\ \A f, g \in Fd : conn[f] # None /\ conn[f] = conn[g] => f = g
  /\ \A i, j \in DOMAIN backlog : backlog[i] = backlog[j] => i = j
  /\ \A f \in Fd, i \in DOMAIN backlog : conn[f] # backlog[i]
  /\ \A c \in Client :
       shut[c] <=> /\ \A f \in Fd : conn[f] # c
                   /\ \A i \in DOMAIN backlog : backlog[i] # c

\* Nothing of a client whose connection nxtd has closed is left in nxtd.
Dropped == \A c \in Client :
  /\ shut[c] => c2s[c] = <<>> /\ cur # c
  /\ cpc[c] = "off" => shut[c]

\* What the main loop knows of the client it serves, and of those to come in
\* the pass.
Serving ==
  /\ spc \in {"half", "serve"} => cur \in Client /\ req \in Op
  /\ spc \in {"select", "loop"} => cur = None
  /\ spc = "select" => ready = {}
  /\ \A f \in ready : Readable(f)

NInv == TypeOK /\ Watched /\ Sockets /\ Dropped /\ Serving

-----------------------------------------------------------------------------
(* The clients.                                                            *)

\* nxtd starts with NInv.
LEMMA InitNInv == Init => NInv
<1> SUFFICES ASSUME Init PROVE NInv
  OBVIOUS
<1> USE NetAssumption DEF Init
<1>1. TypeOK
  <2>1. /\ c2s \in [Client -> Seq(Op)] /\ s2c \in [Client -> Seq(Answers)]
        /\ backlog \in Seq(Client) /\ got \in [Client -> Answers \cup {Failure}]
    OBVIOUS
  <2>2. /\ up \in BOOLEAN /\ cpc \in [Client -> CliPC] /\ asked \in [Client -> Op \cup {"none"}]
        /\ shut \in [Client -> BOOLEAN] /\ late \in [Client -> {"no", "body", "header"}]
        /\ spc \in SrvPC
    BY DEF CliPC, SrvPC
  <2>3. fdsMax \in Int
    OBVIOUS
  <2>4. conn \in [Fd -> Client \cup {None}]
    OBVIOUS
  <2>5. master \in SUBSET (Fd \cup {Listen}) /\ ready \in SUBSET (Fd \cup {Listen})
    OBVIOUS
  <2>6. cur \in Client \cup {None} /\ req \in Op \cup {"none"} /\ garbled \in BOOLEAN
    OBVIOUS
  <2> QED BY <2>1, <2>2, <2>3, <2>4, <2>5, <2>6 DEF TypeOK
<1>2. Watched
  BY DEF Watched
<1>3. Sockets
  BY DEF Sockets
<1>4. Dropped
  BY DEF Dropped
<1>5. Serving
  BY DEF Serving
<1> QED BY <1>1, <1>2, <1>3, <1>4, <1>5 DEF NInv

\* A connection gets a place in the accept queue.
LEMMA ConnectNInv ==
  ASSUME NInv, NEW c \in Client, Connect(c) PROVE NInv'
<1> USE DEF Connect, NotServer, bufVars
<1>1. TypeOK'
  BY DEF NInv, TypeOK, CliPC, SrvPC, cliVars, tcpVars
<1>2. Watched'
  BY DEF NInv, Watched
<1>3. Sockets'
  <2>1. /\ backlog \in Seq(Client) /\ backlog' = Append(backlog, c)
        /\ conn' = conn /\ shut' = [shut EXCEPT ![c] = FALSE] /\ shut[c]
        /\ shut \in [Client -> BOOLEAN]
    BY DEF NInv, TypeOK, Dropped
  <2>2. /\ \A i \in DOMAIN backlog : i \in DOMAIN backlog' /\ backlog'[i] = backlog[i]
        /\ \A i \in DOMAIN backlog' : i \in DOMAIN backlog \/ backlog'[i] = c
        /\ \A i, j \in DOMAIN backlog' : i \in DOMAIN backlog \/ j \in DOMAIN backlog \/ i = j
        /\ \E i \in DOMAIN backlog' : backlog'[i] = c
    BY <2>1
  <2> QED BY <2>1, <2>2 DEF NInv, Sockets
<1>4. Dropped'
  BY DEF NInv, TypeOK, Dropped, cliVars, tcpVars, Sockets
<1>5. Serving'
  <2>1. backlog' # <<>>
    BY DEF NInv, TypeOK
  <2>2. \A f \in ready : Readable(f) => Readable(f)'
    BY <2>1 DEF NInv, TypeOK, Readable
  <2> QED BY <2>2 DEF NInv, Serving
<1> QED BY <1>1, <1>2, <1>3, <1>4, <1>5 DEF NInv

LEMMA CliSendNInv ==
  ASSUME NInv, NEW c \in Client, NEW o \in Op, CliSend(c, o) PROVE NInv'
<1> USE DEF CliSend, NotServer, bufVars
<1>1. TypeOK'
  <2>1. c2s' \in [Client -> Seq(Op)]
    <3>1. c2s \in [Client -> Seq(Op)]
      BY DEF NInv, TypeOK
    <3>2. Append(c2s[c], o) \in Seq(Op)
      BY <3>1
    <3>3. [c2s EXCEPT ![c] = Append(@, o)] \in [Client -> Seq(Op)]
      BY <3>1, <3>2
    <3> QED BY <3>1, <3>3
  <2>2. late' \in [Client -> {"no", "body", "header"}]
    BY DEF NInv, TypeOK
  <2> HIDE DEF CliSend
  <2>3. /\ cpc' \in [Client -> CliPC] /\ asked' \in [Client -> Op \cup {"none"}]
        /\ got' \in [Client -> Answers \cup {Failure}]
    BY DEF CliSend, NInv, TypeOK, CliPC
  <2> QED BY <2>1, <2>2, <2>3 DEF CliSend, NInv, TypeOK
<1>2. Watched'
  BY DEF NInv, Watched
<1>3. Sockets'
  BY DEF NInv, Sockets, tcpVars
<1>4. Dropped'
  BY DEF NInv, TypeOK, Dropped, cliVars, tcpVars, Sockets
<1>5. Serving'
  BY DEF NInv, TypeOK, Serving, Readable, cliVars, tcpVars
<1> QED BY <1>1, <1>2, <1>3, <1>4, <1>5 DEF NInv

LEMMA ArriveNInv ==
  ASSUME NInv, NEW c \in Client, Arrive(c) PROVE NInv'
<1> USE DEF Arrive, NotServer, bufVars
<1>1. TypeOK'
  BY DEF NInv, TypeOK, CliPC, SrvPC, cliVars, tcpVars
<1>2. Watched'
  BY DEF NInv, Watched
<1>3. Sockets'
  BY DEF NInv, Sockets, tcpVars
<1>4. Dropped'
  BY DEF NInv, TypeOK, Dropped, cliVars, tcpVars, Sockets
<1>5. Serving'
  BY DEF NInv, TypeOK, Serving, Readable, cliVars, tcpVars
<1> QED BY <1>1, <1>2, <1>3, <1>4, <1>5 DEF NInv

LEMMA CliReceiveNInv ==
  ASSUME NInv, NEW c \in Client, CliReceive(c) PROVE NInv'
<1> USE DEF CliReceive, NotServer, bufVars, Returned
<1>1. TypeOK'
  BY DEF NInv, TypeOK, CliPC, SrvPC, cliVars, tcpVars
<1>2. Watched'
  BY DEF NInv, Watched
<1>3. Sockets'
  BY DEF NInv, Sockets, tcpVars
<1>4. Dropped'
  BY DEF NInv, TypeOK, Dropped, cliVars, tcpVars, Sockets
<1>5. Serving'
  BY DEF NInv, TypeOK, Serving, Readable, cliVars, tcpVars
<1> QED BY <1>1, <1>2, <1>3, <1>4, <1>5 DEF NInv

LEMMA CliRejectNInv ==
  ASSUME NInv, NEW c \in Client, CliReject(c) PROVE NInv'
<1> USE DEF CliReject, NotServer, bufVars, Returned
<1>1. TypeOK'
  BY DEF NInv, TypeOK, CliPC, SrvPC, cliVars, tcpVars
<1>2. Watched'
  BY DEF NInv, Watched
<1>3. Sockets'
  BY DEF NInv, Sockets, tcpVars
<1>4. Dropped'
  BY DEF NInv, TypeOK, Dropped, cliVars, tcpVars, Sockets
<1>5. Serving'
  BY DEF NInv, TypeOK, Serving, Readable, cliVars, tcpVars
<1> QED BY <1>1, <1>2, <1>3, <1>4, <1>5 DEF NInv

LEMMA CliEndOfFileNInv ==
  ASSUME NInv, NEW c \in Client, CliEndOfFile(c) PROVE NInv'
<1> USE DEF CliEndOfFile, NotServer, bufVars, Returned
<1>1. TypeOK'
  BY DEF NInv, TypeOK, CliPC, SrvPC, cliVars, tcpVars
<1>2. Watched'
  BY DEF NInv, Watched
<1>3. Sockets'
  BY DEF NInv, Sockets, tcpVars
<1>4. Dropped'
  BY DEF NInv, TypeOK, Dropped, cliVars, tcpVars, Sockets
<1>5. Serving'
  BY DEF NInv, TypeOK, Serving, Readable, cliVars, tcpVars
<1> QED BY <1>1, <1>2, <1>3, <1>4, <1>5 DEF NInv

\* The packets of a program that ends while nxtd serves it are not lost.
LEMMA CliExitNInv ==
  ASSUME NInv, NEW c \in Client, CliExit(c) PROVE NInv'
<1> USE DEF CliExit, NotServer, bufVars
<1>1. TypeOK'
  <2>1. /\ c2s' \in [Client -> Seq(Op)] /\ s2c' \in [Client -> Seq(Answers)]
        /\ late' \in [Client -> {"no", "body", "header"}]
    <3>1. <<>> \in Seq(Op) /\ <<>> \in Seq(Answers)
      OBVIOUS
    <3> QED BY <3>1 DEF NInv, TypeOK
  <2>2. cpc' \in [Client -> CliPC] /\ asked' \in [Client -> Op \cup {"none"}]
    BY DEF NInv, TypeOK, CliPC
  <2> QED BY <2>1, <2>2 DEF NInv, TypeOK
<1>2. Watched'
  BY DEF NInv, Watched
<1>3. Sockets'
  BY DEF NInv, Sockets, tcpVars
<1>4. Dropped'
  BY DEF NInv, TypeOK, Dropped, cliVars, tcpVars, Sockets
<1>5. Serving'
  <2>1. \A d \in Client : d # c => c2s'[d] = c2s[d] /\ cpc'[d] = cpc[d]
    BY DEF NInv, TypeOK
  <2>2. \A f \in Fd : conn[f] = c => cpc'[c] = "exited"
    BY DEF NInv, TypeOK, Sockets
  <2>3. \A f \in ready : Readable(f) => Readable(f)'
    <3> SUFFICES ASSUME NEW f \in ready, Readable(f) PROVE Readable(f)'
      OBVIOUS
    <3>1. f = Listen \/ (f \in Fd /\ conn[f] \in Client \cup {None})
      BY DEF NInv, TypeOK
    <3> QED BY <2>1, <2>2, <3>1 DEF Readable
  <2> QED BY <2>3 DEF NInv, Serving
<1> QED BY <1>1, <1>2, <1>3, <1>4, <1>5 DEF NInv

LEMMA VanishNInv ==
  ASSUME NInv, NEW c \in Client, Vanish(c) PROVE NInv'
<1> USE DEF Vanish, NotServer, bufVars
<1>1. TypeOK'
  BY DEF NInv, TypeOK, CliPC, SrvPC, cliVars, tcpVars
<1>2. Watched'
  BY DEF NInv, Watched
<1>3. Sockets'
  BY DEF NInv, Sockets, tcpVars
<1>4. Dropped'
  BY DEF NInv, TypeOK, Dropped, cliVars, tcpVars, Sockets
<1>5. Serving'
  BY DEF NInv, TypeOK, Serving, Readable, cliVars, tcpVars
<1> QED BY <1>1, <1>2, <1>3, <1>4, <1>5 DEF NInv

-----------------------------------------------------------------------------
(* The main loop of nxtd.                                                  *)

\* Closing connections of clients keeps the types of theirs.
LEMMA ClosedType ==
  ASSUME TypeOK, NEW C \in SUBSET Client, Closed(C)
  PROVE  /\ shut' \in [Client -> BOOLEAN] /\ c2s' \in [Client -> Seq(Op)]
         /\ late' \in [Client -> {"no", "body", "header"}] /\ cpc' \in [Client -> CliPC]
         /\ asked' \in [Client -> Op \cup {"none"}]
         /\ got' \in [Client -> Answers \cup {Failure}] /\ s2c' \in [Client -> Seq(Answers)]
<1>1. <<>> \in Seq(Op)
  OBVIOUS
<1> QED BY <1>1 DEF TypeOK, Closed, CliPC

\* Nothing is left of the clients in C, and the others' is as it was.
LEMMA DropClosed ==
  ASSUME TypeOK, Dropped, NEW C \in SUBSET Client, Closed(C), cur' \notin Client
  PROVE  Dropped'
<1>1. \A c \in Client : shut'[c] => c2s'[c] = <<>> /\ cur' # c
  BY DEF Dropped, Closed
<1>2. \A c \in Client : cpc'[c] = "off" => shut'[c]
  BY DEF Dropped, Closed
<1> QED BY <1>1, <1>2 DEF Dropped

\* The first connection in the accept queue, and those behind it.
LEMMA BacklogHead ==
  ASSUME NInv, backlog # <<>>
  PROVE  /\ Head(backlog) \in Client /\ Tail(backlog) \in Seq(Client)
         /\ 1 \in DOMAIN backlog /\ Head(backlog) = backlog[1]
         /\ \A i \in DOMAIN Tail(backlog) :
              i + 1 \in DOMAIN backlog /\ i + 1 # 1 /\ Tail(backlog)[i] = backlog[i + 1]
         /\ \A i \in DOMAIN backlog :
              i = 1 \/ (i - 1 \in DOMAIN Tail(backlog) /\ Tail(backlog)[i - 1] = backlog[i])
<1>1. backlog \in Seq(Client)
  BY DEF NInv, TypeOK
<1>2. ASSUME NEW S, NEW b \in Seq(S), b # <<>>
      PROVE  /\ Head(b) \in S /\ Tail(b) \in Seq(S) /\ 1 \in DOMAIN b /\ Head(b) = b[1]
             /\ \A i \in DOMAIN Tail(b) : i + 1 \in DOMAIN b /\ i + 1 # 1 /\ Tail(b)[i] = b[i + 1]
             /\ \A i \in DOMAIN b : i = 1 \/ (i - 1 \in DOMAIN Tail(b) /\ Tail(b)[i - 1] = b[i])
  BY <1>2
<1> QED BY <1>1, <1>2

\* Every descriptor that is watched is open, so select does not fail.
LEMMA SelectNInv == ASSUME NInv, Select PROVE NInv'
<1> USE DEF Select, cliVars, tcpVars, fdVars, bufVars
<1>1. TypeOK'
  BY DEF NInv, TypeOK, SrvPC
<1>2. Watched'
  BY DEF NInv, Watched
<1>3. Sockets'
  BY DEF NInv, Sockets
<1>4. Dropped'
  BY DEF NInv, Dropped
<1>5. Serving'
  <2>1. ~ \E f \in master : f # Listen /\ conn[f] = None
    BY DEF NInv, Watched
  <2>2. \A f \in ready' : Readable(f)
    BY <2>1
  <2> QED BY <2>2 DEF NInv, Serving, Readable
<1> QED BY <1>1, <1>2, <1>3, <1>4, <1>5 DEF NInv

LEMMA EndPassNInv == ASSUME NInv, EndPass PROVE NInv'
<1> USE DEF EndPass, cliVars, tcpVars, fdVars, bufVars
<1>1. TypeOK'
  BY DEF NInv, TypeOK, SrvPC
<1>2. Watched' /\ Sockets' /\ Dropped'
  BY DEF NInv, Watched, Sockets, Dropped
<1>3. Serving'
  BY DEF NInv, Serving
<1> QED BY <1>1, <1>2, <1>3 DEF NInv

\* A new descriptor is none of those that are watched, and fds_max is raised
\* to it.
LEMMA AcceptNInv == ASSUME NInv, NEW f \in Fd, Accept(f) PROVE NInv'
<1> USE DEF Accept, Turn, cliVars, tcpVars, bufVars
<1>0. /\ Head(backlog) \in Client /\ Tail(backlog) \in Seq(Client)
      /\ conn \in [Fd -> Client \cup {None}] /\ f \in Int /\ fdsMax \in Int
      /\ Listen \in Int /\ Listen \notin Fd /\ None \notin Client
  BY BacklogHead, NetAssumption DEF NInv, TypeOK
<1>1. TypeOK'
  <2>1. conn' \in [Fd -> Client \cup {None}] /\ fdsMax' \in Int
    BY <1>0 DEF Max2
  <2> QED BY <1>0, <2>1 DEF NInv, TypeOK
<1>2. Watched'
  <2>1. master' = {Listen} \cup {g \in Fd : conn'[g] # None}
    BY <1>0 DEF NInv, Watched
  <2>2. \A g \in master' : g <= fdsMax'
    <3>1. \A g \in master : g \in Int /\ g <= fdsMax
      BY <1>0, NetAssumption DEF NInv, Watched
    <3> QED BY <1>0, <3>1 DEF Max2
  <2> QED BY <2>1, <2>2 DEF Watched
<1>3. Sockets'
  <2> DEFINE c == Head(backlog)
  <2>1. \A i \in DOMAIN backlog' : i + 1 \in DOMAIN backlog /\ i + 1 # 1
                                /\ backlog'[i] = backlog[i + 1]
    BY BacklogHead
  <2>2. \A i \in DOMAIN backlog : i = 1 \/ \E j \in DOMAIN backlog' : backlog'[j] = backlog[i]
    BY BacklogHead
  <2>3. 1 \in DOMAIN backlog /\ c = backlog[1] /\ c \in Client
    BY BacklogHead
  <2>4. \A g \in Fd : conn'[g] = IF g = f THEN c ELSE conn[g]
    BY <1>0
  <2>5. shut' = shut /\ conn[f] = None /\ c # None
    BY <1>0
  <2> HIDE DEF c, Accept
  <2>6. \A g, h \in Fd : conn'[g] # None /\ conn'[g] = conn'[h] => g = h
    BY <2>3, <2>4 DEF NInv, Sockets
  <2>7. \A i, j \in DOMAIN backlog' : backlog'[i] = backlog'[j] => i = j
    <3>1. \A i, j \in DOMAIN backlog' : backlog'[i] = backlog'[j] => i + 1 = j + 1
      BY <2>1 DEF NInv, Sockets
    <3>2. \A i \in DOMAIN backlog' : i \in Int
      BY <1>0 DEF Accept
    <3> QED BY <3>1, <3>2
  <2>8. \A g \in Fd, i \in DOMAIN backlog' : conn'[g] # backlog'[i]
    BY <2>1, <2>3, <2>4 DEF NInv, Sockets
  <2>9. \A d \in Client : shut'[d] <=> /\ \A g \in Fd : conn'[g] # d
                                      /\ \A i \in DOMAIN backlog' : backlog'[i] # d
    <3> SUFFICES ASSUME NEW d \in Client
                 PROVE  shut'[d] <=> /\ \A g \in Fd : conn'[g] # d
                                     /\ \A i \in DOMAIN backlog' : backlog'[i] # d
      OBVIOUS
    <3>1. CASE d = c
      BY <2>3, <2>4, <2>5, <3>1 DEF NInv, Sockets
    <3>2. CASE d # c
      <4>1. (\A i \in DOMAIN backlog' : backlog'[i] # d) <=> \A i \in DOMAIN backlog : backlog[i] # d
        BY <2>1, <2>2, <2>3, <3>2
      <4>2. (\A g \in Fd : conn'[g] # d) <=> \A g \in Fd : conn[g] # d
        BY <1>0, <2>4, <2>5, <3>2
      <4> QED BY <2>5, <4>1, <4>2 DEF NInv, Sockets
    <3> QED BY <3>1, <3>2
  <2> QED BY <2>6, <2>7, <2>8, <2>9 DEF Sockets
<1>4. Dropped'
  BY DEF NInv, Dropped
<1>5. Serving'
  BY <1>0 DEF NInv, Serving, Readable
<1> QED BY <1>1, <1>2, <1>3, <1>4, <1>5 DEF NInv

LEMMA RefuseNInv == ASSUME NInv, Refuse PROVE NInv'
<1> USE DEF Refuse, Turn, bufVars
<1>0. /\ Head(backlog) \in Client /\ Tail(backlog) \in Seq(Client)
      /\ Closed({Head(backlog)})
  BY BacklogHead
<1>1. TypeOK'
  BY <1>0, ClosedType DEF NInv, TypeOK
<1>2. Watched'
  BY DEF NInv, Watched
<1>3. Sockets'
  <2> DEFINE c == Head(backlog)
  <2>1. \A i \in DOMAIN backlog' : i + 1 \in DOMAIN backlog /\ i + 1 # 1
                                /\ backlog'[i] = backlog[i + 1]
    BY BacklogHead
  <2>2. \A i \in DOMAIN backlog : i = 1 \/ \E j \in DOMAIN backlog' : backlog'[j] = backlog[i]
    BY BacklogHead
  <2>3. 1 \in DOMAIN backlog /\ c = backlog[1] /\ c \in Client
    BY BacklogHead
  <2>4. conn' = conn /\ \A d \in Client : shut'[d] = (shut[d] \/ d = c)
    BY DEF Closed
  <2>5. \A i \in DOMAIN backlog' : i \in Int
    BY <1>0
  <2> HIDE DEF c, Refuse
  <2>6. \A i, j \in DOMAIN backlog' : backlog'[i] = backlog'[j] => i = j
    <3>1. \A i, j \in DOMAIN backlog' : backlog'[i] = backlog'[j] => i + 1 = j + 1
      BY <2>1 DEF NInv, Sockets
    <3> QED BY <2>5, <3>1
  <2>7. \A g \in Fd, i \in DOMAIN backlog' : conn'[g] # backlog'[i]
    BY <2>1, <2>4 DEF NInv, Sockets
  <2>8. \A d \in Client : shut'[d] <=> /\ \A g \in Fd : conn'[g] # d
                                      /\ \A i \in DOMAIN backlog' : backlog'[i] # d
    <3> SUFFICES ASSUME NEW d \in Client
                 PROVE  shut'[d] <=> /\ \A g \in Fd : conn'[g] # d
                                     /\ \A i \in DOMAIN backlog' : backlog'[i] # d
      OBVIOUS
    <3>1. CASE d = c
      <4>1. \A g \in Fd : conn[g] # c
        BY <2>3 DEF NInv, Sockets
      <4>2. \A i \in DOMAIN backlog' : backlog'[i] # c
        BY <2>1, <2>3 DEF NInv, Sockets
      <4> QED BY <2>4, <3>1, <4>1, <4>2
    <3>2. CASE d # c
      <4>1. (\A i \in DOMAIN backlog' : backlog'[i] # d) <=> \A i \in DOMAIN backlog : backlog[i] # d
        BY <2>1, <2>2, <2>3, <3>2
      <4>2. shut'[d] = shut[d]
        BY <2>4, <3>2 DEF NInv, TypeOK
      <4> QED BY <2>4, <4>1, <4>2 DEF NInv, Sockets
    <3> QED BY <3>1, <3>2
  <2> QED BY <2>4, <2>6, <2>7, <2>8 DEF NInv, Sockets
<1>4. Dropped'
  <2>1. cur' = None /\ None \notin Client
    BY NetAssumption DEF NInv, Serving
  <2>2. {Head(backlog)} \in SUBSET Client
    BY <1>0
  <2> QED BY <1>0, <2>1, <2>2, DropClosed DEF NInv
<1>5. Serving'
  <2>1. \A g \in ready' : g \in Fd /\ conn[g] \in Client /\ conn[g] # Head(backlog) /\ Readable(g)
    BY BacklogHead DEF NInv, Serving, Sockets, TypeOK, Readable
  <2>2. \A g \in ready' : Readable(g)'
    BY <1>0, <2>1, NetAssumption DEF Readable, Closed
  <2> QED BY <2>2 DEF NInv, Serving
<1> QED BY <1>1, <1>2, <1>3, <1>4, <1>5 DEF NInv

LEMMA AcceptFailsNInv == ASSUME NInv, AcceptFails PROVE NInv'
BY DEF AcceptFails, Turn, cliVars, tcpVars, fdVars, bufVars, NInv, TypeOK, Watched,
       Sockets, Dropped, Serving, Readable

\* fds_max goes down only when the highest descriptor is closed.
LEMMA HangUpNInv == ASSUME NInv, NEW f \in Fd, HangUp(f) PROVE NInv'
<1> USE DEF HangUp, Turn, bufVars
<1>0. /\ conn \in [Fd -> Client \cup {None}] /\ conn[f] \in Client
      /\ Closed({conn[f]}) /\ conn' = [conn EXCEPT ![f] = None]
      /\ f \in Int /\ fdsMax \in Int /\ Listen \in Int /\ Listen \notin Fd /\ None \notin Client
  BY NetAssumption DEF NInv, TypeOK
<1>1. TypeOK'
  <2>1. conn' \in [Fd -> Client \cup {None}] /\ fdsMax' \in Int
    BY <1>0
  <2> QED BY <1>0, <2>1, ClosedType DEF NInv, TypeOK
<1>2. Watched'
  <2>1. master' = {Listen} \cup {g \in Fd : conn'[g] # None}
    BY <1>0 DEF NInv, Watched
  <2>2. \A g \in master' : g <= fdsMax'
    <3>1. \A g \in master : g \in Int /\ g <= fdsMax
      BY <1>0, NetAssumption DEF NInv, Watched
    <3> QED BY <1>0, <3>1
  <2> QED BY <2>1, <2>2 DEF Watched
<1>3. Sockets'
  <2>1. backlog' = backlog /\ \A g \in Fd : conn'[g] = IF g = f THEN None ELSE conn[g]
    BY <1>0
  <2>2. \A d \in Client : shut'[d] = (shut[d] \/ d = conn[f])
    BY DEF Closed
  <2>3. \A i \in DOMAIN backlog : backlog[i] # None
    BY <1>0 DEF NInv, TypeOK
  <2> HIDE DEF HangUp
  <2>4. \A g, h \in Fd : conn'[g] # None /\ conn'[g] = conn'[h] => g = h
    BY <2>1 DEF NInv, Sockets
  <2>5. \A g \in Fd, i \in DOMAIN backlog' : conn'[g] # backlog'[i]
    BY <2>1, <2>3 DEF NInv, Sockets
  <2>6. \A d \in Client : shut'[d] <=> /\ \A g \in Fd : conn'[g] # d
                                      /\ \A i \in DOMAIN backlog' : backlog'[i] # d
    <3> SUFFICES ASSUME NEW d \in Client
                 PROVE  shut'[d] <=> /\ \A g \in Fd : conn'[g] # d
                                     /\ \A i \in DOMAIN backlog' : backlog'[i] # d
      OBVIOUS
    <3>1. CASE d = conn[f]
      <4>1. \A g \in Fd : conn'[g] # d
        BY <1>0, <2>1, <3>1 DEF NInv, Sockets
      <4>2. \A i \in DOMAIN backlog : backlog[i] # d
        BY <3>1 DEF NInv, Sockets
      <4> QED BY <2>1, <2>2, <3>1, <4>1, <4>2
    <3>2. CASE d # conn[f]
      <4>1. (\A g \in Fd : conn'[g] # d) <=> \A g \in Fd : conn[g] # d
        BY <1>0, <2>1, <3>2
      <4>2. shut'[d] = shut[d]
        BY <2>2, <3>2 DEF NInv, TypeOK
      <4> QED BY <2>1, <4>1, <4>2 DEF NInv, Sockets
    <3> QED BY <3>1, <3>2
  <2> QED BY <2>1, <2>4, <2>5, <2>6 DEF NInv, Sockets
<1>4. Dropped'
  <2>1. cur' = None /\ None \notin Client
    BY NetAssumption DEF NInv, Serving
  <2>2. {conn[f]} \in SUBSET Client
    BY <1>0
  <2> QED BY <1>0, <2>1, <2>2, DropClosed DEF NInv
<1>5. Serving'
  <2>1. \A g \in ready' : g # f /\ Readable(g)
    BY DEF NInv, Serving
  <2>2. \A g \in ready' : g = Listen \/
          (g \in Fd /\ conn[g] \in Client /\ conn'[g] = conn[g] /\ conn[g] # conn[f])
    BY <1>0, <2>1 DEF NInv, Sockets, TypeOK, Readable
  <2>3. \A g \in ready' : Readable(g)'
    BY <1>0, <2>1, <2>2 DEF Readable, Closed
  <2> QED BY <2>3 DEF NInv, Serving
<1> QED BY <1>1, <1>2, <1>3, <1>4, <1>5 DEF NInv

LEMMA ReceiveNInv == ASSUME NInv, NEW f \in Fd, Receive(f) PROVE NInv'
<1> USE DEF Receive, Turn, cliVars, fdVars
<1>0. /\ conn[f] \in Client /\ Head(c2s[conn[f]]) \in Op
      /\ Tail(c2s[conn[f]]) \in Seq(Op) /\ c2s \in [Client -> Seq(Op)]
  BY DEF NInv, TypeOK
<1>1. TypeOK'
  <2>1. c2s' \in [Client -> Seq(Op)]
    BY <1>0
  <2>2. spc' \in SrvPC
    BY DEF SrvPC
  <2> QED BY <1>0, <2>1, <2>2 DEF NInv, TypeOK
<1>2. Watched'
  BY DEF NInv, Watched
<1>3. Sockets'
  BY DEF NInv, Sockets
<1>4. Dropped'
  BY <1>0 DEF NInv, Dropped, Sockets
<1>5. Serving'
  <2>1. \A g \in ready' : g # f /\ Readable(g)
    BY DEF NInv, Serving
  <2>2. \A g \in ready' : g = Listen \/ (g \in Fd /\ conn[g] # conn[f])
    BY <1>0, <2>1 DEF NInv, Sockets, TypeOK, Readable
  <2>3. \A g \in ready' : Readable(g)'
    BY <1>0, <2>1, <2>2 DEF Readable
  <2> QED BY <1>0, <2>3 DEF Serving
<1> QED BY <1>1, <1>2, <1>3, <1>4, <1>5 DEF NInv

LEMMA ReceiveRestNInv == ASSUME NInv, ReceiveRest PROVE NInv'
BY DEF ReceiveRest, cliVars, tcpVars, fdVars, NInv, TypeOK, SrvPC, Watched, Sockets,
       Dropped, Serving, Readable

\* An answer, or none, to the client that is served.
LEMMA ServedNInv ==
  ASSUME NInv, Served, spc = "serve", s2c' \in [Client -> Seq(Answers)]
  PROVE  NInv'
<1> USE DEF Served, cliVars, fdVars
<1>1. TypeOK'
  BY DEF NInv, TypeOK, SrvPC
<1>2. Watched' /\ Sockets' /\ Dropped'
  BY NetAssumption DEF NInv, Watched, Sockets, Dropped
<1>3. Serving'
  BY DEF NInv, Serving, Readable
<1> QED BY <1>1, <1>2, <1>3 DEF NInv

LEMMA ServeNInv == ASSUME NInv, NEW n \in Value, Serve(n) PROVE NInv'
<1>1. s2c' \in [Client -> Seq(Answers)]
  <2>1. s2c \in [Client -> Seq(Answers)] /\ cur \in Client /\ req \in Op
    BY DEF Serve, NInv, TypeOK, Serving
  <2>2. [op |-> req, n |-> n] \in Answers
    BY <2>1 DEF Answers
  <2>3. Append(s2c[cur], [op |-> req, n |-> n]) \in Seq(Answers)
    BY <2>1, <2>2
  <2> QED BY <2>1, <2>3 DEF Serve
<1> QED BY <1>1, ServedNInv DEF Serve

LEMMA WrongPasswordNInv == ASSUME NInv, WrongPassword PROVE NInv'
<1>1. s2c' \in [Client -> Seq(Answers)]
  BY DEF WrongPassword, NInv, TypeOK
<1> QED BY <1>1, ServedNInv DEF WrongPassword

\* A daemon that exits leaves nothing behind.
LEMMA SrvExitNInv == ASSUME NInv, SrvExit PROVE NInv'
<1> USE NetAssumption DEF SrvExit
<1>1. TypeOK'
  <2>1. conn' \in [Fd -> Client \cup {None}] /\ backlog' \in Seq(Client)
    OBVIOUS
  <2>2. fdsMax' \in Int /\ spc' \in SrvPC
    BY DEF SrvPC
  <2>3. Closed(Client)
    OBVIOUS
  <2> QED BY <2>1, <2>2, <2>3, ClosedType DEF NInv, TypeOK
<1>2. Watched'
  BY DEF Watched
<1>3. Sockets'
  <2>1. backlog' = <<>> /\ \A f \in Fd : conn'[f] = None
    OBVIOUS
  <2>2. \A c \in Client : shut'[c] = TRUE
    BY DEF Closed
  <2> QED BY <2>1, <2>2 DEF Sockets
<1>4. Dropped'
  BY DEF Dropped, Closed
<1>5. Serving'
  BY DEF Serving
<1> QED BY <1>1, <1>2, <1>3, <1>4, <1>5 DEF NInv

\* Every step keeps NInv.
LEMMA NextNInv == NInv /\ [Next]_vars => NInv'
<1> SUFFICES ASSUME NInv, [Next]_vars PROVE NInv'
  OBVIOUS
<1>1. CASE Clients
  BY <1>1, ConnectNInv, CliSendNInv, ArriveNInv, CliReceiveNInv, CliRejectNInv,
     CliEndOfFileNInv, CliExitNInv, VanishNInv DEF Clients
<1>2. CASE MainLoop
  BY <1>2, SelectNInv, EndPassNInv, RefuseNInv, AcceptFailsNInv, ReceiveRestNInv,
     WrongPasswordNInv, AcceptNInv, HangUpNInv, ReceiveNInv, ServeNInv DEF MainLoop
<1>3. CASE SrvExit
  BY <1>3, SrvExitNInv
<1>4. CASE SrvStart \/ UNCHANGED vars
  <2>1. UNCHANGED <<cliVars, tcpVars, fdVars, spc, ready, bufVars>> /\ up' \in BOOLEAN
    BY <1>4 DEF SrvStart, vars, NInv, TypeOK
  <2>2. TypeOK'
    BY <2>1 DEF cliVars, tcpVars, fdVars, bufVars, NInv, TypeOK
  <2>3. Watched' /\ Sockets'
    BY <2>1 DEF tcpVars, fdVars, NInv, Watched, Sockets
  <2>4. Dropped' /\ Serving'
    BY <2>1 DEF cliVars, tcpVars, fdVars, bufVars, NInv, Dropped, Serving, Readable
  <2> QED BY <2>2, <2>3, <2>4 DEF NInv
<1> QED BY <1>1, <1>2, <1>3, <1>4 DEF Next

\* Every reachable state satisfies NInv.
LEMMA AlwaysNInv == Spec => []NInv
BY InitNInv, NextNInv, PTL DEF Spec

\* TypeOK: every variable keeps its type, for any clients, hosts and descriptors.
THEOREM NetTypes == Spec => []TypeOK
<1>1. NInv => TypeOK
  BY DEF NInv
<1> QED BY <1>1, AlwaysNInv, PTL

\* Watched: select (server.c) watches exactly the listening socket and the
\* clients' sockets, whatever descriptors accept gives and in whatever order
\* they are closed, although fds_max is only ever lowered by one.
THEOREM AllWatched == Spec => []Watched
<1>1. NInv => Watched
  BY DEF NInv
<1> QED BY <1>1, AlwaysNInv, PTL

\* OneSocketEach: a connection has one descriptor in nxtd or one place in the
\* accept queue until nxtd closes it, and none afterwards: none leaks and none
\* is closed twice.
THEOREM NoSocketLeaks == Spec => []OneSocketEach
<1>1. ASSUME NInv, NEW c \in Client PROVE Places(c) = IF shut[c] THEN 0 ELSE 1
  <2> DEFINE F == {f \in Fd : conn[f] = c}
             B == {k \in DOMAIN backlog : backlog[k] = c}
  <2>1. c # None
    BY NetAssumption
  <2>2. CASE shut[c]
    <3>1. F = {} /\ B = {}
      BY <1>1, <2>2 DEF NInv, Sockets
    <3> QED BY <2>2, <3>1, FS_EmptySet DEF Places
  <2>3. CASE ~shut[c] /\ \E f \in Fd : conn[f] = c
    <3>1. PICK f \in Fd : conn[f] = c
      BY <2>3
    <3>2. F = {f} /\ B = {}
      BY <1>1, <2>1, <3>1 DEF NInv, Sockets
    <3>3. Cardinality({f}) = 1 /\ Cardinality({}) = 0
      BY FS_EmptySet, FS_Singleton
    <3> HIDE DEF F, B
    <3>4. Cardinality(F) = 1 /\ Cardinality(B) = 0
      BY <3>2, <3>3
    <3> QED BY <2>3, <3>4 DEF Places, F, B
  <2>4. CASE ~shut[c] /\ ~ \E f \in Fd : conn[f] = c
    <3>1. PICK k \in DOMAIN backlog : backlog[k] = c
      BY <1>1, <2>4 DEF NInv, Sockets
    <3>2. F = {} /\ B = {k}
      BY <1>1, <2>4, <3>1 DEF NInv, Sockets
    <3>3. Cardinality({k}) = 1 /\ Cardinality({}) = 0
      BY FS_EmptySet, FS_Singleton
    <3> HIDE DEF F, B
    <3>4. Cardinality(F) = 0 /\ Cardinality(B) = 1
      BY <3>2, <3>3
    <3> QED BY <2>4, <3>4 DEF Places, F, B
  <2> QED BY <2>2, <2>3, <2>4
<1>2. NInv => OneSocketEach
  BY <1>1 DEF OneSocketEach
<1> QED BY <1>2, AlwaysNInv, PTL

\* NeverWaitsForIdle: nothing that happens earlier in a pass over fds_read, not
\* even a descriptor that is closed and given to another client, makes nxtd
\* read from a client that has sent nothing.
THEOREM NeverWaits == Spec => []NeverWaitsForIdle
<1>1. NInv => NeverWaitsForIdle
  BY DEF NInv, Serving, NeverWaitsForIdle
<1> QED BY <1>1, AlwaysNInv, PTL

-----------------------------------------------------------------------------
(* The answers, when LIST finds at most three bricks.                      *)

\* A client has one packet under way, if any: its request, the request that
\* nxtd is serving, or the answer to it.
Answer(o, s) == \E n \in Results(o) : s = <<[op |-> o, n |-> n]>>
Exchange(c) ==
  /\ Len(c2s[c]) <= 1 /\ (c2s[c] # <<>> => cur # c)
  /\ cpc[c] # "wait" => s2c[c] = <<>>
  /\ cpc[c] = "idle" => c2s[c] = <<>> /\ cur # c
  /\ cpc[c] = "wait" =>
       /\ asked[c] \in Op
       /\ c2s[c] # <<>> => c2s[c] = <<asked[c]>> /\ s2c[c] = <<>>
       /\ cur = c => req = asked[c] /\ s2c[c] = <<>>
       /\ s2c[c] # <<>> => Answer(asked[c], s2c[c])
Traffic == \A c \in Client : Exchange(c)

\* An answer is what was expected, and fits into the buffer.
LEMMA AnswerAccepted ==
  ASSUME Counts \subseteq 0 .. 3, NEW c \in Client, cpc[c] = "wait", s2c[c] # <<>>, Exchange(c)
  PROVE  Accepted(c)
<1>1. asked[c] \in Op
  BY DEF Exchange
<1>2. PICK n \in Results(asked[c]) : s2c[c] = <<[op |-> asked[c], n |-> n]>>
  BY DEF Exchange, Answer
<1>3. Head(s2c[c]) = [op |-> asked[c], n |-> n]
  BY <1>2
<1>4. SizeOf(asked[c], n) <= BUFSIZE
  <2>1. CASE asked[c] = "list"
    BY <2>1 DEF Results, SizeOf, BUFSIZE, HeaderSize
  <2>2. CASE asked[c] = "send"
    BY <2>2 DEF Results, SizeOf, BUFSIZE, HeaderSize
  <2>3. CASE asked[c] = "recv"
    BY <2>3 DEF Results, SizeOf, BUFSIZE, HeaderSize
  <2> QED BY <1>1, <2>1, <2>2, <2>3 DEF Op
<1> QED BY <1>3, <1>4 DEF Accepted, AnswerCmd, ExpectedCmd

LEMMA InitTraffic == Init => Traffic
<1> SUFFICES ASSUME Init, NEW c \in Client PROVE Exchange(c)
  BY DEF Traffic
<1> QED BY NetAssumption DEF Init, Exchange

\* A step of a client changes its own exchange only.
LEMMA ClientsTraffic ==
  ASSUME Counts \subseteq 0 .. 3, NInv, Traffic, Clients PROVE Traffic'
<1> SUFFICES ASSUME NEW d \in Client PROVE Exchange(d)'
  BY DEF Traffic
<1> USE DEF NotServer, bufVars
<1>0. Exchange(d)
  BY DEF Traffic
<1>1. ASSUME NEW c \in Client, Connect(c) PROVE Exchange(d)'
  BY <1>0, <1>1 DEF Connect, Exchange, NInv, TypeOK, Dropped
<1>2. ASSUME NEW c \in Client, NEW o \in Op, CliSend(c, o) PROVE Exchange(d)'
  BY <1>0, <1>2 DEF CliSend, Exchange, NInv, TypeOK, Dropped
<1>3. ASSUME NEW c \in Client, Arrive(c) PROVE Exchange(d)'
  BY <1>0, <1>3 DEF Arrive, Exchange, cliVars
<1>4. ASSUME NEW c \in Client, CliReceive(c) PROVE Exchange(d)'
  BY <1>0, <1>4 DEF CliReceive, Returned, Exchange, Answer, NInv, TypeOK
<1>5. ASSUME NEW c \in Client, CliReject(c) PROVE Exchange(d)'
  BY <1>0, <1>5, AnswerAccepted DEF CliReject, Traffic
<1>6. ASSUME NEW c \in Client, CliEndOfFile(c) PROVE Exchange(d)'
  BY <1>0, <1>6 DEF CliEndOfFile, Returned, tcpVars, Exchange, NInv, TypeOK, Dropped
<1>7. ASSUME NEW c \in Client, CliExit(c) PROVE Exchange(d)'
  BY <1>0, <1>7 DEF CliExit, Exchange, NInv, TypeOK, Dropped
<1>8. ASSUME NEW c \in Client, Vanish(c) PROVE Exchange(d)'
  BY <1>0, <1>8 DEF Vanish, Exchange, NInv, TypeOK
<1> QED BY <1>1, <1>2, <1>3, <1>4, <1>5, <1>6, <1>7, <1>8 DEF Clients

\* So does a step of nxtd, with the client it serves or those it drops.
LEMMA DropTraffic ==
  ASSUME NInv, Traffic, NEW C \in SUBSET Client, Closed(C), req' = req, cur = None, cur' = None
  PROVE  Traffic'
<1> SUFFICES ASSUME NEW d \in Client PROVE Exchange(d)'
  BY DEF Traffic
<1>1. Exchange(d)
  BY DEF Traffic
<1> QED BY <1>1, NetAssumption DEF Closed, Exchange, NInv, TypeOK

LEMMA MainLoopTraffic == ASSUME NInv, Traffic, MainLoop PROVE Traffic'
<1>0. \A d \in Client : Exchange(d)
  BY DEF Traffic
<1>1. CASE Select \/ EndPass \/ AcceptFails \/ \E f \in Fd : Accept(f)
  BY <1>1 DEF Select, EndPass, AcceptFails, Accept, cliVars, tcpVars, bufVars, Traffic, Exchange
<1>2. CASE Refuse
  <2>1. Head(backlog) \in Client
    BY <1>2, BacklogHead DEF Refuse
  <2> QED BY <1>2, <2>1, DropTraffic DEF Refuse, Turn, bufVars, NInv, Serving
<1>3. ASSUME NEW f \in Fd, HangUp(f) PROVE Traffic'
  <2>1. conn[f] \in Client
    BY <1>3 DEF HangUp, NInv, TypeOK
  <2> QED BY <1>3, <2>1, DropTraffic DEF HangUp, Turn, bufVars, NInv, Serving
<1>4. ASSUME NEW f \in Fd, Receive(f) PROVE Traffic'
  <2> SUFFICES ASSUME NEW d \in Client PROVE Exchange(d)'
    BY DEF Traffic
  <2>1. cur = None /\ None \notin Client
    BY <1>4, NetAssumption DEF Receive, Turn, NInv, Serving
  <2> QED BY <1>0, <1>4, <2>1 DEF Receive, cliVars, Exchange, NInv, TypeOK
<1>5. CASE ReceiveRest
  BY <1>5 DEF ReceiveRest, cliVars, tcpVars, Traffic, Exchange
<1>6. ASSUME NEW n \in Value, Serve(n) PROVE Traffic'
  <2> SUFFICES ASSUME NEW d \in Client PROVE Exchange(d)'
    BY DEF Traffic
  <2>1. cur \in Client /\ None \notin Client
    BY <1>6, NetAssumption DEF Serve, NInv, Serving
  <2>2. Exchange(d)
    BY <1>0
  <2>3. /\ UNCHANGED <<cpc, asked, got, c2s>> /\ cur' = None /\ req' = "none"
        /\ s2c' = IF cpc[cur] \in {"idle", "wait"}
                    THEN [s2c EXCEPT ![cur] = Append(@, [op |-> req, n |-> n])] ELSE s2c
        /\ s2c \in [Client -> Seq(Answers)]
    BY <1>6 DEF Serve, Served, cliVars, NInv, TypeOK
  <2>4. CASE d # cur
    <3>1. s2c'[d] = s2c[d] /\ cur' # d
      BY <2>1, <2>3, <2>4
    <3> QED BY <2>2, <2>3, <2>4, <3>1 DEF Exchange, Answer
  <2>5. CASE d = cur
    <3>1. CASE cpc[d] = "wait"
      <4>1. req = asked[d] /\ s2c[d] = <<>> /\ c2s[d] = <<>> /\ asked[d] \in Op
        BY <2>2, <2>5, <3>1 DEF Exchange
      <4>2. s2c'[d] = Append(<<>>, [op |-> asked[d], n |-> n])
        BY <2>3, <2>5, <3>1, <4>1
      <4>3. s2c'[d] = <<[op |-> asked[d], n |-> n]>>
        BY <4>2
      <4>4. n \in Results(asked[d])
        BY <1>6, <4>1 DEF Serve
      <4>5. Answer(asked[d], s2c'[d]) /\ Len(<<>>) = 0
        BY <4>3, <4>4 DEF Answer
      <4>6. Answer(asked[d], s2c[d])'
        BY <2>3, <4>5
      <4> QED BY <2>1, <2>3, <3>1, <4>1, <4>6 DEF Exchange
    <3>2. CASE cpc[d] # "wait"
      <4>1. s2c'[d] = s2c[d]
        BY <2>2, <2>3, <2>5, <3>2 DEF Exchange
      <4> QED BY <2>1, <2>2, <2>3, <3>2, <4>1 DEF Exchange, Answer
    <3> QED BY <3>1, <3>2
  <2> QED BY <2>4, <2>5
<1>7. CASE WrongPassword
  BY <1>7, NetAssumption DEF WrongPassword, Served, cliVars, Traffic, Exchange
<1> QED BY <1>1, <1>2, <1>3, <1>4, <1>5, <1>6, <1>7 DEF MainLoop

LEMMA AlwaysTraffic == ASSUME Counts \subseteq 0 .. 3 PROVE Spec => []Traffic
<1>1. NInv /\ Traffic /\ [Next]_vars => Traffic'
  <2> SUFFICES ASSUME NInv, Traffic, [Next]_vars PROVE Traffic'
    OBVIOUS
  <2>1. CASE SrvExit
    <3> SUFFICES ASSUME NEW d \in Client PROVE Exchange(d)'
      BY DEF Traffic
    <3> QED BY <2>1, NetAssumption DEF SrvExit, Closed, Traffic, Exchange, NInv, TypeOK
  <2>2. CASE SrvStart \/ UNCHANGED vars
    BY <2>2 DEF SrvStart, vars, cliVars, tcpVars, bufVars, Traffic, Exchange
  <2> QED BY <2>1, <2>2, ClientsTraffic, MainLoopTraffic DEF Next
<1> QED BY <1>1, InitTraffic, AlwaysNInv, PTL DEF Spec

\* AnswersExpected: with at most three bricks in a LIST, nxtnet_recv (packet.c)
\* never finds an answer that it does not expect or that is too long for its
\* buffer, although RECV is answered as SEND.
THEOREM ExpectedAnswers == ASSUME Counts \subseteq 0 .. 3 PROVE Spec => []AnswersExpected
<1>1. Traffic => AnswersExpected
  BY AnswerAccepted DEF Traffic, AnswersExpected
<1> QED BY <1>1, AlwaysTraffic, PTL

-----------------------------------------------------------------------------
(***************************************************************************)
(* The server with one thread and one buffer implements the calls of        *)
(* NxtRpc, for all clients, hosts and descriptors, as long as answers fit   *)
(* and a client that knows the password does not move between hosts.        *)
(***************************************************************************)
\* A client that is served was let in.
Admitted == /\ \A f \in Fd : conn[f] # None => conn[f] \in Near
            /\ cur # None => cur \in Near

Settled == Counts \subseteq 0 .. 3 /\ Knows \cap Near \subseteq Trusted

LEMMA InitAdmitted == Init => Admitted
BY DEF Init, Admitted

LEMMA NextAdmitted == NInv /\ Admitted /\ [Next]_vars => Admitted'
<1> SUFFICES ASSUME NInv, Admitted, [Next]_vars PROVE Admitted'
  OBVIOUS
<1> USE DEF Admitted, cliVars, tcpVars, fdVars, bufVars
<1>1. CASE Clients
  BY <1>1 DEF Clients, NotServer, Connect, Arrive, CliSend, CliReceive, CliReject,
              CliEndOfFile, CliExit, Vanish
<1>2. CASE Select \/ EndPass \/ Refuse \/ AcceptFails \/ ReceiveRest \/ WrongPassword
  BY <1>2 DEF Select, EndPass, Refuse, AcceptFails, ReceiveRest, WrongPassword, Served
<1>3. ASSUME NEW f \in Fd, Accept(f) PROVE Admitted'
  BY <1>3 DEF Accept, NInv, TypeOK
<1>4. ASSUME NEW f \in Fd, HangUp(f) \/ Receive(f) PROVE Admitted'
  BY <1>4 DEF HangUp, Receive, NInv, TypeOK
<1>5. ASSUME NEW n \in Value, Serve(n) PROVE Admitted'
  BY <1>5 DEF Serve, Served
<1>6. CASE SrvExit \/ SrvStart \/ UNCHANGED vars
  BY <1>6 DEF SrvExit, SrvStart, vars
<1> QED BY <1>1, <1>2, <1>3, <1>4, <1>5, <1>6 DEF Next, MainLoop

-----------------------------------------------------------------------------
(* How a step looks to the programs.                                       *)

LEMMA PhaseAt ==
  \A c \in Client :
    /\ cpc[c] # "wait" => RpcPhase[c] = "idle"
    /\ cpc[c] = "wait" /\ Pending(c) => RpcPhase[c] = "asked"
    /\ cpc[c] = "wait" /\ ~Pending(c) /\ s2c[c] # <<>> => RpcPhase[c] = "executed"
    /\ cpc[c] = "wait" /\ ~Pending(c) /\ s2c[c] = <<>> => RpcPhase[c] = "ignored"
BY DEF RpcPhase

LEMMA PhaseNext ==
  \A c \in Client :
    /\ cpc'[c] # "wait" => RpcPhase'[c] = "idle"
    /\ cpc'[c] = "wait" /\ Pending(c)' => RpcPhase'[c] = "asked"
    /\ cpc'[c] = "wait" /\ ~Pending(c)' /\ s2c'[c] # <<>> => RpcPhase'[c] = "executed"
    /\ cpc'[c] = "wait" /\ ~Pending(c)' /\ s2c'[c] = <<>> => RpcPhase'[c] = "ignored"
BY DEF RpcPhase

LEMMA CallAt ==
  \A c \in Client :
    /\ RpcPhase[c] = "asked" => RpcCall[c] = [op |-> asked[c], n |-> Unknown]
    /\ RpcPhase[c] = "executed" => RpcCall[c] = s2c[c][1]
    /\ RpcPhase[c] \in {"idle", "ignored"} => RpcCall[c] = Rpc!NoCall
BY DEF RpcCall, Rpc!NoCall

LEMMA CallNext ==
  \A c \in Client :
    /\ RpcPhase'[c] = "asked" => RpcCall'[c] = [op |-> asked'[c], n |-> Unknown]
    /\ RpcPhase'[c] = "executed" => RpcCall'[c] = s2c'[c][1]
    /\ RpcPhase'[c] \in {"idle", "ignored"} => RpcCall'[c] = Rpc!NoCall
BY DEF RpcCall, Rpc!NoCall

\* Nothing has happened to a call, or nobody waits for it before and after.
Same(c) == RpcPhase'[c] = RpcPhase[c] /\ RpcCall'[c] = RpcCall[c]

LEMMA StaysSame ==
  ASSUME NEW c \in Client, cpc'[c] = cpc[c], asked'[c] = asked[c], s2c'[c] = s2c[c],
         Pending(c)' <=> Pending(c)
  PROVE  Same(c)
<1>1. RpcPhase'[c] = RpcPhase[c]
  BY DEF RpcPhase
<1>2. RpcCall'[c] = RpcCall[c]
  BY <1>1 DEF RpcCall
<1> QED BY <1>1, <1>2 DEF Same

LEMMA NobodyWaits ==
  ASSUME NEW c \in Client, cpc[c] # "wait", cpc'[c] # "wait" PROVE Same(c)
BY PhaseAt, PhaseNext, CallAt, CallNext DEF Same

LEMMA AllSame ==
  ASSUME \A c \in Client : Same(c) PROVE UNCHANGED <<RpcPhase, RpcCall>>
BY DEF Same, RpcPhase, RpcCall

LEMMA OneMoves ==
  ASSUME NEW c \in Client, NEW from, RpcPhase[c] \in from, \A d \in Client \ {c} : Same(d)
  PROVE  Rpc!Step(c, from, RpcPhase'[c], RpcCall'[c])
<1>1. RpcPhase' = [RpcPhase EXCEPT ![c] = RpcPhase'[c]]
  BY DEF Same, RpcPhase
<1>2. RpcCall' = [RpcCall EXCEPT ![c] = RpcCall'[c]]
  BY DEF Same, RpcCall
<1> QED BY <1>1, <1>2 DEF Rpc!Step

Stutters == UNCHANGED <<RpcPhase, RpcCall, got>>
Refines == Rpc!RpcNext \/ Stutters
-----------------------------------------------------------------------------
(* The clients.                                                            *)

LEMMA ClientsRefine ==
  ASSUME Settled, NInv, Traffic, Clients PROVE Refines
<1> USE DEF NotServer, bufVars, Refines, Stutters
<1>0. \A d \in Client : Exchange(d) /\ (shut[d] => c2s[d] = <<>> /\ cur # d)
  BY DEF Traffic, NInv, Dropped
<1>t. /\ cpc \in [Client -> CliPC] /\ asked \in [Client -> Op \cup {"none"}]
      /\ got \in [Client -> Answers \cup {Failure}]
      /\ c2s \in [Client -> Seq(Op)] /\ s2c \in [Client -> Seq(Answers)]
  BY DEF NInv, TypeOK
<1>1. ASSUME NEW c \in Client, Connect(c) PROVE Refines
  <2>1. \A d \in Client : Same(d)
    BY <1>1, <1>t, NobodyWaits, StaysSame DEF Connect, Pending
  <2> QED BY <1>1, <2>1, AllSame DEF Connect
<1>2. ASSUME NEW c \in Client, NEW o \in Op, CliSend(c, o) PROVE Refines
  <2>1. \A d \in Client \ {c} : Same(d)
    BY <1>2, <1>t, StaysSame DEF CliSend, Pending
  <2>2. RpcPhase[c] = "idle" /\ cpc'[c] = "wait" /\ asked'[c] = o
    BY <1>2, <1>t, PhaseAt DEF CliSend
  <2>3. got' = [got EXCEPT ![c] = Rpc!Failure]
    BY <1>2 DEF CliSend, Failure, Rpc!Failure
  <2>4. CASE shut[c]
    <3>1. RpcPhase'[c] = "ignored"
      BY <1>0, <1>2, <1>t, <2>2, <2>4, PhaseNext DEF CliSend, Pending, Exchange
    <3>2. RpcCall'[c] = Rpc!NoCall
      BY <3>1, CallNext
    <3>3. Rpc!CallLost(c)
      BY <2>1, <2>2, <2>3, <3>1, <3>2, OneMoves, Zenon DEF Rpc!CallLost
    <3> QED BY <3>3 DEF Rpc!RpcNext
  <2>5. CASE ~shut[c]
    <3>1. RpcPhase'[c] = "asked"
      BY <1>2, <1>t, <2>2, <2>5, PhaseNext DEF CliSend, Pending
    <3>2. RpcCall'[c] = [op |-> o, n |-> Unknown]
      BY <2>2, <3>1, CallNext
    <3>3. Rpc!Call(c, o)
      BY <2>1, <2>2, <2>3, <3>1, <3>2, OneMoves DEF Rpc!Call
    <3> QED BY <3>3 DEF Rpc!RpcNext
  <2> QED BY <2>4, <2>5
<1>3. ASSUME NEW c \in Client, Arrive(c) PROVE Refines
  <2>1. \A d \in Client : Same(d)
    BY <1>3, StaysSame DEF Arrive, cliVars, Pending
  <2> QED BY <1>3, <2>1, AllSame DEF Arrive, cliVars
<1>4. ASSUME NEW c \in Client, CliReceive(c) PROVE Refines
  <2>1. \A d \in Client \ {c} : Same(d)
    BY <1>4, <1>t, StaysSame DEF CliReceive, Returned, Pending
  <2>2. RpcPhase[c] = "executed"
    BY <1>0, <1>4, PhaseAt DEF CliReceive, Exchange, Pending
  <2>3. RpcPhase'[c] = "idle"
    BY <1>4, <1>t, PhaseNext DEF CliReceive, Returned
  <2>4. RpcCall[c] = Head(s2c[c]) /\ RpcCall'[c] = Rpc!NoCall
    <3>1. RpcCall[c] = s2c[c][1] /\ RpcCall'[c] = Rpc!NoCall
      BY <2>2, <2>3, CallAt, CallNext
    <3>2. s2c[c] \in Seq(Answers) /\ s2c[c] # <<>>
      BY <1>4, <1>t DEF CliReceive
    <3> QED BY <3>1, <3>2
  <2>5. got' = [got EXCEPT ![c] = RpcCall[c]]
    BY <1>4, <2>4 DEF CliReceive, Returned
  <2>6. Rpc!Return(c)
    BY <2>1, <2>2, <2>3, <2>4, <2>5, OneMoves DEF Rpc!Return
  <2> QED BY <2>6 DEF Rpc!RpcNext
<1>5. ASSUME NEW c \in Client, CliReject(c) PROVE Refines
  BY <1>0, <1>5, AnswerAccepted DEF CliReject, Settled
<1>6. ASSUME NEW c \in Client, CliEndOfFile(c) PROVE Refines
  <2>1. \A d \in Client \ {c} : Same(d)
    BY <1>6, <1>t, StaysSame DEF CliEndOfFile, Returned, tcpVars, Pending
  <2>2. RpcPhase[c] = "ignored"
    BY <1>0, <1>6, PhaseAt DEF CliEndOfFile, Pending
  <2>3. RpcPhase'[c] = "idle"
    BY <1>6, <1>t, PhaseNext DEF CliEndOfFile, Returned
  <2>4. RpcCall'[c] = Rpc!NoCall /\ got' = [got EXCEPT ![c] = Rpc!Failure]
    BY <1>6, <2>3, CallNext DEF CliEndOfFile, Returned, Failure, Rpc!Failure
  <2>5. Rpc!Fail(c)
    BY <2>1, <2>2, <2>3, <2>4, OneMoves DEF Rpc!Fail
  <2> QED BY <2>5 DEF Rpc!RpcNext
<1>7. ASSUME NEW c \in Client, CliExit(c) \/ Vanish(c) PROVE Refines
  <2>1. \A d \in Client \ {c} : Same(d)
    BY <1>7, <1>t, StaysSame DEF CliExit, Vanish, Pending
  <2>2. cpc'[c] # "wait" /\ UNCHANGED got
    BY <1>7, <1>t DEF CliExit, Vanish
  <2>3. CASE cpc[c] = "wait"
    <3>1. RpcPhase[c] \in Rpc!Phase \ {"idle"}
      BY <2>3, PhaseAt DEF Rpc!Phase
    <3>2. RpcPhase'[c] = "idle"
      BY <2>2, PhaseNext
    <3>3. RpcCall'[c] = Rpc!NoCall
      BY <3>2, CallNext
    <3>4. Rpc!Forget(c)
      BY <2>1, <2>2, <3>1, <3>2, <3>3, OneMoves DEF Rpc!Forget
    <3> QED BY <3>4 DEF Rpc!RpcNext
  <2>4. CASE cpc[c] # "wait"
    BY <2>1, <2>2, <2>4, NobodyWaits, AllSame
  <2> QED BY <2>3, <2>4
<1> QED BY <1>1, <1>2, <1>3, <1>4, <1>5, <1>6, <1>7 DEF Clients

-----------------------------------------------------------------------------
(* nxtd.                                                                   *)

\* Requests of connections that nxtd closes are ignored; an answer that it
\* has sent still arrives.
LEMMA ClosedRefines ==
  ASSUME NInv, Traffic, NEW C \in SUBSET Client, Closed(C), cur' = None,
         cur # None => C = Client
  PROVE  Rpc!RpcNext
<1> DEFINE D == {c \in C : RpcPhase[c] = "asked"}
<1>t. cpc \in [Client -> CliPC] /\ None \notin Client
  BY NetAssumption DEF NInv, TypeOK
<1>1. \A c \in Client \ C : Same(c)
  BY <1>t, StaysSame DEF Closed, Pending
<1>2. ASSUME NEW c \in C, RpcPhase[c] # "asked" PROVE Same(c)
  <2>1. CASE cpc[c] = "wait"
    <3>1. ~Pending(c)
      BY <1>2, <2>1, PhaseAt
    <3>2. ~Pending(c)'
      BY <1>t DEF Closed, Pending
    <3> QED BY <2>1, <3>1, <3>2, StaysSame DEF Closed
  <2>2. CASE cpc[c] # "wait"
    BY <2>2, NobodyWaits DEF Closed
  <2> QED BY <2>1, <2>2
<1>3. ASSUME NEW c \in D PROVE RpcPhase'[c] = "ignored" /\ RpcCall'[c] = Rpc!NoCall
  <2>1. cpc[c] = "wait" /\ Pending(c)
    BY PhaseAt
  <2>2. s2c[c] = <<>>
    BY <2>1 DEF Traffic, Exchange, Pending
  <2>3. cpc'[c] = "wait" /\ s2c'[c] = <<>> /\ ~Pending(c)'
    BY <1>t, <2>1, <2>2 DEF Closed, Pending
  <2>4. RpcPhase'[c] = "ignored"
    BY <2>3, PhaseNext
  <2> QED BY <2>4, CallNext
<1>4. \A c \in Client \ D : Same(c)
  BY <1>1, <1>2
<1>5. RpcPhase' = [c \in Client |-> IF c \in D THEN "ignored" ELSE RpcPhase[c]]
  BY <1>3, <1>4 DEF Same, RpcPhase
<1>6. RpcCall' = [c \in Client |-> IF c \in D THEN Rpc!NoCall ELSE RpcCall[c]]
  BY <1>3, <1>4 DEF Same, RpcCall
<1>7. UNCHANGED got
  BY DEF Closed
<1>8. Rpc!Ignore(D)
  BY <1>5, <1>6, <1>7 DEF Rpc!Ignore
<1> QED BY <1>8 DEF Rpc!RpcNext

\* The packet that nxtd takes from a client is still its request.
LEMMA ReceiveRefines ==
  ASSUME NInv, Traffic, NEW f \in Fd, Receive(f) PROVE Stutters
<1>1. cur = None /\ None \notin Client /\ conn[f] \in Client
  BY NetAssumption DEF Receive, Turn, NInv, Serving, TypeOK
<1>2. \A d \in Client : Pending(d)' <=> Pending(d)
  <2> SUFFICES ASSUME NEW d \in Client PROVE Pending(d)' <=> Pending(d)
    OBVIOUS
  <2>1. CASE d = conn[f]
    BY <1>1, <2>1 DEF Receive, Pending
  <2>2. CASE d # conn[f]
    BY <1>1, <2>2 DEF Receive, Pending
  <2> QED BY <2>1, <2>2
<1>3. \A d \in Client : Same(d)
  BY <1>2, StaysSame DEF Receive, cliVars
<1> QED BY <1>3, AllSame DEF Receive, cliVars, Stutters

\* An answer is the execution of the call of the client that is served.
LEMMA ServeRefines ==
  ASSUME Settled, NInv, Admitted, Traffic, NEW n \in Value, Serve(n) PROVE Refines
<1>1. /\ cur \in Client /\ None \notin Client /\ Exchange(cur)
      /\ s2c \in [Client -> Seq(Answers)]
  BY NetAssumption DEF Serve, NInv, TypeOK, Serving, Traffic
<1>2. UNCHANGED <<cpc, asked, got, c2s>> /\ cur' = None
  BY DEF Serve, Served, cliVars
<1>3. \A d \in Client \ {cur} : Same(d)
  BY <1>1, <1>2, StaysSame DEF Serve, Pending
<1>4. CASE cpc[cur] = "wait"
  <2>1. RpcPhase[cur] = "asked"
    BY <1>1, <1>4, PhaseAt DEF Pending
  <2>2. req = asked[cur] /\ s2c[cur] = <<>> /\ c2s[cur] = <<>>
    BY <1>1, <1>4 DEF Exchange
  <2>3. s2c'[cur] = Append(<<>>, [op |-> asked[cur], n |-> n])
    BY <1>1, <1>4, <2>2 DEF Serve
  <2>4. s2c'[cur] = <<[op |-> asked[cur], n |-> n]>>
    BY <2>3
  <2> DEFINE c == cur
  <2> HIDE DEF c
  <2>5. c \in Client /\ c = cur
    BY <1>1 DEF c
  <2>6. RpcPhase'[c] = "executed"
    BY <1>1, <1>2, <1>4, <2>2, <2>4, <2>5, PhaseNext DEF Pending
  <2>7. RpcCall'[c] = [op |-> asked[c], n |-> n]
    <3>1. RpcCall'[c] = s2c'[c][1]
      BY <2>5, <2>6, CallNext
    <3>2. s2c'[c] = <<[op |-> asked[c], n |-> n]>>
      BY <2>4, <2>5
    <3> QED BY <3>1, <3>2
  <2>8. RpcCall[c].op = asked[c]
    <3>1. RpcPhase[c] = "asked"
      BY <2>1, <2>5
    <3>2. RpcCall[c] = [op |-> asked[c], n |-> Unknown]
      BY <2>5, <3>1, CallAt
    <3> QED BY <3>2
  <2>9. c \in Trusted
    BY <1>1, <2>5 DEF Serve, Settled, Admitted
  <2>10. Rpc!Execute(c, n)
    BY <1>2, <1>3, <2>1, <2>5, <2>6, <2>7, <2>8, <2>9, OneMoves DEF Rpc!Execute
  <2> QED BY <2>5, <2>10 DEF Refines, Rpc!RpcNext
<1>5. CASE cpc[cur] # "wait"
  BY <1>1, <1>2, <1>3, <1>5, NobodyWaits, AllSame DEF Refines, Stutters
<1> QED BY <1>4, <1>5

\* Without the password the call is ignored.
LEMMA WrongPasswordRefines ==
  ASSUME NInv, Traffic, WrongPassword PROVE Refines
<1>1. cur \in Client /\ None \notin Client /\ Exchange(cur)
  BY NetAssumption DEF WrongPassword, NInv, Serving, Traffic
<1>2. UNCHANGED <<cpc, asked, got, c2s, s2c>> /\ cur' = None
  BY DEF WrongPassword, Served, cliVars
<1>3. \A d \in Client \ {cur} : Same(d)
  BY <1>1, <1>2, StaysSame DEF Pending
<1>4. CASE cpc[cur] = "wait"
  <2> DEFINE c == cur
  <2> HIDE DEF c
  <2>1. c \in Client /\ c = cur
    BY <1>1 DEF c
  <2>2. RpcPhase[c] = "asked" /\ RpcPhase'[c] = "ignored"
    BY <1>1, <1>2, <1>4, <2>1, PhaseAt, PhaseNext DEF Pending, Exchange
  <2>3. RpcCall'[c] = Rpc!NoCall
    BY <2>1, <2>2, CallNext
  <2>4. RpcPhase' = [d \in Client |-> IF d \in {c} THEN "ignored" ELSE RpcPhase[d]]
    BY <1>3, <2>1, <2>2 DEF Same, RpcPhase
  <2>5. RpcCall' = [d \in Client |-> IF d \in {c} THEN Rpc!NoCall ELSE RpcCall[d]]
    BY <1>3, <2>1, <2>3 DEF Same, RpcCall
  <2>6. Rpc!Ignore({c})
    BY <1>2, <2>2, <2>4, <2>5 DEF Rpc!Ignore
  <2> QED BY <2>1, <2>6 DEF Refines, Rpc!RpcNext
<1>5. CASE cpc[cur] # "wait"
  BY <1>1, <1>2, <1>3, <1>5, NobodyWaits, AllSame DEF Refines, Stutters
<1> QED BY <1>4, <1>5

\* The other steps of the loop are not seen.
LEMMA LoopStutters ==
  ASSUME Select \/ EndPass \/ AcceptFails \/ ReceiveRest \/ SrvStart \/ UNCHANGED vars
           \/ \E f \in Fd : Accept(f),
         NInv
  PROVE  Stutters
<1>1. UNCHANGED <<cpc, asked, got, c2s, s2c, cur>>
  BY DEF Select, EndPass, AcceptFails, ReceiveRest, SrvStart, Accept, vars, cliVars, tcpVars,
         bufVars
<1>2. \A d \in Client : Same(d)
  BY <1>1, StaysSame DEF Pending
<1> QED BY <1>1, <1>2, AllSame DEF Stutters

LEMMA StepRefines ==
  ASSUME Settled, NInv, Admitted, Traffic, [Next]_vars PROVE [Rpc!RpcNext]_(Rpc!rpcVars)
<1> USE DEF Refines
<1>1. CASE Clients
  BY <1>1, ClientsRefine DEF Stutters, Rpc!rpcVars
<1>2. CASE Refuse
  <2>1. Head(backlog) \in Client
    BY <1>2, BacklogHead DEF Refuse
  <2>2. cur' = None /\ cur = None
    BY <1>2 DEF Refuse, Turn, bufVars, NInv, Serving
  <2> QED BY <1>2, <2>1, <2>2, ClosedRefines DEF Refuse
<1>3. ASSUME NEW f \in Fd, HangUp(f) PROVE Rpc!RpcNext
  <2>1. conn[f] \in Client
    BY <1>3 DEF HangUp, NInv, TypeOK
  <2>2. cur' = None /\ cur = None
    BY <1>3 DEF HangUp, Turn, bufVars, NInv, Serving
  <2> QED BY <1>3, <2>1, <2>2, ClosedRefines DEF HangUp
<1>4. CASE SrvExit
  BY <1>4, ClosedRefines DEF SrvExit
<1>5. ASSUME NEW f \in Fd, Receive(f) PROVE Stutters
  BY <1>5, ReceiveRefines
<1>6. ASSUME NEW n \in Value, Serve(n) PROVE Refines
  BY <1>6, ServeRefines
<1>7. CASE WrongPassword
  BY <1>7, WrongPasswordRefines DEF Stutters, Rpc!rpcVars
<1>8. CASE Select \/ EndPass \/ AcceptFails \/ ReceiveRest \/ SrvStart \/ UNCHANGED vars
             \/ \E f \in Fd : Accept(f)
  BY <1>8, LoopStutters DEF Stutters, Rpc!rpcVars
<1> QED BY <1>1, <1>2, <1>3, <1>4, <1>5, <1>6, <1>7, <1>8
        DEF Next, MainLoop, Stutters, Rpc!rpcVars

\* IsRpc: a call over libanxt_net is executed by nxtd at most once, only with
\* the password and from a host it serves, and returns what was executed.
THEOREM NetRefinement ==
  ASSUME Counts \subseteq 0 .. 3, Knows \cap Near \subseteq Trusted
  PROVE  Spec => IsRpc
<1>1. Settled
  BY DEF Settled
<1>2. Init => Rpc!RpcInit
  <2> SUFFICES ASSUME Init PROVE Rpc!RpcInit
    OBVIOUS
  <2>1. RpcPhase = [c \in Client |-> "idle"]
    BY DEF Init, RpcPhase
  <2>2. RpcCall = [c \in Client |-> Rpc!NoCall]
    BY <2>1 DEF RpcCall, Rpc!NoCall
  <2> QED BY <2>1, <2>2 DEF Init, Rpc!RpcInit, Failure, Rpc!Failure
<1>3. NInv /\ Admitted /\ Traffic /\ [Next]_vars => [Rpc!RpcNext]_(Rpc!rpcVars)
  BY <1>1, StepRefines
<1>4. Spec => []Traffic
  BY AlwaysTraffic
<1> QED BY <1>2, <1>3, <1>4, AlwaysNInv, InitAdmitted, NextAdmitted, PTL
        DEF Spec, IsRpc, Rpc!RpcSpec
=============================================================================
