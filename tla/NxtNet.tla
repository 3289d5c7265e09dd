------------------------------- MODULE NxtNet -------------------------------
(***************************************************************************)
(* libanxt_net: clients that call nxtd over TCP (nxtnet_cli_connect,        *)
(* nxtnet_cli_list, nxtnet_cli_send, nxtnet_cli_recv,                       *)
(* nxtnet_cli_disconnect), and the main loop of the server                  *)
(* (nxtnet_srv_mainloop) that accepts them, reads one packet at a time into *)
(* its only buffer, executes it and answers.                                *)
(*                                                                         *)
(* A client waits for the answer before it calls again, and may exit, or    *)
(* its host may vanish, at any moment; nxtd may exit and be started again.  *)
(* TCP delivers every packet in order, and with Split in two pieces.  What  *)
(* the operations do to the bricks is left to NxtdTable: here they return   *)
(* any result.                                                              *)
(***************************************************************************)
EXTENDS Integers, Sequences, FiniteSets

CONSTANTS Client,    \* processes that are clients, one connection each
          Knows,     \* those that send the password of nxtd
          Near, Far, \* those on the host of nxtd, those elsewhere that nxtd
                     \*   without -N refuses; both: now here and now there
          Fd,        \* descriptors a client's socket can have in nxtd
          Listen,    \* the descriptor nxtd listens on
          Counts,    \* how many bricks a LIST can find
          Split,     \* whether a packet can arrive in two pieces
          MaxUnread, \* bound: packets on their way in one direction
          None, Unknown, Failed

ASSUME NetAssumption ==
  /\ Knows \subseteq Client /\ Client = Near \cup Far
  /\ Fd \subseteq Nat /\ Listen \in Nat \ Fd
  /\ Counts \subseteq Nat /\ Split \in BOOLEAN /\ MaxUnread \in Nat
  /\ None \notin Client

Op == {"list", "send", "recv"}
\* bricks packed for LIST; whether the transfer of SEND or RECV worked
Results(o) == IF o = "list" THEN Counts ELSE {0, 1}
Value == Counts \cup {0, 1}
Trusted == Knows \ Far

VARIABLES
  up,                            \* nxtd runs
  cpc, asked, got,               \* clients: state, call, value it returned
  shut,                          \* nxtd has closed its end of the connection
  c2s, late, s2c,                \* packets on their way; what is missing of the
                                 \*   last one: nothing, the body or the header
  backlog, conn, master, fdsMax, \* accept queue, sockets, fds_master, fds_max
  spc, ready, cur, req, garbled  \* main loop: fds_read, and srv->buf

cliVars == <<cpc, asked, got>>
tcpVars == <<shut, c2s, late, s2c>>
fdVars  == <<backlog, conn, master, fdsMax>>
bufVars == <<cur, req, garbled>>
vars == <<up, cliVars, tcpVars, fdVars, spc, ready, bufVars>>

CliPC == {"off", "idle", "wait", "exited", "vanished"}
SrvPC == {"select", "loop", "half", "serve"}

BUFSIZE == 128
HeaderSize == 24
\* the size of an answer; RECV returns at most the 65 bytes of a file read
SizeOf(o, n) == HeaderSize + CASE o = "list" -> 4 + 30 * n
                               [] o = "send" -> 8
                               [] o = "recv" -> 8 + 65 * n

\* Faulty: RECV is answered as RECV.
AnswerCmdOwn(o) == o

\* the command of an answer: RECV is answered as SEND
AnswerCmd(o) == IF o = "list" THEN "list" ELSE "send"

\* what nxtnet_recv is told to accept
ExpectedCmd(o) == IF o = "list" THEN "list" ELSE "send"

Failure == [op |-> "none", n |-> Failed]

Init ==
  /\ up = TRUE
  /\ cpc = [c \in Client |-> "off"] /\ asked = [c \in Client |-> "none"]
  /\ got = [c \in Client |-> Failure] /\ shut = [c \in Client |-> TRUE]
  /\ c2s = [c \in Client |-> <<>>] /\ late = [c \in Client |-> "no"]
  /\ s2c = [c \in Client |-> <<>>]
  /\ backlog = <<>> /\ conn = [f \in Fd |-> None] /\ master = {Listen}
  /\ fdsMax = Listen
  /\ spc = "select" /\ ready = {}
  /\ cur = None /\ req = "none" /\ garbled = FALSE

-----------------------------------------------------------------------------
(* The clients.                                                            *)

NotServer == UNCHANGED <<up, conn, master, fdsMax, spc, ready, bufVars>>

\* connect succeeds as soon as the connection is in the accept queue.
Connect(c) ==
  /\ up /\ cpc[c] = "off"
  /\ cpc' = [cpc EXCEPT ![c] = "idle"]
  /\ shut' = [shut EXCEPT ![c] = FALSE]
  /\ backlog' = Append(backlog, c)
  /\ UNCHANGED <<asked, got, c2s, late, s2c>> /\ NotServer

\* A packet that nxtd will not read any more is lost without an error.
CliSend(c, o) ==
  /\ cpc[c] = "idle" /\ Len(c2s[c]) < MaxUnread /\ Len(s2c[c]) < MaxUnread
  /\ late[c] = "no"
  /\ cpc' = [cpc EXCEPT ![c] = "wait"] /\ asked' = [asked EXCEPT ![c] = o]
  /\ got' = [got EXCEPT ![c] = Failure]
  /\ IF shut[c]
       THEN UNCHANGED <<c2s, late>>
       ELSE /\ c2s' = [c2s EXCEPT ![c] = Append(@, o)]
            /\ \/ UNCHANGED late
               \/ Split /\ late' = [late EXCEPT ![c] = "header"]
               \/ Split /\ o # "list" /\ late' = [late EXCEPT ![c] = "body"]
  /\ UNCHANGED <<shut, s2c, backlog>> /\ NotServer

Arrive(c) ==
  /\ late[c] # "no" /\ cpc[c] # "vanished"
  /\ late' = [late EXCEPT ![c] = "no"]
  /\ UNCHANGED <<cliVars, shut, c2s, s2c, backlog>> /\ NotServer

Returned(c, r) == /\ cpc' = [cpc EXCEPT ![c] = "idle"]
                  /\ asked' = [asked EXCEPT ![c] = "none"]
                  /\ got' = [got EXCEPT ![c] = r]

Accepted(c) == LET p == Head(s2c[c]) IN
                 /\ AnswerCmd(p.op) = ExpectedCmd(asked[c])
                 /\ SizeOf(p.op, p.n) <= BUFSIZE

CliReceive(c) ==
  /\ cpc[c] = "wait" /\ s2c[c] # <<>> /\ Accepted(c)
  /\ Returned(c, Head(s2c[c]))
  /\ s2c' = [s2c EXCEPT ![c] = Tail(@)]
  /\ UNCHANGED <<shut, c2s, late, backlog>> /\ NotServer

\* A packet with the wrong header was only peeked at: it stays where it is.
CliReject(c) ==
  /\ cpc[c] = "wait" /\ s2c[c] # <<>> /\ ~Accepted(c)
  /\ Returned(c, Failure)
  /\ UNCHANGED <<tcpVars, backlog>> /\ NotServer

CliEndOfFile(c) ==
  /\ cpc[c] = "wait" /\ s2c[c] = <<>> /\ shut[c]
  /\ Returned(c, Failure)
  /\ UNCHANGED <<tcpVars, backlog>> /\ NotServer

\* nxtnet_cli_disconnect, or the process is killed.  With an unread answer
\* the connection is reset, and what nxtd has not read may be lost.
CliExit(c) ==
  /\ cpc[c] \in {"idle", "wait"}
  /\ cpc' = [cpc EXCEPT ![c] = IF shut[c] THEN "off" ELSE "exited"]
  /\ asked' = [asked EXCEPT ![c] = "none"]
  /\ s2c' = [s2c EXCEPT ![c] = <<>>]
  /\ \/ UNCHANGED <<c2s, late>>
     \/ /\ s2c[c] # <<>> /\ c # cur
        /\ c2s' = [c2s EXCEPT ![c] = <<>>] /\ late' = [late EXCEPT ![c] = "no"]
  /\ UNCHANGED <<got, shut, backlog>> /\ NotServer

\* The host of the client is gone: nothing is delivered, nothing is closed.
Vanish(c) ==
  /\ cpc[c] \in {"idle", "wait"} /\ ~shut[c]
  /\ cpc' = [cpc EXCEPT ![c] = "vanished"]
  /\ asked' = [asked EXCEPT ![c] = "none"]
  /\ s2c' = [s2c EXCEPT ![c] = <<>>]
  /\ UNCHANGED <<got, shut, c2s, late, backlog>> /\ NotServer

-----------------------------------------------------------------------------
(* The main loop of the server.                                            *)

Max2(a, b) == IF a > b THEN a ELSE b
Readable(f) == IF f = Listen THEN backlog # <<>>
               ELSE conn[f] # None /\ (c2s[conn[f]] # <<>> \/ cpc[conn[f]] = "exited")

\* select fails when it is given a closed descriptor, and then leaves all of
\* them in fds_read.
Select ==
  /\ up /\ spc = "select"
  /\ LET bad == \E f \in master : f # Listen /\ conn[f] = None IN
       ready' = {f \in master : f <= fdsMax /\ (bad \/ Readable(f))}
  /\ ready' # {}
  /\ spc' = "loop"
  /\ UNCHANGED <<up, cliVars, tcpVars, fdVars, bufVars>>

\* the next descriptor of the pass over fds_read
Turn(f) == /\ up /\ spc = "loop"
           /\ f \in ready /\ f <= fdsMax
           /\ \A g \in ready : f <= g
           /\ ready' = ready \ {f}

EndPass ==
  /\ up /\ spc = "loop"
  /\ \A f \in ready : f > fdsMax
  /\ spc' = "select" /\ ready' = {}
  /\ UNCHANGED <<up, cliVars, tcpVars, fdVars, bufVars>>

\* Faulty: fds_max is not raised.
AcceptKeepsMax(f) ==
  /\ Turn(Listen) /\ backlog # <<>>
  /\ Head(backlog) \in Near /\ f \in Fd /\ conn[f] = None
  /\ conn' = [conn EXCEPT ![f] = Head(backlog)]
  /\ master' = master \cup {f}
  /\ backlog' = Tail(backlog)
  /\ UNCHANGED <<up, cliVars, tcpVars, fdsMax, spc, bufVars>>

Accept(f) ==
  /\ Turn(Listen) /\ backlog # <<>>
  /\ Head(backlog) \in Near /\ f \in Fd /\ conn[f] = None
  /\ conn' = [conn EXCEPT ![f] = Head(backlog)]
  /\ master' = master \cup {f} /\ fdsMax' = Max2(f, fdsMax)
  /\ backlog' = Tail(backlog)
  /\ UNCHANGED <<up, cliVars, tcpVars, spc, bufVars>>

\* What nxtd drops when it closes its end of a connection
Closed(C) == /\ shut' = [c \in Client |-> shut[c] \/ c \in C]
             /\ c2s' = [c \in Client |-> IF c \in C THEN <<>> ELSE c2s[c]]
             /\ late' = [c \in Client |-> IF c \in C THEN "no" ELSE late[c]]
             /\ cpc' = [c \in Client |->
                          IF c \in C /\ cpc[c] \in {"exited", "vanished"}
                            THEN "off" ELSE cpc[c]]
             /\ UNCHANGED <<asked, got, s2c>>

\* Faulty: the socket of a client from another host is not closed.
RefuseKeepsOpen ==
  /\ Turn(Listen) /\ backlog # <<>>
  /\ Head(backlog) \in Far /\ \E f \in Fd : conn[f] = None
  /\ backlog' = Tail(backlog)
  /\ UNCHANGED <<up, cliVars, tcpVars, conn, master, fdsMax, spc, bufVars>>

\* A client from another host is not served without -N.
Refuse ==
  /\ Turn(Listen) /\ backlog # <<>>
  /\ Head(backlog) \in Far /\ \E f \in Fd : conn[f] = None
  /\ backlog' = Tail(backlog)
  /\ Closed({Head(backlog)})
  /\ UNCHANGED <<up, conn, master, fdsMax, spc, bufVars>>

\* Faulty: the result of accept is not checked.
AcceptFailsUnchecked ==
  /\ Turn(Listen) /\ backlog # <<>>
  /\ \A f \in Fd : conn[f] # None
  /\ master' = master \cup {-1}
  /\ UNCHANGED <<up, cliVars, tcpVars, backlog, conn, fdsMax, spc, bufVars>>

\* No descriptor is left.
AcceptFails ==
  /\ Turn(Listen) /\ backlog # <<>>
  /\ \A f \in Fd : conn[f] # None
  /\ UNCHANGED <<up, cliVars, tcpVars, fdVars, spc, bufVars>>

\* Faulty: fds_max is decreased whatever descriptor is closed.
HangUpLowersMax(f) ==
  /\ f \in Fd /\ conn[f] # None
  /\ Turn(f) /\ c2s[conn[f]] = <<>> /\ cpc[conn[f]] = "exited"
  /\ Closed({conn[f]})
  /\ conn' = [conn EXCEPT ![f] = None]
  /\ master' = master \ {f} /\ fdsMax' = fdsMax - 1
  /\ UNCHANGED <<up, backlog, spc, bufVars>>

\* Faulty: the descriptor stays in fds_master.
HangUpKeepsBit(f) ==
  /\ f \in Fd /\ conn[f] # None
  /\ Turn(f) /\ c2s[conn[f]] = <<>> /\ cpc[conn[f]] = "exited"
  /\ Closed({conn[f]})
  /\ conn' = [conn EXCEPT ![f] = None]
  /\ UNCHANGED <<up, backlog, master, fdsMax, spc, bufVars>>

HangUp(f) ==
  /\ f \in Fd /\ conn[f] # None
  /\ Turn(f) /\ c2s[conn[f]] = <<>> /\ cpc[conn[f]] = "exited"
  /\ Closed({conn[f]})
  /\ conn' = [conn EXCEPT ![f] = None]
  /\ master' = master \ {f}
  /\ fdsMax' = IF f = fdsMax THEN fdsMax - 1 ELSE fdsMax
  /\ UNCHANGED <<up, backlog, spc, bufVars>>

\* The header is complete, and so is the packet unless its body is late.
\* nxtnet_recv waits, spinning, while the header is not complete.
Receive(f) ==
  /\ f \in Fd /\ conn[f] # None
  /\ Turn(f)
  /\ LET c == conn[f] IN
       /\ c2s[c] # <<>>
       /\ Len(c2s[c]) > 1 \/ late[c] # "header"
       /\ cur' = c /\ req' = Head(c2s[c]) /\ garbled' = FALSE
       /\ spc' = IF Len(c2s[c]) = 1 /\ late[c] = "body" THEN "half" ELSE "serve"
       /\ c2s' = [c2s EXCEPT ![c] = Tail(@)]
  /\ UNCHANGED <<up, cliVars, shut, late, s2c, fdVars>>

\* The rest of a packet is not put behind its beginning.
ReceiveRest ==
  /\ up /\ spc = "half" /\ late[cur] = "no"
  /\ garbled' = TRUE /\ spc' = "serve"
  /\ UNCHANGED <<up, cliVars, tcpVars, fdVars, ready, cur, req>>

Served == /\ spc' = "loop" /\ cur' = None /\ req' = "none" /\ garbled' = FALSE
          /\ UNCHANGED <<up, cliVars, shut, c2s, late, fdVars, ready>>

\* Faulty: the password is not compared.
ServeAnyone(n) ==
  /\ up /\ spc = "serve"
  /\ n \in Results(req)
  /\ s2c' = IF cpc[cur] \in {"idle", "wait"}
              THEN [s2c EXCEPT ![cur] = Append(@, [op |-> req, n |-> n])]
              ELSE s2c
  /\ Served

\* nxtnet_srv_list, nxtnet_srv_send, nxtnet_srv_recv, and nxtnet_send
Serve(n) ==
  /\ up /\ spc = "serve"
  /\ cur \in Knows /\ n \in Results(req)
  /\ s2c' = IF cpc[cur] \in {"idle", "wait"}
              THEN [s2c EXCEPT ![cur] = Append(@, [op |-> req, n |-> n])]
              ELSE s2c
  /\ Served

\* The answer has size 0: nxtnet_send sends nothing.
WrongPassword ==
  /\ up /\ spc = "serve"
  /\ cur \notin Knows
  /\ UNCHANGED s2c
  /\ Served

\* nxtd exits: nothing of it is left but what it has sent.
SrvExit ==
  /\ up
  /\ up' = FALSE
  /\ Closed(Client)
  /\ backlog' = <<>> /\ conn' = [f \in Fd |-> None] /\ master' = {Listen}
  /\ fdsMax' = Listen
  /\ spc' = "select" /\ ready' = {}
  /\ cur' = None /\ req' = "none" /\ garbled' = FALSE

SrvStart ==
  /\ ~up
  /\ up' = TRUE
  /\ UNCHANGED <<cliVars, tcpVars, fdVars, spc, ready, bufVars>>

-----------------------------------------------------------------------------
Clients == \E c \in Client :
  \/ Connect(c) \/ Arrive(c) \/ CliReceive(c) \/ CliReject(c)
  \/ CliEndOfFile(c) \/ CliExit(c) \/ Vanish(c)
  \/ \E o \in Op : CliSend(c, o)

MainLoop ==
  \/ Select \/ EndPass \/ Refuse \/ AcceptFails \/ ReceiveRest \/ WrongPassword
  \/ \E f \in Fd : Accept(f) \/ HangUp(f) \/ Receive(f)
  \/ \E n \in Value : Serve(n)

Next == Clients \/ MainLoop \/ SrvExit \/ SrvStart

Spec == Init /\ [][Next]_vars

=============================================================================
