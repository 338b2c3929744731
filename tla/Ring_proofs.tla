----------------------------- MODULE Ring_proofs -----------------------------
(***************************************************************************)
(* Type correctness of Ring, for every set of nodes and keys, every hash   *)
(* function, every set of requests and every bound; and how a node gets    *)
(* into the ring, with any number of nodes joining at once and any node    *)
(* leaving any time: the granting node is the first to reach a joining one.*)
(***************************************************************************)
EXTENDS Ring, FiniteSetTheorems, TLAPS

-----------------------------------------------------------------------------
(* PDUs and their fields. *)

LEMMA PduConstructors ==
  /\ \A src \in Node : JoinPdu(src, None, 0) \in Pdu
  /\ \A next \in Node \cup {None}, a, b \in Hash : JoinResponse(next, a, b) \in Pdu
  /\ \A a, b \in Hash : NewRange(a, b) \in Pdu
  /\ \A new \in Node \cup {None} : Leaving(new) \in Pdu
  /\ NewRangeResponse \in Pdu /\ Close \in Pdu /\ Garbage \in Pdu
  /\ \A k \in Key : Insert(k) \in Pdu
BY MaxHashAssumption
DEF JoinPdu, JoinResponse, NewRange, Leaving, NewRangeResponse, Close, Garbage, Insert,
    Pdu, ValPdu, Hash

LEMMA JoinFields ==
  ASSUME NEW m \in Pdu, m.type = "NET_JOIN"
  PROVE  /\ m.src \in Node /\ m.max \in Node \cup {None} /\ m.span \in Hash
         /\ m = [type |-> "NET_JOIN", src |-> m.src, max |-> m.max, span |-> m.span]
BY DEF Pdu, ValPdu, NewRangeResponse, Close, Garbage

LEMMA JoinResponseFields ==
  ASSUME NEW m \in Pdu, m.type = "NET_JOIN_RESPONSE"
  PROVE  m.next \in Node \cup {None} /\ m.lo \in Hash /\ m.hi \in Hash
BY DEF Pdu, ValPdu, NewRangeResponse, Close, Garbage

LEMMA NewRangeFields ==
  ASSUME NEW m \in Pdu, m.type = "NET_NEW_RANGE"
  PROVE  m.lo \in Hash /\ m.hi \in Hash
BY DEF Pdu, ValPdu, NewRangeResponse, Close, Garbage

LEMMA LeavingFields ==
  ASSUME NEW m \in Pdu, m.type = "NET_LEAVING"
  PROVE  m.new \in Node \cup {None}
BY DEF Pdu, ValPdu, NewRangeResponse, Close, Garbage

LEMMA ValFields ==
  ASSUME NEW m \in ValPdu
  PROVE  m \in Pdu /\ m.ssn \in Key
BY DEF Pdu, ValPdu

(* uint8_t arithmetic never leaves the hash space. *)
LEMMA HashArithmetic ==
  ASSUME NEW a \in Hash, NEW b \in Hash
  PROVE  Span(a, b) \in Hash /\ Mid(a, b) \in Hash /\ UpperStart(a, b) \in Hash
<1>1. \A i \in Int : UInt8(i) \in Hash
  BY MaxHashAssumption DEF UInt8, Hash
<1>2. b - a \in Int /\ Half(b - a) \in Int
  BY DEF Hash, Half
<1>3. Mid(a, b) \in Hash
  BY <1>1, <1>2 DEF Mid, Hash
<1> QED
  BY <1>1, <1>2, <1>3 DEF Span, UpperStart, Hash

(* A transfer is a sequence of PDUs, whatever the order of the table. *)
LEMMA TransferTypes ==
  ASSUME NEW S \in SUBSET Key, NEW s \in SetToSeqs(S)
  PROVE  Inserts(s) \in Seq(Pdu)
<1>1. Cardinality(S) \in Nat
  BY RingAssumption, FS_Subset, FS_CardinalityType
<1>2. s \in [1 .. Cardinality(S) -> S]
  BY DEF SetToSeqs
<1>3. \A k \in S : Insert(k) \in Pdu
  BY PduConstructors
<1> QED
  BY <1>1, <1>2, <1>3 DEF Inserts
-----------------------------------------------------------------------------
(* Connections. *)

Conns == [Conn -> ConnRecord]

LEMMA SocketTypes ==
  /\ NoSock \in Sock
  /\ \A s \in Sock : LowestFd(s) \in Fd
  /\ \A fd \in Fd, c \in Conn : [fd |-> fd, conn |-> c] \in Sock
  /\ \A fd \in Fd : [fd |-> fd, conn |-> NoConn] \in Sock
  /\ \A b, d \in Sock : Fds(b, d) \subseteq Fd
BY DEF NoSock, Sock, LowestFd, Fd, NoFd, NoConn, Fds

LEMMA ClosedType ==
  ASSUME NEW r \in ConnRecord, NEW cli \in BOOLEAN, NEW srv \in BOOLEAN
  PROVE  Closed(r, cli, srv) \in ConnRecord
BY DEF Closed, ConnRecord, FreeConn

(* What the TCP operations return has its type. *)
LEMMA ConnTypes ==
  ASSUME NEW cs \in Conns, NEW s \in Sock, NEW side \in {"B", "D"}
  PROVE  /\ Shut(cs, side, s) \in Conns
         /\ Inbound(cs, side, s) \in Seq(Pdu)
         /\ \A data \in Seq(Pdu) : s.conn # NoConn => SetInbound(cs, side, s, data) \in Conns
         /\ \A pdus \in Seq(Pdu) : Sent(cs, side, s, pdus) \in Conns
<1>1. s.conn # NoConn => s.conn \in Conn
  BY DEF Sock
<1>2. s.conn # NoConn => cs[s.conn] \in ConnRecord
  BY <1>1 DEF Conns
<1>3. Shut(cs, side, s) \in Conns
  BY <1>1, <1>2, ClosedType DEF Shut, Conns
<1>4. Inbound(cs, side, s) \in Seq(Pdu)
  BY <1>2 DEF Inbound, ConnRecord
<1>5. ASSUME NEW data \in Seq(Pdu), s.conn # NoConn PROVE SetInbound(cs, side, s, data) \in Conns
  BY <1>1, <1>2, <1>5 DEF SetInbound, Conns, ConnRecord
<1>6. ASSUME NEW pdus \in Seq(Pdu) PROVE Sent(cs, side, s, pdus) \in Conns
  <2> DEFINE r == cs[s.conn]
  <2>1. CASE s.conn = NoConn
    BY <2>1 DEF Sent
  <2>2. CASE s.conn # NoConn
    <3>1. /\ r.up \o pdus \in Seq(Pdu) /\ r.down \o pdus \in Seq(Pdu)
      BY <1>2, <2>2 DEF ConnRecord
    <3>2. /\ [r EXCEPT !.rst = TRUE] \in ConnRecord
          /\ [r EXCEPT !.up = r.up \o pdus] \in ConnRecord
          /\ [r EXCEPT !.down = r.down \o pdus] \in ConnRecord
      BY <1>2, <2>2, <3>1 DEF ConnRecord
    <3>3. \A new \in ConnRecord : [cs EXCEPT ![s.conn] = new] \in Conns
      BY DEF Conns
    <3> HIDE DEF Conns
    <3> QED
      BY <2>2, <3>2, <3>3 DEF Sent
  <2> QED
    BY <2>1, <2>2
<1> QED
  BY <1>3, <1>4, <1>5, <1>6
-----------------------------------------------------------------------------
(* The parts actions are built from. *)

LEMMA GotoType ==
  ASSUME TypeOK, NEW n \in Node, NEW label \in Control, Goto(n, label)
  PROVE  pc' \in [Node -> Control]
BY DEF TypeOK, Goto

LEMMA ReturnTypes ==
  ASSUME TypeOK, NEW n \in Node, NEW kind \in {"udp", "tcp"}, Return(n, kind)
  PROVE  /\ pc' \in [Node -> Control]
         /\ stack' \in [Node -> Seq(Frame)]
         /\ polled' \in [Node -> SUBSET Fd]
BY DEF TypeOK, Return, Goto, After, Control

LEMMA SuspendType ==
  ASSUME TypeOK, NEW n \in Node, NEW kind \in {"udp", "tcp"}, Suspend(n, kind)
  PROVE  stack' \in [Node -> Seq(Frame)]
<1>1. [kind |-> kind, polled |-> polled[n]] \in Frame
  BY DEF TypeOK, Frame
<1> QED
  BY <1>1 DEF TypeOK, Suspend

LEMMA NestedTypes ==
  ASSUME TypeOK, NEW n \in Node, NEW kind \in {"udp", "tcp"}, NEW b \in Sock, NEW d \in Sock,
         Nested(n, kind, b, d)
  PROVE  /\ pc' \in [Node -> Control]
         /\ stack' \in [Node -> Seq(Frame)]
         /\ polled' \in [Node -> SUBSET Fd]
BY SuspendType, SocketTypes DEF TypeOK, Nested, Goto, Control

LEMMA TakenTypes ==
  ASSUME TypeOK, NEW n \in Node, NEW kind \in {"udp", "tcp"}, NEW m,
         NextPdu(n, kind, m)
  PROVE  /\ m \in Pdu
         /\ Taken(n, kind, m) => /\ queue' \in [Node -> Seq(Pdu)]
                                 /\ udp' \in [Node -> SUBSET Pdu]
<1>1. CASE kind = "udp"
  <2>1. m \in udp[n] /\ udp[n] \in SUBSET Pdu
    BY <1>1 DEF TypeOK, NextPdu
  <2>2. m \in Pdu /\ udp[n] \ {m} \in SUBSET Pdu
    BY <2>1
  <2>3. udp \in [Node -> SUBSET Pdu] /\ queue \in [Node -> Seq(Pdu)]
    BY DEF TypeOK
  <2>4. Taken(n, kind, m) => udp' = [udp EXCEPT ![n] = udp[n] \ {m}] /\ queue' = queue
    BY <1>1 DEF Taken
  <2> QED
    BY <2>2, <2>3, <2>4
<1>2. CASE kind = "tcp"
  <2>1. queue[n] \in Seq(Pdu) /\ queue[n] # <<>> /\ m = Head(queue[n])
    BY <1>2 DEF TypeOK, NextPdu
  <2>2. m \in Pdu /\ Tail(queue[n]) \in Seq(Pdu)
    BY <2>1
  <2> QED
    BY <1>2, <2>2 DEF TypeOK, Taken
<1> QED
  BY <1>1, <1>2

LEMMA ConnectTypes ==
  ASSUME TypeOK, NEW n \in Node, NEW to \in Node, NEW cs \in Conns, NEW pdus \in Seq(Pdu),
         Connect(n, to, cs, pdus)
  PROVE  /\ conn' \in Conns
         /\ backlog' \in [Node -> Seq(Conn)]
         /\ sockfd_b' \in [Node -> Sock]
<1>1. PICK c \in Conn :
        /\ conn' = [cs EXCEPT ![c] = [cli |-> TRUE, srv |-> TRUE, up |-> pdus,
                                      down |-> <<>>, rst |-> FALSE]]
        /\ backlog' = [backlog EXCEPT ![to] = Append(@, c)]
        /\ sockfd_b' = [sockfd_b EXCEPT ![n] = [fd |-> LowestFd(sockfd_d[n]), conn |-> c]]
  BY DEF Connect
<1>2. [cli |-> TRUE, srv |-> TRUE, up |-> pdus, down |-> <<>>, rst |-> FALSE] \in ConnRecord
  BY DEF ConnRecord
<1>3. conn' \in Conns
  BY <1>1, <1>2 DEF Conns
<1>4. sockfd_b' \in [Node -> Sock]
  BY <1>1, SocketTypes DEF TypeOK
<1> QED
  BY <1>1, <1>3, <1>4 DEF TypeOK

LEMMA ConnectRefusedTypes ==
  ASSUME TypeOK, NEW n \in Node, NEW cs \in Conns, ConnectRefused(n, cs)
  PROVE  /\ conn' \in Conns
         /\ backlog' \in [Node -> Seq(Conn)]
         /\ sockfd_b' \in [Node -> Sock]
BY SocketTypes DEF TypeOK, ConnectRefused

LEMMA ExitTypes ==
  ASSUME TypeOK, NEW n \in Node, NEW cs \in Conns, Exit(n, cs)
  PROVE  TypeOK'
<1>1. conn' \in Conns
  BY ClosedType DEF Exit, Conns
<1>2. 0 \in Hash
  BY MaxHashAssumption DEF Hash
<1>3. pc' \in [Node -> Control]
  BY DEF TypeOK, Exit, Goto, Control
<1>4. stack' \in [Node -> Seq(Frame)]
  BY DEF TypeOK, Exit
<1>5. /\ polled' \in [Node -> SUBSET Fd]
      /\ stalled' \in [Node -> SUBSET {"B", "D"}]
      /\ hash_table' \in [Node -> SUBSET Key]
      /\ udp' \in [Node -> SUBSET Pdu]
  BY DEF TypeOK, Exit
<1>6. /\ start' \in [Node -> Hash] /\ end' \in [Node -> Hash]
      /\ successor' \in [Node -> Node \cup {None}]
      /\ predecessor' \in [Node -> BOOLEAN]
  BY <1>2 DEF TypeOK, Exit
<1>7. sockfd_b' \in [Node -> Sock] /\ sockfd_d' \in [Node -> Sock]
  BY SocketTypes DEF TypeOK, Exit
<1>8. queue' \in [Node -> Seq(Pdu)]
  BY DEF TypeOK, Exit
<1>9. backlog' \in [Node -> Seq(Conn)]
  BY DEF TypeOK, Exit
<1>10. should_close' \in [Node -> BOOLEAN] /\ requests' \subseteq Requests
  BY DEF TypeOK, Exit
<1> QED
  BY <1>1, <1>3, <1>4, <1>5, <1>6, <1>7, <1>8, <1>9, <1>10 DEF TypeOK, Conns

LEMMA LeaveLoopTypes ==
  ASSUME TypeOK, NEW n \in Node, NEW cs \in Conns, NEW table \in SUBSET Key,
         LeaveLoop(n, cs, table)
  PROVE  TypeOK'
<1>1. CASE stack[n] = <<>>
  BY <1>1, ExitTypes DEF LeaveLoop
<1>2. CASE stack[n] # <<>>
  <2> DEFINE frame == Last(stack[n])
  <2>1. stack[n] \in Seq(Frame)
    BY DEF TypeOK
  <2>2. frame \in Frame /\ Front(stack[n]) \in Seq(Frame)
    BY <1>2, <2>1 DEF Last, Front
  <2>3. After(frame.kind) \in Control /\ frame.polled \in SUBSET Fd
    BY <2>2 DEF Frame, After, Control
  <2>4. /\ Goto(n, After(frame.kind))
        /\ polled' = [polled EXCEPT ![n] = frame.polled]
        /\ stack' = [stack EXCEPT ![n] = Front(@)]
        /\ conn' = cs
        /\ hash_table' = [hash_table EXCEPT ![n] = table]
        /\ UNCHANGED <<ring, socks, inbox, stalled, backlog, should_close, requests>>
    BY <1>2 DEF LeaveLoop
  <2>5. pc' \in [Node -> Control]
    BY <2>3, <2>4, GotoType
  <2>6. stack' \in [Node -> Seq(Frame)]
    BY <2>2, <2>4 DEF TypeOK
  <2>7. polled' \in [Node -> SUBSET Fd] /\ hash_table' \in [Node -> SUBSET Key]
    BY <2>3, <2>4 DEF TypeOK
  <2> HIDE DEF frame
  <2> QED
    BY <2>4, <2>5, <2>6, <2>7 DEF TypeOK, Conns, ring, socks, inbox
<1> QED
  BY <1>1, <1>2
-----------------------------------------------------------------------------
(* Starting and joining. *)

LEMMA StartFirstTypes ==
  ASSUME TypeOK, NEW n \in Node, StartFirst(n)
  PROVE  TypeOK'
<1>1. 0 \in Hash /\ MaxHash \in Hash
  BY MaxHashAssumption DEF Hash
<1>2. pc' \in [Node -> Control]
  BY GotoType DEF StartFirst, Control
<1> QED
  BY <1>1, <1>2 DEF StartFirst, TypeOK, socks, inbox, net

LEMMA StartJoinTypes ==
  ASSUME TypeOK, NEW n \in Node, NEW e \in Node, StartJoin(n, e)
  PROVE  TypeOK'
<1>1. pc' \in [Node -> Control]
  BY GotoType DEF StartJoin, Control
<1>2. udp[e] \cup {JoinPdu(n, None, 0)} \in SUBSET Pdu
  BY PduConstructors DEF TypeOK
<1>3. udp' \in [Node -> SUBSET Pdu]
  BY <1>2 DEF StartJoin, TypeOK
<1> QED
  BY <1>1, <1>3 DEF StartJoin, TypeOK, ring, socks, net

(* accept takes the first connection of the backlog. *)
LEMMA AcceptTypes ==
  ASSUME TypeOK, NEW n \in Node, backlog[n] # <<>>, NEW s \in Sock
  PROVE  /\ [fd |-> LowestFd(s), conn |-> Head(backlog[n])] \in Sock
         /\ backlog' = [backlog EXCEPT ![n] = Tail(@)] => backlog' \in [Node -> Seq(Conn)]
<1>1. backlog[n] \in Seq(Conn)
  BY DEF TypeOK
<1>2. Head(backlog[n]) \in Conn /\ Tail(backlog[n]) \in Seq(Conn)
  BY <1>1
<1> QED
  BY <1>2, SocketTypes DEF TypeOK

LEMMA JoinAcceptTypes ==
  ASSUME TypeOK, NEW n \in Node, JoinAccept(n)
  PROVE  TypeOK'
<1> DEFINE d == [fd |-> LowestFd(NoSock), conn |-> Head(backlog[n])]
<1>1. pc' \in [Node -> Control]
  BY GotoType DEF JoinAccept, Control
<1>2. d \in Sock /\ backlog' \in [Node -> Seq(Conn)]
  BY AcceptTypes, SocketTypes DEF JoinAccept
<1>3. sockfd_d' \in [Node -> Sock]
  BY <1>2 DEF JoinAccept, TypeOK
<1> HIDE DEF d
<1> QED
  BY <1>1, <1>2, <1>3 DEF JoinAccept, TypeOK, inbox

LEMMA OverReadTypes ==
  ASSUME NEW rest \in Seq(Pdu)
  PROVE  AfterOverRead(rest) \subseteq Seq(Pdu)
<1>1. CASE rest = <<>>
  BY <1>1 DEF AfterOverRead
<1>2. CASE rest # <<>>
  <2>1. Tail(rest) \in Seq(Pdu)
    BY <1>2
  <2>2. <<Garbage>> \o Tail(rest) \in Seq(Pdu)
    BY <2>1, PduConstructors
  <2> QED
    BY <1>2, <2>1, <2>2 DEF AfterOverRead
<1> QED
  BY <1>1, <1>2

LEMMA JoinRecvTypes ==
  ASSUME TypeOK, NEW n \in Node, JoinRecv(n)
  PROVE  TypeOK'
<1> DEFINE data == Inbound(conn, "D", sockfd_d[n])
           m    == Head(data)
<1>1. conn \in Conns /\ sockfd_d[n] \in Sock
  BY DEF TypeOK, Conns
<1>2. data \in Seq(Pdu) /\ data # <<>> /\ m.type = "NET_JOIN_RESPONSE"
  BY <1>1, ConnTypes DEF JoinRecv
<1>3. /\ m \in Pdu /\ Tail(data) \in Seq(Pdu)
      /\ sockfd_d[n].conn # NoConn
  BY <1>2 DEF Inbound
<1>4. PICK rest \in AfterOverRead(Tail(data)) :
        LET cs == SetInbound(conn, "D", sockfd_d[n], rest)
        IN  \/ /\ Reachable(m.next)
               /\ Goto(n, "q6")
               /\ start' = [start EXCEPT ![n] = m.lo]
               /\ end' = [end EXCEPT ![n] = m.hi]
               /\ successor' = [successor EXCEPT ![n] = m.next]
               /\ Connect(n, m.next, cs, <<>>)
               /\ polled' = [polled EXCEPT ![n] = Fds(sockfd_b'[n], sockfd_d[n])]
               /\ UNCHANGED <<stack, should_close, predecessor, sockfd_d, inbox,
                              stalled, hash_table, requests>>
            \/ ~Reachable(m.next) /\ Exit(n, cs)
  BY DEF JoinRecv
<1> DEFINE cs == SetInbound(conn, "D", sockfd_d[n], rest)
<1>5. cs \in Conns
  BY <1>1, <1>3, ConnTypes, OverReadTypes
<1>6. m.next \in Node \cup {None} /\ m.lo \in Hash /\ m.hi \in Hash
  BY <1>2, <1>3, JoinResponseFields
<1> HIDE DEF data, m, cs
<1>7. CASE Exit(n, cs)
  BY <1>5, <1>7, ExitTypes
<1>8. CASE /\ Reachable(m.next)
           /\ Goto(n, "q6")
           /\ start' = [start EXCEPT ![n] = m.lo]
           /\ end' = [end EXCEPT ![n] = m.hi]
           /\ successor' = [successor EXCEPT ![n] = m.next]
           /\ Connect(n, m.next, cs, <<>>)
           /\ polled' = [polled EXCEPT ![n] = Fds(sockfd_b'[n], sockfd_d[n])]
           /\ UNCHANGED <<stack, should_close, predecessor, sockfd_d, inbox,
                          stalled, hash_table, requests>>
  <2>1. pc' \in [Node -> Control]
    BY <1>8, GotoType DEF Control
  <2>2. m.next \in Node
    BY <1>6, <1>8 DEF Reachable
  <2>3. /\ conn' \in Conns /\ backlog' \in [Node -> Seq(Conn)]
        /\ sockfd_b' \in [Node -> Sock]
    <3>1. <<>> \in Seq(Pdu)
      OBVIOUS
    <3> QED
      BY <1>5, <1>8, <2>2, <3>1, ConnectTypes
  <2>4. Fds(sockfd_b'[n], sockfd_d[n]) \in SUBSET Fd
    BY <1>1, <2>3, SocketTypes
  <2>5. polled' \in [Node -> SUBSET Fd]
    BY <1>8, <2>4 DEF TypeOK
  <2>6. /\ start' \in [Node -> Hash] /\ end' \in [Node -> Hash]
        /\ successor' \in [Node -> Node \cup {None}]
    BY <1>6, <1>8 DEF TypeOK
  <2> QED
    BY <1>8, <2>1, <2>3, <2>5, <2>6 DEF TypeOK, Conns, inbox
<1> QED
  BY <1>4, <1>7, <1>8 DEF data, m, cs
-----------------------------------------------------------------------------
(* The environment. *)

LEMMA ClientSendTypes ==
  ASSUME TypeOK, NEW n \in Node, NEW r \in requests, ClientSend(n, r)
  PROVE  TypeOK'
<1>1. r \in Pdu
  BY RingAssumption DEF TypeOK, Pdu, ValPdu
<1>2. udp[n] \cup {r} \in SUBSET Pdu
  BY <1>1 DEF TypeOK
<1>3. udp' \in [Node -> SUBSET Pdu] /\ requests' \subseteq Requests
  BY <1>2 DEF ClientSend, TypeOK
<1> QED
  BY <1>3 DEF ClientSend, TypeOK, ctl, ring, socks, net

LEMMA SignalTypes ==
  ASSUME TypeOK, NEW n \in Node, Signal(n)
  PROVE  TypeOK'
<1>1. should_close' \in [Node -> BOOLEAN]
  BY DEF Signal, TypeOK
<1> QED
  BY <1>1 DEF Signal, TypeOK, ctl, ring, socks, inbox, net

LEMMA InterruptJoinTypes ==
  ASSUME TypeOK, NEW n \in Node, InterruptJoin(n)
  PROVE  TypeOK'
BY ExitTypes DEF InterruptJoin, TypeOK, Conns

LEMMA DrainedTypes ==
  ASSUME TypeOK, NEW n \in Node, Drained(n)
  PROVE  TypeOK'
<1>1. pc' \in [Node -> Control]
  BY GotoType DEF Drained, Control
<1> QED
  BY <1>1 DEF Drained, TypeOK, ring, socks, inbox, net

LEMMA InterruptAcceptTypes ==
  ASSUME TypeOK, NEW n \in Node, InterruptAccept(n)
  PROVE  TypeOK'
<1>1. Front(stack[n]) \in Seq(Frame)
  BY DEF TypeOK, Front
<1>2. pc' \in [Node -> Control]
  BY GotoType DEF InterruptAccept, After, Control
<1>3. stack' \in [Node -> Seq(Frame)]
  BY <1>1 DEF InterruptAccept, TypeOK
<1>4. should_close' \in [Node -> BOOLEAN]
  BY DEF InterruptAccept, TypeOK
<1> QED
  BY <1>2, <1>3, <1>4 DEF InterruptAccept, TypeOK, ring, socks, inbox, net
-----------------------------------------------------------------------------
(* The handlers of NET_JOIN. *)

(* What GrantUpperHalf does to the connections, the range and the table. *)
LEMMA GrantTypes ==
  ASSUME TypeOK, NEW n \in Node, NEW to \in Node, NEW next \in Node \cup {None},
         NEW cs \in Conns, GrantUpperHalf(n, to, next, cs)
  PROVE  /\ end' \in [Node -> Hash]
         /\ hash_table' \in [Node -> SUBSET Key]
         /\ conn' \in Conns
         /\ backlog' \in [Node -> Seq(Conn)]
         /\ sockfd_b' \in [Node -> Sock]
<1>1. start[n] \in Hash /\ end[n] \in Hash /\ hash_table[n] \in SUBSET Key
  BY DEF TypeOK
<1>2. Mid(start[n], end[n]) \in Hash /\ UpperStart(start[n], end[n]) \in Hash
  BY <1>1, HashArithmetic
<1>3. Upper(n) \in SUBSET Key /\ Kept(n) \in SUBSET Key
  BY <1>1 DEF Upper, Kept
<1>4. PICK s \in SetToSeqs(Upper(n)) : Connect(n, to, cs, GrantPdus(n, next, s))
  BY DEF GrantUpperHalf
<1>5. GrantPdus(n, next, s) \in Seq(Pdu)
  <2>1. JoinResponse(next, UpperStart(start[n], end[n]), end[n]) \in Pdu
    BY <1>1, <1>2, PduConstructors
  <2>2. Inserts(s) \in Seq(Pdu)
    BY <1>3, TransferTypes
  <2> QED
    BY <2>1, <2>2 DEF GrantPdus
<1>6. /\ conn' \in Conns
      /\ backlog' \in [Node -> Seq(Conn)]
      /\ sockfd_b' \in [Node -> Sock]
  BY <1>4, <1>5, ConnectTypes
<1>7. end' \in [Node -> Hash] /\ hash_table' \in [Node -> SUBSET Key]
  BY <1>2, <1>3 DEF GrantUpperHalf, TypeOK
<1> QED
  BY <1>6, <1>7

LEMMA Q5Types ==
  ASSUME TypeOK, NEW n \in Node, NEW kind \in {"udp", "tcp"}, NEW m, Q5(n, kind, m)
  PROVE  TypeOK'
<1>1. /\ m \in Pdu /\ queue' \in [Node -> Seq(Pdu)] /\ udp' \in [Node -> SUBSET Pdu]
  BY TakenTypes DEF Q5
<1>2. m.src \in Node
  BY <1>1, JoinFields DEF Q5
<1>3. conn \in Conns
  BY DEF TypeOK, Conns
<1>4. /\ end' \in [Node -> Hash] /\ hash_table' \in [Node -> SUBSET Key]
      /\ conn' \in Conns /\ backlog' \in [Node -> Seq(Conn)] /\ sockfd_b' \in [Node -> Sock]
  BY <1>2, <1>3, GrantTypes DEF Q5
<1>5. successor' \in [Node -> Node \cup {None}]
  BY <1>2 DEF Q5, TypeOK
<1>6. pc' \in [Node -> Control] /\ stack' \in [Node -> Seq(Frame)]
  BY GotoType, SuspendType DEF Q5, Control
<1> QED
  BY <1>1, <1>4, <1>5, <1>6 DEF Q5, TypeOK, Conns

LEMMA Q5RefusedTypes ==
  ASSUME TypeOK, NEW n \in Node, NEW kind \in {"udp", "tcp"}, NEW m, Q5Refused(n, kind, m)
  PROVE  TypeOK'
<1>1. /\ m \in Pdu /\ queue' \in [Node -> Seq(Pdu)] /\ udp' \in [Node -> SUBSET Pdu]
  BY TakenTypes DEF Q5Refused
<1>2. m.src \in Node
  BY <1>1, JoinFields DEF Q5Refused
<1>3. Mid(start[n], end[n]) \in Hash
  BY HashArithmetic DEF TypeOK
<1>4. end' \in [Node -> Hash] /\ successor' \in [Node -> Node \cup {None}]
  BY <1>2, <1>3 DEF Q5Refused, TypeOK
<1>5. conn' \in Conns /\ backlog' \in [Node -> Seq(Conn)] /\ sockfd_b' \in [Node -> Sock]
  BY ConnectRefusedTypes DEF Q5Refused, TypeOK, Conns
<1>6. /\ pc' \in [Node -> Control] /\ stack' \in [Node -> Seq(Frame)]
      /\ polled' \in [Node -> SUBSET Fd]
  BY ReturnTypes DEF Q5Refused
<1> QED
  BY <1>1, <1>4, <1>5, <1>6 DEF Q5Refused, TypeOK, Conns

LEMMA Q5AcceptTypes ==
  ASSUME TypeOK, NEW n \in Node, Q5Accept(n)
  PROVE  TypeOK'
<1> DEFINE d == [fd |-> LowestFd(sockfd_b[n]), conn |-> Head(backlog[n])]
<1>1. sockfd_b[n] \in Sock
  BY DEF TypeOK
<1>2. d \in Sock /\ backlog' \in [Node -> Seq(Conn)]
  BY <1>1, AcceptTypes DEF Q5Accept
<1>3. sockfd_d' \in [Node -> Sock]
  BY <1>2 DEF Q5Accept, TypeOK
<1>4. Fds(sockfd_b[n], d) \in SUBSET Fd
  BY <1>1, <1>2, SocketTypes
<1>5. polled' \in [Node -> SUBSET Fd]
  BY <1>4 DEF Q5Accept, TypeOK
<1>6. pc' \in [Node -> Control]
  BY GotoType DEF Q5Accept, Control
<1> HIDE DEF d
<1> QED
  BY <1>2, <1>3, <1>5, <1>6 DEF Q5Accept, TypeOK, inbox

(* The connections after NET_CLOSE_CONNECTION was sent on sockfd_b and the *)
(* socket closed.                                                          *)
LEMMA CloseBTypes ==
  ASSUME TypeOK, NEW n \in Node
  PROVE  Shut(Sent(conn, "B", sockfd_b[n], <<Close>>), "B", sockfd_b[n]) \in Conns
<1>1. conn \in Conns /\ sockfd_b[n] \in Sock /\ <<Close>> \in Seq(Pdu)
  BY PduConstructors DEF TypeOK, Conns
<1>2. Sent(conn, "B", sockfd_b[n], <<Close>>) \in Conns
  BY <1>1, ConnTypes
<1> QED
  BY <1>1, <1>2, ConnTypes

LEMMA Q13Types ==
  ASSUME TypeOK, NEW n \in Node, NEW kind \in {"udp", "tcp"}, NEW m, Q13(n, kind, m)
  PROVE  TypeOK'
<1> DEFINE cs == Shut(Sent(conn, "B", sockfd_b[n], <<Close>>), "B", sockfd_b[n])
<1>1. /\ m \in Pdu /\ queue' \in [Node -> Seq(Pdu)] /\ udp' \in [Node -> SUBSET Pdu]
  BY TakenTypes DEF Q13
<1>2. m.src \in Node
  BY <1>1, JoinFields DEF Q13
<1>3. cs \in Conns /\ successor[n] \in Node \cup {None} /\ sockfd_d[n] \in Sock
  BY CloseBTypes DEF TypeOK
<1>4. GrantUpperHalf(n, m.src, successor[n], cs)
  BY DEF Q13
<1> HIDE DEF cs
<1>5. /\ end' \in [Node -> Hash] /\ hash_table' \in [Node -> SUBSET Key]
      /\ conn' \in Conns /\ backlog' \in [Node -> Seq(Conn)] /\ sockfd_b' \in [Node -> Sock]
  BY <1>2, <1>3, <1>4, GrantTypes
<1>6. successor' \in [Node -> Node \cup {None}]
  BY <1>2 DEF Q13, TypeOK
<1>7. sockfd_b'[n] \in Sock /\ Nested(n, kind, sockfd_b'[n], sockfd_d[n])
  BY <1>5 DEF Q13
<1>8. /\ pc' \in [Node -> Control] /\ stack' \in [Node -> Seq(Frame)]
      /\ polled' \in [Node -> SUBSET Fd]
  BY <1>3, <1>7, NestedTypes
<1> QED
  BY <1>1, <1>5, <1>6, <1>8 DEF Q13, TypeOK, Conns

LEMMA Q13RefusedTypes ==
  ASSUME TypeOK, NEW n \in Node, NEW kind \in {"udp", "tcp"}, NEW m, Q13Refused(n, kind, m)
  PROVE  TypeOK'
<1>1. /\ m \in Pdu /\ queue' \in [Node -> Seq(Pdu)] /\ udp' \in [Node -> SUBSET Pdu]
  BY TakenTypes DEF Q13Refused
<1>2. conn' \in Conns /\ backlog' \in [Node -> Seq(Conn)] /\ sockfd_b' \in [Node -> Sock]
  BY CloseBTypes, ConnectRefusedTypes DEF Q13Refused
<1>3. /\ pc' \in [Node -> Control] /\ stack' \in [Node -> Seq(Frame)]
      /\ polled' \in [Node -> SUBSET Fd]
  BY ReturnTypes DEF Q13Refused
<1> QED
  BY <1>1, <1>2, <1>3 DEF Q13Refused, TypeOK, Conns, ring

LEMMA WithWidestType ==
  ASSUME TypeOK, NEW n \in Node, NEW m \in Pdu, m.type = "NET_JOIN"
  PROVE  WithWidest(n, m) \in Pdu
<1> DEFINE Join == [type : {"NET_JOIN"}, src : Node, max : Node \cup {None}, span : Hash]
<1>1. m \in Join
  BY JoinFields
<1>2. SpanOf(n) \in Hash
  BY HashArithmetic DEF SpanOf, TypeOK
<1>3. [m EXCEPT !.max = n, !.span = SpanOf(n)] \in Join
  BY <1>1, <1>2
<1>4. Join \subseteq Pdu
  BY DEF Pdu
<1> HIDE DEF Join
<1> QED
  BY <1>3, <1>4 DEF WithWidest

LEMMA Q14Types ==
  ASSUME TypeOK, NEW n \in Node, NEW kind \in {"udp", "tcp"}, NEW m, Q14(n, kind, m)
  PROVE  TypeOK'
<1>1. /\ m \in Pdu /\ queue' \in [Node -> Seq(Pdu)] /\ udp' \in [Node -> SUBSET Pdu]
  BY TakenTypes DEF Q14
<1>2. conn \in Conns /\ sockfd_b[n] \in Sock /\ sockfd_d[n] \in Sock
  BY DEF TypeOK, Conns
<1>3. <<WithWidest(n, m)>> \in Seq(Pdu)
  BY <1>1, WithWidestType DEF Q14
<1>4. conn' \in Conns
  BY <1>2, <1>3, ConnTypes DEF Q14
<1>5. /\ pc' \in [Node -> Control] /\ stack' \in [Node -> Seq(Frame)]
      /\ polled' \in [Node -> SUBSET Fd]
  BY <1>2, NestedTypes DEF Q14
<1> QED
  BY <1>1, <1>4, <1>5 DEF Q14, TypeOK, Conns, ring, socks
-----------------------------------------------------------------------------
(* The handlers of the other PDUs. *)

LEMMA SockOfType ==
  ASSUME TypeOK, NEW n \in Node, NEW side \in {"B", "D"}
  PROVE  SockOf(n, side) \in Sock
BY DEF TypeOK, SockOf

(* A shut socket leaves well-typed connections. *)
LEMMA ShutTypes ==
  ASSUME TypeOK, NEW n \in Node, NEW side \in {"B", "D"}
  PROVE  conn \in Conns /\ Shut(conn, side, SockOf(n, side)) \in Conns
<1>1. conn \in Conns
  BY DEF TypeOK, Conns
<1> QED
  BY <1>1, SockOfType, ConnTypes

LEMMA Q15Types ==
  ASSUME TypeOK, NEW n \in Node, NEW kind \in {"udp", "tcp"}, NEW m, Q15(n, kind, m)
  PROVE  TypeOK'
<1> DEFINE side == AnswerSide(n, m)
           lo   == IF side = "B" THEN start[n] ELSE m.lo
           hi   == IF side = "B" THEN m.hi ELSE end[n]
<1>1. /\ m \in Pdu /\ queue' \in [Node -> Seq(Pdu)] /\ udp' \in [Node -> SUBSET Pdu]
  BY TakenTypes DEF Q15
<1>2. m.lo \in Hash /\ m.hi \in Hash
  BY <1>1, NewRangeFields DEF Q15
<1>3. lo \in Hash /\ hi \in Hash
  BY <1>2 DEF TypeOK
<1>4. start' \in [Node -> Hash] /\ end' \in [Node -> Hash]
  <2>1. \/ start' = [start EXCEPT ![n] = lo] /\ end' = [end EXCEPT ![n] = hi]
        \/ UNCHANGED <<start, end>>
    BY DEF Q15
  <2> HIDE DEF lo, hi
  <2> QED
    BY <1>3, <2>1 DEF TypeOK
<1>5. side \in {"B", "D"} /\ SockOf(n, side) \in Sock
  BY SockOfType DEF AnswerSide
<1>6. conn' \in Conns
  <2>1. conn \in Conns /\ <<NewRangeResponse>> \in Seq(Pdu)
    BY PduConstructors DEF TypeOK, Conns
  <2>2. conn' = Sent(conn, side, SockOf(n, side), <<NewRangeResponse>>)
    BY DEF Q15
  <2> HIDE DEF side
  <2> QED
    BY <1>5, <2>1, <2>2, ConnTypes
<1>7. /\ pc' \in [Node -> Control] /\ stack' \in [Node -> Seq(Frame)]
      /\ polled' \in [Node -> SUBSET Fd]
  BY ReturnTypes DEF Q15
<1> HIDE DEF side, lo, hi
<1> QED
  BY <1>1, <1>4, <1>6, <1>7 DEF Q15, TypeOK, Conns, socks

LEMMA Q16AloneTypes ==
  ASSUME TypeOK, NEW n \in Node, NEW kind \in {"udp", "tcp"}, NEW m, Q16Alone(n, kind, m)
  PROVE  TypeOK'
<1>1. /\ queue' \in [Node -> Seq(Pdu)] /\ udp' \in [Node -> SUBSET Pdu]
  BY TakenTypes DEF Q16Alone
<1>2. conn' \in Conns
  BY ShutTypes DEF Q16Alone, SockOf
<1>3. sockfd_b' \in [Node -> Sock] /\ successor' \in [Node -> Node \cup {None}]
  BY SocketTypes DEF Q16Alone, TypeOK
<1>4. /\ pc' \in [Node -> Control] /\ stack' \in [Node -> Seq(Frame)]
      /\ polled' \in [Node -> SUBSET Fd]
  BY ReturnTypes DEF Q16Alone
<1> QED
  BY <1>1, <1>2, <1>3, <1>4 DEF Q16Alone, TypeOK, Conns

LEMMA Q16Types ==
  ASSUME TypeOK, NEW n \in Node, NEW kind \in {"udp", "tcp"}, NEW m, Q16(n, kind, m)
  PROVE  TypeOK'
<1>1. /\ m \in Pdu /\ queue' \in [Node -> Seq(Pdu)] /\ udp' \in [Node -> SUBSET Pdu]
  BY TakenTypes DEF Q16
<1>2. m.new \in Node
  BY <1>1, LeavingFields DEF Q16, Reachable
<1>3. Shut(conn, "B", sockfd_b[n]) \in Conns /\ <<>> \in Seq(Pdu)
  BY ShutTypes DEF SockOf
<1>4. conn' \in Conns /\ backlog' \in [Node -> Seq(Conn)] /\ sockfd_b' \in [Node -> Sock]
  BY <1>2, <1>3, ConnectTypes DEF Q16
<1>5. successor' \in [Node -> Node \cup {None}]
  BY <1>2 DEF Q16, TypeOK
<1>6. /\ pc' \in [Node -> Control] /\ stack' \in [Node -> Seq(Frame)]
      /\ polled' \in [Node -> SUBSET Fd]
  BY ReturnTypes DEF Q16
<1> QED
  BY <1>1, <1>4, <1>5, <1>6 DEF Q16, TypeOK, Conns

LEMMA Q16RefusedTypes ==
  ASSUME TypeOK, NEW n \in Node, NEW kind \in {"udp", "tcp"}, NEW m, Q16Refused(n, kind, m)
  PROVE  TypeOK'
<1>1. /\ queue' \in [Node -> Seq(Pdu)] /\ udp' \in [Node -> SUBSET Pdu]
  BY TakenTypes DEF Q16Refused
<1>2. conn' \in Conns /\ sockfd_b' \in [Node -> Sock]
  BY ShutTypes, SocketTypes DEF Q16Refused, SockOf, TypeOK
<1>3. /\ pc' \in [Node -> Control] /\ stack' \in [Node -> Seq(Frame)]
      /\ polled' \in [Node -> SUBSET Fd]
  BY ReturnTypes DEF Q16Refused
<1> QED
  BY <1>1, <1>2, <1>3 DEF Q16Refused, TypeOK, Conns, ring

LEMMA Q17Types ==
  ASSUME TypeOK, NEW n \in Node, NEW kind \in {"udp", "tcp"}, NEW m, Q17(n, kind, m)
  PROVE  TypeOK'
<1>1. /\ queue' \in [Node -> Seq(Pdu)] /\ udp' \in [Node -> SUBSET Pdu]
  BY TakenTypes DEF Q17
<1>2. conn' \in Conns
  BY ShutTypes DEF Q17, SockOf
<1>3. sockfd_d' \in [Node -> Sock] /\ sockfd_b[n] \in Sock
  BY SocketTypes DEF Q17, TypeOK
<1>4. predecessor' \in [Node -> BOOLEAN]
  <2>1. (predecessor[n] /\ (sockfd_d[n].fd = NoFd)) \in BOOLEAN
    OBVIOUS
  <2>2. predecessor' = [predecessor EXCEPT ![n] = predecessor[n] /\ (sockfd_d[n].fd = NoFd)]
    BY DEF Q17
  <2>3. predecessor \in [Node -> BOOLEAN]
    BY DEF TypeOK
  <2> QED
    BY <2>1, <2>2, <2>3
<1>5. /\ pc' \in [Node -> Control] /\ stack' \in [Node -> Seq(Frame)]
      /\ polled' \in [Node -> SUBSET Fd]
  <2>1. CASE Nested(n, kind, sockfd_b[n], NoSock)
    BY <1>3, <2>1, SocketTypes, NestedTypes
  <2>2. CASE Goto(n, "q17_accept") /\ UNCHANGED <<stack, polled>>
    BY <2>2, GotoType DEF TypeOK, Control
  <2> QED
    BY <2>1, <2>2 DEF Q17
<1> QED
  BY <1>1, <1>2, <1>3, <1>4, <1>5 DEF Q17, TypeOK, Conns

LEMMA Q17AcceptTypes ==
  ASSUME TypeOK, NEW n \in Node, Q17Accept(n)
  PROVE  TypeOK'
<1> DEFINE d == [fd |-> LowestFd(sockfd_b[n]), conn |-> Head(backlog[n])]
<1>1. d \in Sock /\ backlog' \in [Node -> Seq(Conn)]
  BY AcceptTypes DEF Q17Accept, TypeOK
<1>2. sockfd_d' \in [Node -> Sock]
  BY <1>1 DEF Q17Accept, TypeOK
<1>3. pc' \in [Node -> Control]
  BY GotoType DEF Q17Accept, Control
<1> HIDE DEF d
<1> QED
  BY <1>1, <1>2, <1>3 DEF Q17Accept, TypeOK, inbox

LEMMA Q9ServeTypes ==
  ASSUME TypeOK, NEW n \in Node, NEW kind \in {"udp", "tcp"}, NEW m, Q9Serve(n, kind, m)
  PROVE  TypeOK'
<1>1. /\ queue' \in [Node -> Seq(Pdu)] /\ udp' \in [Node -> SUBSET Pdu]
  BY TakenTypes DEF Q9Serve
<1> DEFINE table == CASE m.type = "VAL_INSERT" -> hash_table[n] \cup {m.ssn}
                      [] m.type = "VAL_REMOVE" -> hash_table[n] \ {m.ssn}
                      [] m.type = "VAL_LOOKUP" -> hash_table[n]
<1>2. m.ssn \in Key /\ m.type \in {"VAL_INSERT", "VAL_REMOVE", "VAL_LOOKUP"}
  BY DEF Q9Serve, ValPdu
<1>3. table \in SUBSET Key
  BY <1>2 DEF TypeOK
<1>4. hash_table' = [hash_table EXCEPT ![n] = table]
  BY DEF Q9Serve
<1> HIDE DEF table
<1>5. hash_table' \in [Node -> SUBSET Key]
  BY <1>3, <1>4 DEF TypeOK
<1>6. /\ pc' \in [Node -> Control] /\ stack' \in [Node -> Seq(Frame)]
      /\ polled' \in [Node -> SUBSET Fd]
  BY ReturnTypes DEF Q9Serve
<1> QED
  BY <1>1, <1>5, <1>6 DEF Q9Serve, TypeOK, ring, socks, net

LEMMA Q9ForwardTypes ==
  ASSUME TypeOK, NEW n \in Node, NEW kind \in {"udp", "tcp"}, NEW m, Q9Forward(n, kind, m)
  PROVE  TypeOK'
<1>1. /\ m \in Pdu /\ queue' \in [Node -> Seq(Pdu)] /\ udp' \in [Node -> SUBSET Pdu]
  BY TakenTypes DEF Q9Forward
<1>2. conn \in Conns /\ sockfd_b[n] \in Sock /\ <<m>> \in Seq(Pdu)
  BY <1>1 DEF TypeOK, Conns
<1>3. conn' \in Conns
  BY <1>2, ConnTypes DEF Q9Forward
<1>4. /\ pc' \in [Node -> Control] /\ stack' \in [Node -> Seq(Frame)]
      /\ polled' \in [Node -> SUBSET Fd]
  BY ReturnTypes DEF Q9Forward
<1> QED
  BY <1>1, <1>3, <1>4 DEF Q9Forward, TypeOK, Conns, ring, socks

LEMMA SendFailedTypes ==
  ASSUME TypeOK, NEW n \in Node, NEW kind \in {"udp", "tcp"}, NEW m, SendFailed(n, kind, m)
  PROVE  TypeOK'
<1>1. /\ queue' \in [Node -> Seq(Pdu)] /\ udp' \in [Node -> SUBSET Pdu]
  BY TakenTypes DEF SendFailed
<1>2. /\ pc' \in [Node -> Control] /\ stack' \in [Node -> Seq(Frame)]
      /\ polled' \in [Node -> SUBSET Fd]
  BY ReturnTypes DEF SendFailed
<1> QED
  BY <1>1, <1>2 DEF SendFailed, TypeOK, ring, socks, net

LEMMA SendKilledTypes ==
  ASSUME TypeOK, NEW n \in Node, NEW kind \in {"udp", "tcp"}, NEW m, SendKilled(n, kind, m)
  PROVE  TypeOK'
BY ExitTypes DEF SendKilled, TypeOK, Conns

LEMMA IgnoreTypes ==
  ASSUME TypeOK, NEW n \in Node, NEW kind \in {"udp", "tcp"}, NEW m, Ignore(n, kind, m)
  PROVE  TypeOK'
<1>1. /\ queue' \in [Node -> Seq(Pdu)] /\ udp' \in [Node -> SUBSET Pdu]
  BY TakenTypes DEF Ignore
<1>2. /\ pc' \in [Node -> Control] /\ stack' \in [Node -> Seq(Frame)]
      /\ polled' \in [Node -> SUBSET Fd]
  BY ReturnTypes DEF Ignore
<1> QED
  BY <1>1, <1>2 DEF Ignore, TypeOK, ring, socks, net

LEMMA HandlePduTypes ==
  ASSUME TypeOK, NEW n \in Node, HandlePdu(n)
  PROVE  TypeOK'
BY Q5Types, Q5RefusedTypes, Q13Types, Q13RefusedTypes, Q14Types, Q15Types, Q16Types,
   Q16AloneTypes, Q16RefusedTypes, Q17Types, Q9ServeTypes, Q9ForwardTypes,
   SendFailedTypes, SendKilledTypes, IgnoreTypes
DEF HandlePdu
-----------------------------------------------------------------------------
(* Reading and leaving. *)

LEMMA ReadableBound ==
  ASSUME NEW data \in Seq(Pdu)
  PROVE  Readable(data) \in 0 .. Len(data)
<1> DEFINE S == {i \in DOMAIN data : \A j \in 1 .. i : data[j] # Garbage}
<1>1. /\ IsFiniteSet(1 .. Len(data))
      /\ Cardinality(1 .. Len(data)) = Len(data)
  <2>1. Len(data) \in Nat
    OBVIOUS
  <2>2. /\ IsFiniteSet(1 .. Len(data))
        /\ Cardinality(1 .. Len(data)) = IF 1 > Len(data) THEN 0 ELSE Len(data) - 1 + 1
    BY <2>1, FS_Interval
  <2> QED
    BY <2>1, <2>2
<1>2. S \subseteq 1 .. Len(data)
  OBVIOUS
<1>3. Cardinality(S) \in Nat /\ Cardinality(S) <= Len(data)
  BY <1>1, <1>2, FS_Subset, FS_CardinalityType
<1> QED
  BY <1>3 DEF Readable

LEMMA ReadSocketTypes ==
  ASSUME TypeOK, NEW n \in Node, NEW side \in {"B", "D"}, NEW eof \in BOOLEAN,
         NEW i \in 0 .. Len(Inbound(conn, side, SockOf(n, side))), ReadSocket(n, side, i, eof)
  PROVE  TypeOK'
<1> DEFINE s    == SockOf(n, side)
           data == Inbound(conn, side, s)
           good == IF side \in stalled[n] THEN 0 ELSE Readable(SubSeq(data, 1, i))
           left == SubSeq(data, i + 1, Len(data))
           rest == SetInbound(conn, side, s, left)
<1>1. conn \in Conns /\ s \in Sock /\ s.conn # NoConn
  BY SockOfType DEF TypeOK, Conns, ReadSocket
<1>2. data \in Seq(Pdu)
  BY <1>1, ConnTypes
<1>3. i \in 0 .. Len(data)
  OBVIOUS
<1>4. queue' \in [Node -> Seq(Pdu)]
  <2>1. SubSeq(data, 1, i) \in Seq(Pdu) /\ Len(SubSeq(data, 1, i)) = i
    BY <1>2, <1>3
  <2>2. good \in 0 .. i
    <3>1. Readable(SubSeq(data, 1, i)) \in 0 .. i
      <4>1. Readable(SubSeq(data, 1, i)) \in 0 .. Len(SubSeq(data, 1, i))
        BY <2>1, ReadableBound
      <4> QED
        BY <2>1, <4>1
    <3> HIDE DEF data
    <3> QED
      BY <1>3, <3>1
  <2>3. queue' = [queue EXCEPT ![n] = @ \o SubSeq(data, 1, good)]
    BY DEF ReadSocket
  <2> HIDE DEF data, good
  <2>4. SubSeq(data, 1, good) \in Seq(Pdu)
    BY <1>2, <1>3, <2>2
  <2>5. queue[n] \o SubSeq(data, 1, good) \in Seq(Pdu)
    BY <2>4 DEF TypeOK
  <2> QED
    BY <2>3, <2>5 DEF TypeOK
<1>5. conn' \in Conns
  <2>1. conn' = IF eof THEN Shut(rest, side, s) ELSE rest
    BY DEF ReadSocket
  <2>2. left \in Seq(Pdu)
    <3> HIDE DEF data
    <3> QED
      BY <1>2, <1>3
  <2> HIDE DEF left, s
  <2>3. rest \in Conns
    BY <1>1, <2>2, ConnTypes
  <2> HIDE DEF rest
  <2> QED
    BY <1>1, <2>1, <2>3, ConnTypes
<1>6. stalled' \in [Node -> SUBSET {"B", "D"}]
  <2>1. stalled' = [stalled EXCEPT ![n] = IF good < i THEN @ \cup {side} ELSE @]
    BY DEF ReadSocket
  <2> HIDE DEF good
  <2> QED
    BY <2>1 DEF TypeOK
<1>7. sockfd_b' \in [Node -> Sock] /\ sockfd_d' \in [Node -> Sock]
  BY SocketTypes DEF ReadSocket, TypeOK
<1>8. pc' \in [Node -> Control]
  BY GotoType DEF ReadSocket, Control
<1>9. UNCHANGED <<stack, polled, should_close, ring, udp, hash_table, backlog, requests>>
  BY DEF ReadSocket
<1> HIDE DEF s, data, good, left, rest
<1> QED
  BY <1>4, <1>5, <1>6, <1>7, <1>8, <1>9 DEF TypeOK, Conns, ring

LEMMA ReadTypes ==
  ASSUME TypeOK, NEW n \in Node, Read(n)
  PROVE  TypeOK'
BY ReadSocketTypes DEF Read

LEMMA LeaveSideType ==
  ASSUME TypeOK, NEW n \in Node
  PROVE  /\ LeaveSide(n) \in {"B", "D"}
         /\ SockOf(n, LeaveSide(n)) \in Sock
         /\ conn \in Conns
BY SockOfType DEF LeaveSide, TypeOK, Conns

LEMMA Q10Types ==
  ASSUME TypeOK, NEW n \in Node, Q10(n)
  PROVE  TypeOK'
BY ExitTypes DEF Q10, TypeOK, Conns

LEMMA Q11Types ==
  ASSUME TypeOK, NEW n \in Node, Q11(n)
  PROVE  TypeOK'
<1> DEFINE side == LeaveSide(n)
<1>1. side \in {"B", "D"} /\ SockOf(n, side) \in Sock /\ conn \in Conns
  BY LeaveSideType
<1>2. <<NewRange(start[n], end[n])>> \in Seq(Pdu)
  BY PduConstructors DEF TypeOK
<1>3. conn' = Sent(conn, side, SockOf(n, side), <<NewRange(start[n], end[n])>>)
  BY DEF Q11
<1>4. pc' \in [Node -> Control]
  BY GotoType DEF Q11, Control
<1> HIDE DEF side
<1>5. conn' \in Conns
  BY <1>1, <1>2, <1>3, ConnTypes
<1> QED
  BY <1>4, <1>5 DEF Q11, TypeOK, Conns, ring, socks, inbox

LEMMA Q11SendFailedTypes ==
  ASSUME TypeOK, NEW n \in Node, Q11SendFailed(n)
  PROVE  TypeOK'
<1>1. conn \in Conns /\ hash_table[n] \in SUBSET Key
  BY DEF TypeOK, Conns
<1> QED
  BY <1>1, ExitTypes, LeaveLoopTypes DEF Q11SendFailed

LEMMA InterruptRecvTypes ==
  ASSUME TypeOK, NEW n \in Node, InterruptRecv(n)
  PROVE  TypeOK'
<1>1. conn \in Conns /\ hash_table[n] \in SUBSET Key
  BY DEF TypeOK, Conns
<1> QED
  BY <1>1, LeaveLoopTypes DEF InterruptRecv

LEMMA Q11AbortTypes ==
  ASSUME TypeOK, NEW n \in Node, Q11Abort(n)
  PROVE  TypeOK'
<1> DEFINE side == LeaveSide(n)
           s    == SockOf(n, side)
           data == Inbound(conn, side, s)
           left == IF Head(data).type = "NET_CLOSE_CONNECTION"
                     THEN Tail(data) ELSE <<Garbage>> \o Tail(data)
<1>1. side \in {"B", "D"} /\ s \in Sock /\ conn \in Conns /\ hash_table[n] \in SUBSET Key
  BY LeaveSideType DEF TypeOK
<1>2. data \in Seq(Pdu)
  BY <1>1, ConnTypes
<1>3. \/ data # <<>> /\ LeaveLoop(n, SetInbound(conn, side, s, left), hash_table[n])
      \/ LeaveLoop(n, conn, hash_table[n])
  BY DEF Q11Abort
<1>4. CASE data # <<>> /\ LeaveLoop(n, SetInbound(conn, side, s, left), hash_table[n])
  <2>1. s.conn # NoConn
    BY <1>4 DEF Inbound
  <2>2. left \in Seq(Pdu)
    <3>1. Tail(data) \in Seq(Pdu)
      BY <1>2, <1>4
    <3>2. <<Garbage>> \o Tail(data) \in Seq(Pdu)
      BY <3>1, PduConstructors
    <3> HIDE DEF data
    <3> QED
      BY <3>1, <3>2
  <2> HIDE DEF side, s, left
  <2>3. SetInbound(conn, side, s, left) \in Conns
    BY <1>1, <2>1, <2>2, ConnTypes
  <2> QED
    BY <1>1, <1>4, <2>3, LeaveLoopTypes
<1>5. CASE LeaveLoop(n, conn, hash_table[n])
  BY <1>1, <1>5, LeaveLoopTypes
<1> QED
  BY <1>3, <1>4, <1>5

LEMMA SendResultsTypes ==
  ASSUME NEW cs \in Conns, NEW side \in {"B", "D"}, NEW s \in Sock, NEW pdus \in Seq(Pdu),
         NEW t \in SendResults(cs, side, s, pdus)
  PROVE  t[2] \in Conns
<1>1. Sent(cs, side, s, pdus) \in Conns
  BY ConnTypes
<1>2. t[2] = cs \/ t[2] = Sent(cs, side, s, pdus)
  BY DEF SendResults
<1> QED
  BY <1>1, <1>2

LEMMA Q18Types ==
  ASSUME TypeOK, NEW n \in Node, Q18(n)
  PROVE  TypeOK'
<1> DEFINE side == LeaveSide(n)
           s    == SockOf(n, side)
           data == Inbound(conn, side, s)
           cs   == SetInbound(conn, side, s, Tail(data))
<1>1. side \in {"B", "D"} /\ s \in Sock /\ conn \in Conns
  BY LeaveSideType
<1>2. /\ sockfd_b[n] \in Sock /\ sockfd_d[n] \in Sock
      /\ hash_table[n] \in SUBSET Key /\ successor[n] \in Node \cup {None}
  BY DEF TypeOK
<1>3. data \in Seq(Pdu) /\ data # <<>>
  BY <1>1, ConnTypes DEF Q18
<1>4. s.conn # NoConn /\ Tail(data) \in Seq(Pdu)
  BY <1>3 DEF Inbound
<1> DEFINE Outcome(t, c, l) ==
          IF t[1] = "kill" THEN Exit(n, t[2])
          ELSE IF c[1] = "kill" THEN Exit(n, c[2])
          ELSE IF c[1] = "fail" THEN LeaveLoop(n, c[2], {})
          ELSE IF l[1] = "fail" THEN LeaveLoop(n, l[2], {})
          ELSE Exit(n, l[2])
<1>5. PICK entries \in Entries(n) :
        \E t \in SendResults(cs, side, s, entries) :
        \E c \in SendResults(t[2], "B", sockfd_b[n], <<Close>>) :
        \E l \in SendResults(c[2], "D", sockfd_d[n], <<Leaving(successor[n])>>) :
          Outcome(t, c, l)
  BY DEF Q18
<1>6. entries \in Seq(Pdu)
  BY <1>2, TransferTypes DEF Entries
<1>7. <<Close>> \in Seq(Pdu) /\ <<Leaving(successor[n])>> \in Seq(Pdu)
  BY <1>2, PduConstructors
<1> HIDE DEF side, s, data
<1>8. cs \in Conns
  BY <1>1, <1>4, ConnTypes
<1> HIDE DEF cs
<1> HIDE DEF Outcome
<1>9. PICK t \in SendResults(cs, side, s, entries) :
        \E c \in SendResults(t[2], "B", sockfd_b[n], <<Close>>) :
        \E l \in SendResults(c[2], "D", sockfd_d[n], <<Leaving(successor[n])>>) :
          Outcome(t, c, l)
  BY <1>5
<1>10. t[2] \in Conns
  BY <1>1, <1>6, <1>8, SendResultsTypes
<1>11. PICK c \in SendResults(t[2], "B", sockfd_b[n], <<Close>>) :
         \E l \in SendResults(c[2], "D", sockfd_d[n], <<Leaving(successor[n])>>) :
           Outcome(t, c, l)
  BY <1>9
<1>12. c[2] \in Conns
  BY <1>2, <1>7, <1>10, SendResultsTypes
<1>13. PICK l \in SendResults(c[2], "D", sockfd_d[n], <<Leaving(successor[n])>>) :
         Outcome(t, c, l)
  BY <1>11
<1>14. l[2] \in Conns
  BY <1>2, <1>7, <1>12, SendResultsTypes
<1> QED
  BY <1>10, <1>12, <1>13, <1>14, ExitTypes, LeaveLoopTypes DEF Outcome
-----------------------------------------------------------------------------
(* The theorem. *)

LEMMA InitTypes == Init => TypeOK
<1> SUFFICES ASSUME Init PROVE TypeOK
  OBVIOUS
<1>1. 0 \in Hash
  BY MaxHashAssumption DEF Hash
<1>2. FreeConn \in ConnRecord
  BY DEF FreeConn, ConnRecord
<1> QED
  BY <1>1, <1>2, SocketTypes DEF Init, TypeOK, Control

LEMMA NextTypes ==
  ASSUME TypeOK, [Next]_vars
  PROVE  TypeOK'
<1>1. ASSUME NEW n \in Node, Step(n) PROVE TypeOK'
  BY <1>1, JoinAcceptTypes, JoinRecvTypes, Q5AcceptTypes, Q17AcceptTypes, HandlePduTypes,
     ReadTypes, DrainedTypes, Q10Types, Q11Types, Q11SendFailedTypes, Q11AbortTypes, Q18Types
  DEF Step
<1>2. ASSUME NEW n \in Node, Environment(n) PROVE TypeOK'
  BY <1>2, StartFirstTypes, StartJoinTypes, ClientSendTypes, SignalTypes,
     InterruptJoinTypes, InterruptAcceptTypes, InterruptRecvTypes
  DEF Environment
<1>3. CASE UNCHANGED vars
  BY <1>3 DEF TypeOK, vars, ctl, ring, socks, inbox, net
<1> QED
  BY <1>1, <1>2, <1>3 DEF Next

(* Every variable of every node keeps its type, for any number of nodes,   *)
(* keys and hashes and any bounds: the handlers (q4 to q18) never compute  *)
(* a range bound outside the hash space, store a descriptor of a           *)
(* connection there is not, or send an ill-formed PDU.                     *)
THEOREM TypeCorrect == Spec => []TypeOK
BY InitTypes, NextTypes, PTL DEF Spec
-----------------------------------------------------------------------------
(* Joining. *)

(* PDUs under way.  If a set of PDUs holds all there are and all that a    *)
(* step adds, it still does after the step.                                *)

OnConns(S, cs) == \A c \in Conn : cs[c].up \in Seq(S) /\ cs[c].down \in Seq(S)
AllIn(S, q, u, cs) == (\A n \in Node : q[n] \in Seq(S) /\ u[n] \subseteq S) /\ OnConns(S, cs)

(* What a step adds is in S. *)
Admits(S) ==
  /\ {Garbage, Close, NewRangeResponse} \cup ValPdu \subseteq S
  /\ \A n, e \in Node : StartJoin(n, e) => JoinPdu(n, None, 0) \in S
  /\ \A n \in Node : Q11(n) => NewRange(start[n], end[n]) \in S
  /\ \A n \in Node : Q18(n) => Leaving(successor[n]) \in S
  /\ \A n \in Node, kind \in {"udp", "tcp"} : \A m \in Pdu :
       /\ Q5(n, kind, m) => JoinResponse(n, UpperStart(start[n], end[n]), end[n]) \in S
       /\ Q13(n, kind, m) => JoinResponse(successor[n], UpperStart(start[n], end[n]), end[n]) \in S
       /\ Q14(n, kind, m) => WithWidest(n, m) \in S

LEMMA ClosedIn ==
  ASSUME NEW S, NEW r \in ConnRecord, r.up \in Seq(S), r.down \in Seq(S),
         NEW cli \in BOOLEAN, NEW srv \in BOOLEAN
  PROVE  Closed(r, cli, srv).up \in Seq(S) /\ Closed(r, cli, srv).down \in Seq(S)
<1>1. /\ Closed(r, cli, srv).up \in {r.up, <<>>}
      /\ Closed(r, cli, srv).down \in {r.down, <<>>}
  BY DEF Closed, FreeConn, ConnRecord
<1>2. <<>> \in Seq(S)
  OBVIOUS
<1> QED
  BY <1>1, <1>2

LEMMA ReplaceIn ==
  ASSUME NEW S, NEW cs \in Conns, OnConns(S, cs), NEW c \in Conn, NEW r,
         r.up \in Seq(S), r.down \in Seq(S)
  PROVE  OnConns(S, [cs EXCEPT ![c] = r])
BY DEF OnConns, Conns

LEMMA ShutIn ==
  ASSUME NEW S, NEW cs \in Conns, OnConns(S, cs), NEW side \in {"B", "D"}, NEW s \in Sock
  PROVE  OnConns(S, Shut(cs, side, s))
<1>1. CASE s.conn = NoConn
  BY <1>1 DEF Shut
<1>2. CASE s.conn # NoConn
  <2> DEFINE r == Closed(cs[s.conn], side = "B", side = "D")
  <2>1. s.conn \in Conn /\ cs[s.conn] \in ConnRecord
    BY <1>2 DEF Sock, Conns
  <2>2. r.up \in Seq(S) /\ r.down \in Seq(S)
    BY <2>1, ClosedIn DEF OnConns
  <2>3. Shut(cs, side, s) = [cs EXCEPT ![s.conn] = r]
    BY <1>2 DEF Shut
  <2> HIDE DEF r
  <2>4. OnConns(S, [cs EXCEPT ![s.conn] = r])
    BY <2>1, <2>2, ReplaceIn
  <2> QED
    BY <2>3, <2>4
<1> QED
  BY <1>1, <1>2

LEMMA SetInboundIn ==
  ASSUME NEW S, NEW cs \in Conns, OnConns(S, cs), NEW side \in {"B", "D"}, NEW s \in Sock,
         s.conn # NoConn, NEW data \in Seq(S)
  PROVE  OnConns(S, SetInbound(cs, side, s, data))
<1> DEFINE r == IF side = "B" THEN [cs[s.conn] EXCEPT !.down = data]
                              ELSE [cs[s.conn] EXCEPT !.up = data]
<1>1. s.conn \in Conn /\ cs[s.conn] \in ConnRecord
  BY DEF Sock, Conns
<1>2. r.up \in {cs[s.conn].up, data} /\ r.down \in {cs[s.conn].down, data}
  BY <1>1 DEF ConnRecord
<1>3. SetInbound(cs, side, s, data) = [cs EXCEPT ![s.conn] = r]
  BY DEF SetInbound
<1> HIDE DEF r
<1>4. r.up \in Seq(S) /\ r.down \in Seq(S)
  BY <1>1, <1>2 DEF OnConns
<1>5. OnConns(S, [cs EXCEPT ![s.conn] = r])
  BY <1>1, <1>4, ReplaceIn
<1> QED
  BY <1>3, <1>5

LEMMA SentIn ==
  ASSUME NEW S, NEW cs \in Conns, OnConns(S, cs), NEW side \in {"B", "D"}, NEW s \in Sock,
         NEW pdus \in Seq(S)
  PROVE  OnConns(S, Sent(cs, side, s, pdus))
<1> DEFINE r == cs[s.conn]
<1>1. CASE s.conn = NoConn
  BY <1>1 DEF Sent
<1>2. CASE s.conn # NoConn
  <2>1. s.conn \in Conn /\ r \in ConnRecord /\ r.up \in Seq(S) /\ r.down \in Seq(S)
    BY <1>2 DEF Sock, Conns, OnConns
  <2>2. PICK new \in {[r EXCEPT !.rst = TRUE], [r EXCEPT !.up = @ \o pdus], [r EXCEPT !.down = @ \o pdus]} :
          Sent(cs, side, s, pdus) = [cs EXCEPT ![s.conn] = new]
    BY <1>2 DEF Sent
  <2>3. new.up \in {r.up, r.up \o pdus} /\ new.down \in {r.down, r.down \o pdus}
    BY <2>1, <2>2 DEF ConnRecord
  <2>4. r.up \o pdus \in Seq(S) /\ r.down \o pdus \in Seq(S)
    <3> HIDE DEF r
    <3> QED
      BY <2>1
  <2>5. new.up \in Seq(S) /\ new.down \in Seq(S)
    BY <2>1, <2>3, <2>4
  <2>6. OnConns(S, [cs EXCEPT ![s.conn] = new])
    BY <2>1, <2>5, ReplaceIn
  <2> QED
    BY <2>2, <2>6
<1> QED
  BY <1>1, <1>2

LEMMA InboundIn ==
  ASSUME NEW S, NEW cs, OnConns(S, cs), NEW side \in {"B", "D"}, NEW s \in Sock
  PROVE  Inbound(cs, side, s) \in Seq(S)
<1>1. s.conn # NoConn => s.conn \in Conn
  BY DEF Sock
<1>2. <<>> \in Seq(S)
  OBVIOUS
<1> QED
  BY <1>1, <1>2 DEF Inbound, OnConns

LEMMA ConnectIn ==
  ASSUME NEW S, NEW n \in Node, NEW to \in Node, NEW cs \in Conns, OnConns(S, cs),
         NEW pdus \in Seq(S), Connect(n, to, cs, pdus)
  PROVE  OnConns(S, conn')
<1> DEFINE r == [cli |-> TRUE, srv |-> TRUE, up |-> pdus, down |-> <<>>, rst |-> FALSE]
<1>1. PICK c \in Conn : conn' = [cs EXCEPT ![c] = r]
  BY DEF Connect
<1>2. r.up \in Seq(S) /\ r.down \in Seq(S)
  OBVIOUS
<1> HIDE DEF r
<1> QED
  BY <1>1, <1>2, ReplaceIn
-----------------------------------------------------------------------------
(* The parts of the actions. *)

LEMMA TakenIn ==
  ASSUME NEW S, TypeOK, AllIn(S, queue, udp, conn), NEW n \in Node, NEW kind \in {"udp", "tcp"},
         NEW m, NextPdu(n, kind, m)
  PROVE  /\ m \in S
         /\ Taken(n, kind, m) => \A x \in Node : queue'[x] \in Seq(S) /\ udp'[x] \subseteq S
<1>1. /\ \A x \in Node : queue[x] \in Seq(S) /\ udp[x] \subseteq S
      /\ queue \in [Node -> Seq(Pdu)] /\ udp \in [Node -> SUBSET Pdu]
  BY DEF AllIn, TypeOK
<1>2. CASE kind = "udp"
  <2>1. m \in udp[n]
    BY <1>2 DEF NextPdu
  <2>2. Taken(n, kind, m) => udp' = [udp EXCEPT ![n] = udp[n] \ {m}] /\ queue' = queue
    BY <1>2 DEF Taken
  <2> QED
    BY <1>1, <2>1, <2>2
<1>3. CASE kind = "tcp"
  <2>1. m = Head(queue[n]) /\ queue[n] # <<>> /\ queue[n] \in Seq(S)
    BY <1>1, <1>3 DEF NextPdu
  <2>2. Head(queue[n]) \in S /\ Tail(queue[n]) \in Seq(S)
    BY <2>1
  <2>3. Taken(n, kind, m) => queue' = [queue EXCEPT ![n] = Tail(queue[n])] /\ udp' = udp
    BY <1>3 DEF Taken
  <2> QED
    BY <1>1, <2>1, <2>2, <2>3
<1> QED
  BY <1>2, <1>3

LEMMA ExitIn ==
  ASSUME NEW S, TypeOK, AllIn(S, queue, udp, conn), NEW n \in Node, NEW cs \in Conns,
         OnConns(S, cs), Exit(n, cs)
  PROVE  AllIn(S, queue', udp', conn')
<1>1. \A x \in Node : queue'[x] \in Seq(S) /\ udp'[x] \subseteq S
  <2>1. queue' = [queue EXCEPT ![n] = <<>>] /\ udp' = [udp EXCEPT ![n] = {}]
    BY DEF Exit
  <2>2. <<>> \in Seq(S)
    OBVIOUS
  <2> QED
    BY <2>1, <2>2 DEF AllIn, TypeOK
<1>2. ASSUME NEW c \in Conn PROVE conn'[c].up \in Seq(S) /\ conn'[c].down \in Seq(S)
  <2>1. conn'[c] = Closed(cs[c], c = sockfd_b[n].conn,
                          c = sockfd_d[n].conn \/ \E i \in DOMAIN backlog[n] : c = backlog[n][i])
    BY DEF Exit
  <2>2. cs[c] \in ConnRecord
    BY DEF Conns
  <2> QED
    BY <2>1, <2>2, ClosedIn DEF OnConns
<1> QED
  BY <1>1, <1>2 DEF AllIn, OnConns

LEMMA LeaveLoopIn ==
  ASSUME NEW S, TypeOK, AllIn(S, queue, udp, conn), NEW n \in Node, NEW cs \in Conns,
         OnConns(S, cs), NEW table, LeaveLoop(n, cs, table)
  PROVE  AllIn(S, queue', udp', conn')
<1>1. CASE stack[n] = <<>>
  BY <1>1, ExitIn DEF LeaveLoop
<1>2. CASE stack[n] # <<>>
  <2>1. conn' = cs /\ queue' = queue /\ udp' = udp
    BY <1>2 DEF LeaveLoop, inbox
  <2> QED
    BY <2>1 DEF AllIn
<1> QED
  BY <1>1, <1>2

(* The NET_JOIN_RESPONSE and the entries behind it. *)
LEMMA GrantIn ==
  ASSUME NEW S, TypeOK, ValPdu \subseteq S, NEW n \in Node, NEW to \in Node, NEW next,
         NEW cs \in Conns, OnConns(S, cs), GrantUpperHalf(n, to, next, cs),
         JoinResponse(next, UpperStart(start[n], end[n]), end[n]) \in S
  PROVE  OnConns(S, conn')
<1>1. PICK s \in SetToSeqs(Upper(n)) : Connect(n, to, cs, GrantPdus(n, next, s))
  BY DEF GrantUpperHalf
<1>2. Inserts(s) \in Seq(S)
  <2>1. Upper(n) \in SUBSET Key
    BY DEF Upper, TypeOK
  <2>2. Cardinality(Upper(n)) \in Nat /\ s \in [1 .. Cardinality(Upper(n)) -> Upper(n)]
    BY <2>1, RingAssumption, FS_Subset, FS_CardinalityType DEF SetToSeqs
  <2>3. \A k \in Key : Insert(k) \in S
    BY DEF Insert, ValPdu
  <2> QED
    BY <2>1, <2>2, <2>3 DEF Inserts
<1>3. GrantPdus(n, next, s) \in Seq(S)
  BY <1>2 DEF GrantPdus
<1> QED
  BY <1>1, <1>3, ConnectIn

(* Sending on or shutting one's own socket. *)
LEMMA OwnSocketIn ==
  ASSUME NEW S, TypeOK, AllIn(S, queue, udp, conn), NEW n \in Node, NEW side \in {"B", "D"}
  PROVE  /\ OnConns(S, Shut(conn, side, SockOf(n, side)))
         /\ \A m \in S : OnConns(S, Sent(conn, side, SockOf(n, side), <<m>>))
<1>1. SockOf(n, side) \in Sock /\ conn \in Conns /\ OnConns(S, conn)
  BY SockOfType DEF TypeOK, Conns, AllIn
<1>2. OnConns(S, Shut(conn, side, SockOf(n, side)))
  BY <1>1, ShutIn
<1>3. ASSUME NEW m \in S PROVE OnConns(S, Sent(conn, side, SockOf(n, side), <<m>>))
  <2>1. <<m>> \in Seq(S)
    OBVIOUS
  <2> QED
    BY <1>1, <2>1, SentIn
<1> QED
  BY <1>2, <1>3

LEMMA CloseBIn ==
  ASSUME NEW S, TypeOK, AllIn(S, queue, udp, conn), NEW n \in Node, Close \in S
  PROVE  OnConns(S, Shut(Sent(conn, "B", sockfd_b[n], <<Close>>), "B", sockfd_b[n]))
<1>1. OnConns(S, Sent(conn, "B", sockfd_b[n], <<Close>>))
  BY OwnSocketIn DEF SockOf
<1>2. sockfd_b[n] \in Sock /\ conn \in Conns /\ <<Close>> \in Seq(Pdu)
  BY PduConstructors DEF TypeOK, Conns
<1>3. Sent(conn, "B", sockfd_b[n], <<Close>>) \in Conns
  BY <1>2, ConnTypes
<1> QED
  BY <1>1, <1>2, <1>3, ShutIn
-----------------------------------------------------------------------------
(* The actions. *)

LEMMA JoinRecvIn ==
  ASSUME NEW S, TypeOK, AllIn(S, queue, udp, conn), Garbage \in S, NEW n \in Node, JoinRecv(n)
  PROVE  AllIn(S, queue', udp', conn')
<1> DEFINE data == Inbound(conn, "D", sockfd_d[n])
           m    == Head(data)
<1>1. conn \in Conns /\ sockfd_d[n] \in Sock /\ OnConns(S, conn)
  BY DEF TypeOK, Conns, AllIn
<1>2. /\ data \in Seq(S) /\ data \in Seq(Pdu) /\ data # <<>> /\ m.type = "NET_JOIN_RESPONSE"
      /\ sockfd_d[n].conn # NoConn
  BY <1>1, InboundIn, ConnTypes DEF JoinRecv, Inbound
<1>3. PICK rest \in AfterOverRead(Tail(data)) :
        LET cs == SetInbound(conn, "D", sockfd_d[n], rest)
        IN  \/ /\ Reachable(m.next) /\ Connect(n, m.next, cs, <<>>)
               /\ UNCHANGED inbox
            \/ Exit(n, cs)
  BY DEF JoinRecv
<1> DEFINE cs == SetInbound(conn, "D", sockfd_d[n], rest)
<1>4. rest \in Seq(S) /\ rest \in Seq(Pdu) /\ m \in Pdu
  <2> HIDE DEF data
  <2>1. Tail(data) \in Seq(S) /\ Tail(data) \in Seq(Pdu) /\ Head(data) \in Pdu
    BY <1>2
  <2>2. rest \in Seq(Pdu)
    BY <2>1, OverReadTypes
  <2>3. Tail(data) # <<>> => Tail(Tail(data)) \in Seq(S) /\ <<Garbage>> \o Tail(Tail(data)) \in Seq(S)
    BY <2>1
  <2> QED
    BY <2>1, <2>2, <2>3 DEF AfterOverRead
<1>5. cs \in Conns /\ OnConns(S, cs)
  BY <1>1, <1>2, <1>4, ConnTypes, SetInboundIn
<1>6. m.next \in Node \cup {None}
  BY <1>2, <1>4, JoinResponseFields
<1> HIDE DEF data, m, cs
<1>7. CASE Exit(n, cs)
  BY <1>5, <1>7, ExitIn
<1>8. CASE Reachable(m.next) /\ Connect(n, m.next, cs, <<>>) /\ UNCHANGED inbox
  <2>1. m.next \in Node /\ <<>> \in Seq(S)
    BY <1>6, <1>8 DEF Reachable
  <2>2. OnConns(S, conn')
    BY <1>5, <1>8, <2>1, ConnectIn
  <2> QED
    BY <1>8, <2>2 DEF AllIn, inbox
<1> QED
  BY <1>3, <1>7, <1>8 DEF cs

LEMMA JoinHandlersIn ==
  ASSUME NEW S, TypeOK, AllIn(S, queue, udp, conn), Admits(S),
         NEW n \in Node, NEW kind \in {"udp", "tcp"}, NEW m,
         \/ Q5(n, kind, m) \/ Q5Refused(n, kind, m)
         \/ Q13(n, kind, m) \/ Q13Refused(n, kind, m) \/ Q14(n, kind, m)
  PROVE  AllIn(S, queue', udp', conn')
<1>1. NextPdu(n, kind, m) /\ Taken(n, kind, m) /\ m.type = "NET_JOIN"
  BY DEF Q5, Q5Refused, Q13, Q13Refused, Q14
<1>2. m \in Pdu /\ \A x \in Node : queue'[x] \in Seq(S) /\ udp'[x] \subseteq S
  BY <1>1, TakenIn, TakenTypes
<1>3. m.src \in Node /\ conn \in Conns /\ OnConns(S, conn) /\ Close \in S /\ ValPdu \subseteq S
  BY <1>1, <1>2, JoinFields DEF TypeOK, Conns, AllIn, Admits
<1> DEFINE cs == Shut(Sent(conn, "B", sockfd_b[n], <<Close>>), "B", sockfd_b[n])
<1>4. cs \in Conns /\ OnConns(S, cs)
  BY <1>3, CloseBIn, CloseBTypes
<1>5. CASE Q5(n, kind, m)
  <2>1. JoinResponse(n, UpperStart(start[n], end[n]), end[n]) \in S
    BY <1>2, <1>5 DEF Admits
  <2>2. OnConns(S, conn')
    BY <1>3, <1>5, <2>1, GrantIn DEF Q5
  <2> QED
    BY <1>2, <2>2 DEF AllIn
<1>6. CASE Q13(n, kind, m)
  <2>1. JoinResponse(successor[n], UpperStart(start[n], end[n]), end[n]) \in S
    BY <1>2, <1>6 DEF Admits
  <2>2. GrantUpperHalf(n, m.src, successor[n], cs)
    BY <1>6 DEF Q13
  <2> HIDE DEF cs
  <2>3. OnConns(S, conn')
    BY <1>3, <1>4, <2>1, <2>2, GrantIn
  <2> QED
    BY <1>2, <2>3 DEF AllIn
<1>7. CASE Q5Refused(n, kind, m)
  BY <1>2, <1>3, <1>7 DEF Q5Refused, ConnectRefused, AllIn
<1>8. CASE Q13Refused(n, kind, m)
  <2>1. conn' = cs
    BY <1>8 DEF Q13Refused, ConnectRefused
  <2> QED
    BY <1>2, <1>4, <2>1 DEF AllIn
<1>9. CASE Q14(n, kind, m)
  <2>1. WithWidest(n, m) \in S
    BY <1>2, <1>9 DEF Admits
  <2>2. conn' = Sent(conn, "B", SockOf(n, "B"), <<WithWidest(n, m)>>)
    BY <1>9 DEF Q14, SockOf
  <2>3. OnConns(S, conn')
    BY <2>1, <2>2, OwnSocketIn
  <2> QED
    BY <1>2, <2>3 DEF AllIn
<1> QED
  BY <1>5, <1>6, <1>7, <1>8, <1>9

LEMMA NeighbourHandlersIn ==
  ASSUME NEW S, TypeOK, AllIn(S, queue, udp, conn), NewRangeResponse \in S,
         NEW n \in Node, NEW kind \in {"udp", "tcp"}, NEW m,
         \/ Q15(n, kind, m) \/ Q16(n, kind, m) \/ Q16Alone(n, kind, m)
         \/ Q16Refused(n, kind, m) \/ Q17(n, kind, m)
  PROVE  AllIn(S, queue', udp', conn')
<1>1. NextPdu(n, kind, m) /\ Taken(n, kind, m)
  BY DEF Q15, Q16, Q16Alone, Q16Refused, Q17
<1>2. m \in Pdu /\ \A x \in Node : queue'[x] \in Seq(S) /\ udp'[x] \subseteq S
  BY <1>1, TakenIn, TakenTypes
<1>3. /\ Shut(conn, "B", sockfd_b[n]) \in Conns
      /\ OnConns(S, Shut(conn, "B", sockfd_b[n])) /\ OnConns(S, Shut(conn, "D", sockfd_d[n]))
  BY OwnSocketIn, ShutTypes DEF SockOf
<1>4. CASE Q15(n, kind, m)
  <2>1. AnswerSide(n, m) \in {"B", "D"}
    BY DEF AnswerSide
  <2>2. conn' = Sent(conn, AnswerSide(n, m), SockOf(n, AnswerSide(n, m)), <<NewRangeResponse>>)
    BY <1>4 DEF Q15
  <2>3. OnConns(S, conn')
    BY <2>1, <2>2, OwnSocketIn
  <2> QED
    BY <1>2, <2>3 DEF AllIn
<1>5. CASE Q16(n, kind, m)
  <2>1. m.new \in Node /\ <<>> \in Seq(S)
    BY <1>2, <1>5, LeavingFields DEF Q16, Reachable
  <2>2. Connect(n, m.new, Shut(conn, "B", sockfd_b[n]), <<>>)
    BY <1>5 DEF Q16
  <2>3. OnConns(S, conn')
    BY <1>3, <2>1, <2>2, ConnectIn
  <2> QED
    BY <1>2, <2>3 DEF AllIn
<1>6. CASE Q16Alone(n, kind, m) \/ Q16Refused(n, kind, m)
  <2>1. conn' = Shut(conn, "B", sockfd_b[n])
    BY <1>6 DEF Q16Alone, Q16Refused
  <2> QED
    BY <1>2, <1>3, <2>1 DEF AllIn
<1>7. CASE Q17(n, kind, m)
  <2>1. conn' = Shut(conn, "D", sockfd_d[n])
    BY <1>7 DEF Q17
  <2> QED
    BY <1>2, <1>3, <2>1 DEF AllIn
<1> QED
  BY <1>4, <1>5, <1>6, <1>7

LEMMA ValueHandlersIn ==
  ASSUME NEW S, TypeOK, AllIn(S, queue, udp, conn),
         NEW n \in Node, NEW kind \in {"udp", "tcp"}, NEW m,
         \/ Q9Serve(n, kind, m) \/ Q9Forward(n, kind, m) \/ SendFailed(n, kind, m)
         \/ SendKilled(n, kind, m) \/ Ignore(n, kind, m)
  PROVE  AllIn(S, queue', udp', conn')
<1>1. conn \in Conns /\ OnConns(S, conn)
  BY DEF TypeOK, Conns, AllIn
<1>2. CASE SendKilled(n, kind, m)
  BY <1>1, <1>2, ExitIn DEF SendKilled
<1>3. CASE Q9Serve(n, kind, m) \/ SendFailed(n, kind, m) \/ Ignore(n, kind, m)
  <2>1. NextPdu(n, kind, m) /\ Taken(n, kind, m) /\ conn' = conn
    BY <1>3 DEF Q9Serve, SendFailed, Ignore, net
  <2> QED
    BY <1>1, <2>1, TakenIn DEF AllIn
<1>4. CASE Q9Forward(n, kind, m)
  <2>1. NextPdu(n, kind, m) /\ Taken(n, kind, m) /\ conn' = Sent(conn, "B", SockOf(n, "B"), <<m>>)
    BY <1>4 DEF Q9Forward, SockOf
  <2>2. m \in S /\ \A x \in Node : queue'[x] \in Seq(S) /\ udp'[x] \subseteq S
    BY <2>1, TakenIn
  <2>3. OnConns(S, conn')
    BY <2>1, <2>2, OwnSocketIn
  <2> QED
    BY <2>2, <2>3 DEF AllIn
<1> QED
  BY <1>2, <1>3, <1>4

LEMMA ReadIn ==
  ASSUME NEW S, TypeOK, AllIn(S, queue, udp, conn), NEW n \in Node, Read(n)
  PROVE  AllIn(S, queue', udp', conn')
<1>1. PICK side \in {"B", "D"}, eof \in BOOLEAN :
        \E i \in 0 .. Len(Inbound(conn, side, SockOf(n, side))) : ReadSocket(n, side, i, eof)
  BY DEF Read
<1> DEFINE s    == SockOf(n, side)
           data == Inbound(conn, side, s)
<1>2. PICK i \in 0 .. Len(data) : ReadSocket(n, side, i, eof)
  BY <1>1
<1> DEFINE good == IF side \in stalled[n] THEN 0 ELSE Readable(SubSeq(data, 1, i))
           left == SubSeq(data, i + 1, Len(data))
           rest == SetInbound(conn, side, s, left)
<1>3. conn \in Conns /\ OnConns(S, conn) /\ s \in Sock /\ s.conn # NoConn
  BY <1>2, SockOfType DEF TypeOK, Conns, AllIn, ReadSocket
<1>4. data \in Seq(S) /\ data \in Seq(Pdu)
  BY <1>3, InboundIn, ConnTypes
<1>5. /\ queue' = [queue EXCEPT ![n] = @ \o SubSeq(data, 1, good)]
      /\ conn' = IF eof THEN Shut(rest, side, s) ELSE rest
      /\ udp' = udp
  BY <1>2 DEF ReadSocket
<1> HIDE DEF s
<1>6. good \in 0 .. i
  <2>1. SubSeq(data, 1, i) \in Seq(Pdu) /\ Len(SubSeq(data, 1, i)) = i
    <3> HIDE DEF data
    <3> QED
      BY <1>2, <1>4
  <2>2. Readable(SubSeq(data, 1, i)) \in 0 .. i
    <3>1. Readable(SubSeq(data, 1, i)) \in 0 .. Len(SubSeq(data, 1, i))
      BY <2>1, ReadableBound
    <3> QED
      BY <2>1, <3>1
  <2> HIDE DEF data
  <2> QED
    BY <1>2, <2>2
<1> HIDE DEF data, good
<1>7. /\ left \in Seq(S) /\ left \in Seq(Pdu) /\ SubSeq(data, 1, good) \in Seq(S)
  BY <1>2, <1>4, <1>6
<1> HIDE DEF left
<1>8. rest \in Conns /\ OnConns(S, rest)
  BY <1>3, <1>7, ConnTypes, SetInboundIn
<1> HIDE DEF rest
<1>9. OnConns(S, conn')
  BY <1>3, <1>5, <1>8, ShutIn
<1>10. ASSUME NEW x \in Node PROVE queue'[x] \in Seq(S) /\ udp'[x] \subseteq S
  <2>1. queue[x] \in Seq(S) /\ udp[x] \subseteq S
    BY DEF AllIn
  <2>2. queue[n] \o SubSeq(data, 1, good) \in Seq(S)
    BY <1>7 DEF AllIn
  <2> QED
    BY <1>5, <2>1, <2>2 DEF TypeOK
<1> QED
  BY <1>9, <1>10 DEF AllIn

LEMMA LeavingIn ==
  ASSUME NEW S, TypeOK, AllIn(S, queue, udp, conn), Admits(S), NEW n \in Node,
         Q10(n) \/ Q11(n) \/ Q11SendFailed(n) \/ Q11Abort(n)
  PROVE  AllIn(S, queue', udp', conn')
<1> DEFINE side == LeaveSide(n)
           s    == SockOf(n, side)
           data == Inbound(conn, side, s)
           left == IF Head(data).type = "NET_CLOSE_CONNECTION"
                     THEN Tail(data) ELSE <<Garbage>> \o Tail(data)
<1>1. /\ side \in {"B", "D"} /\ s \in Sock /\ conn \in Conns /\ OnConns(S, conn)
      /\ Garbage \in S
  BY LeaveSideType DEF AllIn, Admits
<1>2. CASE Q10(n) \/ Q11SendFailed(n)
  BY <1>1, <1>2, ExitIn, LeaveLoopIn DEF Q10, Q11SendFailed
<1>3. CASE Q11(n)
  <2>1. NewRange(start[n], end[n]) \in S
    BY <1>3 DEF Admits
  <2>2. conn' = Sent(conn, side, s, <<NewRange(start[n], end[n])>>) /\ UNCHANGED inbox
    BY <1>3 DEF Q11
  <2>3. OnConns(S, conn')
    BY <1>1, <2>1, <2>2, OwnSocketIn
  <2> QED
    BY <2>2, <2>3 DEF AllIn, inbox
<1>4. CASE Q11Abort(n)
  <2>1. \/ data # <<>> /\ LeaveLoop(n, SetInbound(conn, side, s, left), hash_table[n])
        \/ LeaveLoop(n, conn, hash_table[n])
    BY <1>4 DEF Q11Abort
  <2>2. CASE data # <<>> /\ LeaveLoop(n, SetInbound(conn, side, s, left), hash_table[n])
    <3>1. s.conn # NoConn /\ data \in Seq(S) /\ data \in Seq(Pdu) /\ data # <<>>
      BY <1>1, <2>2, InboundIn, ConnTypes DEF Inbound
    <3>2. left \in Seq(S) /\ left \in Seq(Pdu)
      <4> HIDE DEF data
      <4>1. Tail(data) \in Seq(S) /\ Tail(data) \in Seq(Pdu)
        BY <3>1
      <4>2. <<Garbage>> \o Tail(data) \in Seq(S) /\ <<Garbage>> \o Tail(data) \in Seq(Pdu)
        BY <1>1, <4>1, PduConstructors
      <4> QED
        BY <4>1, <4>2
    <3> HIDE DEF side, s, left
    <3>3. SetInbound(conn, side, s, left) \in Conns /\ OnConns(S, SetInbound(conn, side, s, left))
      BY <1>1, <3>1, <3>2, ConnTypes, SetInboundIn
    <3> QED
      BY <2>2, <3>3, LeaveLoopIn
  <2>3. CASE LeaveLoop(n, conn, hash_table[n])
    BY <1>1, <2>3, LeaveLoopIn
  <2> QED
    BY <2>1, <2>2, <2>3
<1> QED
  BY <1>2, <1>3, <1>4

LEMMA SendResultsIn ==
  ASSUME NEW S, NEW cs \in Conns, OnConns(S, cs), NEW side \in {"B", "D"}, NEW s \in Sock,
         NEW pdus \in Seq(Pdu), pdus \in Seq(S), NEW t \in SendResults(cs, side, s, pdus)
  PROVE  t[2] \in Conns /\ OnConns(S, t[2])
<1>1. t[2] = cs \/ t[2] = Sent(cs, side, s, pdus)
  BY DEF SendResults
<1>2. OnConns(S, Sent(cs, side, s, pdus)) /\ Sent(cs, side, s, pdus) \in Conns
  BY SentIn, ConnTypes
<1> QED
  BY <1>1, <1>2

LEMMA Q18In ==
  ASSUME NEW S, TypeOK, AllIn(S, queue, udp, conn), Admits(S), NEW n \in Node, Q18(n)
  PROVE  AllIn(S, queue', udp', conn')
<1> DEFINE side == LeaveSide(n)
           s    == SockOf(n, side)
           data == Inbound(conn, side, s)
           cs   == SetInbound(conn, side, s, Tail(data))
<1>1. /\ side \in {"B", "D"} /\ s \in Sock /\ conn \in Conns /\ OnConns(S, conn)
      /\ Close \in S /\ ValPdu \subseteq S
  BY LeaveSideType DEF AllIn, Admits
<1>2. /\ sockfd_b[n] \in Sock /\ sockfd_d[n] \in Sock
      /\ hash_table[n] \in SUBSET Key /\ successor[n] \in Node \cup {None}
  BY DEF TypeOK
<1>3. data \in Seq(S) /\ data \in Seq(Pdu) /\ data # <<>> /\ s.conn # NoConn
  BY <1>1, InboundIn, ConnTypes DEF Q18, Inbound
<1>4. Tail(data) \in Seq(S) /\ Tail(data) \in Seq(Pdu)
  <2> HIDE DEF data
  <2> QED
    BY <1>3
<1> DEFINE Outcome(t, c, l) ==
          IF t[1] = "kill" THEN Exit(n, t[2])
          ELSE IF c[1] = "kill" THEN Exit(n, c[2])
          ELSE IF c[1] = "fail" THEN LeaveLoop(n, c[2], {})
          ELSE IF l[1] = "fail" THEN LeaveLoop(n, l[2], {})
          ELSE Exit(n, l[2])
<1>5. PICK entries \in Entries(n) :
        \E t \in SendResults(cs, side, s, entries) :
        \E c \in SendResults(t[2], "B", sockfd_b[n], <<Close>>) :
        \E l \in SendResults(c[2], "D", sockfd_d[n], <<Leaving(successor[n])>>) :
          Outcome(t, c, l)
  BY DEF Q18
<1>6. entries \in Seq(Pdu) /\ entries \in Seq(S)
  <2>1. PICK ss \in SetToSeqs(hash_table[n]) : entries = Inserts(ss)
    BY DEF Entries
  <2>2. /\ Cardinality(hash_table[n]) \in Nat
        /\ ss \in [1 .. Cardinality(hash_table[n]) -> hash_table[n]]
    BY <1>2, RingAssumption, FS_Subset, FS_CardinalityType DEF SetToSeqs
  <2>3. \A k \in Key : Insert(k) \in S
    BY <1>1 DEF Insert, ValPdu
  <2>4. Inserts(ss) \in Seq(S)
    BY <1>2, <2>2, <2>3 DEF Inserts
  <2> QED
    BY <1>2, <2>1, <2>4, TransferTypes
<1>7. /\ <<Close>> \in Seq(Pdu) /\ <<Leaving(successor[n])>> \in Seq(Pdu)
      /\ <<Close>> \in Seq(S) /\ <<Leaving(successor[n])>> \in Seq(S)
  <2>1. Leaving(successor[n]) \in S /\ Leaving(successor[n]) \in Pdu /\ Close \in Pdu
    BY <1>2, PduConstructors DEF Admits
  <2> QED
    BY <1>1, <2>1
<1> HIDE DEF side, s, data
<1>8. cs \in Conns /\ OnConns(S, cs)
  BY <1>1, <1>3, <1>4, ConnTypes, SetInboundIn
<1> HIDE DEF cs
<1> HIDE DEF Outcome
<1>9. PICK t \in SendResults(cs, side, s, entries) :
        \E c \in SendResults(t[2], "B", sockfd_b[n], <<Close>>) :
        \E l \in SendResults(c[2], "D", sockfd_d[n], <<Leaving(successor[n])>>) :
          Outcome(t, c, l)
  BY <1>5
<1>10. t[2] \in Conns /\ OnConns(S, t[2])
  BY <1>1, <1>6, <1>8, SendResultsIn
<1>11. PICK c \in SendResults(t[2], "B", sockfd_b[n], <<Close>>) :
         \E l \in SendResults(c[2], "D", sockfd_d[n], <<Leaving(successor[n])>>) :
           Outcome(t, c, l)
  BY <1>9
<1>12. c[2] \in Conns /\ OnConns(S, c[2])
  BY <1>2, <1>7, <1>10, SendResultsIn
<1>13. PICK l \in SendResults(c[2], "D", sockfd_d[n], <<Leaving(successor[n])>>) :
         Outcome(t, c, l)
  BY <1>11
<1>14. l[2] \in Conns /\ OnConns(S, l[2])
  BY <1>2, <1>7, <1>12, SendResultsIn
<1> QED
  BY <1>10, <1>12, <1>13, <1>14, ExitIn, LeaveLoopIn DEF Outcome

LEMMA EnvironmentIn ==
  ASSUME NEW S, TypeOK, AllIn(S, queue, udp, conn), Admits(S), NEW n \in Node, Environment(n)
  PROVE  AllIn(S, queue', udp', conn')
<1>1. conn \in Conns /\ OnConns(S, conn)
  BY DEF TypeOK, Conns, AllIn
<1>2. CASE StartFirst(n) \/ Signal(n) \/ InterruptAccept(n)
  BY <1>2 DEF StartFirst, Signal, InterruptAccept, AllIn, inbox, net
<1>3. ASSUME NEW e \in Node, StartJoin(n, e) PROVE AllIn(S, queue', udp', conn')
  <2>1. JoinPdu(n, None, 0) \in S
    BY <1>3 DEF Admits
  <2>2. udp' = [udp EXCEPT ![e] = @ \cup {JoinPdu(n, None, 0)}] /\ queue' = queue /\ conn' = conn
    BY <1>3 DEF StartJoin, net
  <2> QED
    BY <2>1, <2>2 DEF AllIn, TypeOK
<1>4. ASSUME NEW r \in requests, ClientSend(n, r) PROVE AllIn(S, queue', udp', conn')
  <2>1. r \in S
    BY RingAssumption DEF Admits, TypeOK, ValPdu
  <2>2. udp' = [udp EXCEPT ![n] = @ \cup {r}] /\ queue' = queue /\ conn' = conn
    BY <1>4 DEF ClientSend, net
  <2> QED
    BY <2>1, <2>2 DEF AllIn, TypeOK
<1>5. CASE InterruptJoin(n) \/ InterruptRecv(n)
  BY <1>1, <1>5, ExitIn, LeaveLoopIn DEF InterruptJoin, InterruptRecv
<1> QED
  BY <1>2, <1>3, <1>4, <1>5 DEF Environment

LEMMA StepIn ==
  ASSUME NEW S, TypeOK, AllIn(S, queue, udp, conn), Admits(S), [Next]_vars
  PROVE  AllIn(S, queue', udp', conn')
<1>1. ASSUME NEW n \in Node, HandlePdu(n) PROVE AllIn(S, queue', udp', conn')
  <2>1. NewRangeResponse \in S
    BY DEF Admits
  <2> QED
    BY <1>1, <2>1, JoinHandlersIn, NeighbourHandlersIn, ValueHandlersIn DEF HandlePdu
<1>2. ASSUME NEW n \in Node, JoinAccept(n) \/ Q5Accept(n) \/ Q17Accept(n) \/ Drained(n)
      PROVE  AllIn(S, queue', udp', conn')
  BY <1>2 DEF JoinAccept, Q5Accept, Q17Accept, Drained, AllIn, inbox, net
<1>3. ASSUME NEW n \in Node, JoinRecv(n) PROVE AllIn(S, queue', udp', conn')
  BY <1>3, JoinRecvIn DEF Admits
<1>4. ASSUME NEW n \in Node, Step(n) PROVE AllIn(S, queue', udp', conn')
  BY <1>1, <1>2, <1>3, <1>4, ReadIn, LeavingIn, Q18In DEF Step
<1>5. CASE UNCHANGED vars
  BY <1>5 DEF AllIn, vars, inbox, net
<1> QED
  BY <1>4, <1>5, EnvironmentIn DEF Next
-----------------------------------------------------------------------------
(* The ends of connections.  Each open end belongs to one socket, or to one *)
(* entry of one backlog.                                                    *)

Incoming(n) ==
  {c \in Conn : c = sockfd_d[n].conn \/ \E i \in DOMAIN backlog[n] : c = backlog[n][i]}

ClientEnds ==
  /\ \A n \in Node : sockfd_b[n].conn # NoConn => conn[sockfd_b[n].conn].cli
  /\ \A m, n \in Node : sockfd_b[m].conn = sockfd_b[n].conn /\ sockfd_b[n].conn # NoConn => m = n

ServerEnds ==
  /\ \A n \in Node : \A c \in Incoming(n) : conn[c].srv
  /\ \A m, n \in Node : \A c \in Incoming(m) : c \in Incoming(n) => m = n
  /\ \A n \in Node : \A i \in DOMAIN backlog[n] :
       /\ backlog[n][i] # sockfd_d[n].conn
       /\ \A j \in DOMAIN backlog[n] : backlog[n][i] = backlog[n][j] => i = j

(* t begins as s does. *)
Extends(t, s) == s # <<>> => t # <<>> /\ Head(t) = Head(s)

(* All that n's sends, reads and closes can do on the way from conn to cs,  *)
(* having shut the given sockets: the open ends stay open, and only the     *)
(* accepting end takes data from the head of what is on its way to it.      *)
Touch(n, cs, shut) ==
  \A c \in Conn :
    /\ conn[c].cli => cs[c].cli \/ ("B" \in shut /\ c = sockfd_b[n].conn)
    /\ conn[c].srv => cs[c].srv \/ ("D" \in shut /\ c = sockfd_d[n].conn)
    /\ conn[c].srv /\ c # sockfd_d[n].conn => Extends(cs[c].up, conn[c].up)

LEMMA TouchNothing ==
  ASSUME NEW n \in Node, NEW shut
  PROVE  Touch(n, conn, shut)
BY DEF Touch, Extends

LEMMA TouchSent ==
  ASSUME TypeOK, NEW n \in Node, NEW cs \in Conns, NEW shut, Touch(n, cs, shut),
         NEW side \in {"B", "D"}, NEW pdus \in Seq(Pdu)
  PROVE  Touch(n, Sent(cs, side, SockOf(n, side), pdus), shut)
<1> DEFINE s == SockOf(n, side)
           new == Sent(cs, side, s, pdus)
<1>1. s \in Sock
  BY SockOfType
<1>2. ASSUME NEW c \in Conn
      PROVE  new[c].cli = cs[c].cli /\ new[c].srv = cs[c].srv /\ Extends(new[c].up, cs[c].up)
  <2>1. cs[c] \in ConnRecord /\ cs[c].up \in Seq(Pdu)
    BY DEF Conns, ConnRecord
  <2>2. Extends(cs[c].up \o pdus, cs[c].up) /\ Extends(cs[c].up, cs[c].up)
    BY <2>1 DEF Extends
  <2>3. new[c].cli = cs[c].cli /\ new[c].srv = cs[c].srv
        /\ new[c].up \in {cs[c].up, cs[c].up \o pdus}
    <3> HIDE DEF s
    <3> QED
      BY <1>1, <2>1 DEF Sent, Conns, ConnRecord, Sock
  <2> QED
    BY <2>2, <2>3
<1> HIDE DEF s, new
<1>3. Touch(n, new, shut)
  BY <1>2 DEF Touch, Extends
<1> QED
  BY <1>3 DEF s, new

LEMMA TouchSetInbound ==
  ASSUME TypeOK, NEW n \in Node, NEW cs \in Conns, NEW shut, Touch(n, cs, shut),
         NEW side \in {"B", "D"}, NEW data \in Seq(Pdu), SockOf(n, side).conn # NoConn
  PROVE  Touch(n, SetInbound(cs, side, SockOf(n, side), data), shut)
<1> DEFINE s == SockOf(n, side)
           new == SetInbound(cs, side, s, data)
<1>1. s \in Sock /\ s.conn \in Conn /\ (side = "D" => s.conn = sockfd_d[n].conn)
  BY SockOfType DEF Sock, SockOf
<1> HIDE DEF s
<1>2. ASSUME NEW c \in Conn
      PROVE  /\ new[c].cli = cs[c].cli /\ new[c].srv = cs[c].srv
             /\ c # sockfd_d[n].conn => new[c].up = cs[c].up
  BY <1>1 DEF SetInbound, Conns, ConnRecord
<1> HIDE DEF new
<1>3. Touch(n, new, shut)
  BY <1>2 DEF Touch, Extends
<1> QED
  BY <1>3 DEF s, new

LEMMA TouchShut ==
  ASSUME TypeOK, NEW n \in Node, NEW cs \in Conns, NEW shut, Touch(n, cs, shut),
         NEW side \in {"B", "D"}
  PROVE  Touch(n, Shut(cs, side, SockOf(n, side)), shut \cup {side})
<1> DEFINE s == SockOf(n, side)
           new == Shut(cs, side, s)
<1>1. /\ s \in Sock /\ (s.conn # NoConn => s.conn \in Conn)
      /\ side = "B" => s.conn = sockfd_b[n].conn
      /\ side = "D" => s.conn = sockfd_d[n].conn
  BY SockOfType DEF Sock, SockOf
<1> HIDE DEF s
<1>2. ASSUME NEW c \in Conn
      PROVE  /\ cs[c].cli => new[c].cli \/ (side = "B" /\ c = s.conn)
             /\ cs[c].srv => new[c].srv \/ (side = "D" /\ c = s.conn)
             /\ cs[c].srv /\ new[c].srv => new[c].up = cs[c].up
  <2>1. cs[c] \in ConnRecord
    BY DEF Conns
  <2>2. CASE s.conn = c
    <3>1. new[c] = Closed(cs[c], side = "B", side = "D")
      BY <1>1, <2>2 DEF Shut, Conns, Conn, NoConn
    <3> QED
      BY <2>1, <2>2, <3>1 DEF Closed, FreeConn, ConnRecord
  <2>3. CASE s.conn # c
    BY <1>1, <2>3 DEF Shut, Conns
  <2> QED
    BY <2>2, <2>3
<1> HIDE DEF new
<1>3. Touch(n, new, shut \cup {side})
  BY <1>1, <1>2 DEF Touch, Extends
<1> QED
  BY <1>3 DEF s, new
-----------------------------------------------------------------------------
(* What a step of n does to the ends. *)

(* Only n's own sockets change, and nobody's backlog gets longer. *)
OthersStay(n) ==
  \A x \in Node \ {n} :
    /\ sockfd_b'[x] = sockfd_b[x] /\ sockfd_d'[x] = sockfd_d[x] /\ backlog'[x] = backlog[x]
    /\ pc'[x] = pc[x] /\ successor'[x] = successor[x]

(* What the other nodes accepted or will accept stays open, and keeps what *)
(* they read first.                                                        *)
HeadsStay(n) ==
  \A x \in Node \ {n} : \A c \in Incoming(x) : conn'[c].srv /\ Extends(conn'[c].up, conn[c].up)

LEMMA TouchedHeads ==
  ASSUME ServerEnds, NEW n \in Node, NEW cs, NEW shut, Touch(n, cs, shut),
         NEW x \in Node \ {n}, NEW c \in Incoming(x)
  PROVE  cs[c].srv /\ Extends(cs[c].up, conn[c].up)
<1>1. c \in Conn /\ conn[c].srv
  BY DEF ServerEnds, Incoming
<1>2. c # sockfd_d[n].conn
  BY <1>1 DEF ServerEnds, Incoming
<1> QED
  BY <1>1, <1>2 DEF Touch

(* n keeps its sockets or drops one, or accepts a connection. *)
KeepsB(n, shut) ==
  sockfd_b'[n].conn = NoConn \/ ("B" \notin shut /\ sockfd_b'[n].conn = sockfd_b[n].conn)
KeepsD(n, shut) ==
  /\ backlog'[n] = backlog[n]
  /\ sockfd_d'[n].conn = NoConn \/ ("D" \notin shut /\ sockfd_d'[n].conn = sockfd_d[n].conn)
Accepts(n, shut) ==
  /\ "D" \notin shut /\ backlog[n] # <<>>
  /\ sockfd_d'[n].conn = Head(backlog[n]) /\ backlog'[n] = Tail(backlog[n])

LEMMA LocalEnds ==
  ASSUME TypeOK, ClientEnds, ServerEnds, NEW n \in Node, NEW shut, Touch(n, conn', shut),
         OthersStay(n), KeepsB(n, shut), KeepsD(n, shut) \/ Accepts(n, shut)
  PROVE  ClientEnds' /\ ServerEnds' /\ HeadsStay(n)
<1>1. HeadsStay(n)
  BY TouchedHeads DEF HeadsStay
<1>2. ClientEnds'
  <2>1. \A x \in Node : /\ sockfd_b'[x].conn \in {sockfd_b[x].conn, NoConn}
                        /\ sockfd_b'[x].conn # NoConn => conn'[sockfd_b'[x].conn].cli
    <3>1. \A x \in Node : sockfd_b[x].conn # NoConn => sockfd_b[x].conn \in Conn
      BY DEF TypeOK, Sock
    <3>2. \A x \in Node : sockfd_b'[x].conn # NoConn /\ sockfd_b'[x].conn = sockfd_b[n].conn
            /\ "B" \in shut => FALSE
      BY DEF ClientEnds, OthersStay, KeepsB
    <3> QED
      BY <3>1, <3>2 DEF ClientEnds, Touch, OthersStay, KeepsB
  <2> QED
    BY <2>1 DEF ClientEnds
<1>3. \A x \in Node \ {n} : Incoming(x)' = Incoming(x)
  BY DEF Incoming, OthersStay
<1>4. /\ \A c \in Incoming(n)' : c \in Incoming(n) /\ conn'[c].srv
      /\ \A i \in DOMAIN backlog'[n] :
           /\ backlog'[n][i] # sockfd_d'[n].conn
           /\ \A j \in DOMAIN backlog'[n] : backlog'[n][i] = backlog'[n][j] => i = j
  <2>1. CASE KeepsD(n, shut)
    <3>1. \A i \in DOMAIN backlog[n] : backlog[n][i] \in Conn
      BY DEF TypeOK
    <3>2. \A i \in DOMAIN backlog[n] : backlog[n][i] # NoConn
      BY <3>1 DEF Conn, NoConn
    <3>3. \A c \in Incoming(n)' : c \in Incoming(n) /\ (c # sockfd_d[n].conn \/ "D" \notin shut)
      BY <2>1, <3>2 DEF KeepsD, Incoming, ServerEnds, Conn, NoConn
    <3>4. \A c \in Incoming(n)' : conn'[c].srv
      BY <3>3 DEF ServerEnds, Touch, Incoming
    <3> QED
      BY <2>1, <3>2, <3>3, <3>4 DEF KeepsD, ServerEnds
  <2>2. CASE Accepts(n, shut)
    <3> DEFINE q == backlog[n]
    <3>1. q \in Seq(Conn) /\ q # <<>>
      BY <2>2 DEF TypeOK, Accepts
    <3>2. /\ Head(q) = q[1] /\ 1 \in DOMAIN q
          /\ \A i \in DOMAIN Tail(q) : i + 1 \in DOMAIN q /\ i + 1 # 1 /\ Tail(q)[i] = q[i + 1]
          /\ \A i, j \in DOMAIN Tail(q) : i + 1 = j + 1 => i = j
      <4> HIDE DEF q
      <4> QED
        BY <3>1
    <3>3. \A i \in DOMAIN q : \A j \in DOMAIN q : q[i] = q[j] => i = j
      BY DEF ServerEnds
    <3>4. backlog'[n] = Tail(q) /\ sockfd_d'[n].conn = Head(q)
      BY <2>2 DEF Accepts
    <3>5. \A c \in Incoming(n)' : c \in Incoming(n)
      BY <3>2, <3>4 DEF Incoming
    <3>6. \A c \in Incoming(n)' : conn'[c].srv
      BY <2>2, <3>5 DEF ServerEnds, Touch, Incoming, Accepts
    <3> HIDE DEF q
    <3>7. \A i \in DOMAIN Tail(q) : Tail(q)[i] # Head(q)
      BY <3>2, <3>3
    <3>8. \A i, j \in DOMAIN Tail(q) : Tail(q)[i] = Tail(q)[j] => i = j
      BY <3>2, <3>3
    <3> QED
      BY <3>4, <3>5, <3>6, <3>7, <3>8
  <2> QED
    BY <2>1, <2>2
<1>5. \A x \in Node : \A c \in Incoming(x)' : c \in Incoming(x) /\ conn'[c].srv
  BY <1>1, <1>3, <1>4 DEF HeadsStay
<1>6. \A x \in Node : \A i \in DOMAIN backlog'[x] :
        /\ backlog'[x][i] # sockfd_d'[x].conn
        /\ \A j \in DOMAIN backlog'[x] : backlog'[x][i] = backlog'[x][j] => i = j
  BY <1>4 DEF OthersStay, ServerEnds
<1>7. ServerEnds'
  BY <1>5, <1>6 DEF ServerEnds
<1> QED
  BY <1>1, <1>2, <1>7

LEMMA ClosedEnds ==
  ASSUME NEW r \in ConnRecord, NEW cli \in BOOLEAN, NEW srv \in BOOLEAN
  PROVE  /\ r.cli /\ ~cli => Closed(r, cli, srv).cli
         /\ r.srv /\ ~srv => Closed(r, cli, srv).srv /\ Closed(r, cli, srv).up = r.up
BY DEF Closed, FreeConn, ConnRecord

LEMMA ExitEnds ==
  ASSUME TypeOK, ClientEnds, ServerEnds, NEW n \in Node, NEW cs \in Conns, Touch(n, cs, {}),
         Exit(n, cs)
  PROVE  ClientEnds' /\ ServerEnds' /\ OthersStay(n) /\ HeadsStay(n)
<1>1. OthersStay(n)
  BY DEF Exit, Goto, OthersStay, TypeOK
<1>2. /\ sockfd_b'[n] = NoSock /\ sockfd_d'[n] = NoSock /\ backlog'[n] = <<>>
  BY DEF Exit, TypeOK
<1>3. \A c \in Conn : conn'[c] = Closed(cs[c], c = sockfd_b[n].conn, c \in Incoming(n))
  BY DEF Exit, Incoming
<1>4. ASSUME NEW c \in Conn
      PROVE  /\ cs[c].cli /\ c # sockfd_b[n].conn => conn'[c].cli
             /\ cs[c].srv /\ c \notin Incoming(n) => conn'[c].srv /\ conn'[c].up = cs[c].up
  <2>1. cs[c] \in ConnRecord
    BY DEF Conns
  <2> DEFINE cli == c = sockfd_b[n].conn
             srv == c \in Incoming(n)
  <2>2. conn'[c] = Closed(cs[c], cli, srv) /\ cli \in BOOLEAN /\ srv \in BOOLEAN
    BY <1>3
  <2> HIDE DEF cli, srv
  <2>3. /\ cs[c].cli /\ ~cli => conn'[c].cli
        /\ cs[c].srv /\ ~srv => conn'[c].srv /\ conn'[c].up = cs[c].up
    BY <2>1, <2>2, ClosedEnds
  <2> QED
    BY <2>3 DEF cli, srv
<1>5. HeadsStay(n)
  <2> SUFFICES ASSUME NEW x \in Node \ {n}, NEW c \in Incoming(x)
               PROVE  conn'[c].srv /\ Extends(conn'[c].up, conn[c].up)
    BY DEF HeadsStay
  <2>1. c \in Conn /\ c \notin Incoming(n)
    BY DEF ServerEnds, Incoming
  <2>2. cs[c].srv /\ Extends(cs[c].up, conn[c].up)
    BY TouchedHeads
  <2> QED
    BY <1>4, <2>1, <2>2
<1>6. ClientEnds'
  <2>1. ASSUME NEW x \in Node, sockfd_b'[x].conn # NoConn
        PROVE  /\ x # n /\ sockfd_b'[x] = sockfd_b[x] /\ sockfd_b[x].conn # sockfd_b[n].conn
               /\ conn'[sockfd_b[x].conn].cli
    <3>1. x # n /\ sockfd_b'[x] = sockfd_b[x]
      BY <1>1, <1>2, <2>1 DEF OthersStay, NoSock
    <3>2. sockfd_b[x].conn \in Conn /\ sockfd_b[x].conn # sockfd_b[n].conn
      BY <2>1, <3>1 DEF TypeOK, Sock, ClientEnds
    <3>3. cs[sockfd_b[x].conn].cli
      BY <2>1, <3>1, <3>2 DEF ClientEnds, Touch
    <3> QED
      BY <1>4, <3>1, <3>2, <3>3
  <2>2. ASSUME NEW x \in Node, NEW y \in Node,
               sockfd_b'[x].conn = sockfd_b'[y].conn, sockfd_b'[y].conn # NoConn
        PROVE  x = y
    BY <2>1, <2>2 DEF ClientEnds
  <2> QED
    BY <2>1, <2>2 DEF ClientEnds
<1>7. ServerEnds'
  <2>1. Incoming(n)' = {}
    BY <1>2 DEF Incoming, NoSock, Conn, NoConn
  <2>2. \A x \in Node \ {n} : Incoming(x)' = Incoming(x)
    BY <1>1 DEF Incoming, OthersStay
  <2>3. \A x \in Node : \A c \in Incoming(x)' : c \in Incoming(x) /\ conn'[c].srv
    BY <1>5, <2>1, <2>2 DEF HeadsStay
  <2>4. \A x \in Node : \A i \in DOMAIN backlog'[x] :
          /\ backlog'[x][i] # sockfd_d'[x].conn
          /\ \A j \in DOMAIN backlog'[x] : backlog'[x][i] = backlog'[x][j] => i = j
    BY <1>1, <1>2 DEF OthersStay, ServerEnds
  <2> QED
    BY <2>3, <2>4 DEF ServerEnds
<1> QED
  BY <1>1, <1>5, <1>6, <1>7

(* A new connection: nobody had it, and it is the last the other end will  *)
(* accept.                                                                 *)
Reaches(n, to, c) ==
  /\ \A x \in Node \ {n} : sockfd_b'[x] = sockfd_b[x]
  /\ backlog' = [backlog EXCEPT ![to] = Append(@, c)]
  /\ sockfd_d' = sockfd_d
  /\ \A x \in Node \ {n} : pc'[x] = pc[x] /\ successor'[x] = successor[x]

LEMMA ConnectEnds ==
  ASSUME TypeOK, ClientEnds, ServerEnds, NEW n \in Node, NEW to \in Node, NEW cs \in Conns,
         NEW shut \in SUBSET {"B"}, Touch(n, cs, shut), NEW pdus \in Seq(Pdu),
         Connect(n, to, cs, pdus), sockfd_d' = sockfd_d,
         \A x \in Node \ {n} : pc'[x] = pc[x] /\ successor'[x] = successor[x]
  PROVE  /\ ClientEnds' /\ ServerEnds' /\ HeadsStay(n)
         /\ \E c \in Conn : Reaches(n, to, c) /\ conn'[c].up = pdus
<1>1. PICK c \in Conn :
        /\ IsFree(cs, c)
        /\ conn' = [cs EXCEPT ![c] = [cli |-> TRUE, srv |-> TRUE, up |-> pdus,
                                      down |-> <<>>, rst |-> FALSE]]
        /\ backlog' = [backlog EXCEPT ![to] = Append(@, c)]
        /\ sockfd_b' = [sockfd_b EXCEPT ![n] = [fd |-> LowestFd(sockfd_d[n]), conn |-> c]]
  BY DEF Connect
<1>2. /\ conn'[c].cli /\ conn'[c].srv /\ conn'[c].up = pdus
      /\ \A d \in Conn : d # c => conn'[d] = cs[d]
  BY <1>1 DEF Conns
<1>3. ~cs[c].cli /\ ~cs[c].srv
  BY <1>1 DEF IsFree
<1>4. Reaches(n, to, c)
  BY <1>1 DEF Reaches, TypeOK
<1>5. \A x \in Node : c \notin Incoming(x)
  BY <1>3 DEF ServerEnds, Touch
<1>6. HeadsStay(n)
  <2> SUFFICES ASSUME NEW x \in Node \ {n}, NEW d \in Incoming(x)
               PROVE  conn'[d].srv /\ Extends(conn'[d].up, conn[d].up)
    BY DEF HeadsStay
  <2>1. cs[d].srv /\ Extends(cs[d].up, conn[d].up) /\ d \in Conn
    BY TouchedHeads DEF Incoming
  <2> QED
    BY <1>2, <1>3, <2>1
<1>7. ClientEnds'
  <2>1. sockfd_b'[n].conn = c
    BY <1>1 DEF TypeOK
  <2>2. ASSUME NEW x \in Node \ {n}, sockfd_b'[x].conn # NoConn
        PROVE  /\ sockfd_b'[x] = sockfd_b[x] /\ sockfd_b[x].conn # c
               /\ conn'[sockfd_b'[x].conn].cli
    <3>1. sockfd_b'[x] = sockfd_b[x] /\ sockfd_b[x].conn \in Conn
      BY <1>4, <2>2 DEF Reaches, TypeOK, Sock
    <3>2. cs[sockfd_b[x].conn].cli
      BY <2>2, <3>1 DEF ClientEnds, Touch
    <3> QED
      BY <1>2, <1>3, <3>1, <3>2
  <2>3. ASSUME NEW x \in Node, NEW y \in Node,
               sockfd_b'[x].conn = sockfd_b'[y].conn, sockfd_b'[y].conn # NoConn
        PROVE  x = y
    BY <2>1, <2>2, <2>3 DEF ClientEnds
  <2> QED
    BY <1>2, <2>1, <2>2, <2>3 DEF ClientEnds
<1>8. ServerEnds'
  <2>1. ASSUME NEW x \in Node, NEW d \in Incoming(x) PROVE conn'[d].srv /\ d # c
    <3>1. d \in Conn /\ conn[d].srv
      BY DEF ServerEnds, Incoming
    <3>2. cs[d].srv
      BY <3>1 DEF Touch
    <3> QED
      BY <1>2, <1>3, <3>1, <3>2
  <2>2. \A x \in Node : backlog[x] \in Seq(Conn)
    BY DEF TypeOK
  <2>3. \A x \in Node \ {to} : backlog'[x] = backlog[x]
    BY <1>1 DEF TypeOK
  <2>4. /\ \A x \in Node \ {to} : Incoming(x)' = Incoming(x)
    BY <1>4, <2>3 DEF Incoming, Reaches
  <2>5. /\ backlog'[to] = Append(backlog[to], c)
        /\ DOMAIN backlog'[to] = 1 .. Len(backlog[to]) + 1
        /\ DOMAIN backlog[to] = 1 .. Len(backlog[to])
        /\ Len(backlog[to]) \in Nat
        /\ \A i \in 1 .. Len(backlog[to]) : backlog'[to][i] = backlog[to][i]
        /\ backlog'[to][Len(backlog[to]) + 1] = c
    <3>1. backlog'[to] = Append(backlog[to], c)
      BY <1>1 DEF TypeOK
    <3>2. backlog[to] \in Seq(Conn)
      BY <2>2
    <3> QED
      BY <3>1, <3>2
  <2>6. \A d \in Incoming(to)' : d \in Incoming(to) \/ d = c
    BY <1>4, <2>5 DEF Incoming, Reaches
  <2>7. \A x \in Node : \A d \in Incoming(x)' : conn'[d].srv
    BY <1>2, <2>1, <2>4, <2>6
  <2>8. ASSUME NEW x \in Node, NEW y \in Node, NEW d \in Incoming(x)', d \in Incoming(y)'
        PROVE  x = y
    BY <1>5, <2>4, <2>6, <2>8 DEF ServerEnds
  <2>9. ASSUME NEW x \in Node, NEW i \in DOMAIN backlog'[x]
        PROVE  /\ backlog'[x][i] # sockfd_d'[x].conn
               /\ \A j \in DOMAIN backlog'[x] : backlog'[x][i] = backlog'[x][j] => i = j
    <3>1. CASE x # to
      BY <1>4, <2>3, <2>9, <3>1 DEF ServerEnds, Reaches
    <3>2. CASE x = to
      <4>1. \A j \in DOMAIN backlog[to] : backlog[to][j] \in Incoming(to)
        BY <2>2 DEF Incoming
      <4>2. \A j \in DOMAIN backlog[to] : backlog[to][j] # c
        BY <1>5, <4>1
      <4>3. c # sockfd_d[to].conn
        BY <1>5 DEF Incoming
      <4>4. \A j \in DOMAIN backlog'[to] :
              \/ j \in DOMAIN backlog[to] /\ backlog'[to][j] = backlog[to][j]
              \/ j = Len(backlog[to]) + 1 /\ backlog'[to][j] = c
        BY <2>5
      <4>5. backlog'[to][i] # sockfd_d'[to].conn
        BY <2>9, <3>2, <4>3, <4>4 DEF ServerEnds
      <4>6. \A j \in DOMAIN backlog'[to] : backlog'[to][i] = backlog'[to][j] => i = j
        BY <2>9, <3>2, <4>2, <4>4 DEF ServerEnds
      <4> QED
        BY <3>2, <4>5, <4>6
    <3> QED
      BY <3>1, <3>2
  <2> QED
    BY <2>7, <2>8, <2>9 DEF ServerEnds
<1> QED
  BY <1>2, <1>4, <1>6, <1>7, <1>8
-----------------------------------------------------------------------------
(* The inductive invariant.  A node is unknown until it is granted a range: *)
(* nobody has its address but those that handle its NET_JOIN, so nobody     *)
(* connects to it.  The first connection a joining node accepts is          *)
(* therefore the granting node's, and carries the response.                 *)

Unknown(x) == x \in Node /\ (pc[x] = "off" \/ (pc[x] = "q7_accept" /\ backlog[x] = <<>>))

(* No PDU but the NET_JOIN of a node that waits names an unknown node. *)
Named ==
  {m \in Pdu : /\ m.type = "NET_JOIN" => pc[m.src] # "off"
               /\ m.type = "NET_JOIN_RESPONSE" => ~Unknown(m.next)
               /\ m.type = "NET_LEAVING" => ~Unknown(m.new)}

Response(s) == s # <<>> /\ Head(s).type = "NET_JOIN_RESPONSE"

ResponseWaits(x) ==
  /\ pc[x] = "off" => backlog[x] = <<>>
  /\ pc[x] = "q7_accept" /\ backlog[x] # <<>> => Response(conn[Head(backlog[x])].up)
  /\ pc[x] = "q7_recv" => sockfd_d[x].conn # NoConn /\ Response(conn[sockfd_d[x].conn].up)

Links ==
  /\ ClientEnds /\ ServerEnds
  /\ \A x \in Node : ResponseWaits(x) /\ ~Unknown(successor[x])

JoinInv == Links /\ AllIn(Named, queue, udp, conn)

(* A node once known stays known. *)
StillKnown ==
  /\ \A x \in Node \cup {None} : ~Unknown(x) => ~Unknown(x)'
  /\ \A x \in Node : pc[x] # "off" => pc'[x] # "off"

LEMMA NoneKnown == ~Unknown(None) /\ ~Unknown(None)'
BY RingAssumption DEF Unknown

Running(n) == pc'[n] \notin {"off", "q7_accept", "q7_recv"}

LEMMA LocalLinks ==
  ASSUME TypeOK, Links, NEW n \in Node, OthersStay(n), HeadsStay(n), Running(n),
         ClientEnds', ServerEnds', successor'[n] \in Node \cup {None}, ~Unknown(successor'[n])
  PROVE  Links' /\ StillKnown
<1>1. \A x \in Node \ {n} : Unknown(x)' <=> Unknown(x)
  BY DEF Unknown, OthersStay
<1>2. ~Unknown(n)' /\ pc'[n] # "off"
  BY DEF Unknown, Running
<1>3. StillKnown
  BY <1>1, <1>2, NoneKnown DEF StillKnown, OthersStay
<1>4. \A x \in Node : ~Unknown(successor[x])'
  <2>1. ASSUME NEW y \in Node \cup {None}, ~Unknown(y) PROVE ~Unknown(y)'
    BY <1>3, <2>1 DEF StillKnown
  <2>2. \A x \in Node : successor'[x] \in Node \cup {None} /\ ~Unknown(successor'[x])
    BY DEF OthersStay, Links, TypeOK
  <2>3. ASSUME NEW x \in Node PROVE ~Unknown(successor[x])'
    <3>1. PICK y \in Node \cup {None} : y = successor'[x] /\ ~Unknown(y)
      BY <2>2
    <3>2. ~Unknown(y)'
      BY <2>1, <3>1
    <3> QED
      BY <3>1, <3>2 DEF Unknown
  <2> QED
    BY <2>3
<1>5. ASSUME NEW x \in Node PROVE ResponseWaits(x)'
  <2>1. CASE x = n
    BY <2>1 DEF ResponseWaits, Running
  <2>2. CASE x # n
    <3>1. ResponseWaits(x) /\ pc'[x] = pc[x] /\ backlog'[x] = backlog[x] /\ sockfd_d'[x] = sockfd_d[x]
      BY <2>2 DEF Links, OthersStay
    <3>2. backlog[x] \in Seq(Conn) /\ sockfd_d[x].conn \in Conn \cup {NoConn}
      BY DEF TypeOK, Sock
    <3>3. backlog[x] # <<>> => Head(backlog[x]) \in Incoming(x)
      <4>1. backlog[x] # <<>> => 1 \in DOMAIN backlog[x] /\ Head(backlog[x]) = backlog[x][1]
                                   /\ Head(backlog[x]) \in Conn
        BY <3>2
      <4> QED
        BY <4>1 DEF Incoming
    <3>4. sockfd_d[x].conn # NoConn => sockfd_d[x].conn \in Incoming(x)
      BY <3>2 DEF Incoming
    <3>5. \A c \in Incoming(x) : Response(conn[c].up) => Response(conn'[c].up)
      BY <2>2 DEF HeadsStay, Extends, Response
    <3> QED
      BY <3>1, <3>3, <3>4, <3>5 DEF ResponseWaits
  <2> QED
    BY <2>1, <2>2
<1> QED
  BY <1>3, <1>4, <1>5 DEF Links

LEMMA OwnLinks ==
  ASSUME TypeOK, Links, NEW n \in Node, NEW shut, Touch(n, conn', shut), OthersStay(n), Running(n),
         KeepsB(n, shut), KeepsD(n, shut) \/ Accepts(n, shut),
         successor'[n] \in Node \cup {None}, ~Unknown(successor'[n])
  PROVE  Links' /\ StillKnown
BY LocalEnds, LocalLinks DEF Links

LEMMA ExitLinks ==
  ASSUME TypeOK, Links, NEW n \in Node, NEW cs \in Conns, Touch(n, cs, {}), Exit(n, cs)
  PROVE  Links' /\ StillKnown
<1>1. Running(n) /\ successor'[n] = None
  BY DEF Exit, Goto, TypeOK, Running
<1> QED
  BY <1>1, ExitEnds, LocalLinks, NoneKnown DEF Links

LEMMA LeaveLoopLinks ==
  ASSUME TypeOK, Links, NEW n \in Node, NEW cs \in Conns, Touch(n, cs, {}), NEW table,
         LeaveLoop(n, cs, table)
  PROVE  Links' /\ StillKnown
<1>1. CASE stack[n] = <<>>
  BY <1>1, ExitLinks DEF LeaveLoop
<1>2. CASE stack[n] # <<>>
  <2>1. /\ Goto(n, After(Last(stack[n]).kind)) /\ conn' = cs
        /\ UNCHANGED <<ring, socks, backlog>>
    BY <1>2 DEF LeaveLoop
  <2>2. OthersStay(n) /\ Running(n)
    BY <2>1 DEF Goto, After, TypeOK, OthersStay, Running, ring, socks
  <2>3. KeepsB(n, {}) /\ KeepsD(n, {}) /\ successor'[n] = successor[n]
    BY <2>1 DEF KeepsB, KeepsD, ring, socks
  <2>4. successor[n] \in Node \cup {None} /\ ~Unknown(successor[n])
    BY DEF TypeOK, Links
  <2> QED
    BY <2>1, <2>2, <2>3, <2>4, OwnLinks
<1> QED
  BY <1>1, <1>2

(* n connects to a known node, or to an unknown one with a response. *)
LEMMA ConnectLinks ==
  ASSUME TypeOK, Links, NEW n \in Node, NEW to \in Node, NEW cs \in Conns,
         NEW shut \in SUBSET {"B"}, Touch(n, cs, shut), NEW pdus \in Seq(Pdu),
         Connect(n, to, cs, pdus), sockfd_d' = sockfd_d, Listening(to), Running(n),
         \A x \in Node \ {n} : pc'[x] = pc[x] /\ successor'[x] = successor[x],
         successor'[n] = to, ~Unknown(to) \/ Response(pdus)
  PROVE  Links' /\ StillKnown
<1>1. PICK c \in Conn : Reaches(n, to, c) /\ conn'[c].up = pdus
  BY ConnectEnds DEF Links
<1>2. ClientEnds' /\ ServerEnds' /\ HeadsStay(n)
  BY ConnectEnds DEF Links
<1>3. \A x \in Node \ {to} : backlog'[x] = backlog[x]
  BY <1>1 DEF Reaches, TypeOK
<1>4. /\ backlog[to] \in Seq(Conn) /\ backlog'[to] = Append(backlog[to], c)
  BY <1>1 DEF Reaches, TypeOK
<1>5. /\ backlog'[to] # <<>>
      /\ backlog[to] = <<>> => Head(backlog'[to]) = c
      /\ backlog[to] # <<>> => Head(backlog'[to]) = Head(backlog[to])
  BY <1>4
<1>6. pc'[to] # "off" /\ ~Unknown(to)'
  BY <1>5 DEF Running, Listening, Unknown
<1>7. \A x \in Node \ {n, to} : Unknown(x)' <=> Unknown(x)
  BY <1>3 DEF Unknown
<1>8. ~Unknown(n)' /\ pc'[n] # "off"
  BY DEF Unknown, Running
<1>9. StillKnown
  BY <1>6, <1>7, <1>8, NoneKnown DEF StillKnown
<1>10. ASSUME NEW x \in Node PROVE ~Unknown(successor[x])'
  <2>1. CASE x = n
    BY <1>6, <2>1 DEF Unknown
  <2>2. CASE x # n
    <3>1. PICK y \in Node \cup {None} : y = successor[x] /\ ~Unknown(y)
      BY DEF TypeOK, Links
    <3>2. ~Unknown(y)'
      BY <1>9, <3>1 DEF StillKnown
    <3> QED
      BY <2>2, <3>1, <3>2 DEF Unknown
  <2> QED
    BY <2>1, <2>2
<1>11. ASSUME NEW x \in Node PROVE ResponseWaits(x)'
  <2>1. CASE x = n
    BY <2>1 DEF ResponseWaits, Running
  <2>2. CASE x # n
    <3>1. ResponseWaits(x) /\ pc'[x] = pc[x] /\ sockfd_d'[x] = sockfd_d[x]
      BY <2>2 DEF Links
    <3>2. backlog[x] \in Seq(Conn) /\ sockfd_d[x].conn \in Conn \cup {NoConn}
      BY DEF TypeOK, Sock
    <3>3. backlog[x] # <<>> => Head(backlog[x]) \in Incoming(x)
      <4>1. backlog[x] # <<>> => 1 \in DOMAIN backlog[x] /\ Head(backlog[x]) = backlog[x][1]
                                   /\ Head(backlog[x]) \in Conn
        BY <3>2
      <4> QED
        BY <4>1 DEF Incoming
    <3>4. sockfd_d[x].conn # NoConn => sockfd_d[x].conn \in Incoming(x)
      BY <3>2 DEF Incoming
    <3>5. \A d \in Incoming(x) : Response(conn[d].up) => Response(conn'[d].up)
      BY <1>2, <2>2 DEF HeadsStay, Extends, Response
    <3>6. CASE x # to
      BY <1>3, <3>1, <3>3, <3>4, <3>5, <3>6 DEF ResponseWaits
    <3>7. CASE x = to
      <4>1. pc[x] # "off"
        BY <3>7 DEF Listening
      <4>2. pc[x] = "q7_accept" => Response(conn'[Head(backlog'[x])].up)
        BY <1>1, <1>5, <3>1, <3>3, <3>5, <3>7 DEF ResponseWaits, Unknown
      <4> QED
        BY <3>1, <3>4, <3>5, <4>1, <4>2 DEF ResponseWaits
    <3> QED
      BY <3>6, <3>7
  <2> QED
    BY <2>1, <2>2
<1> QED
  BY <1>2, <1>9, <1>10, <1>11 DEF Links
-----------------------------------------------------------------------------
(* The actions. *)

LEMMA StartFirstLinks ==
  ASSUME TypeOK, Links, NEW n \in Node, StartFirst(n)
  PROVE  Links' /\ StillKnown
<1>1. OthersStay(n) /\ Running(n) /\ conn' = conn
  BY DEF StartFirst, Goto, TypeOK, OthersStay, Running, socks, net
<1>2. KeepsB(n, {}) /\ KeepsD(n, {}) /\ successor'[n] = successor[n]
  BY DEF StartFirst, KeepsB, KeepsD, socks, net
<1>3. successor[n] \in Node \cup {None} /\ ~Unknown(successor[n])
  BY DEF TypeOK, Links
<1> QED
  BY <1>1, <1>2, <1>3, TouchNothing, OwnLinks

LEMMA StartJoinLinks ==
  ASSUME TypeOK, Links, NEW n \in Node, NEW e \in Node, StartJoin(n, e)
  PROVE  Links' /\ StillKnown
<1>1. /\ pc' = [pc EXCEPT ![n] = "q7_accept"] /\ pc[n] = "off"
      /\ UNCHANGED <<successor, sockfd_b, sockfd_d, conn, backlog>>
  BY DEF StartJoin, Goto, ring, socks, net
<1>2. /\ pc'[n] = "q7_accept" /\ backlog[n] = <<>>
      /\ \A x \in Node \ {n} : pc'[x] = pc[x]
  BY <1>1 DEF TypeOK, Links, ResponseWaits
<1>3. ClientEnds' /\ ServerEnds'
  BY <1>1 DEF Links, ClientEnds, ServerEnds, Incoming
<1>4. \A x : Unknown(x)' <=> Unknown(x)
  BY <1>1, <1>2 DEF Unknown
<1>5. StillKnown
  BY <1>2, <1>4 DEF StillKnown
<1>6. \A x \in Node : ResponseWaits(x)'
  BY <1>1, <1>2 DEF Links, ResponseWaits
<1>7. \A x \in Node : ~Unknown(successor[x])'
  BY <1>1, <1>2 DEF Links, Unknown
<1> QED
  BY <1>3, <1>5, <1>6, <1>7 DEF Links

LEMMA StillLinks ==
  ASSUME Links, UNCHANGED <<pc, successor, sockfd_b, sockfd_d, conn, backlog>>
  PROVE  Links' /\ StillKnown
<1>1. \A x : Unknown(x)' <=> Unknown(x)
  BY DEF Unknown
<1>2. \A x \in Node : ~Unknown(successor[x])'
  BY DEF Links, Unknown
<1>3. ClientEnds' /\ ServerEnds'
  BY DEF Links, ClientEnds, ServerEnds, Incoming
<1>4. \A x \in Node : ResponseWaits(x)'
  BY DEF Links, ResponseWaits
<1> QED
  BY <1>1, <1>2, <1>3, <1>4 DEF Links, StillKnown

(* The first connection that a joining node accepts carries the response. *)
LEMMA JoinAcceptLinks ==
  ASSUME TypeOK, Links, NEW n \in Node, JoinAccept(n)
  PROVE  Links' /\ StillKnown
<1>1. /\ OthersStay(n) /\ pc'[n] = "q7_recv" /\ conn' = conn /\ successor' = successor
      /\ pc[n] = "q7_accept" /\ backlog[n] # <<>>
      /\ sockfd_d'[n].conn = Head(backlog[n]) /\ backlog'[n] = Tail(backlog[n])
      /\ sockfd_b' = sockfd_b
  BY DEF JoinAccept, Goto, TypeOK, OthersStay
<1>2. ClientEnds' /\ ServerEnds'
  <2>1. KeepsB(n, {}) /\ Accepts(n, {}) /\ Touch(n, conn', {})
    BY <1>1, TouchNothing DEF KeepsB, Accepts
  <2> QED
    BY <1>1, <2>1, LocalEnds DEF Links
<1>3. \A x \in Node \ {n} : Unknown(x)' <=> Unknown(x)
  BY <1>1 DEF Unknown, OthersStay
<1>4. ~Unknown(n)' /\ ~Unknown(n)
  BY <1>1 DEF Unknown
<1>5. StillKnown
  BY <1>1, <1>3, <1>4, NoneKnown DEF StillKnown, OthersStay
<1>6. ASSUME NEW x \in Node PROVE ~Unknown(successor[x])'
  <2>1. PICK y \in Node \cup {None} : y = successor[x] /\ ~Unknown(y)
    BY DEF TypeOK, Links
  <2>2. ~Unknown(y)'
    BY <1>5, <2>1 DEF StillKnown
  <2> QED
    BY <1>1, <2>1, <2>2 DEF Unknown
<1>7. ASSUME NEW x \in Node \ {n} PROVE ResponseWaits(x)'
  BY <1>1 DEF Links, ResponseWaits, OthersStay
<1>8. ResponseWaits(n)'
  <2>1. backlog[n] \in Seq(Conn)
    BY DEF TypeOK
  <2>2. Head(backlog[n]) \in Conn
    BY <1>1, <2>1
  <2> QED
    BY <1>1, <2>2 DEF Links, ResponseWaits, Conn, NoConn
<1> QED
  BY <1>2, <1>5, <1>6, <1>7, <1>8 DEF Links

LEMMA JoinRecvLinks ==
  ASSUME TypeOK, JoinInv, NEW n \in Node, JoinRecv(n)
  PROVE  Links' /\ StillKnown
<1> DEFINE data == Inbound(conn, "D", sockfd_d[n])
           m    == Head(data)
<1>1. conn \in Conns /\ sockfd_d[n] \in Sock /\ OnConns(Named, conn)
  BY DEF TypeOK, Conns, JoinInv, AllIn
<1>2. /\ data \in Seq(Named) /\ data \in Seq(Pdu) /\ data # <<>> /\ m.type = "NET_JOIN_RESPONSE"
      /\ sockfd_d[n].conn # NoConn
  BY <1>1, InboundIn, ConnTypes DEF JoinRecv, Inbound
<1>3. PICK rest \in AfterOverRead(Tail(data)) :
        LET cs == SetInbound(conn, "D", sockfd_d[n], rest)
        IN  \/ /\ Reachable(m.next) /\ Goto(n, "q6")
               /\ successor' = [successor EXCEPT ![n] = m.next]
               /\ Connect(n, m.next, cs, <<>>)
               /\ sockfd_d' = sockfd_d
            \/ Exit(n, cs)
  BY DEF JoinRecv
<1> DEFINE cs == SetInbound(conn, "D", sockfd_d[n], rest)
<1>4. rest \in Seq(Pdu) /\ m \in Pdu /\ ~Unknown(m.next)
  <2> HIDE DEF data
  <2>1. Tail(data) \in Seq(Pdu) /\ Head(data) \in Pdu /\ Head(data) \in Named
    BY <1>2
  <2>2. rest \in Seq(Pdu)
    BY <2>1, OverReadTypes
  <2> QED
    BY <1>2, <2>1, <2>2 DEF Named
<1>5. cs \in Conns
  BY <1>1, <1>2, <1>4, ConnTypes
<1>6. Touch(n, cs, {})
  <2>1. Touch(n, SetInbound(conn, "D", SockOf(n, "D"), rest), {})
    BY <1>1, <1>2, <1>4, TouchNothing, TouchSetInbound DEF SockOf
  <2> QED
    BY <2>1 DEF SockOf
<1>7. m.next \in Node \cup {None}
  BY <1>2, <1>4, JoinResponseFields
<1> HIDE DEF data, m, cs
<1>8. CASE Exit(n, cs)
  BY <1>5, <1>6, <1>8, ExitLinks DEF JoinInv
<1>9. CASE /\ Reachable(m.next) /\ Goto(n, "q6")
           /\ successor' = [successor EXCEPT ![n] = m.next]
           /\ Connect(n, m.next, cs, <<>>)
           /\ sockfd_d' = sockfd_d
  <2>1. m.next \in Node /\ Listening(m.next) /\ <<>> \in Seq(Pdu)
    BY <1>7, <1>9 DEF Reachable
  <2>2. /\ Running(n) /\ successor'[n] = m.next
        /\ \A x \in Node \ {n} : pc'[x] = pc[x] /\ successor'[x] = successor[x]
    BY <1>9 DEF Goto, TypeOK, Running
  <2> QED
    BY <1>4, <1>5, <1>6, <1>9, <2>1, <2>2, ConnectLinks DEF JoinInv
<1> QED
  BY <1>3, <1>8, <1>9 DEF cs

LEMMA AcceptLinks ==
  ASSUME TypeOK, Links, NEW n \in Node, Q5Accept(n) \/ Q17Accept(n)
  PROVE  Links' /\ StillKnown
<1>1. /\ OthersStay(n) /\ Running(n) /\ conn' = conn /\ successor' = successor
      /\ sockfd_d'[n].conn = Head(backlog[n]) /\ backlog'[n] = Tail(backlog[n])
      /\ sockfd_b' = sockfd_b /\ backlog[n] # <<>>
  BY DEF Q5Accept, Q17Accept, Goto, TypeOK, OthersStay, Running
<1>2. KeepsB(n, {}) /\ Accepts(n, {})
  BY <1>1 DEF KeepsB, Accepts
<1>3. successor[n] \in Node \cup {None} /\ ~Unknown(successor[n])
  BY DEF TypeOK, Links
<1> QED
  BY <1>1, <1>2, <1>3, TouchNothing, OwnLinks

(* Where the handling of a PDU leaves n. *)
LEMMA HandlerPlace ==
  ASSUME TypeOK, NEW n \in Node, NEW kind \in {"udp", "tcp"},
         \/ Return(n, kind) \/ (\E b, d \in Sock : Nested(n, kind, b, d))
         \/ Goto(n, "q5_accept") \/ Goto(n, "q17_accept")
  PROVE  Running(n) /\ \A x \in Node \ {n} : pc'[x] = pc[x]
BY DEF Return, Nested, Goto, After, TypeOK, Running

(* The handlers that grant a range: the response is the first thing on the  *)
(* connection to the joining node.                                          *)
LEMMA GrantLinks ==
  ASSUME TypeOK, Links, NEW n \in Node, NEW to \in Node, NEW next \in Node \cup {None},
         NEW cs \in Conns, NEW shut \in SUBSET {"B"}, Touch(n, cs, shut),
         GrantUpperHalf(n, to, next, cs), sockfd_d' = sockfd_d, Listening(to), Running(n),
         \A x \in Node \ {n} : pc'[x] = pc[x], successor' = [successor EXCEPT ![n] = to]
  PROVE  Links' /\ StillKnown
<1>1. start[n] \in Hash /\ end[n] \in Hash /\ UpperStart(start[n], end[n]) \in Hash
  BY HashArithmetic DEF TypeOK
<1>2. PICK s \in SetToSeqs(Upper(n)) : Connect(n, to, cs, GrantPdus(n, next, s))
  BY DEF GrantUpperHalf
<1> DEFINE r == JoinResponse(next, UpperStart(start[n], end[n]), end[n])
<1>3. r \in Pdu /\ r.type = "NET_JOIN_RESPONSE"
  BY <1>1, PduConstructors DEF JoinResponse
<1>4. Inserts(s) \in Seq(Pdu)
  BY TransferTypes DEF Upper, TypeOK
<1>5. GrantPdus(n, next, s) = <<r>> \o Inserts(s)
  BY DEF GrantPdus
<1> HIDE DEF r
<1>6. GrantPdus(n, next, s) \in Seq(Pdu) /\ Response(GrantPdus(n, next, s))
  <2>1. /\ <<r>> \o Inserts(s) \in Seq(Pdu) /\ <<r>> \o Inserts(s) # <<>>
        /\ Head(<<r>> \o Inserts(s)) = r
    BY <1>3, <1>4
  <2> QED
    BY <1>3, <1>5, <2>1 DEF Response
<1>7. successor'[n] = to /\ \A x \in Node \ {n} : successor'[x] = successor[x]
  BY DEF TypeOK
<1> QED
  BY <1>2, <1>6, <1>7, ConnectLinks

(* n has sent NET_CLOSE_CONNECTION to its successor and shut the socket. *)
LEMMA TouchCloseB ==
  ASSUME TypeOK, NEW n \in Node
  PROVE  Touch(n, Shut(Sent(conn, "B", sockfd_b[n], <<Close>>), "B", sockfd_b[n]), {"B"})
<1> DEFINE cs == Sent(conn, "B", SockOf(n, "B"), <<Close>>)
<1>1. conn \in Conns /\ SockOf(n, "B") \in Sock /\ <<Close>> \in Seq(Pdu)
  BY SockOfType, PduConstructors DEF TypeOK, Conns
<1>2. cs \in Conns /\ Touch(n, cs, {})
  BY <1>1, ConnTypes, TouchNothing, TouchSent
<1> HIDE DEF cs
<1>3. Touch(n, Shut(cs, "B", SockOf(n, "B")), {} \cup {"B"})
  BY <1>2, TouchShut
<1>4. {} \cup {"B"} = {"B"}
  OBVIOUS
<1> QED
  BY <1>3, <1>4 DEF cs, SockOf

LEMMA JoinHandlersLinks ==
  ASSUME TypeOK, JoinInv, NEW n \in Node, NEW kind \in {"udp", "tcp"}, NEW m,
         \/ Q5(n, kind, m) \/ Q5Refused(n, kind, m)
         \/ Q13(n, kind, m) \/ Q13Refused(n, kind, m) \/ Q14(n, kind, m)
  PROVE  Links' /\ StillKnown
<1>1. NextPdu(n, kind, m) /\ m.type = "NET_JOIN"
  BY DEF Q5, Q5Refused, Q13, Q13Refused, Q14
<1>2. m \in Named /\ m \in Pdu
  BY <1>1, TakenIn, TakenTypes DEF JoinInv
<1>3. m.src \in Node /\ pc[m.src] # "off" /\ Links
  BY <1>1, <1>2, JoinFields DEF Named, JoinInv
<1>4. /\ conn \in Conns /\ sockfd_b[n] \in Sock /\ sockfd_d[n] \in Sock
      /\ successor[n] \in Node \cup {None} /\ ~Unknown(successor[n])
  BY <1>3 DEF TypeOK, Conns, Links
<1> DEFINE cs == Shut(Sent(conn, "B", sockfd_b[n], <<Close>>), "B", sockfd_b[n])
<1>5. cs \in Conns /\ Touch(n, cs, {"B"})
  BY CloseBTypes, TouchCloseB
<1>6. CASE Q5(n, kind, m)
  <2>1. /\ GrantUpperHalf(n, m.src, n, conn) /\ sockfd_d' = sockfd_d /\ Listening(m.src)
        /\ Goto(n, "q5_accept") /\ successor' = [successor EXCEPT ![n] = m.src]
    BY <1>6 DEF Q5
  <2>2. Running(n) /\ \A x \in Node \ {n} : pc'[x] = pc[x]
    BY <2>1, HandlerPlace
  <2> QED
    BY <1>3, <1>4, <2>1, <2>2, TouchNothing, GrantLinks
<1>7. CASE Q13(n, kind, m)
  <2>1. /\ GrantUpperHalf(n, m.src, successor[n], cs) /\ sockfd_d' = sockfd_d
        /\ Listening(m.src) /\ Nested(n, kind, sockfd_b'[n], sockfd_d[n])
        /\ successor' = [successor EXCEPT ![n] = m.src]
    BY <1>7 DEF Q13
  <2>2. Running(n) /\ \A x \in Node \ {n} : pc'[x] = pc[x]
    BY <2>1 DEF Nested, Goto, TypeOK, Running
  <2> HIDE DEF cs
  <2> QED
    BY <1>3, <1>4, <1>5, <2>1, <2>2, GrantLinks
<1>8. CASE Q5Refused(n, kind, m) \/ Q13Refused(n, kind, m)
  <2>1. /\ Return(n, kind) /\ ~Listening(m.src)
        /\ UNCHANGED <<backlog, sockfd_d>>
        /\ sockfd_b' = [sockfd_b EXCEPT ![n] = [fd |-> LowestFd(sockfd_d[n]), conn |-> NoConn]]
        /\ conn' = conn \/ conn' = cs
        /\ successor' = [successor EXCEPT ![n] = m.src] \/ successor' = successor
    BY <1>8 DEF Q5Refused, Q13Refused, ConnectRefused, ring
  <2>2. Running(n) /\ \A x \in Node \ {n} : pc'[x] = pc[x]
    BY <2>1, HandlerPlace
  <2>3. Touch(n, conn', {"B"})
    BY <1>5, <2>1, TouchNothing
  <2>4. OthersStay(n) /\ KeepsB(n, {"B"}) /\ KeepsD(n, {"B"})
    BY <2>1, <2>2 DEF OthersStay, KeepsB, KeepsD, TypeOK
  <2>5. ~Unknown(m.src)
    BY <1>3, <2>1 DEF Listening, Unknown
  <2>6. successor'[n] \in Node \cup {None} /\ ~Unknown(successor'[n])
    BY <1>3, <1>4, <2>1, <2>5 DEF TypeOK
  <2> QED
    BY <1>3, <2>2, <2>3, <2>4, <2>6, OwnLinks
<1>9. CASE Q14(n, kind, m)
  <2>1. /\ conn' = Sent(conn, "B", SockOf(n, "B"), <<WithWidest(n, m)>>)
        /\ Nested(n, kind, sockfd_b[n], sockfd_d[n])
        /\ UNCHANGED <<backlog, sockfd_b, sockfd_d, successor>>
    BY <1>9 DEF Q14, SockOf, ring, socks
  <2>2. Running(n) /\ \A x \in Node \ {n} : pc'[x] = pc[x]
    BY <2>1 DEF Nested, Goto, TypeOK, Running
  <2>3. <<WithWidest(n, m)>> \in Seq(Pdu)
    BY <1>1, <1>2, WithWidestType
  <2>4. Touch(n, conn', {})
    BY <1>4, <2>1, <2>3, TouchNothing, TouchSent
  <2>5. OthersStay(n) /\ KeepsB(n, {}) /\ KeepsD(n, {}) /\ successor'[n] = successor[n]
    BY <2>1, <2>2 DEF OthersStay, KeepsB, KeepsD
  <2> QED
    BY <1>3, <1>4, <2>2, <2>4, <2>5, OwnLinks
<1> QED
  BY <1>6, <1>7, <1>8, <1>9

LEMMA NeighbourHandlersLinks ==
  ASSUME TypeOK, JoinInv, NEW n \in Node, NEW kind \in {"udp", "tcp"}, NEW m,
         \/ Q15(n, kind, m) \/ Q16(n, kind, m) \/ Q16Alone(n, kind, m)
         \/ Q16Refused(n, kind, m) \/ Q17(n, kind, m)
  PROVE  Links' /\ StillKnown
<1>1. NextPdu(n, kind, m)
  BY DEF Q15, Q16, Q16Alone, Q16Refused, Q17
<1>2. m \in Named /\ m \in Pdu /\ Links
  BY <1>1, TakenIn, TakenTypes DEF JoinInv
<1>3. /\ conn \in Conns /\ sockfd_b[n] \in Sock /\ sockfd_d[n] \in Sock
      /\ successor[n] \in Node \cup {None} /\ ~Unknown(successor[n]) /\ ~Unknown(None)
  BY <1>2, NoneKnown DEF TypeOK, Conns, Links
<1>4. /\ Touch(n, Shut(conn, "B", sockfd_b[n]), {"B"})
      /\ Touch(n, Shut(conn, "D", sockfd_d[n]), {"D"})
      /\ Shut(conn, "B", sockfd_b[n]) \in Conns
  <2>1. Touch(n, Shut(conn, "B", SockOf(n, "B")), {} \cup {"B"})
    BY <1>3, TouchNothing, TouchShut
  <2>2. Touch(n, Shut(conn, "D", SockOf(n, "D")), {} \cup {"D"})
    BY <1>3, TouchNothing, TouchShut
  <2>3. {} \cup {"B"} = {"B"} /\ {} \cup {"D"} = {"D"}
    OBVIOUS
  <2> QED
    BY <2>1, <2>2, <2>3, ShutTypes DEF SockOf
<1>5. CASE Q15(n, kind, m)
  <2> DEFINE side == AnswerSide(n, m)
  <2>1. /\ conn' = Sent(conn, side, SockOf(n, side), <<NewRangeResponse>>)
        /\ Return(n, kind) /\ side \in {"B", "D"}
        /\ UNCHANGED <<backlog, sockfd_b, sockfd_d, successor>>
    BY <1>5 DEF Q15, AnswerSide, socks
  <2> HIDE DEF side
  <2>2. Running(n) /\ \A x \in Node \ {n} : pc'[x] = pc[x]
    BY <2>1, HandlerPlace
  <2>3. <<NewRangeResponse>> \in Seq(Pdu)
    BY PduConstructors
  <2>4. Touch(n, conn', {})
    BY <1>3, <2>1, <2>3, TouchNothing, TouchSent
  <2>5. OthersStay(n) /\ KeepsB(n, {}) /\ KeepsD(n, {}) /\ successor'[n] = successor[n]
    BY <2>1, <2>2 DEF OthersStay, KeepsB, KeepsD
  <2> QED
    BY <1>2, <1>3, <2>2, <2>4, <2>5, OwnLinks
<1>6. CASE Q16(n, kind, m)
  <2>1. /\ m.type = "NET_LEAVING" /\ Reachable(m.new)
        /\ Connect(n, m.new, Shut(conn, "B", sockfd_b[n]), <<>>)
        /\ successor' = [successor EXCEPT ![n] = m.new]
        /\ Return(n, kind) /\ sockfd_d' = sockfd_d
    BY <1>6 DEF Q16
  <2>2. m.new \in Node /\ ~Unknown(m.new) /\ Listening(m.new)
    BY <1>2, <2>1, LeavingFields DEF Named, Reachable
  <2>3. Running(n) /\ \A x \in Node \ {n} : pc'[x] = pc[x]
    BY <2>1, HandlerPlace
  <2>4. successor'[n] = m.new /\ \A x \in Node \ {n} : successor'[x] = successor[x]
    BY <2>1 DEF TypeOK
  <2>5. <<>> \in Seq(Pdu)
    OBVIOUS
  <2> QED
    BY <1>2, <1>4, <2>1, <2>2, <2>3, <2>4, <2>5, ConnectLinks
<1>7. CASE Q16Alone(n, kind, m) \/ Q16Refused(n, kind, m)
  <2>1. /\ conn' = Shut(conn, "B", sockfd_b[n]) /\ sockfd_b' = [sockfd_b EXCEPT ![n] = NoSock]
        /\ Return(n, kind) /\ UNCHANGED <<backlog, sockfd_d>>
        /\ successor' = [successor EXCEPT ![n] = None] \/ successor' = successor
    BY <1>7 DEF Q16Alone, Q16Refused, ring
  <2>2. Running(n) /\ \A x \in Node \ {n} : pc'[x] = pc[x]
    BY <2>1, HandlerPlace
  <2>3. OthersStay(n) /\ KeepsB(n, {"B"}) /\ KeepsD(n, {"B"})
    BY <2>1, <2>2 DEF OthersStay, KeepsB, KeepsD, TypeOK, NoSock
  <2>4. successor'[n] \in Node \cup {None} /\ ~Unknown(successor'[n])
    BY <1>3, <2>1 DEF TypeOK
  <2> QED
    BY <1>2, <1>4, <2>1, <2>2, <2>3, <2>4, OwnLinks
<1>8. CASE Q17(n, kind, m)
  <2>1. /\ conn' = Shut(conn, "D", sockfd_d[n]) /\ sockfd_d' = [sockfd_d EXCEPT ![n] = NoSock]
        /\ UNCHANGED <<backlog, sockfd_b, successor>>
        /\ Nested(n, kind, sockfd_b[n], NoSock) \/ Goto(n, "q17_accept")
    BY <1>8 DEF Q17
  <2>2. Running(n) /\ \A x \in Node \ {n} : pc'[x] = pc[x]
    BY <2>1 DEF Nested, Goto, TypeOK, Running
  <2>3. OthersStay(n) /\ KeepsB(n, {"D"}) /\ KeepsD(n, {"D"}) /\ successor'[n] = successor[n]
    BY <2>1, <2>2 DEF OthersStay, KeepsB, KeepsD, TypeOK, NoSock
  <2> QED
    BY <1>2, <1>3, <1>4, <2>1, <2>2, <2>3, OwnLinks
<1> QED
  BY <1>5, <1>6, <1>7, <1>8

LEMMA ValueHandlersLinks ==
  ASSUME TypeOK, JoinInv, NEW n \in Node, NEW kind \in {"udp", "tcp"}, NEW m,
         \/ Q9Serve(n, kind, m) \/ Q9Forward(n, kind, m) \/ SendFailed(n, kind, m)
         \/ SendKilled(n, kind, m) \/ Ignore(n, kind, m)
  PROVE  Links' /\ StillKnown
<1>1. /\ conn \in Conns /\ Links /\ sockfd_b[n] \in Sock
      /\ successor[n] \in Node \cup {None} /\ ~Unknown(successor[n])
  BY DEF TypeOK, Conns, JoinInv, Links
<1>2. CASE SendKilled(n, kind, m)
  BY <1>1, <1>2, TouchNothing, ExitLinks DEF SendKilled
<1>3. CASE \/ Q9Serve(n, kind, m) \/ Q9Forward(n, kind, m)
           \/ SendFailed(n, kind, m) \/ Ignore(n, kind, m)
  <2>1. /\ Return(n, kind) /\ UNCHANGED <<backlog, sockfd_b, sockfd_d, successor>>
        /\ conn' = conn \/ conn' = Sent(conn, "B", SockOf(n, "B"), <<m>>)
        /\ NextPdu(n, kind, m)
    BY <1>3 DEF Q9Serve, Q9Forward, SendFailed, Ignore, ring, socks, net, SockOf
  <2>2. Running(n) /\ \A x \in Node \ {n} : pc'[x] = pc[x]
    BY <2>1, HandlerPlace
  <2>3. <<m>> \in Seq(Pdu)
    BY <2>1, TakenTypes
  <2>4. Touch(n, conn', {})
    BY <1>1, <2>1, <2>3, TouchNothing, TouchSent
  <2>5. OthersStay(n) /\ KeepsB(n, {}) /\ KeepsD(n, {}) /\ successor'[n] = successor[n]
    BY <2>1, <2>2 DEF OthersStay, KeepsB, KeepsD
  <2> QED
    BY <1>1, <2>2, <2>4, <2>5, OwnLinks
<1> QED
  BY <1>2, <1>3

LEMMA ReadLinks ==
  ASSUME TypeOK, Links, NEW n \in Node, Read(n)
  PROVE  Links' /\ StillKnown
<1>1. PICK side \in {"B", "D"}, eof \in BOOLEAN :
        \E i \in 0 .. Len(Inbound(conn, side, SockOf(n, side))) : ReadSocket(n, side, i, eof)
  BY DEF Read
<1> DEFINE s    == SockOf(n, side)
           data == Inbound(conn, side, s)
<1>2. PICK i \in 0 .. Len(data) : ReadSocket(n, side, i, eof)
  BY <1>1
<1> DEFINE left == SubSeq(data, i + 1, Len(data))
           rest == SetInbound(conn, side, s, left)
<1>3. conn \in Conns /\ s \in Sock /\ s.conn # NoConn
  BY <1>2, SockOfType DEF TypeOK, Conns, ReadSocket
<1>4. data \in Seq(Pdu)
  BY <1>3, ConnTypes
<1>5. /\ conn' = IF eof THEN Shut(rest, side, s) ELSE rest
      /\ sockfd_b' = [sockfd_b EXCEPT ![n] = IF eof /\ side = "B" THEN NoSock ELSE @]
      /\ sockfd_d' = [sockfd_d EXCEPT ![n] = IF eof /\ side = "D" THEN NoSock ELSE @]
      /\ Goto(n, "drain") /\ UNCHANGED <<backlog, successor>>
  BY <1>2 DEF ReadSocket, ring
<1>6. left \in Seq(Pdu)
  <2> HIDE DEF data
  <2> QED
    BY <1>2, <1>4
<1> HIDE DEF data, left
<1>7. rest \in Conns /\ Touch(n, rest, {})
  BY <1>3, <1>6, ConnTypes, TouchNothing, TouchSetInbound
<1> DEFINE shut == IF eof THEN {side} ELSE {}
<1>8. Touch(n, conn', shut)
  <2> HIDE DEF rest
  <2>1. Touch(n, Shut(rest, side, s), {} \cup {side})
    BY <1>7, TouchShut
  <2>2. {} \cup {side} = {side}
    OBVIOUS
  <2> HIDE DEF s
  <2> QED
    BY <1>5, <1>7, <2>1, <2>2
<1>9. OthersStay(n) /\ Running(n) /\ successor'[n] = successor[n]
  BY <1>5 DEF Goto, TypeOK, OthersStay, Running
<1>10. KeepsB(n, shut)
  BY <1>5 DEF KeepsB, TypeOK, NoSock
<1>11. KeepsD(n, shut)
  BY <1>5 DEF KeepsD, TypeOK, NoSock
<1>12. successor[n] \in Node \cup {None} /\ ~Unknown(successor[n])
  BY DEF TypeOK, Links
<1> HIDE DEF shut, rest, s
<1> QED
  BY <1>8, <1>9, <1>10, <1>11, <1>12, OwnLinks

LEMMA LeavingLinks ==
  ASSUME TypeOK, Links, NEW n \in Node,
         Q10(n) \/ Q11(n) \/ Q11SendFailed(n) \/ Q11Abort(n)
  PROVE  Links' /\ StillKnown
<1> DEFINE side == LeaveSide(n)
           s    == SockOf(n, side)
           data == Inbound(conn, side, s)
           left == IF Head(data).type = "NET_CLOSE_CONNECTION"
                     THEN Tail(data) ELSE <<Garbage>> \o Tail(data)
<1>1. side \in {"B", "D"} /\ s \in Sock /\ conn \in Conns /\ Touch(n, conn, {})
  BY LeaveSideType, TouchNothing
<1>2. CASE Q10(n) \/ Q11SendFailed(n)
  BY <1>1, <1>2, ExitLinks, LeaveLoopLinks DEF Q10, Q11SendFailed
<1>3. CASE Q11(n)
  <2>1. <<NewRange(start[n], end[n])>> \in Seq(Pdu)
    BY PduConstructors DEF TypeOK
  <2>2. /\ conn' = Sent(conn, side, s, <<NewRange(start[n], end[n])>>) /\ Goto(n, "q11_recv")
        /\ UNCHANGED <<backlog, sockfd_b, sockfd_d, successor>>
    BY <1>3 DEF Q11, ring, socks
  <2>3. Touch(n, conn', {})
    BY <1>1, <2>1, <2>2, TouchSent
  <2>4. OthersStay(n) /\ Running(n) /\ KeepsB(n, {}) /\ KeepsD(n, {})
    BY <2>2 DEF Goto, TypeOK, OthersStay, Running, KeepsB, KeepsD
  <2>5. /\ successor'[n] = successor[n] /\ successor[n] \in Node \cup {None}
        /\ ~Unknown(successor[n])
    BY <2>2 DEF TypeOK, Links
  <2> QED
    BY <2>3, <2>4, <2>5, OwnLinks
<1>4. CASE Q11Abort(n)
  <2>1. \/ data # <<>> /\ LeaveLoop(n, SetInbound(conn, side, s, left), hash_table[n])
        \/ LeaveLoop(n, conn, hash_table[n])
    BY <1>4 DEF Q11Abort
  <2>2. CASE data # <<>> /\ LeaveLoop(n, SetInbound(conn, side, s, left), hash_table[n])
    <3>1. s.conn # NoConn /\ data \in Seq(Pdu) /\ data # <<>>
      BY <1>1, <2>2, ConnTypes DEF Inbound
    <3>2. left \in Seq(Pdu)
      <4> HIDE DEF data
      <4>1. Tail(data) \in Seq(Pdu)
        BY <3>1
      <4>2. <<Garbage>> \o Tail(data) \in Seq(Pdu)
        BY <4>1, PduConstructors
      <4> QED
        BY <4>1, <4>2
    <3> HIDE DEF side, left, data
    <3>3. SetInbound(conn, side, s, left) \in Conns /\ Touch(n, SetInbound(conn, side, s, left), {})
      BY <1>1, <3>1, <3>2, ConnTypes, TouchSetInbound
    <3> HIDE DEF s
    <3> QED
      BY <2>2, <3>3, LeaveLoopLinks
  <2>3. CASE LeaveLoop(n, conn, hash_table[n])
    BY <1>1, <2>3, LeaveLoopLinks
  <2> QED
    BY <2>1, <2>2, <2>3
<1> QED
  BY <1>2, <1>3, <1>4

LEMMA SendResultsTouch ==
  ASSUME TypeOK, NEW n \in Node, NEW cs \in Conns, Touch(n, cs, {}), NEW side \in {"B", "D"},
         NEW pdus \in Seq(Pdu), NEW t \in SendResults(cs, side, SockOf(n, side), pdus)
  PROVE  t[2] \in Conns /\ Touch(n, t[2], {})
<1>1. t[2] = cs \/ t[2] = Sent(cs, side, SockOf(n, side), pdus)
  BY DEF SendResults
<1>2. /\ Touch(n, Sent(cs, side, SockOf(n, side), pdus), {})
      /\ Sent(cs, side, SockOf(n, side), pdus) \in Conns
  BY TouchSent, ConnTypes, SockOfType
<1> QED
  BY <1>1, <1>2

LEMMA Q18Links ==
  ASSUME TypeOK, Links, NEW n \in Node, Q18(n)
  PROVE  Links' /\ StillKnown
<1> DEFINE side == LeaveSide(n)
           s    == SockOf(n, side)
           data == Inbound(conn, side, s)
           cs   == SetInbound(conn, side, s, Tail(data))
<1>1. side \in {"B", "D"} /\ s \in Sock /\ conn \in Conns /\ Touch(n, conn, {})
  BY LeaveSideType, TouchNothing
<1>2. hash_table[n] \in SUBSET Key /\ successor[n] \in Node \cup {None}
  BY DEF TypeOK
<1>3. data \in Seq(Pdu) /\ data # <<>> /\ s.conn # NoConn
  BY <1>1, ConnTypes DEF Q18, Inbound
<1>4. Tail(data) \in Seq(Pdu)
  <2> HIDE DEF data
  <2> QED
    BY <1>3
<1> DEFINE Outcome(t, c, l) ==
          IF t[1] = "kill" THEN Exit(n, t[2])
          ELSE IF c[1] = "kill" THEN Exit(n, c[2])
          ELSE IF c[1] = "fail" THEN LeaveLoop(n, c[2], {})
          ELSE IF l[1] = "fail" THEN LeaveLoop(n, l[2], {})
          ELSE Exit(n, l[2])
<1>5. PICK entries \in Entries(n) :
        \E t \in SendResults(cs, side, SockOf(n, side), entries) :
        \E c \in SendResults(t[2], "B", SockOf(n, "B"), <<Close>>) :
        \E l \in SendResults(c[2], "D", SockOf(n, "D"), <<Leaving(successor[n])>>) :
          Outcome(t, c, l)
  BY DEF Q18, SockOf
<1>6. entries \in Seq(Pdu)
  BY <1>2, TransferTypes DEF Entries
<1>7. <<Close>> \in Seq(Pdu) /\ <<Leaving(successor[n])>> \in Seq(Pdu)
  BY <1>2, PduConstructors
<1> HIDE DEF side, data
<1>8. cs \in Conns /\ Touch(n, cs, {})
  BY <1>1, <1>3, <1>4, ConnTypes, TouchSetInbound
<1> HIDE DEF cs, s
<1> HIDE DEF Outcome
<1>9. PICK t \in SendResults(cs, side, SockOf(n, side), entries) :
        \E c \in SendResults(t[2], "B", SockOf(n, "B"), <<Close>>) :
        \E l \in SendResults(c[2], "D", SockOf(n, "D"), <<Leaving(successor[n])>>) :
          Outcome(t, c, l)
  BY <1>5
<1>10. t[2] \in Conns /\ Touch(n, t[2], {})
  BY <1>1, <1>6, <1>8, SendResultsTouch
<1>11. PICK c \in SendResults(t[2], "B", SockOf(n, "B"), <<Close>>) :
         \E l \in SendResults(c[2], "D", SockOf(n, "D"), <<Leaving(successor[n])>>) :
           Outcome(t, c, l)
  BY <1>9
<1>12. c[2] \in Conns /\ Touch(n, c[2], {})
  BY <1>7, <1>10, SendResultsTouch
<1>13. PICK l \in SendResults(c[2], "D", SockOf(n, "D"), <<Leaving(successor[n])>>) :
         Outcome(t, c, l)
  BY <1>11
<1>14. l[2] \in Conns /\ Touch(n, l[2], {})
  BY <1>7, <1>12, SendResultsTouch
<1> QED
  BY <1>10, <1>12, <1>13, <1>14, ExitLinks, LeaveLoopLinks DEF Outcome

LEMMA EnvironmentLinks ==
  ASSUME TypeOK, Links, NEW n \in Node, Environment(n)
  PROVE  Links' /\ StillKnown
<1>1. CASE Signal(n) \/ \E r \in requests : ClientSend(n, r)
  <2>1. UNCHANGED <<pc, successor, sockfd_b, sockfd_d, conn, backlog>>
    BY <1>1 DEF Signal, ClientSend, ctl, ring, socks, net
  <2> QED
    BY <2>1, StillLinks
<1>2. CASE InterruptJoin(n) \/ InterruptRecv(n)
  BY <1>2, TouchNothing, ExitLinks, LeaveLoopLinks DEF InterruptJoin, InterruptRecv, TypeOK, Conns
<1>3. CASE InterruptAccept(n)
  <2>1. /\ Goto(n, After(Last(stack[n]).kind)) \/ Goto(n, "drain")
        /\ UNCHANGED <<conn, backlog, sockfd_b, sockfd_d, successor>>
    BY <1>3 DEF InterruptAccept, ring, socks, net
  <2>2. OthersStay(n) /\ Running(n)
    BY <2>1 DEF Goto, After, TypeOK, OthersStay, Running
  <2>3. KeepsB(n, {}) /\ KeepsD(n, {}) /\ successor'[n] = successor[n]
    BY <2>1 DEF KeepsB, KeepsD
  <2>4. successor[n] \in Node \cup {None} /\ ~Unknown(successor[n])
    BY DEF TypeOK, Links
  <2>5. Touch(n, conn', {})
    BY <2>1, TouchNothing
  <2> QED
    BY <2>2, <2>3, <2>4, <2>5, OwnLinks
<1> QED
  BY <1>1, <1>2, <1>3, StartFirstLinks, StartJoinLinks DEF Environment

LEMMA DrainedLinks ==
  ASSUME TypeOK, Links, NEW n \in Node, Drained(n)
  PROVE  Links' /\ StillKnown
<1>1. OthersStay(n) /\ Running(n) /\ KeepsB(n, {}) /\ KeepsD(n, {}) /\ conn' = conn
  BY DEF Drained, Goto, TypeOK, OthersStay, Running, KeepsB, KeepsD, ring, socks, net
<1>2. successor'[n] = successor[n] /\ successor[n] \in Node \cup {None} /\ ~Unknown(successor[n])
  BY DEF Drained, ring, TypeOK, Links
<1> QED
  BY <1>1, <1>2, TouchNothing, OwnLinks

LEMMA NextLinks ==
  ASSUME TypeOK, JoinInv, [Next]_vars
  PROVE  Links' /\ StillKnown
<1>1. Links
  BY DEF JoinInv
<1>2. ASSUME NEW n \in Node, HandlePdu(n) PROVE Links' /\ StillKnown
  BY <1>2, JoinHandlersLinks, NeighbourHandlersLinks, ValueHandlersLinks DEF HandlePdu
<1>3. ASSUME NEW n \in Node, Step(n) PROVE Links' /\ StillKnown
  BY <1>1, <1>2, <1>3, JoinAcceptLinks, JoinRecvLinks, AcceptLinks, ReadLinks, DrainedLinks,
     LeavingLinks, Q18Links
  DEF Step
<1>4. CASE UNCHANGED vars
  BY <1>1, <1>4, StillLinks DEF vars, ctl, ring, socks, net
<1> QED
  BY <1>1, <1>3, <1>4, EnvironmentLinks DEF Next
-----------------------------------------------------------------------------
(* The PDUs. *)

LEMMA NamedStays ==
  ASSUME StillKnown
  PROVE  Named \subseteq Named'
<1> SUFFICES ASSUME NEW m \in Named PROVE m \in Named'
  OBVIOUS
<1>1. m \in Pdu
  BY DEF Named
<1>2. m.type = "NET_JOIN" => pc'[m.src] # "off"
  BY <1>1, JoinFields DEF Named, StillKnown
<1>3. ASSUME m.type = "NET_JOIN_RESPONSE" PROVE ~Unknown(m.next)'
  BY <1>1, <1>3, JoinResponseFields DEF Named, StillKnown
<1>4. ASSUME m.type = "NET_LEAVING" PROVE ~Unknown(m.new)'
  BY <1>1, <1>4, LeavingFields DEF Named, StillKnown
<1> QED
  BY <1>1, <1>2, <1>3, <1>4 DEF Named

(* Whom a step names is known by then. *)
LEMMA NamedAdmits ==
  ASSUME TypeOK, JoinInv, StillKnown, NEW S, S = Named'
  PROVE  Admits(S)
<1>1. \A m \in Pdu : m.type \notin {"NET_JOIN", "NET_JOIN_RESPONSE", "NET_LEAVING"} => m \in Named'
  BY DEF Named
<1>2. {Garbage, Close, NewRangeResponse} \cup ValPdu \subseteq S
  BY <1>1, PduConstructors, ValFields DEF Garbage, Close, NewRangeResponse, ValPdu
<1>3. ASSUME NEW n \in Node, NEW e \in Node, StartJoin(n, e)
      PROVE  JoinPdu(n, None, 0) \in S
  <2>1. pc'[n] = "q7_accept" /\ JoinPdu(n, None, 0) \in Pdu
    BY <1>3, PduConstructors DEF StartJoin, Goto, TypeOK
  <2> QED
    BY <2>1 DEF JoinPdu, Named
<1>4. ASSUME NEW n \in Node
      PROVE  NewRange(start[n], end[n]) \in S
  <2>1. NewRange(start[n], end[n]) \in Pdu
    BY PduConstructors DEF TypeOK
  <2> QED
    BY <1>1, <2>1 DEF NewRange
<1>5. ASSUME NEW n \in Node
      PROVE  \E y \in Node \cup {None} : y = successor[n] /\ ~Unknown(y)'
  <2>1. PICK y \in Node \cup {None} : y = successor[n] /\ ~Unknown(y)
    BY DEF TypeOK, JoinInv, Links
  <2>2. ~Unknown(y)'
    BY <2>1 DEF StillKnown
  <2> QED
    BY <2>1, <2>2
<1>6. ASSUME NEW n \in Node
      PROVE  Leaving(successor[n]) \in S
  <2>1. PICK y \in Node \cup {None} : y = successor[n] /\ ~Unknown(y)'
    BY <1>5
  <2>2. Leaving(y) \in Pdu
    BY PduConstructors
  <2>3. Leaving(y) \in Named'
    BY <2>1, <2>2 DEF Leaving, Named
  <2> QED
    BY <2>1, <2>3
<1>7. ASSUME NEW n \in Node, NEW y \in Node \cup {None}, ~Unknown(y)'
      PROVE  JoinResponse(y, UpperStart(start[n], end[n]), end[n]) \in S
  <2>1. start[n] \in Hash /\ end[n] \in Hash /\ UpperStart(start[n], end[n]) \in Hash
    BY HashArithmetic DEF TypeOK
  <2>2. JoinResponse(y, UpperStart(start[n], end[n]), end[n]) \in Pdu
    BY <2>1, PduConstructors
  <2>3. JoinResponse(y, UpperStart(start[n], end[n]), end[n]) \in Named'
    BY <1>7, <2>2 DEF JoinResponse, Named
  <2> QED
    BY <2>3
<1>8. ASSUME NEW n \in Node, NEW kind \in {"udp", "tcp"}, NEW m \in Pdu, NextPdu(n, kind, m)
      PROVE  ~Unknown(n)'
  BY <1>8 DEF NextPdu, StillKnown, Unknown
<1>9. ASSUME NEW n \in Node, NEW kind \in {"udp", "tcp"}, NEW m \in Pdu, Q14(n, kind, m)
      PROVE  WithWidest(n, m) \in S
  <2>1. NextPdu(n, kind, m) /\ m.type = "NET_JOIN"
    BY <1>9 DEF Q14
  <2>2. m \in Named /\ m.src \in Node
    BY <2>1, TakenIn, JoinFields DEF JoinInv
  <2>3. pc'[m.src] # "off"
    BY <2>1, <2>2 DEF Named, StillKnown
  <2>4. WithWidest(n, m) \in Pdu
    BY <2>1, WithWidestType
  <2>5. WithWidest(n, m).type = "NET_JOIN" /\ WithWidest(n, m).src = m.src
    BY <2>1, JoinFields DEF WithWidest
  <2> QED
    BY <2>3, <2>4, <2>5 DEF Named
<1>10. ASSUME NEW n \in Node, NEW kind \in {"udp", "tcp"}, NEW m \in Pdu
       PROVE  /\ Q5(n, kind, m) => JoinResponse(n, UpperStart(start[n], end[n]), end[n]) \in S
              /\ Q13(n, kind, m) => JoinResponse(successor[n], UpperStart(start[n], end[n]), end[n]) \in S
  <2>1. Q5(n, kind, m) => JoinResponse(n, UpperStart(start[n], end[n]), end[n]) \in S
    BY <1>7, <1>8 DEF Q5
  <2>2. PICK y \in Node \cup {None} : y = successor[n] /\ ~Unknown(y)'
    BY <1>5
  <2> QED
    BY <1>7, <2>1, <2>2
<1> QED
  BY <1>2, <1>3, <1>4, <1>6, <1>9, <1>10 DEF Admits

LEMMA NextJoinInv ==
  ASSUME TypeOK, JoinInv, [Next]_vars
  PROVE  JoinInv'
<1>1. Links' /\ StillKnown
  BY NextLinks
<1>2. PICK S : S = Named'
  OBVIOUS
<1>3. Admits(S)
  BY <1>1, <1>2, NamedAdmits
<1>4. AllIn(S, queue, udp, conn)
  <2>1. Named \subseteq S
    BY <1>1, <1>2, NamedStays
  <2>2. \A s \in Seq(Named) : s \in Seq(S)
    BY <2>1
  <2> QED
    BY <2>1, <2>2 DEF JoinInv, AllIn, OnConns
<1>5. AllIn(S, queue', udp', conn')
  BY <1>3, <1>4, StepIn
<1> QED
  BY <1>1, <1>2, <1>5 DEF JoinInv, AllIn, OnConns

LEMMA InitJoinInv == Init => JoinInv
<1> SUFFICES ASSUME Init PROVE JoinInv
  OBVIOUS
<1>1. \A n \in Node : Incoming(n) = {}
  BY DEF Init, Incoming, NoSock, Conn, NoConn
<1>2. ClientEnds /\ ServerEnds
  BY <1>1 DEF Init, ClientEnds, ServerEnds, NoSock
<1>3. \A x \in Node : ResponseWaits(x) /\ ~Unknown(successor[x])
  BY NoneKnown DEF Init, ResponseWaits
<1>4. <<>> \in Seq(Named)
  OBVIOUS
<1>5. AllIn(Named, queue, udp, conn)
  BY <1>4 DEF Init, AllIn, OnConns, FreeConn
<1> QED
  BY <1>2, <1>3, <1>5 DEF JoinInv, Links

LEMMA JoinInvHolds == Spec => [](TypeOK /\ JoinInv)
<1>1. Init => TypeOK /\ JoinInv
  BY InitTypes, InitJoinInv
<1>2. TypeOK /\ JoinInv /\ [Next]_vars => (TypeOK /\ JoinInv)'
  BY NextTypes, NextJoinInv
<1> QED
  BY <1>1, <1>2, PTL DEF Spec

(* However many nodes join at once, leave or reconnect, what q7_state reads *)
(* first is the NET_JOIN_RESPONSE of the node that grants it its range: no  *)
(* NET_CLOSE_CONNECTION, value or other connection (q8, q16) gets in first, *)
(* although q7_state does not look at the type of what it reads.            *)
THEOREM ResponseFirst == Spec => []JoinResponseFirst
<1>1. TypeOK /\ JoinInv => JoinResponseFirst
  BY DEF JoinInv, Links, ResponseWaits, Response, JoinResponseFirst, Inbound
<1> QED
  BY <1>1, JoinInvHolds, PTL

(* No TCP connection is ever shared: each open end belongs to one socket of *)
(* one node or waits in one backlog once.                                   *)
THEOREM EndsUnshared == Spec => [](ClientEnds /\ ServerEnds)
<1>1. TypeOK /\ JoinInv => ClientEnds /\ ServerEnds
  BY DEF JoinInv, Links
<1> QED
  BY <1>1, JoinInvHolds, PTL
=============================================================================
