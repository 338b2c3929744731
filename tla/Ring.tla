-------------------------------- MODULE Ring --------------------------------
(***************************************************************************)
(* The ring of C nodes (Nodes/*.c): node processes, the TCP connections    *)
(* between neighbours, the UDP sockets, and the clients that send values.  *)
(*                                                                         *)
(* A node is one thread.  It runs the poll loop of q6_state, reads PDUs    *)
(* into its queue, handles them one at a time, and in some handlers calls  *)
(* q6_state again from inside the handler: stack[n] holds the suspended    *)
(* outer loops.  A step of a node runs from one blocking call (poll,       *)
(* accept, recv) or dequeue to the next.                                   *)
(***************************************************************************)
EXTENDS HashRange, SequencesExt

CONSTANTS
  Node,       \* the processes that may be started
  None,       \* INADDR_NONE, the address of no node
  Key,        \* the social security numbers clients use
  hash_ssn,   \* hash_ssn[k] is the hash of key k
  Requests,   \* the value PDUs clients may send, each at most once
  Leavers,    \* the nodes that may be sent SIGINT
  Impatient,  \* those of them that may be sent it again
  Reconfig,   \* "free", "one_join" or "settled": see MayJoin
  MaxConn,    \* bound on simultaneous TCP connections
  MaxDepth    \* bound on nested calls of q6_state

ASSUME RingAssumption ==
  /\ IsFiniteSet(Node) /\ None \notin Node
  /\ IsFiniteSet(Key) /\ hash_ssn \in [Key -> Hash]
  /\ Requests \subseteq [type : {"VAL_INSERT", "VAL_REMOVE", "VAL_LOOKUP"}, ssn : Key]
  /\ Leavers \subseteq Node /\ Impatient \subseteq Leavers
  /\ Reconfig \in {"free", "one_join", "settled"}
  /\ MaxConn \in Nat \ {0} /\ MaxDepth \in Nat

VARIABLES
  pc,            \* where each process is
  stack,         \* the q6_state calls suspended in a handler, outermost first
  polled,        \* the TCP descriptors in the running q6_state's poll_fd array
  should_close,  \* set by the signal handler
  start, end,    \* hash_range_start, hash_range_end
  successor,     \* successor_ip_address and successor_port
  predecessor,   \* TRUE unless predecessor_ip_address is INADDR_NONE
  sockfd_b,      \* the socket to the successor
  sockfd_d,      \* the socket from the predecessor
  queue,         \* PDUs read and not yet handled
  stalled,       \* the read buffers ("B", "D") whose head no longer parses
  hash_table,    \* the keys stored
  conn,          \* the TCP connections
  backlog,       \* connections not yet accepted by each listener
  udp,           \* datagrams not yet received by each node
  requests       \* client requests not yet sent

ctl   == <<pc, stack, polled>>
ring  == <<start, end, successor, predecessor>>
socks == <<sockfd_b, sockfd_d>>
net   == <<conn, backlog>>
inbox == <<queue, udp>>
vars  == <<ctl, should_close, ring, socks, inbox, stalled, hash_table, net, requests>>
-----------------------------------------------------------------------------
(* PDUs.  A garbled PDU is what is left of one whose first byte is gone. *)

JoinPdu(src, max, span) == [type |-> "NET_JOIN", src |-> src, max |-> max, span |-> span]
JoinResponse(next, lo, hi) == [type |-> "NET_JOIN_RESPONSE", next |-> next, lo |-> lo, hi |-> hi]
NewRange(lo, hi) == [type |-> "NET_NEW_RANGE", lo |-> lo, hi |-> hi]
NewRangeResponse == [type |-> "NET_NEW_RANGE_RESPONSE"]
Leaving(new) == [type |-> "NET_LEAVING", new |-> new]
Close == [type |-> "NET_CLOSE_CONNECTION"]
Garbage == [type |-> "GARBAGE"]
Insert(k) == [type |-> "VAL_INSERT", ssn |-> k]

ValPdu == [type : {"VAL_INSERT", "VAL_REMOVE", "VAL_LOOKUP"}, ssn : Key]

Pdu ==
  [type : {"NET_JOIN"}, src : Node, max : Node \cup {None}, span : Hash]
    \cup [type : {"NET_JOIN_RESPONSE"}, next : Node \cup {None}, lo : Hash, hi : Hash]
    \cup [type : {"NET_NEW_RANGE"}, lo : Hash, hi : Hash]
    \cup [type : {"NET_LEAVING"}, new : Node \cup {None}]
    \cup {NewRangeResponse, Close, Garbage}
    \cup ValPdu

(* The PDUs of a transfer; the keys come in the order of a table walk. *)
Inserts(s) == [i \in DOMAIN s |-> Insert(s[i])]
-----------------------------------------------------------------------------
(* TCP.  up is the data on its way to the accepting end (the successor's   *)
(* sockfd_d), down the data on its way to the connecting end (sockfd_b).   *)
(* cli and srv say which ends are open, rst that a reset was sent to the   *)
(* remaining one.                                                          *)

Conn == 1 .. MaxConn
NoConn == 0
Fd == {5, 6}   \* 0-2 are stdio, 3 is sockfd_a, 4 the listener
NoFd == -1

Sock == [fd : Fd \cup {NoFd}, conn : Conn \cup {NoConn}]
NoSock == [fd |-> NoFd, conn |-> NoConn]
Fds(b, d) == {b.fd, d.fd} \ {NoFd}

(* socket and accept return the lowest free descriptor. *)
LowestFd(other) == IF other.fd = 5 THEN 6 ELSE 5

FreeConn == [cli |-> FALSE, srv |-> FALSE, up |-> <<>>, down |-> <<>>, rst |-> FALSE]
ConnRecord ==
  [cli : BOOLEAN, srv : BOOLEAN, up : Seq(Pdu), down : Seq(Pdu), rst : BOOLEAN]

IsFree(cs, c) == ~cs[c].cli /\ ~cs[c].srv

(* An end that closes with data unread resets the other. *)
Closed(r, cli, srv) ==
  LET open == [cli |-> r.cli /\ ~cli, srv |-> r.srv /\ ~srv]
  IN  IF ~open.cli /\ ~open.srv
        THEN FreeConn
        ELSE [cli  |-> open.cli, srv |-> open.srv,
              up   |-> IF open.srv THEN r.up ELSE <<>>,
              down |-> IF open.cli THEN r.down ELSE <<>>,
              rst  |-> r.rst \/ (cli /\ r.down # <<>>) \/ (srv /\ r.up # <<>>)]

Shut(cs, side, s) ==
  IF s.conn = NoConn THEN cs ELSE [cs EXCEPT ![s.conn] = Closed(@, side = "B", side = "D")]

Inbound(cs, side, s) ==
  IF s.conn = NoConn THEN <<>> ELSE IF side = "B" THEN cs[s.conn].down ELSE cs[s.conn].up
PeerClosed(cs, side, s) ==
  s.conn # NoConn /\ ~(IF side = "B" THEN cs[s.conn].srv ELSE cs[s.conn].cli)
SetInbound(cs, side, s, data) ==
  IF side = "B" THEN [cs EXCEPT ![s.conn].down = data] ELSE [cs EXCEPT ![s.conn].up = data]

(* send on a closed descriptor fails; on a socket that never connected it  *)
(* raises SIGPIPE, which nothing handles.  The first send after the peer   *)
(* closed is lost and answered by a reset; a later one may be lost, fail   *)
(* or raise SIGPIPE.                                                       *)
SendOutcomes(cs, side, s) ==
  IF s.fd = NoFd THEN {"fail"}
  ELSE IF s.conn = NoConn THEN {"kill"}
  ELSE IF PeerClosed(cs, side, s) /\ cs[s.conn].rst THEN {"ok", "fail", "kill"}
  ELSE {"ok"}

Sent(cs, side, s, pdus) ==
  IF s.conn = NoConn THEN cs
  ELSE IF PeerClosed(cs, side, s) THEN [cs EXCEPT ![s.conn].rst = TRUE]
  ELSE IF side = "B" THEN [cs EXCEPT ![s.conn].up = @ \o pdus]
  ELSE [cs EXCEPT ![s.conn].down = @ \o pdus]
-----------------------------------------------------------------------------
(* Processes. *)

Control == {"off", "q7_accept", "q7_recv", "q6", "drain",
            "q5_accept", "q17_accept", "q11_recv", "exited"}

Listening(n) == pc[n] \notin {"off", "exited"}
Serving(n) == pc[n] \notin {"off", "q7_accept", "q7_recv", "exited"}
Reachable(a) == a # None /\ Listening(a)
Alone(n) == ~predecessor[n] /\ successor[n] = None
SockOf(n, side) == IF side = "B" THEN sockfd_b[n] ELSE sockfd_d[n]
SpanOf(n) == Span(start[n], end[n])

Goto(n, label) == pc' = [pc EXCEPT ![n] = label]

(* exit, a fatal signal, or a return to main: the kernel closes every      *)
(* socket of n; cs are the connections at that time.                       *)
Exit(n, cs) ==
  /\ Goto(n, "exited")
  /\ conn' = [c \in Conn |-> Closed(cs[c], c = sockfd_b[n].conn,
                                    c = sockfd_d[n].conn \/ \E i \in DOMAIN backlog[n] : c = backlog[n][i])]
  /\ backlog' = [backlog EXCEPT ![n] = <<>>]
  /\ queue' = [queue EXCEPT ![n] = <<>>]
  /\ udp' = [udp EXCEPT ![n] = {}]
  /\ stack' = [stack EXCEPT ![n] = <<>>]
  /\ polled' = [polled EXCEPT ![n] = {}]
  /\ stalled' = [stalled EXCEPT ![n] = {}]
  /\ start' = [start EXCEPT ![n] = 0]
  /\ end' = [end EXCEPT ![n] = 0]
  /\ successor' = [successor EXCEPT ![n] = None]
  /\ predecessor' = [predecessor EXCEPT ![n] = FALSE]
  /\ sockfd_b' = [sockfd_b EXCEPT ![n] = NoSock]
  /\ sockfd_d' = [sockfd_d EXCEPT ![n] = NoSock]
  /\ hash_table' = [hash_table EXCEPT ![n] = {}]
  /\ UNCHANGED <<should_close, requests>>

(* connect of n's new sockfd_b to a listening process; the first pdus of   *)
(* the handler are sent on it at once.                                     *)
Connect(n, to, cs, pdus) ==
  \E c \in Conn :
    /\ IsFree(cs, c) /\ \A d \in 1 .. c - 1 : ~IsFree(cs, d)
    /\ conn' = [cs EXCEPT ![c] = [cli |-> TRUE, srv |-> TRUE, up |-> pdus,
                                  down |-> <<>>, rst |-> FALSE]]
    /\ backlog' = [backlog EXCEPT ![to] = Append(@, c)]
    /\ sockfd_b' = [sockfd_b EXCEPT ![n] = [fd |-> LowestFd(sockfd_d[n]), conn |-> c]]

(* connect to a process that is gone: the descriptor stays in sockfd_b. *)
ConnectRefused(n, cs) ==
  /\ conn' = cs
  /\ sockfd_b' = [sockfd_b EXCEPT ![n] = [fd |-> LowestFd(sockfd_d[n]), conn |-> NoConn]]
  /\ UNCHANGED backlog

(* The PDU a node handles next: a datagram ("udp") or the head of its      *)
(* queue ("tcp").                                                          *)
NextPdu(n, kind, m) ==
  \/ kind = "udp" /\ pc[n] = "q6" /\ m \in udp[n]
  \/ kind = "tcp" /\ pc[n] = "drain" /\ queue[n] # <<>> /\ m = Head(queue[n])

Taken(n, kind, m) ==
  IF kind = "udp"
    THEN udp' = [udp EXCEPT ![n] = @ \ {m}] /\ UNCHANGED queue
    ELSE queue' = [queue EXCEPT ![n] = Tail(@)] /\ UNCHANGED udp

After(kind) == IF kind = "udp" THEN "q6" ELSE "drain"

(* A handler returns to the q6_state that called it ... *)
Return(n, kind) == Goto(n, After(kind)) /\ UNCHANGED <<stack, polled>>

(* ... or suspends it, *)
Suspend(n, kind) ==
  /\ Len(stack[n]) < MaxDepth
  /\ stack' = [stack EXCEPT ![n] = Append(@, [kind |-> kind, polled |-> polled[n]])]

(* and calls q6_state again, which builds a new poll_fd array. *)
Nested(n, kind, b, d) ==
  /\ Suspend(n, kind)
  /\ Goto(n, "q6")
  /\ polled' = [polled EXCEPT ![n] = Fds(b, d)]

(* q6_state returns 0 after q10_state came back: to the handler that       *)
(* called it, or to main, which ends the process.                          *)
LeaveLoop(n, cs, table) ==
  IF stack[n] = <<>>
    THEN Exit(n, cs)
    ELSE LET frame == Last(stack[n])
         IN  /\ Goto(n, After(frame.kind))
             /\ polled' = [polled EXCEPT ![n] = frame.polled]
             /\ stack' = [stack EXCEPT ![n] = Front(@)]
             /\ conn' = cs
             /\ hash_table' = [hash_table EXCEPT ![n] = table]
             /\ UNCHANGED <<ring, socks, inbox, stalled, backlog, should_close, requests>>
-----------------------------------------------------------------------------
(* When the environment may start a node or interrupt one. *)

Quiet(n) ==
  /\ pc[n] \in {"off", "exited", "q6"}
  /\ pc[n] = "q6" => ~should_close[n]
  /\ queue[n] = <<>> /\ udp[n] = {} /\ backlog[n] = <<>>

(* No PDU is in flight, no close is unnoticed, no node is busy. *)
Settled ==
  /\ \A n \in Node : Quiet(n)
  /\ \A c \in Conn : conn[c].cli = conn[c].srv /\ conn[c].up = <<>> /\ conn[c].down = <<>>

Joining(n) == pc[n] \in {"q7_accept", "q7_recv"}

(* In the "settled" networks the environment does one thing at a time, in  *)
(* "one_join" it starts one node at a time, in "free" it is not restricted. *)
MayJoin == \/ Reconfig = "free"
           \/ Reconfig = "one_join" /\ \A n \in Node : ~Joining(n)
           \/ Settled
MayLeave == Reconfig # "settled" \/ Settled
MaySend == Reconfig # "settled" \/ Settled
-----------------------------------------------------------------------------
(* Start and join: q3 (the tracker's answer), q4, q7, q8. *)

(* Mutant: q4_state counts the hashes, 256, instead of naming the last one. *)
StartFirstCounting(n) ==
  /\ pc[n] = "off" /\ \A m \in Node : ~Listening(m)
  /\ Goto(n, "q6")
  /\ end' = [end EXCEPT ![n] = MaxHash + 1]
  /\ UNCHANGED <<stack, polled, should_close, start, successor, predecessor, socks, inbox,
                 stalled, hash_table, net, requests>>

(* The tracker knows no node: q4_state. *)
StartFirst(n) ==
  /\ pc[n] = "off"
  /\ \A m \in Node : ~Listening(m)
  /\ Goto(n, "q6")
  /\ start' = [start EXCEPT ![n] = 0]
  /\ end' = [end EXCEPT ![n] = MaxHash]
  /\ UNCHANGED <<stack, polled, should_close, successor, predecessor, socks, inbox,
                 stalled, hash_table, net, requests>>

(* The tracker answers with node e: q7_state sends it NET_JOIN and blocks  *)
(* in accept.                                                              *)
StartJoin(n, e) ==
  /\ pc[n] = "off" /\ Serving(e) /\ MayJoin
  /\ Goto(n, "q7_accept")
  /\ udp' = [udp EXCEPT ![e] = @ \cup {JoinPdu(n, None, 0)}]
  /\ UNCHANGED <<stack, polled, should_close, ring, socks, queue, stalled,
                 hash_table, net, requests>>

JoinAccept(n) ==
  /\ pc[n] = "q7_accept" /\ backlog[n] # <<>>
  /\ Goto(n, "q7_recv")
  /\ sockfd_d' = [sockfd_d EXCEPT ![n] = [fd |-> LowestFd(NoSock), conn |-> Head(backlog[n])]]
  /\ predecessor' = [predecessor EXCEPT ![n] = TRUE]
  /\ backlog' = [backlog EXCEPT ![n] = Tail(@)]
  /\ UNCHANGED <<stack, polled, should_close, start, end, successor, sockfd_b, inbox,
                 stalled, hash_table, conn, requests>>

(* q7_state's recv asks for sizeof(struct NET_JOIN_RESPONSE_PDU) = 12      *)
(* bytes and the PDU has 9: what already arrived behind it loses up to     *)
(* three bytes, and q7_state never looks at them.                          *)
AfterOverRead(rest) ==
  {rest} \cup IF rest = <<>> THEN {}
              ELSE IF Head(rest).type \in {"NET_CLOSE_CONNECTION", "NET_NEW_RANGE"} THEN {Tail(rest)}
              ELSE {<<Garbage>> \o Tail(rest)}

(* q7_state takes over the range in the response, and q8_state connects to *)
(* the successor it names.  If that node is gone the process ends.         *)
(* q7_state does not look at the type of what it reads; JoinResponseFirst  *)
(* says that the response always is what comes first.                      *)
JoinRecv(n) ==
  LET data == Inbound(conn, "D", sockfd_d[n])
      m    == Head(data)
  IN  /\ pc[n] = "q7_recv" /\ data # <<>> /\ m.type = "NET_JOIN_RESPONSE"
      /\ \E rest \in AfterOverRead(Tail(data)) :
           LET cs == SetInbound(conn, "D", sockfd_d[n], rest)
           IN  \/ /\ Reachable(m.next)
                  /\ Goto(n, "q6")
                  /\ start' = [start EXCEPT ![n] = m.lo]
                  /\ end' = [end EXCEPT ![n] = m.hi]
                  /\ successor' = [successor EXCEPT ![n] = m.next]
                  /\ Connect(n, m.next, cs, <<>>)
                  /\ polled' = [polled EXCEPT ![n] = Fds(sockfd_b'[n], sockfd_d[n])]
                  /\ UNCHANGED <<stack, should_close, predecessor, sockfd_d, inbox,
                                 stalled, hash_table, requests>>
               \/ ~Reachable(m.next) /\ Exit(n, cs)
-----------------------------------------------------------------------------
(* The handlers of NET_JOIN: q12_state chooses among q5, q13 and q14. *)

UpperBelowEnd(n) ==   \* mutant
  {k \in hash_table[n] : InRange(hash_ssn[k], UpperStart(start[n], end[n]), end[n] - 1)}
Upper(n) ==
  {k \in hash_table[n] : InRange(hash_ssn[k], UpperStart(start[n], end[n]), end[n])}

(* What the prospect is sent: its range and the node to connect to, then   *)
(* the entries s that go with the range.                                   *)
GrantPdusEntriesFirst(n, next, s) ==   \* mutant
  Inserts(s) \o <<JoinResponse(next, UpperStart(start[n], end[n]), end[n])>>
GrantPdusOverlapping(n, next, s) ==    \* mutant
  <<JoinResponse(next, Mid(start[n], end[n]), end[n])>> \o Inserts(s)
GrantPdus(n, next, s) ==
  <<JoinResponse(next, UpperStart(start[n], end[n]), end[n])>> \o Inserts(s)

KeptAll(n) == hash_table[n]            \* mutant
Kept(n) == hash_table[n] \ Upper(n)

(* split_range, the NET_JOIN_RESPONSE and transfer_upper_half on the new   *)
(* connection to the prospect.                                             *)
GrantUpperHalf(n, to, next, cs) ==
  /\ end' = [end EXCEPT ![n] = Mid(start[n], end[n])]
  /\ \E s \in SetToSeqs(Upper(n)) : Connect(n, to, cs, GrantPdus(n, next, s))
  /\ hash_table' = [hash_table EXCEPT ![n] = Kept(n)]

(* A node alone in the network gives the prospect the upper half and waits *)
(* for the connection that closes the ring.                                *)
Q5(n, kind, m) ==
  /\ NextPdu(n, kind, m) /\ m.type = "NET_JOIN" /\ Alone(n) /\ Listening(m.src)
  /\ GrantUpperHalf(n, m.src, n, conn)
  /\ successor' = [successor EXCEPT ![n] = m.src]
  /\ Suspend(n, kind) /\ Goto(n, "q5_accept")
  /\ Taken(n, kind, m)
  /\ UNCHANGED <<polled, should_close, start, predecessor, sockfd_d, stalled, requests>>

(* connect fails after successor and range were changed. *)
Q5Refused(n, kind, m) ==
  /\ NextPdu(n, kind, m) /\ m.type = "NET_JOIN" /\ Alone(n) /\ ~Listening(m.src)
  /\ end' = [end EXCEPT ![n] = Mid(start[n], end[n])]
  /\ successor' = [successor EXCEPT ![n] = m.src]
  /\ ConnectRefused(n, conn)
  /\ Return(n, kind) /\ Taken(n, kind, m)
  /\ UNCHANGED <<should_close, start, predecessor, sockfd_d, stalled, hash_table, requests>>

(* Mutant: back to the poll loop that was running before there was a ring. *)
Q5AcceptReturning(n) ==
  /\ pc[n] = "q5_accept" /\ backlog[n] # <<>>
  /\ sockfd_d' = [sockfd_d EXCEPT ![n] = [fd |-> LowestFd(sockfd_b[n]), conn |-> Head(backlog[n])]]
  /\ predecessor' = [predecessor EXCEPT ![n] = TRUE]
  /\ backlog' = [backlog EXCEPT ![n] = Tail(@)]
  /\ Goto(n, After(Last(stack[n]).kind)) /\ stack' = [stack EXCEPT ![n] = Front(@)]
  /\ UNCHANGED <<polled, should_close, start, end, successor, sockfd_b, inbox,
                 stalled, hash_table, conn, requests>>

Q5Accept(n) ==
  LET d == [fd |-> LowestFd(sockfd_b[n]), conn |-> Head(backlog[n])]
  IN  /\ pc[n] = "q5_accept" /\ backlog[n] # <<>>
      /\ sockfd_d' = [sockfd_d EXCEPT ![n] = d]
      /\ predecessor' = [predecessor EXCEPT ![n] = TRUE]
      /\ backlog' = [backlog EXCEPT ![n] = Tail(@)]
      /\ polled' = [polled EXCEPT ![n] = Fds(sockfd_b[n], d)]
      /\ Goto(n, "q6")
      /\ UNCHANGED <<stack, should_close, start, end, successor, sockfd_b, inbox,
                     stalled, hash_table, conn, requests>>

(* The node the join chose as the one with the widest range: it closes the *)
(* connection to its successor and inserts the prospect in between.        *)
Q13(n, kind, m) ==
  LET cs == Shut(Sent(conn, "B", sockfd_b[n], <<Close>>), "B", sockfd_b[n])
  IN  /\ NextPdu(n, kind, m) /\ m.type = "NET_JOIN" /\ ~Alone(n) /\ m.max = n
      /\ "ok" \in SendOutcomes(conn, "B", sockfd_b[n]) /\ Listening(m.src)
      /\ GrantUpperHalf(n, m.src, successor[n], cs)
      /\ successor' = [successor EXCEPT ![n] = m.src]
      /\ Nested(n, kind, sockfd_b'[n], sockfd_d[n])
      /\ Taken(n, kind, m)
      /\ UNCHANGED <<should_close, start, predecessor, sockfd_d, stalled, requests>>

Q13Refused(n, kind, m) ==
  /\ NextPdu(n, kind, m) /\ m.type = "NET_JOIN" /\ ~Alone(n) /\ m.max = n
  /\ "ok" \in SendOutcomes(conn, "B", sockfd_b[n]) /\ ~Listening(m.src)
  /\ ConnectRefused(n, Shut(Sent(conn, "B", sockfd_b[n], <<Close>>), "B", sockfd_b[n]))
  /\ Return(n, kind) /\ Taken(n, kind, m)
  /\ UNCHANGED <<should_close, ring, sockfd_d, stalled, hash_table, requests>>

WithLastWidest(n, m) ==   \* mutant
  IF SpanOf(n) >= m.span THEN [m EXCEPT !.max = n, !.span = SpanOf(n)] ELSE m
WithWidest(n, m) ==
  IF SpanOf(n) > m.span THEN [m EXCEPT !.max = n, !.span = SpanOf(n)] ELSE m

(* Every other node forwards it, having put itself in if it is wider. *)
Q14(n, kind, m) ==
  /\ NextPdu(n, kind, m) /\ m.type = "NET_JOIN" /\ ~Alone(n) /\ m.max # n
  /\ "ok" \in SendOutcomes(conn, "B", sockfd_b[n])
  /\ conn' = Sent(conn, "B", sockfd_b[n], <<WithWidest(n, m)>>)
  /\ Nested(n, kind, sockfd_b[n], sockfd_d[n])
  /\ Taken(n, kind, m)
  /\ UNCHANGED <<should_close, ring, socks, stalled, hash_table, backlog, requests>>
-----------------------------------------------------------------------------
(* The handlers of the other PDUs. *)

(* NET_NEW_RANGE, q15_state: take over the range of a leaving neighbour and *)
(* answer it.  The successor is recognised by the range following one's     *)
(* own; any other sender is taken for the predecessor.                      *)
AnswerDown(n, m) == "D"   \* mutant
AnswerSide(n, m) == IF FollowsRange(end[n], m.lo) THEN "B" ELSE "D"

Q15(n, kind, m) ==
  LET side == AnswerSide(n, m)
      lo   == IF side = "B" THEN start[n] ELSE m.lo
      hi   == IF side = "B" THEN m.hi ELSE end[n]
  IN  /\ NextPdu(n, kind, m) /\ m.type = "NET_NEW_RANGE"
      /\ SendOutcomes(conn, side, SockOf(n, side)) # {"kill"}
      /\ IF ValidRange(lo, hi)
           THEN start' = [start EXCEPT ![n] = lo] /\ end' = [end EXCEPT ![n] = hi]
           ELSE UNCHANGED <<start, end>>
      /\ conn' = Sent(conn, side, SockOf(n, side), <<NewRangeResponse>>)
      /\ Return(n, kind) /\ Taken(n, kind, m)
      /\ UNCHANGED <<should_close, successor, predecessor, socks, stalled,
                     hash_table, backlog, requests>>

(* NET_LEAVING, q16_state: close the connection to the leaving successor,   *)
(* then either be alone or connect to the successor it names.               *)
Q16Alone(n, kind, m) ==
  /\ NextPdu(n, kind, m) /\ m.type = "NET_LEAVING" /\ m.new = n
  /\ conn' = Shut(conn, "B", sockfd_b[n])
  /\ sockfd_b' = [sockfd_b EXCEPT ![n] = NoSock]
  /\ successor' = [successor EXCEPT ![n] = None]
  /\ Return(n, kind) /\ Taken(n, kind, m)
  /\ UNCHANGED <<should_close, start, end, predecessor, sockfd_d, stalled,
                 hash_table, backlog, requests>>

(* Mutant: the new connection is made, the old address kept. *)
Q16Forgetting(n, kind, m) ==
  /\ NextPdu(n, kind, m) /\ m.type = "NET_LEAVING" /\ m.new # n /\ Reachable(m.new)
  /\ Connect(n, m.new, Shut(conn, "B", sockfd_b[n]), <<>>)
  /\ Return(n, kind) /\ Taken(n, kind, m)
  /\ UNCHANGED <<should_close, ring, sockfd_d, stalled, hash_table, requests>>

Q16(n, kind, m) ==
  /\ NextPdu(n, kind, m) /\ m.type = "NET_LEAVING" /\ m.new # n /\ Reachable(m.new)
  /\ Connect(n, m.new, Shut(conn, "B", sockfd_b[n]), <<>>)
  /\ successor' = [successor EXCEPT ![n] = m.new]
  /\ Return(n, kind) /\ Taken(n, kind, m)
  /\ UNCHANGED <<should_close, start, end, predecessor, sockfd_d, stalled,
                 hash_table, requests>>

Q16Refused(n, kind, m) ==
  /\ NextPdu(n, kind, m) /\ m.type = "NET_LEAVING" /\ m.new # n /\ ~Reachable(m.new)
  /\ conn' = Shut(conn, "B", sockfd_b[n])
  /\ sockfd_b' = [sockfd_b EXCEPT ![n] = NoSock]
  /\ Return(n, kind) /\ Taken(n, kind, m)
  /\ UNCHANGED <<should_close, ring, sockfd_d, stalled, hash_table, backlog, requests>>

(* NET_CLOSE_CONNECTION, q17_state: drop the predecessor; unless the range  *)
(* is the whole hash space, wait for the next one.                          *)
Q17(n, kind, m) ==
  /\ NextPdu(n, kind, m) /\ m.type = "NET_CLOSE_CONNECTION"
  /\ predecessor' = [predecessor EXCEPT ![n] = @ /\ sockfd_d[n].fd = NoFd]
  /\ conn' = Shut(conn, "D", sockfd_d[n])
  /\ sockfd_d' = [sockfd_d EXCEPT ![n] = NoSock]
  /\ IF start[n] = 0 /\ end[n] = MaxHash
       THEN Nested(n, kind, sockfd_b[n], NoSock)
       ELSE Goto(n, "q17_accept") /\ UNCHANGED <<stack, polled>>
  /\ Taken(n, kind, m)
  /\ UNCHANGED <<should_close, start, end, successor, sockfd_b, stalled,
                 hash_table, backlog, requests>>

Q17Accept(n) ==
  /\ pc[n] = "q17_accept" /\ backlog[n] # <<>>
  /\ sockfd_d' = [sockfd_d EXCEPT ![n] = [fd |-> LowestFd(sockfd_b[n]), conn |-> Head(backlog[n])]]
  /\ predecessor' = [predecessor EXCEPT ![n] = TRUE]
  /\ backlog' = [backlog EXCEPT ![n] = Tail(@)]
  /\ Goto(n, "drain")
  /\ UNCHANGED <<stack, polled, should_close, start, end, successor, sockfd_b, inbox,
                 stalled, hash_table, conn, requests>>

(* A value PDU, q9_state: serve it if the hash is in range, ... *)
Owns(n, k) == InRange(hash_ssn[k], start[n], end[n])

Q9Serve(n, kind, m) ==
  /\ NextPdu(n, kind, m) /\ m \in ValPdu /\ Owns(n, m.ssn)
  /\ hash_table' = [hash_table EXCEPT ![n] =
                      CASE m.type = "VAL_INSERT" -> @ \cup {m.ssn}
                        [] m.type = "VAL_REMOVE" -> @ \ {m.ssn}
                        [] m.type = "VAL_LOOKUP" -> @]
  /\ Return(n, kind) /\ Taken(n, kind, m)
  /\ UNCHANGED <<should_close, ring, socks, stalled, net, requests>>

(* ... and forward it to the successor otherwise. *)
Q9Forward(n, kind, m) ==
  /\ NextPdu(n, kind, m) /\ m \in ValPdu /\ ~Owns(n, m.ssn)
  /\ "ok" \in SendOutcomes(conn, "B", sockfd_b[n])
  /\ conn' = Sent(conn, "B", sockfd_b[n], <<m>>)
  /\ Return(n, kind) /\ Taken(n, kind, m)
  /\ UNCHANGED <<should_close, ring, socks, stalled, hash_table, backlog, requests>>

(* The PDUs whose handler begins by sending on sockfd_b. *)
SendsOnB(n, m) ==
  \/ m.type = "NET_JOIN" /\ ~Alone(n)
  \/ m \in ValPdu /\ ~Owns(n, m.ssn)

(* send returns -1: the handler returns and the PDU is gone. *)
SendFailed(n, kind, m) ==
  /\ NextPdu(n, kind, m) /\ SendsOnB(n, m)
  /\ "fail" \in SendOutcomes(conn, "B", sockfd_b[n])
  /\ Return(n, kind) /\ Taken(n, kind, m)
  /\ UNCHANGED <<should_close, ring, socks, stalled, hash_table, net, requests>>

(* send raises SIGPIPE. *)
SendKilled(n, kind, m) ==
  /\ NextPdu(n, kind, m)
  /\ \/ SendsOnB(n, m) /\ "kill" \in SendOutcomes(conn, "B", sockfd_b[n])
     \/ /\ m.type = "NET_NEW_RANGE"
        /\ "kill" \in SendOutcomes(conn, AnswerSide(n, m), SockOf(n, AnswerSide(n, m)))
  /\ Exit(n, conn)

(* manage_pdu has no case for these. *)
Ignore(n, kind, m) ==
  /\ NextPdu(n, kind, m) /\ m.type \in {"NET_JOIN_RESPONSE", "NET_NEW_RANGE_RESPONSE"}
  /\ Return(n, kind) /\ Taken(n, kind, m)
  /\ UNCHANGED <<should_close, ring, socks, stalled, hash_table, net, requests>>

HandlePdu(n) ==
  \E kind \in {"udp", "tcp"}, m \in udp[n] \cup (IF queue[n] = <<>> THEN {} ELSE {Head(queue[n])}) :
    \/ Q5(n, kind, m) \/ Q5Refused(n, kind, m)
    \/ Q13(n, kind, m) \/ Q13Refused(n, kind, m)
    \/ Q14(n, kind, m)
    \/ Q15(n, kind, m)
    \/ Q16(n, kind, m) \/ Q16Alone(n, kind, m) \/ Q16Refused(n, kind, m)
    \/ Q17(n, kind, m)
    \/ Q9Serve(n, kind, m) \/ Q9Forward(n, kind, m)
    \/ SendFailed(n, kind, m) \/ SendKilled(n, kind, m) \/ Ignore(n, kind, m)
-----------------------------------------------------------------------------
(* The loop of q6_state: what poll reports on a neighbour's socket. *)

(* How many PDUs of data parse: those before the first garbled one. *)
Readable(data) ==
  Cardinality({i \in DOMAIN data : \A j \in 1 .. i : data[j] # Garbage})

(* q6_state reads what has arrived, the first i PDUs, and if it sees the    *)
(* end of the stream closes the socket; only then it parses what it read    *)
(* into the queue and starts to handle it.                                  *)
ReadSocket(n, side, i, eof) ==
  LET s    == SockOf(n, side)
      data == Inbound(conn, side, s)
      good == IF side \in stalled[n] THEN 0 ELSE Readable(SubSeq(data, 1, i))
      rest == SetInbound(conn, side, s, SubSeq(data, i + 1, Len(data)))
  IN  /\ pc[n] = "q6" /\ s.fd \in polled[n] /\ s.conn # NoConn
      /\ i > 0 \/ eof
      /\ eof => i = Len(data) /\ PeerClosed(conn, side, s)
      /\ queue' = [queue EXCEPT ![n] = @ \o SubSeq(data, 1, good)]
      /\ stalled' = [stalled EXCEPT ![n] = IF good < i THEN @ \cup {side} ELSE @]
      /\ conn' = IF eof THEN Shut(rest, side, s) ELSE rest
      /\ sockfd_b' = [sockfd_b EXCEPT ![n] = IF eof /\ side = "B" THEN NoSock ELSE @]
      /\ sockfd_d' = [sockfd_d EXCEPT ![n] = IF eof /\ side = "D" THEN NoSock ELSE @]
      /\ Goto(n, "drain")
      /\ UNCHANGED <<stack, polled, should_close, ring, udp, hash_table, backlog, requests>>

Read(n) ==
  \E side \in {"B", "D"}, eof \in BOOLEAN :
    \E i \in 0 .. Len(Inbound(conn, side, SockOf(n, side))) : ReadSocket(n, side, i, eof)

(* process_queue is done. *)
Drained(n) ==
  /\ pc[n] = "drain" /\ queue[n] = <<>>
  /\ Goto(n, "q6")
  /\ UNCHANGED <<stack, polled, should_close, ring, socks, inbox, stalled, hash_table, net, requests>>
-----------------------------------------------------------------------------
(* Leaving: q10, q11, q18. *)

LeaveDownOnly(n) == "D"   \* mutant
LeaveSide(n) == IF start[n] = 0 THEN "B" ELSE "D"

Q10(n) ==
  /\ pc[n] = "q6" /\ should_close[n] /\ successor[n] = None
  /\ Exit(n, conn)

(* Offer the range to the predecessor, or to the successor if it starts at  *)
(* 0, and block in recv.                                                    *)
Q11(n) ==
  LET side == LeaveSide(n)
  IN  /\ pc[n] = "q6" /\ should_close[n] /\ successor[n] # None
      /\ "ok" \in SendOutcomes(conn, side, SockOf(n, side))
      /\ conn' = Sent(conn, side, SockOf(n, side), <<NewRange(start[n], end[n])>>)
      /\ Goto(n, "q11_recv")
      /\ UNCHANGED <<stack, polled, should_close, ring, socks, inbox, stalled,
                     hash_table, backlog, requests>>

Q11SendFailed(n) ==
  /\ pc[n] = "q6" /\ should_close[n] /\ successor[n] # None
  /\ \/ /\ "fail" \in SendOutcomes(conn, LeaveSide(n), SockOf(n, LeaveSide(n)))
        /\ LeaveLoop(n, conn, hash_table[n])
     \/ /\ "kill" \in SendOutcomes(conn, LeaveSide(n), SockOf(n, LeaveSide(n)))
        /\ Exit(n, conn)

(* recv returns the first byte of whatever comes first, or 0 at the end of  *)
(* the stream: anything but NET_NEW_RANGE_RESPONSE ends the attempt.        *)
Q11Abort(n) ==
  LET side == LeaveSide(n)
      s    == SockOf(n, side)
      data == Inbound(conn, side, s)
      left == IF Head(data).type = "NET_CLOSE_CONNECTION" THEN Tail(data) ELSE <<Garbage>> \o Tail(data)
  IN  /\ pc[n] = "q11_recv"
      /\ \/ /\ data # <<>> /\ Head(data) # NewRangeResponse
            /\ LeaveLoop(n, SetInbound(conn, side, s, left), hash_table[n])
         \/ /\ data = <<>> /\ PeerClosed(conn, side, s)
            /\ LeaveLoop(n, conn, hash_table[n])

(* The results of sending pdus from connections cs: the connections after   *)
(* it and what send did.                                                    *)
SendResults(cs, side, s, pdus) ==
  {<<r, IF r = "ok" THEN Sent(cs, side, s, pdus) ELSE cs>> : r \in SendOutcomes(cs, side, s)}

(* transfer_all_entries, in any order of the table walk. *)
NoEntries(n) == {<<>>}   \* mutant
Entries(n) == {Inserts(s) : s \in SetToSeqs(hash_table[n])}

(* q18_state: hand over every entry, send NET_CLOSE_CONNECTION to the       *)
(* successor and NET_LEAVING to the predecessor, and exit.  A failed        *)
(* transfer is only reported, a failed PDU abandons the rest.               *)
Q18(n) ==
  LET side == LeaveSide(n)
      s    == SockOf(n, side)
      data == Inbound(conn, side, s)
  IN  /\ pc[n] = "q11_recv" /\ data # <<>> /\ Head(data) = NewRangeResponse
      /\ \E entries \in Entries(n) :
         \E t \in SendResults(SetInbound(conn, side, s, Tail(data)), side, s, entries) :
         \E c \in SendResults(t[2], "B", sockfd_b[n], <<Close>>) :
         \E l \in SendResults(c[2], "D", sockfd_d[n], <<Leaving(successor[n])>>) :
           IF t[1] = "kill" THEN Exit(n, t[2])
           ELSE IF c[1] = "kill" THEN Exit(n, c[2])
           ELSE IF c[1] = "fail" THEN LeaveLoop(n, c[2], {})
           ELSE IF l[1] = "fail" THEN LeaveLoop(n, l[2], {})
           ELSE Exit(n, l[2])
-----------------------------------------------------------------------------
(* The environment: clients and signals. *)

(* A client sends a value PDU to a node the tracker named. *)
ClientSend(n, r) ==
  /\ Serving(n) /\ r \in requests /\ MaySend
  /\ udp' = [udp EXCEPT ![n] = @ \cup {r}]
  /\ requests' = requests \ {r}
  /\ UNCHANGED <<ctl, should_close, ring, socks, queue, stalled, hash_table, net>>

MayInterrupt(n) ==
  n \in Leavers /\ Listening(n) /\ (should_close[n] => n \in Impatient) /\ MayLeave

(* signal_handler sets the flag; the blocking call, if any, has not begun. *)
Signal(n) ==
  /\ MayInterrupt(n) /\ ~should_close[n]
  /\ should_close' = [should_close EXCEPT ![n] = TRUE]
  /\ UNCHANGED <<ctl, ring, socks, inbox, stalled, hash_table, net, requests>>

(* The signal interrupts a blocking accept or recv: q7_state and, with it,  *)
(* the process end; q5_state and q17_state return to the loop; q11_state    *)
(* gives the leave up.                                                      *)
InterruptJoin(n) ==
  /\ MayInterrupt(n) /\ Joining(n)
  /\ Exit(n, conn)

InterruptAccept(n) ==
  LET frame == Last(stack[n])
  IN  /\ MayInterrupt(n) /\ pc[n] \in {"q5_accept", "q17_accept"}
      /\ should_close' = [should_close EXCEPT ![n] = TRUE]
      /\ IF pc[n] = "q5_accept"
           THEN Goto(n, After(frame.kind)) /\ stack' = [stack EXCEPT ![n] = Front(@)]
           ELSE Goto(n, "drain") /\ UNCHANGED stack
      /\ UNCHANGED <<polled, ring, socks, inbox, stalled, hash_table, net, requests>>

InterruptRecv(n) ==
  /\ MayInterrupt(n) /\ pc[n] = "q11_recv"
  /\ LeaveLoop(n, conn, hash_table[n])
-----------------------------------------------------------------------------
Init ==
  /\ pc = [n \in Node |-> "off"]
  /\ stack = [n \in Node |-> <<>>]
  /\ polled = [n \in Node |-> {}]
  /\ should_close = [n \in Node |-> FALSE]
  /\ start = [n \in Node |-> 0]
  /\ end = [n \in Node |-> 0]
  /\ successor = [n \in Node |-> None]
  /\ predecessor = [n \in Node |-> FALSE]
  /\ sockfd_b = [n \in Node |-> NoSock]
  /\ sockfd_d = [n \in Node |-> NoSock]
  /\ queue = [n \in Node |-> <<>>]
  /\ stalled = [n \in Node |-> {}]
  /\ hash_table = [n \in Node |-> {}]
  /\ conn = [c \in Conn |-> FreeConn]
  /\ backlog = [n \in Node |-> <<>>]
  /\ udp = [n \in Node |-> {}]
  /\ requests = Requests

Step(n) ==
  \/ JoinAccept(n) \/ JoinRecv(n)
  \/ Q5Accept(n) \/ Q17Accept(n)
  \/ HandlePdu(n) \/ Read(n) \/ Drained(n)
  \/ Q10(n) \/ Q11(n) \/ Q11SendFailed(n) \/ Q11Abort(n) \/ Q18(n)

Environment(n) ==
  \/ StartFirst(n) \/ (\E e \in Node : StartJoin(n, e))
  \/ (\E r \in requests : ClientSend(n, r))
  \/ Signal(n) \/ InterruptJoin(n) \/ InterruptAccept(n) \/ InterruptRecv(n)

Next == \E n \in Node : Step(n) \/ Environment(n)

Spec == Init /\ [][Next]_vars

(* A node is one thread that poll wakes whenever a socket is readable, and  *)
(* accept and recv return once there is a connection or data: a node that   *)
(* can take a step eventually does.  Clients, users and signals may not.    *)
Fairness == \A n \in Node : WF_vars(Step(n))
FairSpec == Spec /\ Fairness
-----------------------------------------------------------------------------
(* Types. *)

Frame == [kind : {"udp", "tcp"}, polled : SUBSET Fd]

(* Every variable has its type: in particular no PDU carries a bound that   *)
(* is not a hash, no descriptor refers to a connection that is not there,  *)
(* and q7_state takes its range from a NET_JOIN_RESPONSE.                  *)
TypeOK ==
  /\ pc \in [Node -> Control]
  /\ stack \in [Node -> Seq(Frame)]
  /\ polled \in [Node -> SUBSET Fd]
  /\ should_close \in [Node -> BOOLEAN]
  /\ start \in [Node -> Hash] /\ end \in [Node -> Hash]
  /\ successor \in [Node -> Node \cup {None}]
  /\ predecessor \in [Node -> BOOLEAN]
  /\ sockfd_b \in [Node -> Sock] /\ sockfd_d \in [Node -> Sock]
  /\ queue \in [Node -> Seq(Pdu)]
  /\ stalled \in [Node -> SUBSET {"B", "D"}]
  /\ hash_table \in [Node -> SUBSET Key]
  /\ conn \in [Conn -> ConnRecord]
  /\ backlog \in [Node -> Seq(Conn)]
  /\ udp \in [Node -> SUBSET Pdu]
  /\ requests \subseteq Requests
-----------------------------------------------------------------------------
(* Who owns which hashes. *)

(* The connection on which a joining node's range is on its way to it. *)
Grants(n) ==
  {c \in Conn : /\ Joining(n)
                /\ c = sockfd_d[n].conn \/ c \in ToSet(backlog[n])
                /\ conn[c].up # <<>> /\ Head(conn[c].up).type = "NET_JOIN_RESPONSE"}
Grant(n) == Head(conn[CHOOSE c \in Grants(n) : TRUE].up)

(* A leaving node's range is its heir's as soon as the heir has answered. *)
Released(n) ==
  LET data == Inbound(conn, LeaveSide(n), SockOf(n, LeaveSide(n)))
  IN  pc[n] = "q11_recv" /\ data # <<>> /\ Head(data) = NewRangeResponse

Member(n) == Grants(n) # {} \/ (Serving(n) /\ ~Released(n))

HR == INSTANCE HashRing WITH
        members <- {n \in Node : Member(n)},
        lo <- [n \in Node |-> IF ~Member(n) THEN 0 ELSE IF Joining(n) THEN Grant(n).lo ELSE start[n]],
        hi <- [n \in Node |-> IF ~Member(n) THEN 0 ELSE IF Joining(n) THEN Grant(n).hi ELSE end[n]]

(* The ring of nodes divides the hash space the way HashRing says: each    *)
(* step of q5/q13 that grants a range and each step of q15 that takes one  *)
(* over is one step of HashRing, and no other step changes who owns what.  *)
(* With HashRing's theorems, every hash has exactly one owner throughout.  *)
RingImplementsHashRing == HR!Spec

(* At rest the ring is closed: every node's successor owns the hashes that *)
(* follow its own and holds the other end of the connection, and a node    *)
(* that is the last has no connections and owns everything (q8, q13, q16   *)
(* and q17 together).                                                      *)
SettledRing ==
  LET members == {n \in Node : Serving(n)}
  IN  Settled => \A n \in members :
        IF members = {n}
          THEN /\ sockfd_b[n] = NoSock /\ sockfd_d[n] = NoSock
               /\ successor[n] = None /\ start[n] = 0 /\ end[n] = MaxHash
          ELSE /\ successor[n] \in members
               /\ start[successor[n]] = UInt8(end[n] + 1)
               /\ sockfd_b[n].conn # NoConn
               /\ sockfd_b[n].conn = sockfd_d[successor[n]].conn
               /\ predecessor[n]
-----------------------------------------------------------------------------
(* Values. *)

Positions(place, x, seq, m) == {<<place, x, i>> : i \in {j \in DOMAIN seq : seq[j] = m}}

(* Where copies of k are stored or on their way. *)
Places(k) ==
  {<<"hash_table", n, 1>> : n \in {m \in Node : k \in hash_table[m]}}
    \cup {<<"udp", n, 1>> : n \in {m \in Node : Insert(k) \in udp[m]}}
    \cup (UNION {Positions("queue", n, queue[n], Insert(k)) : n \in Node})
    \cup (UNION {Positions("up", c, conn[c].up, Insert(k)) : c \in Conn})
    \cup (UNION {Positions("down", c, conn[c].down, Insert(k)) : c \in Conn})
Copies(k) == Cardinality(Places(k))

(* No transfer, forward, failed send or aborted leave leaves a second copy *)
(* of a value behind: q9_state would answer from a stale one.              *)
AtMostOneCopy == \A k \in Key : Copies(k) <= 1

(* A node stores only values whose hash is in its range, although the      *)
(* range changes while values that belong to the old or the new range are  *)
(* queued or on their way: otherwise a lookup is forwarded past the node   *)
(* that has the value.                                                     *)
EntriesInRange == \A n \in Node : \A k \in hash_table[n] : Owns(n, k)

Removal(k) ==
  \E n \in Node, kind \in {"udp", "tcp"} : Q9Serve(n, kind, [type |-> "VAL_REMOVE", ssn |-> k])

(* The steps after which a copy of k is gone although nobody removed it    *)
(* and there still is a node.                                              *)
Loses(k) ==
  Copies(k)' < Copies(k) /\ ~Removal(k) /\ \E n \in Node : Serving(n)'

(* A value stays in the network until it is removed or the last node       *)
(* leaves, whatever nodes join and leave.                                  *)
NoValueLost == [][\A k \in Key : ~Loses(k)]_vars

(* n reads the insert of k from a stream whose head does not parse, into   *)
(* the buffer in which nothing behind that head is ever found.             *)
ReadsStalled(n, k) ==
  /\ pc[n] = "q6" /\ pc'[n] = "drain"
  /\ \E side \in stalled'[n] : Insert(k) \in ToSet(Inbound(conn, side, SockOf(n, side)))

(* Values are lost by joins only: those behind the NET_JOIN_RESPONSE when  *)
(* the joining node over-reads it (see AfterOverRead), those it holds if   *)
(* it ends before it is in the ring, and, however much later, those that   *)
(* arrive on the connection whose stream the over-read has cut.  No leave, *)
(* handover or closed connection loses one, and no forward on a stream     *)
(* that is whole.                                                          *)
LostOnlyByJoin ==
  [][\A k \in Key : Loses(k) =>
       \E n \in Node : (Joining(n) /\ pc'[n] # pc[n]) \/ ReadsStalled(n, k)]_vars
-----------------------------------------------------------------------------
(* Connections. *)

(* What q7_state reads first is its NET_JOIN_RESPONSE: no other node's     *)
(* connection (q8, q16) reaches a joining node before the granting one,    *)
(* and the response is never behind other data.                            *)
JoinResponseFirst ==
  \A n \in Node : pc[n] = "q7_recv" =>
    LET data == Inbound(conn, "D", sockfd_d[n])
    IN  data # <<>> /\ Head(data).type = "NET_JOIN_RESPONSE"

(* A node in poll watches every neighbour socket it has: poll_fd is filled *)
(* once per call of q6_state, while q5, q7, q13, q16 and q17 replace the   *)
(* sockets.                                                                *)
SocketsPolled ==
  \A n \in Node : pc[n] = "q6" => Fds(sockfd_b[n], sockfd_d[n]) \subseteq polled[n]
-----------------------------------------------------------------------------
(* Progress. *)

(* A node that asks to join is let in (or its process ends). *)
JoinCompletes == \A n \in Node : Joining(n) ~> pc[n] \in {"q6", "exited"}

(* A node that is told to stop hands over and exits: q11_state never waits *)
(* for ever for its neighbour's answer.                                    *)
LeaveCompletes == \A n \in Node : should_close[n] ~> pc[n] = "exited"
=============================================================================
