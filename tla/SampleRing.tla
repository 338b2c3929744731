----------------------------- MODULE SampleRing -----------------------------
(***************************************************************************)
(* The ring of sample nodes (node.rs), with their wrappers of the TCP and  *)
(* UDP sockets (socket_wrapper.rs).                                        *)
(*                                                                         *)
(* A sample node is one thread and a state.  In q6 it polls its sockets    *)
(* once, reads what each event announces and passes every PDU it read to   *)
(* handle_pdu, which serves value PDUs at once but of the others only      *)
(* remembers the last one; the state that one names runs after the pass.   *)
(* A step of a node handles one event or PDU of a pass, or runs from the   *)
(* end of a pass, or from a blocking call, to the next poll or blocking    *)
(* call.                                                                   *)
(***************************************************************************)
EXTENDS HashRange, SequencesExt

CONSTANTS
  Node,       \* the processes that may be started
  None,       \* the address of no node, and no PDU
  Key,        \* the social security numbers clients use
  hash_ssn,   \* hash_ssn[k] is the hash of key k
  Requests,   \* the value PDUs clients may send, each at most once
  MaxConn     \* bound on simultaneous TCP connections

ASSUME SampleAssumption ==
  /\ IsFiniteSet(Node) /\ None \notin Node
  /\ IsFiniteSet(Key) /\ hash_ssn \in [Key -> Hash]
  /\ Requests \subseteq [type : {"VAL_INSERT", "VAL_REMOVE", "VAL_LOOKUP"}, ssn : Key]
  /\ MaxConn \in Nat \ {0}

VARIABLES
  pc,                \* where each process is; in q6, the event being handled
  seen,              \* the events of this pass, so far
  state, last_pdu,   \* what runs after this pass
  should_close,      \* set by the signal handler
  hash_range,        \* <<min, max>>
  successor,         \* the connection to the successor
  successor_listen,  \* the address it was made to
  predecessor,       \* the connection from the predecessor
  incoming_queue,    \* PDUs the two TcpWrappers read and did not hand out
  values,            \* the keys stored, oldest first
  conn,              \* the TCP connections
  backlog,           \* connections not yet accepted by each listener
  udp,               \* datagrams not yet received by each node
  requests,          \* client requests not yet sent
  cause,             \* history: which panic ended a process
  dropped            \* history: the nodes that forgot a PDU of a pass

pass  == <<seen, state, last_pdu>>
links == <<successor, successor_listen, predecessor>>
net   == <<conn, backlog>>
rest  == <<should_close, requests>>
vars  == <<pc, pass, rest, hash_range, links, incoming_queue, values, net, udp, cause, dropped>>
-----------------------------------------------------------------------------
(* PDUs. *)

JoinPdu(src, max, span) == [type |-> "NET_JOIN", src |-> src, max |-> max, span |-> span]
JoinResponse(next, lo, hi) == [type |-> "NET_JOIN_RESPONSE", next |-> next, lo |-> lo, hi |-> hi]
NewRange(r) == [type |-> "NET_NEW_RANGE", lo |-> r[1], hi |-> r[2]]
NewRangeResponse == [type |-> "NET_NEW_RANGE_RESPONSE"]
Leaving(new) == [type |-> "NET_LEAVING", new |-> new]
Close == [type |-> "NET_CLOSE_CONNECTION"]
Insert(k) == [type |-> "VAL_INSERT", ssn |-> k]

ValPdu == [type : {"VAL_INSERT", "VAL_REMOVE", "VAL_LOOKUP"}, ssn : Key]
Pdu ==
  [type : {"NET_JOIN"}, src : Node, max : Node \cup {None}, span : Hash]
    \cup [type : {"NET_JOIN_RESPONSE"}, next : Node, lo : Hash, hi : Hash]
    \cup [type : {"NET_NEW_RANGE"}, lo : Hash, hi : Hash]
    \cup [type : {"NET_LEAVING"}, new : Node]
    \cup {NewRangeResponse, Close}
    \cup ValPdu
-----------------------------------------------------------------------------
(* TCP.  A connection is made by a node whose successor is the node to     *)
(* which it is made: up flows to the successor, down to the predecessor.   *)
(* cli and srv tell which ends are open, rst that the kernel has reset the *)
(* connection because data came to an end that was closed: its end that is *)
(* open can be read to the last PDU and then fails.                        *)

Conn == 1 .. MaxConn
NoConn == 0
Side == {"SUCCESSOR", "PREDECESSOR"}
FreeConn == [cli |-> FALSE, srv |-> FALSE, up |-> <<>>, down |-> <<>>, rst |-> FALSE]
ConnRecord == [cli : BOOLEAN, srv : BOOLEAN, up : Seq(Pdu), down : Seq(Pdu), rst : BOOLEAN]

IsFree(cs, c) == ~cs[c].cli /\ ~cs[c].srv
NewConn(cs) == CHOOSE c \in Conn : IsFree(cs, c) /\ \A d \in 1 .. c - 1 : ~IsFree(cs, d)

Sock(n, side) == IF side = "SUCCESSOR" THEN successor[n] ELSE predecessor[n]
Inbound(cs, side, c) == IF side = "SUCCESSOR" THEN cs[c].down ELSE cs[c].up
PeerClosed(cs, side, c) == ~(IF side = "SUCCESSOR" THEN cs[c].srv ELSE cs[c].cli)
SetInbound(cs, side, c, data) ==
  IF side = "SUCCESSOR" THEN [cs EXCEPT ![c].down = data] ELSE [cs EXCEPT ![c].up = data]

(* One or both ends close; an end that closes with data unread resets.     *)
Shut(r, cli, srv) ==
  LET open == [cli |-> r.cli /\ ~cli, srv |-> r.srv /\ ~srv]
  IN  IF ~open.cli /\ ~open.srv THEN FreeConn
      ELSE [cli  |-> open.cli, srv |-> open.srv,
            up   |-> IF open.srv THEN r.up ELSE <<>>,
            down |-> IF open.cli THEN r.down ELSE <<>>,
            rst  |-> r.rst \/ (cli /\ r.down # <<>>) \/ (srv /\ r.up # <<>>)]

ShutSide(cs, side, c) ==
  IF c = NoConn THEN cs
  ELSE [cs EXCEPT ![c] = Shut(@, side = "SUCCESSOR", side = "PREDECESSOR")]

(* On a connection that was reset, send, a read to its end and shutdown    *)
(* fail, and the node panics.                                              *)
Broken(cs, side, c) == PeerClosed(cs, side, c) /\ cs[c].rst
Sent(cs, side, c, pdus) ==
  IF PeerClosed(cs, side, c) THEN [cs EXCEPT ![c].rst = TRUE]
  ELSE IF side = "SUCCESSOR" THEN [cs EXCEPT ![c].up = @ \o pdus]
  ELSE [cs EXCEPT ![c].down = @ \o pdus]
-----------------------------------------------------------------------------
(* Processes. *)

Q6 == {"q6", "UDP"} \cup Side
Blocked == {"q5_accept", "q7_accept", "q8", "q11", "q17_accept"}
Ended == {"exited", "panicked"}
Running(n) == pc[n] \in Q6 \cup Blocked
Joining(n) == pc[n] \in {"q7_accept", "q8"}
Serving(n) == Running(n) /\ ~Joining(n)

Goto(n, label) == pc' = [pc EXCEPT ![n] = label]

(* A pass of q6 begins.  A last_pdu that no state took is overwritten      *)
(* before it is read.                                                      *)
Poll(n) ==
  /\ Goto(n, "q6")
  /\ seen' = [seen EXCEPT ![n] = {}]
  /\ state' = [state EXCEPT ![n] = "Q6"]
  /\ last_pdu' = [last_pdu EXCEPT ![n] = None]

Block(n, label) ==
  /\ Goto(n, label)
  /\ seen' = [seen EXCEPT ![n] = {}]
  /\ state' = [state EXCEPT ![n] = "Q6"]
  /\ last_pdu' = [last_pdu EXCEPT ![n] = None]

(* The process ends and the kernel closes its sockets. *)
End(n, label, cs) ==
  /\ Block(n, label)
  /\ conn' = [c \in Conn |-> Shut(cs[c], c = successor[n],
                                  c = predecessor[n] \/ c \in ToSet(backlog[n]))]
  /\ backlog' = [backlog EXCEPT ![n] = <<>>]
  /\ udp' = [udp EXCEPT ![n] = {}]
  /\ hash_range' = [hash_range EXCEPT ![n] = <<0, 0>>]
  /\ successor' = [successor EXCEPT ![n] = NoConn]
  /\ successor_listen' = [successor_listen EXCEPT ![n] = None]
  /\ predecessor' = [predecessor EXCEPT ![n] = NoConn]
  /\ incoming_queue' = [incoming_queue EXCEPT ![n] = [s \in Side |-> <<>>]]
  /\ values' = [values EXCEPT ![n] = <<>>]
  /\ UNCHANGED <<rest, dropped>>

Exit(n, cs) == End(n, "exited", cs) /\ UNCHANGED cause
PanicAfter(n, why, cs) == End(n, "panicked", cs) /\ cause' = [cause EXCEPT ![n] = why]
Panic(n, why) == PanicAfter(n, why, conn)

(* connect_to_successor: the connection waits in the listener's backlog;   *)
(* first is what the caller sends on it at once.                           *)
Connect(n, to, cs, first) ==
  /\ \E c \in Conn : IsFree(cs, c)
  /\ conn' = [cs EXCEPT ![NewConn(cs)] =
                [cli |-> TRUE, srv |-> TRUE, up |-> first, down |-> <<>>, rst |-> FALSE]]
  /\ backlog' = [backlog EXCEPT ![to] = Append(@, NewConn(cs))]
  /\ successor' = [successor EXCEPT ![n] = NewConn(cs)]
  /\ successor_listen' = [successor_listen EXCEPT ![n] = to]

(* accept_predecessor returns. *)
Accept(n) ==
  /\ backlog[n] # <<>>
  /\ predecessor' = [predecessor EXCEPT ![n] = Head(backlog[n])]
  /\ backlog' = [backlog EXCEPT ![n] = Tail(@)]
-----------------------------------------------------------------------------
(* When the environment acts: a node is started when no other is joining,  *)
(* values are sent at any time, both until the first node is told to leave *)
(* and after that, as SIGINT itself, only to a ring that has settled.      *)

Settled ==
  /\ \A n \in Node : /\ Running(n) => pc[n] = "q6" /\ seen[n] = {} /\ ~should_close[n]
                     /\ udp[n] = {} /\ backlog[n] = <<>>
  /\ \A c \in Conn : conn[c].cli = conn[c].srv /\ conn[c].up = <<>> /\ conn[c].down = <<>>

Undisturbed == Settled \/ \A n \in Node : ~should_close[n]

(* q1 to q4: the tracker knows no node. *)
StartFirst(n) ==
  /\ pc[n] = "off" /\ \A m \in Node : ~Running(m)
  /\ Poll(n)
  /\ hash_range' = [hash_range EXCEPT ![n] = <<0, MaxHash>>]
  /\ UNCHANGED <<rest, links, incoming_queue, values, net, udp, cause, dropped>>

(* q1 to q3 and q7: the tracker names e. *)
StartJoin(n, e) ==
  /\ pc[n] = "off" /\ Serving(e)
  /\ Undisturbed /\ \A m \in Node : ~Joining(m)
  /\ Block(n, "q7_accept")
  /\ udp' = [udp EXCEPT ![e] = @ \cup {JoinPdu(n, None, 0)}]
  /\ UNCHANGED <<rest, hash_range, links, incoming_queue, values, net, cause, dropped>>

ClientSend(n, r) ==
  /\ Serving(n) /\ r \in requests /\ Undisturbed
  /\ udp' = [udp EXCEPT ![n] = @ \cup {r}]
  /\ requests' = requests \ {r}
  /\ UNCHANGED <<pc, pass, should_close, hash_range, links, incoming_queue, values, net,
                 cause, dropped>>

Signal(n) ==
  /\ Running(n) /\ Settled
  /\ should_close' = [should_close EXCEPT ![n] = TRUE]
  /\ UNCHANGED <<pc, pass, requests, hash_range, links, incoming_queue, values, net, udp,
                 cause, dropped>>
-----------------------------------------------------------------------------
(* q6: the events of a pass. *)

Emptied(n) == pc[n] \in Side => incoming_queue[n][pc[n]] = <<>>
AtEvent(n, event) == pc[n] \in Q6 /\ Emptied(n) /\ event \notin seen[n]

(* try_read takes the first i PDUs that have arrived.  At the end of the   *)
(* stream q6 gives up a successor and keeps a predecessor; an end of the   *)
(* stream that is announced again is only of interest if PDUs are queued   *)
(* or if the connection has been reset.                                    *)
ReadEvent(n, side, i, eof) ==
  LET c    == Sock(n, side)
      data == Inbound(conn, side, c)
      left == SetInbound(conn, side, c, SubSeq(data, i + 1, Len(data)))
  IN  /\ AtEvent(n, side) /\ c # NoConn
      /\ i > 0 \/ eof
      /\ eof => /\ i = Len(data) /\ PeerClosed(conn, side, c)
                /\ \/ i > 0 \/ side = "SUCCESSOR" \/ conn[c].rst
                   \/ incoming_queue[n][side] # <<>>
      /\ IF eof /\ conn[c].rst THEN Panic(n, "read") ELSE
           /\ Goto(n, side)
           /\ seen' = [seen EXCEPT ![n] = @ \cup {side}]
           /\ incoming_queue' = [incoming_queue EXCEPT ![n][side] = @ \o SubSeq(data, 1, i)]
           /\ IF eof /\ side = "SUCCESSOR"
                THEN /\ conn' = ShutSide(left, side, c)
                     /\ successor' = [successor EXCEPT ![n] = NoConn]
                ELSE conn' = left /\ UNCHANGED successor
           /\ UNCHANGED <<state, last_pdu, rest, hash_range, successor_listen, predecessor,
                          values, backlog, udp, cause, dropped>>

Read(n) ==
  \E side \in Side, eof \in BOOLEAN :
    /\ Sock(n, side) # NoConn
    /\ \E i \in 0 .. Len(Inbound(conn, side, Sock(n, side))) : ReadEvent(n, side, i, eof)
-----------------------------------------------------------------------------
(* handle_pdu, and q9, which it calls for a value PDU. *)

InMyRange(n, k) == InRange(hash_ssn[k], hash_range[n][1], hash_range[n][2])
IsVal(m) == m.type \in {"VAL_INSERT", "VAL_REMOVE", "VAL_LOOKUP"}

(* The panic in which m ends, if it does. *)
PanicOf(n, m, from) ==
  IF m = Close /\ from # "PREDECESSOR" THEN "close"
  ELSE IF IsVal(m) /\ ~InMyRange(n, m.ssn) /\ successor[n] = NoConn THEN "successor"
  ELSE IF IsVal(m) /\ ~InMyRange(n, m.ssn) /\ Broken(conn, "SUCCESSOR", successor[n]) THEN "send"
  ELSE "none"

(* state and last_pdu are overwritten, whatever they held. *)
Next6(n, q, m) ==
  /\ state' = [state EXCEPT ![n] = q]
  /\ last_pdu' = [last_pdu EXCEPT ![n] = m]
  /\ dropped' = IF state[n] = "Q6" THEN dropped ELSE dropped \cup {n}

Control == {"NET_JOIN", "NET_NEW_RANGE", "NET_LEAVING", "NET_CLOSE_CONNECTION"}
StateFor(m) ==
  CASE m.type = "NET_JOIN" -> "Q12" [] m.type = "NET_NEW_RANGE" -> "Q15"
    [] m.type = "NET_LEAVING" -> "Q16" [] m.type = "NET_CLOSE_CONNECTION" -> "Q17"

(* A response that nobody awaits is passed over. *)
HandleControl(n, m) ==
  /\ ~IsVal(m)
  /\ IF m.type \in Control
       THEN Next6(n, StateFor(m), IF m = Close THEN last_pdu[n] ELSE m)
       ELSE UNCHANGED <<state, last_pdu, dropped>>
  /\ UNCHANGED <<values, conn>>

Q9(n, m) ==
  /\ IsVal(m) /\ Next6(n, "Q6", None)
  /\ IF InMyRange(n, m.ssn)
       THEN /\ values' = [values EXCEPT ![n] =
                 CASE m.type = "VAL_INSERT" -> Append(@, m.ssn)
                   [] m.type = "VAL_REMOVE" -> SelectSeq(@, LAMBDA k : k # m.ssn)
                   [] m.type = "VAL_LOOKUP" -> @]
            /\ UNCHANGED conn
       ELSE conn' = Sent(conn, "SUCCESSOR", successor[n], <<m>>) /\ UNCHANGED values

HandlePdu(n, m) == HandleControl(n, m) \/ Q9(n, m)

(* The next PDU of the event being handled. *)
HandleQueued(n) ==
  LET side == pc[n]
      m    == Head(incoming_queue[n][side])
  IN  /\ side \in Side /\ incoming_queue[n][side] # <<>>
      /\ IF PanicOf(n, m, side) # "none" THEN Panic(n, PanicOf(n, m, side)) ELSE
           /\ incoming_queue' = [incoming_queue EXCEPT ![n][side] = Tail(@)]
           /\ HandlePdu(n, m)
           /\ UNCHANGED <<pc, seen, rest, hash_range, links, backlog, udp, cause>>

(* A datagram of the UDP event, which goes on while there are more. *)
HandleDatagram(n) ==
  \E m \in udp[n] :
    /\ AtEvent(n, "UDP") \/ pc[n] = "UDP"
    /\ IF PanicOf(n, m, "UDP") # "none" THEN Panic(n, PanicOf(n, m, "UDP")) ELSE
         /\ Goto(n, "UDP")
         /\ seen' = [seen EXCEPT ![n] = @ \cup {"UDP"}]
         /\ udp' = [udp EXCEPT ![n] = @ \ {m}]
         /\ HandlePdu(n, m)
         /\ UNCHANGED <<rest, hash_range, links, incoming_queue, backlog, cause>>
-----------------------------------------------------------------------------
(* The end of a pass, and the state that runs after it. *)

EndOfPass(n, q) ==
  /\ pc[n] \in Q6 /\ Emptied(n) /\ seen[n] # {} /\ ~should_close[n]
  /\ state[n] = q

PollAgain(n) ==
  /\ EndOfPass(n, "Q6") /\ Poll(n)
  /\ UNCHANGED <<rest, hash_range, links, incoming_queue, values, net, udp, cause, dropped>>

LowerRange(n) == <<hash_range[n][1], Mid(hash_range[n][1], hash_range[n][2])>>
UpperFromMid(n) == <<Mid(hash_range[n][1], hash_range[n][2]), hash_range[n][2]>>   \* mutants
UpperPastEnd(n) == <<UpperStart(hash_range[n][1], hash_range[n][2]), hash_range[n][2] + 1>>
UpperRange(n) == <<UpperStart(hash_range[n][1], hash_range[n][2]), hash_range[n][2]>>
Within(k, r) == InRange(hash_ssn[k], r[1], r[2])

(* transfer: the entries of range r, oldest first; the node keeps the rest. *)
TransferredBelowEnd(n, r) ==   \* mutant
  LET s == SelectSeq(values[n], LAMBDA k : Within(k, <<r[1], r[2] - 1>>))
  IN  [i \in DOMAIN s |-> Insert(s[i])]
Transferred(n, r) ==
  LET s == SelectSeq(values[n], LAMBDA k : Within(k, r)) IN [i \in DOMAIN s |-> Insert(s[i])]
KeptAll(n, r) == values[n]   \* mutant
Kept(n, r) == SelectSeq(values[n], LAMBDA k : ~Within(k, r))

(* q5 and q13: connect to the prospect, split the range, send it the upper *)
(* half and the entries of it.                                             *)
Admit(n, prospect, next, cs) ==
  /\ Connect(n, prospect, cs, <<JoinResponse(next, UpperRange(n)[1], UpperRange(n)[2])>>
                                \o Transferred(n, UpperRange(n)))
  /\ hash_range' = [hash_range EXCEPT ![n] = LowerRange(n)]
  /\ values' = [values EXCEPT ![n] = Kept(n, UpperRange(n))]
  /\ UNCHANGED <<rest, predecessor, incoming_queue, udp, cause, dropped>>

Q5(n) ==
  /\ EndOfPass(n, "Q12") /\ successor[n] = NoConn
  /\ IF ~Running(last_pdu[n].src) THEN Panic(n, "connect")
     ELSE Block(n, "q5_accept") /\ Admit(n, last_pdu[n].src, n, conn)

Q13(n) ==
  LET c      == successor[n]
      closed == Sent(conn, "SUCCESSOR", c, <<Close>>)
  IN  /\ EndOfPass(n, "Q12") /\ c # NoConn /\ last_pdu[n].max = n
      /\ IF Broken(conn, "SUCCESSOR", c) THEN Panic(n, "send")
         ELSE IF Broken(closed, "SUCCESSOR", c) THEN PanicAfter(n, "shutdown", closed)
         ELSE IF ~Running(last_pdu[n].src) THEN Panic(n, "connect")
         ELSE /\ Poll(n)
              /\ Admit(n, last_pdu[n].src, successor_listen[n],
                       ShutSide(closed, "SUCCESSOR", c))

WiderNever(m, n) == m   \* mutant
Wider(m, n) ==
  LET span == hash_range[n][2] - hash_range[n][1]
  IN  IF span > m.span THEN [m EXCEPT !.max = n, !.span = span] ELSE m

Q14(n) ==
  LET c == successor[n]
  IN  /\ EndOfPass(n, "Q12") /\ c # NoConn /\ last_pdu[n].max # n
      /\ IF Broken(conn, "SUCCESSOR", c) THEN Panic(n, "send") ELSE
           /\ Poll(n)
           /\ conn' = Sent(conn, "SUCCESSOR", c, <<Wider(last_pdu[n], n)>>)
           /\ UNCHANGED <<rest, hash_range, links, incoming_queue, values, backlog, udp,
                          cause, dropped>>

(* The range follows the node's own, or is taken to come before it. *)
AnswerSuccessor(n, m) == "SUCCESSOR"   \* mutant
AnswerSide(n, m) == IF FollowsRange(hash_range[n][2], m.lo) THEN "SUCCESSOR" ELSE "PREDECESSOR"

Q15(n) ==
  LET m    == last_pdu[n]
      r    == hash_range[n]
      side == AnswerSide(n, m)
      c    == Sock(n, side)
  IN  /\ EndOfPass(n, "Q15")
      /\ IF c = NoConn THEN Panic(n, "links")
         ELSE IF Broken(conn, side, c) THEN Panic(n, "send")
         ELSE /\ Poll(n)
              /\ hash_range' = [hash_range EXCEPT ![n] =
                                  IF side = "SUCCESSOR" THEN <<r[1], m.hi>> ELSE <<m.lo, r[2]>>]
              /\ conn' = Sent(conn, side, c, <<NewRangeResponse>>)
              /\ UNCHANGED <<rest, links, incoming_queue, values, backlog, udp, cause, dropped>>

Q16(n) ==
  LET new == last_pdu[n].new
      cs  == ShutSide(conn, "SUCCESSOR", successor[n])
  IN  /\ EndOfPass(n, "Q16")
      /\ IF new = n THEN
           /\ Poll(n)
           /\ conn' = ShutSide(cs, "PREDECESSOR", predecessor[n])
           /\ successor' = [successor EXCEPT ![n] = NoConn]
           /\ predecessor' = [predecessor EXCEPT ![n] = NoConn]
           /\ UNCHANGED <<rest, hash_range, successor_listen, incoming_queue, values, backlog,
                          udp, cause, dropped>>
         ELSE IF ~Running(new) THEN Panic(n, "connect")
         ELSE /\ Poll(n)
              /\ Connect(n, new, cs, <<>>)
              /\ UNCHANGED <<rest, hash_range, predecessor, incoming_queue, values, udp,
                             cause, dropped>>

Q17(n) ==
  LET c == predecessor[n]
  IN  /\ EndOfPass(n, "Q17")
      /\ IF c # NoConn /\ Broken(conn, "PREDECESSOR", c) THEN Panic(n, "shutdown") ELSE
           /\ conn' = ShutSide(conn, "PREDECESSOR", c)
           /\ predecessor' = [predecessor EXCEPT ![n] = NoConn]
           /\ IF hash_range[n] = <<0, MaxHash>> THEN Poll(n) ELSE Block(n, "q17_accept")
           /\ UNCHANGED <<rest, hash_range, successor, successor_listen, incoming_queue, values,
                          backlog, udp, cause, dropped>>
-----------------------------------------------------------------------------
(* Blocking calls: accept_predecessor and await_pdu. *)

Q5Accept(n) ==
  /\ pc[n] = "q5_accept" /\ Accept(n) /\ Poll(n)
  /\ UNCHANGED <<rest, hash_range, successor, successor_listen, incoming_queue, values, conn,
                 udp, cause, dropped>>

Q7Accept(n) ==
  /\ pc[n] = "q7_accept" /\ Accept(n) /\ Block(n, "q8")
  /\ UNCHANGED <<rest, hash_range, successor, successor_listen, incoming_queue, values, conn,
                 udp, cause, dropped>>

Q17Accept(n) ==
  /\ pc[n] = "q17_accept" /\ Accept(n) /\ Poll(n)
  /\ UNCHANGED <<rest, hash_range, successor, successor_listen, incoming_queue, values, conn,
                 udp, cause, dropped>>

(* await_pdu reads all that has arrived, i PDUs, and returns the oldest    *)
(* one that is queued; the others stay in the queue.  It takes no notice   *)
(* of the end of the stream, and panics if the connection was reset.       *)
Awaited(n, side, i) == incoming_queue[n][side] \o SubSeq(Inbound(conn, side, Sock(n, side)), 1, i)
Unread(n, side, i) ==
  LET data == Inbound(conn, side, Sock(n, side))
  IN  SetInbound(conn, side, Sock(n, side), SubSeq(data, i + 1, Len(data)))
ReadCounts(n, side) == 1 .. Len(Inbound(conn, side, Sock(n, side)))

Q8(n) ==
  /\ pc[n] = "q8"
  /\ \E i \in ReadCounts(n, "PREDECESSOR") :
       LET got == Awaited(n, "PREDECESSOR", i)
           m   == Head(got)
       IN  IF m.type # "NET_JOIN_RESPONSE" THEN Panic(n, "response")
           ELSE IF ~Running(m.next) THEN Panic(n, "connect")
           ELSE /\ Poll(n)
                /\ hash_range' = [hash_range EXCEPT ![n] = <<m.lo, m.hi>>]
                /\ Connect(n, m.next, Unread(n, "PREDECESSOR", i), <<>>)
                /\ incoming_queue' = [incoming_queue EXCEPT ![n]["PREDECESSOR"] = Tail(got)]
                /\ UNCHANGED <<rest, predecessor, values, udp, cause, dropped>>
-----------------------------------------------------------------------------
(* Leaving: should_close ends a pass in q10, whatever the pass was to run. *)

LeaveSide(n) == IF hash_range[n][1] = 0 THEN "SUCCESSOR" ELSE "PREDECESSOR"

Q10(n) ==
  /\ pc[n] \in Q6 /\ Emptied(n) /\ should_close[n]
  /\ successor[n] = NoConn /\ Exit(n, conn)

Q11(n) ==
  LET side == LeaveSide(n)
      c    == Sock(n, side)
  IN  /\ pc[n] \in Q6 /\ Emptied(n) /\ should_close[n] /\ successor[n] # NoConn
      /\ IF predecessor[n] = NoConn THEN Panic(n, "links")
         ELSE IF Broken(conn, side, c) THEN Panic(n, "send")
         ELSE /\ Block(n, "q11")
              /\ conn' = Sent(conn, side, c, <<NewRange(hash_range[n])>>)
              /\ dropped' = IF state[n] = "Q6" THEN dropped ELSE dropped \cup {n}
              /\ UNCHANGED <<rest, hash_range, links, incoming_queue, values, backlog, udp, cause>>

(* The address in NET_LEAVING. *)
OwnAddress(n) == n   \* mutant
NewAddress(n) == successor_listen[n]

(* q18: all entries to the heir, NET_CLOSE_CONNECTION to the successor,    *)
(* NET_LEAVING to the predecessor, each connection shut down behind it.    *)
Farewell(n, cs) ==
  LET side    == LeaveSide(n)
      entries == Transferred(n, hash_range[n])
      Fails(c, s) == Broken(c, s, Sock(n, s))
      moved   == IF entries = <<>> THEN cs ELSE Sent(cs, side, Sock(n, side), entries)
      closed  == Sent(moved, "SUCCESSOR", successor[n], <<Close>>)
      told    == Sent(closed, "PREDECESSOR", predecessor[n], <<Leaving(NewAddress(n))>>)
  IN  IF entries # <<>> /\ Fails(cs, side) THEN PanicAfter(n, "send", cs)
      ELSE IF Fails(moved, "SUCCESSOR") THEN PanicAfter(n, "send", moved)
      ELSE IF Fails(closed, "SUCCESSOR") THEN PanicAfter(n, "shutdown", closed)
      ELSE IF Fails(closed, "PREDECESSOR") THEN PanicAfter(n, "send", closed)
      ELSE IF Fails(told, "PREDECESSOR") THEN PanicAfter(n, "shutdown", told)
      ELSE Exit(n, told)

Q11Await(n) ==
  LET side == LeaveSide(n)
  IN  /\ pc[n] = "q11"
      /\ \/ Broken(conn, side, Sock(n, side)) /\ Panic(n, "read")
         \/ \E i \in ReadCounts(n, side) :
              IF Head(Awaited(n, side, i)) # NewRangeResponse THEN Panic(n, "response")
              ELSE Farewell(n, Unread(n, side, i))
-----------------------------------------------------------------------------
Init ==
  /\ pc = [n \in Node |-> "off"]
  /\ seen = [n \in Node |-> {}]
  /\ state = [n \in Node |-> "Q6"] /\ last_pdu = [n \in Node |-> None]
  /\ should_close = [n \in Node |-> FALSE]
  /\ hash_range = [n \in Node |-> <<0, 0>>]
  /\ successor = [n \in Node |-> NoConn] /\ predecessor = [n \in Node |-> NoConn]
  /\ successor_listen = [n \in Node |-> None]
  /\ incoming_queue = [n \in Node |-> [s \in Side |-> <<>>]]
  /\ values = [n \in Node |-> <<>>]
  /\ conn = [c \in Conn |-> FreeConn]
  /\ backlog = [n \in Node |-> <<>>]
  /\ udp = [n \in Node |-> {}]
  /\ requests = Requests
  /\ cause = [n \in Node |-> "none"]
  /\ dropped = {}

Handle(n) == HandleQueued(n) \/ HandleDatagram(n)
RunState(n) == PollAgain(n) \/ Q5(n) \/ Q13(n) \/ Q14(n) \/ Q15(n) \/ Q16(n) \/ Q17(n)
                 \/ Q10(n) \/ Q11(n)
Unblock(n) == Q5Accept(n) \/ Q7Accept(n) \/ Q17Accept(n) \/ Q8(n) \/ Q11Await(n)

Environment(n) ==
  \/ StartFirst(n) \/ (\E e \in Node : StartJoin(n, e))
  \/ (\E r \in requests : ClientSend(n, r)) \/ Signal(n)

Next == \E n \in Node : Read(n) \/ Handle(n) \/ RunState(n) \/ Unblock(n) \/ Environment(n)

Spec == Init /\ [][Next]_vars

(* A node's thread runs: each pass reads every socket with data and ends,  *)
(* and a blocking call returns once there is a connection or data.         *)
FairSpec ==
  /\ Spec
  /\ \A n \in Node : WF_vars(Read(n)) /\ WF_vars(Handle(n)) /\ WF_vars(RunState(n))
                       /\ WF_vars(Unblock(n))
-----------------------------------------------------------------------------
Causes == {"none", "read", "send", "close", "successor", "links", "connect", "response",
           "shutdown"}

TypeOK ==
  /\ pc \in [Node -> {"off"} \cup Q6 \cup Blocked \cup Ended]
  /\ seen \in [Node -> SUBSET ({"UDP"} \cup Side)]
  /\ state \in [Node -> {"Q6", "Q12", "Q15", "Q16", "Q17"}]
  /\ \A n \in Node : last_pdu[n] = None \/ last_pdu[n] \in Pdu
  /\ should_close \in [Node -> BOOLEAN]
  /\ hash_range \in [Node -> Hash \X Hash]
  /\ successor \in [Node -> Conn \cup {NoConn}] /\ predecessor \in [Node -> Conn \cup {NoConn}]
  /\ successor_listen \in [Node -> Node \cup {None}]
  /\ incoming_queue \in [Node -> [Side -> Seq(Pdu)]]
  /\ values \in [Node -> Seq(Key)]
  /\ conn \in [Conn -> ConnRecord] /\ backlog \in [Node -> Seq(Conn)]
  /\ udp \in [Node -> SUBSET Pdu] /\ requests \subseteq Requests
  /\ cause \in [Node -> Causes] /\ dropped \subseteq Node

(* The connection on which a joining node's range is on its way to it. *)
Grants(n) ==
  {c \in Conn : /\ Joining(n)
                /\ c = predecessor[n] \/ c \in ToSet(backlog[n])
                /\ conn[c].up # <<>> /\ Head(conn[c].up).type = "NET_JOIN_RESPONSE"}
Grant(n) == Head(conn[CHOOSE c \in Grants(n) : TRUE].up)

(* A leaving node's range is its heir's as soon as the heir has answered. *)
Released(n) ==
  pc[n] = "q11" /\ NewRangeResponse \in ToSet(Inbound(conn, LeaveSide(n), Sock(n, LeaveSide(n))))

Member(n) == Grants(n) # {} \/ (Serving(n) /\ ~Released(n))
RangeOf(n) ==
  IF ~Member(n) THEN <<0, 0>> ELSE IF Joining(n) THEN <<Grant(n).lo, Grant(n).hi>> ELSE hash_range[n]

HR == INSTANCE HashRing WITH
        members <- {n \in Node : Member(n)},
        lo <- [n \in Node |-> RangeOf(n)[1]],
        hi <- [n \in Node |-> RangeOf(n)[2]]

Panics == \E n \in Node : Running(n) /\ pc'[n] = "panicked"

(* Sample nodes divide the hash space the way HashRing says, as the C      *)
(* nodes do, whatever PDUs a pass forgets: only a process that panics      *)
(* takes its range with it.                                                *)
SampleFollowsHashRing == HR!Init /\ [][HR!Next \/ Panics]_(HR!vars)

Count(seq, m) == Cardinality({i \in DOMAIN seq : seq[i] = m})
Copies(k) ==
  MapThenSumSet(LAMBDA n : Count(values[n], k) + Cardinality({Insert(k)} \cap udp[n])
                             + MapThenSumSet(LAMBDA s : Count(incoming_queue[n][s], Insert(k)), Side), Node)
    + MapThenSumSet(LAMBDA c : Count(conn[c].up, Insert(k)) + Count(conn[c].down, Insert(k)), Conn)

(* values is a list to which handle_val_insert appends: no transfer or     *)
(* forward makes a second entry of one insert.                             *)
OneCopy == \A k \in Key : Copies(k) <= 1

Removal(k) == \E n \in Node : pc'[n] \in Q6 /\ k \in ToSet(values[n]) /\ k \notin ToSet(values'[n])
                                /\ conn' = conn

(* n gives up a connection on which the insert of k has come and has not   *)
(* been handled.                                                           *)
LeavesUnhandled(n, k) ==
  \E side \in Side :
    /\ Sock(n, side) # NoConn /\ Sock(n, side)' = NoConn
    /\ Insert(k) \in ToSet(incoming_queue[n][side] \o Inbound(conn, side, Sock(n, side)))

(* No split, forward or join loses a value, and a leave hands over all     *)
(* that the node has stored.  What a leave does lose without a panic,      *)
(* although no data is allowed to be lost (OU3/Specification/README.md:    *)
(* 179), is an insert that has come to a node and waits there: when that   *)
(* node ends, which reads no more once it is in q11, or when it is left    *)
(* alone and q16 drops its predecessor, with the entries the other one     *)
(* has just handed over.                                                   *)
LostOnlyUnhandled ==
  [][\A k \in Key : Copies(k)' < Copies(k) =>
       \/ Removal(k) \/ Panics \/ \A n \in Node : ~Serving(n)'
       \/ \E n \in Node : LeavesUnhandled(n, k) /\ (pc'[n] = "exited" \/ state[n] = "Q16")]_vars

(* The first process that panics does so in q11, over a PDU that q8 read   *)
(* behind the one it waited for and that no event has announced since, or  *)
(* when it reads from a connection that another node, which was told to    *)
(* stop, has left with a value unread.  No pass serves a PDU with a link   *)
(* missing, takes NET_CLOSE_CONNECTION from its successor, connects to a   *)
(* node that has gone or sends or shuts down on a broken connection,       *)
(* unless a panic has broken the ring before.                              *)
FirstPanic ==
  [][\A n \in Node : (Running(n) /\ pc'[n] = "panicked" /\ \A m \in Node : cause[m] = "none") =>
       \/ pc[n] = "q11" /\ cause'[n] = "response"
       \/ /\ pc[n] \in Q6 /\ cause'[n] = "read"
          /\ \E m \in Node \ {n} : should_close[m] /\ pc[m] = "exited"]_vars

(* A node that asks to join is let in, unless a pass forgot a PDU (nodes    *)
(* are started one at a time).                                             *)
JoinCompletes ==
  (\E n \in Node : Joining(n)) ~> (\A n \in Node : ~Joining(n)) \/ dropped # {}

(* A node that is told to stop ends (they are told one at a time). *)
Stopping(n) == Running(n) /\ should_close[n]
LeaveCompletes == (\E n \in Node : Stopping(n)) ~> (\A n \in Node : ~Stopping(n))
=============================================================================
