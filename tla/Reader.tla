------------------------------- MODULE Reader -------------------------------
(***************************************************************************)
(* How a node of the ring turns the bytes of its two TCP streams into PDUs *)
(* (Nodes/controller.c): q6_state reads into a static buffer per stream,   *)
(* cuts off every complete PDU, queues it and has process_queue handle the *)
(* queue.  Ring takes all of this as one step; here it is done byte by     *)
(* byte.                                                                   *)
(*                                                                         *)
(* A stream is what comes from the successor (sockfd_b) or from the        *)
(* predecessor (sockfd_d).  The network cuts it anywhere.                  *)
(***************************************************************************)
EXTENDS Queue, SequencesExt, TLC

CONSTANTS
  Message,      \* Message[s] is the set of PDUs, as bytes, sent on stream s
  SSN_LENGTH,   \* 12 in the code
  ADDR_LENGTH,  \* 6 in the code: an IPv4 address and a port
  BufSize,      \* the size of a read buffer, 1 MB in the code
  MaxSent       \* bound on the PDUs sent

Byte == 0 .. 255
Stream == {"succ", "pred"}

ASSUME ReaderAssumption ==
  /\ Message \in [Stream -> SUBSET Seq(Byte)]
  /\ SSN_LENGTH \in Nat \ {0} /\ ADDR_LENGTH \in Nat \ {0}
  /\ BufSize \in Nat \ {0} /\ MaxSent \in Nat

VARIABLES
  link,      \* the stream's connection: "open", "ending" (its last PDU is sent), "down"
  wire,      \* the bytes sent and not yet read
  buffer,    \* successor_buffer, predecessor_buffer
  filled,    \* succ_buufer_filled, pred_buffer_filled
  offset,    \* where the parse loop is
  pc,        \* "poll", the stream whose buffer is parsed, "drain" (process_queue),
             \* or "overrun" (a read has gone past its buffer: undefined behaviour)
  sends,     \* how many PDUs were sent
  pending,   \* history: the PDUs sent on the current connection, not yet handled
  broken     \* history: see Intact

stream == <<link, wire, pending, broken>>
static == <<buffer, filled>>
vars == <<stream, static, offset, pc, sends, queue>>
-----------------------------------------------------------------------------
(* The types of pdu.h; STUN PDUs never come on a stream. *)
NET_ALIVE == 0
NET_GET_NODE == 1
NET_GET_NODE_RESPONSE == 2
NET_JOIN == 3
NET_JOIN_RESPONSE == 4
NET_CLOSE_CONNECTION == 5
NET_NEW_RANGE == 6
NET_LEAVING == 7
NET_NEW_RANGE_RESPONSE == 8
VAL_INSERT == 100
VAL_REMOVE == 101
VAL_LOOKUP == 102
VAL_LOOKUP_RESPONSE == 103

FixedSize ==
  [t \in {NET_ALIVE, NET_GET_NODE, NET_GET_NODE_RESPONSE, NET_JOIN, NET_JOIN_RESPONSE,
          NET_CLOSE_CONNECTION, NET_NEW_RANGE, NET_NEW_RANGE_RESPONSE, NET_LEAVING} |->
     CASE t \in {NET_GET_NODE_RESPONSE, NET_LEAVING} -> 1 + ADDR_LENGTH
       [] t = NET_JOIN -> 1 + ADDR_LENGTH + 1 + ADDR_LENGTH
       [] t = NET_JOIN_RESPONSE -> 1 + ADDR_LENGTH + 2
       [] t = NET_NEW_RANGE -> 3
       [] OTHER -> 1]

(* A PDU as pdu.h lays it out: of a fixed size, or with a name and an      *)
(* email, each behind a byte with its length.                              *)
IsEntry(m) ==
  LET name == 1 + SSN_LENGTH + 1     \* the place of name_length
      email == name + m[name] + 1    \* the place of email_length
  IN  name <= Len(m) /\ email <= Len(m) /\ Len(m) = email + m[email]
IsPdu(m) ==
  /\ m # <<>>
  /\ \/ m[1] \in DOMAIN FixedSize /\ Len(m) = FixedSize[m[1]]
     \/ m[1] = VAL_REMOVE /\ Len(m) = 1 + SSN_LENGTH
     \/ m[1] = VAL_LOOKUP /\ Len(m) = 1 + SSN_LENGTH + ADDR_LENGTH
     \/ m[1] \in {VAL_INSERT, VAL_LOOKUP_RESPONSE} /\ IsEntry(m)

ASSUME MessageAssumption == \A s \in Stream : \A m \in Message[s] : IsPdu(m)

(* A size get_packet_size cannot tell yet, or never will, is -1. *)
Unknown == -1

WhenFilled(fill, bytes) == IF fill < bytes THEN Unknown ELSE bytes

(* A PDU with a name and an email, each behind its length.  at[i] is byte *)
(* i from the offset.                                                      *)
EntrySizeNeedingMore(at, fill) ==   \* mutant: waits for a byte of the email
  LET head == 1 + SSN_LENGTH + 1
  IN  IF fill < head \/ fill < head + at[head - 1] + 2 THEN Unknown
      ELSE head + at[head - 1] + 1 + at[head + at[head - 1]]
EntrySizeShort(at, fill) ==         \* mutant: does not count the second length
  LET head == 1 + SSN_LENGTH + 1
  IN  IF fill < head \/ fill < head + at[head - 1] + 1 THEN Unknown
      ELSE head + at[head - 1] + at[head + at[head - 1]]
EntrySize(at, fill) ==
  LET head == 1 + SSN_LENGTH + 1
  IN  IF fill < head \/ fill < head + at[head - 1] + 1 THEN Unknown
      ELSE head + at[head - 1] + 1 + at[head + at[head - 1]]

get_packet_size(at, fill) ==
  CASE at[0] \in DOMAIN FixedSize -> FixedSize[at[0]]
    [] at[0] = VAL_REMOVE -> WhenFilled(fill, 1 + SSN_LENGTH)
    [] at[0] = VAL_LOOKUP -> WhenFilled(fill, 1 + SSN_LENGTH + ADDR_LENGTH)
    [] at[0] \in {VAL_INSERT, VAL_LOOKUP_RESPONSE} -> EntrySize(at, fill)
    [] OTHER -> Unknown
-----------------------------------------------------------------------------
(* The environment: the neighbours send, a prospect sends a datagram. *)

(* A neighbour sends nothing behind the PDU with which it takes its leave. *)
IsLast(m) == m[1] \in {NET_CLOSE_CONNECTION, NET_LEAVING}

Send(s, m) ==
  /\ link[s] = "open" /\ sends < MaxSent
  /\ wire' = [wire EXCEPT ![s] = @ \o m]
  /\ pending' = [pending EXCEPT ![s] = Append(@, m)]
  /\ link' = [link EXCEPT ![s] = IF IsLast(m) THEN "ending" ELSE "open"]
  /\ sends' = sends + 1
  /\ UNCHANGED <<broken, static, offset, pc, queue>>
-----------------------------------------------------------------------------
(* The loop of q6_state. *)

(* recv, byte by byte until nothing more has arrived.  The bytes go behind *)
(* the first filled ones; the end of the stream closes the socket.  No     *)
(* line compares filled with the size of the buffer, so a read of more     *)
(* than there is room for writes behind it: the model ends there.          *)
WrittenAtStart(s, bytes) ==   \* mutant
  [i \in 1 .. BufSize |-> IF i \in DOMAIN bytes THEN bytes[i] ELSE buffer[s][i]]
Written(s, bytes) ==
  [i \in 1 .. BufSize |-> IF i - filled[s] \in DOMAIN bytes THEN bytes[i - filled[s]] ELSE buffer[s][i]]

Read(s) ==
  /\ pc = "poll" /\ link[s] # "down"
  /\ \E n \in 0 .. Len(wire[s]), eof \in BOOLEAN :
       /\ n > 0 \/ eof
       /\ eof => link[s] = "ending" /\ n = Len(wire[s])
       /\ \/ /\ filled[s] + n <= BufSize
             /\ buffer' = [buffer EXCEPT ![s] = Written(s, SubSeq(wire[s], 1, n))]
             /\ filled' = [filled EXCEPT ![s] = @ + n]
             /\ wire' = [wire EXCEPT ![s] = SubSeq(@, n + 1, Len(@))]
             /\ link' = IF eof THEN [link EXCEPT ![s] = "down"] ELSE link
             /\ offset' = 0 /\ pc' = s
          \/ /\ filled[s] + n > BufSize
             /\ pc' = "overrun" /\ UNCHANGED <<buffer, filled, wire, link, offset>>
  /\ UNCHANGED <<pending, broken, sends, queue>>

At == [i \in 0 .. BufSize |-> IF offset + i + 1 <= BufSize THEN buffer[pc][offset + i + 1] ELSE 0]
PduSize == get_packet_size(At, filled[pc])

ParsableUnchecked ==   \* mutant: takes what has not arrived
  pc \in Stream /\ filled[pc] > 0 /\ PduSize >= 0
Parsable ==
  /\ pc \in Stream /\ filled[pc] > 0
  /\ PduSize >= 0 /\ filled[pc] >= PduSize

(* One turn of the parse loop: the PDU is copied to the queue, and its     *)
(* place in the buffer is filled with zeros.                               *)
Parse ==
  LET end == offset + PduSize
      cut == SubSeq(buffer[pc], offset + 1, end)
  IN  /\ Parsable
      /\ queue_enqueue([from |-> pc, bytes |-> cut])
      /\ buffer' = [buffer EXCEPT ![pc] =
                      [i \in 1 .. BufSize |-> IF i \in offset + 1 .. end THEN 0 ELSE @[i]]]
      /\ offset' = end
      /\ filled' = [filled EXCEPT ![pc] = @ - PduSize]
      /\ UNCHANGED <<stream, pc, sends>>

(* What is left when the loop ends stays where it is, but the next read    *)
(* and the next parse start at the beginning of the buffer again.          *)
ParseEnd ==
  /\ pc \in Stream /\ ~Parsable
  /\ pc' = "drain" /\ offset' = 0
  /\ broken' = IF offset > 0 /\ filled[pc] > 0 THEN broken \cup {pc} ELSE broken
  /\ UNCHANGED <<link, wire, pending, static, sends, queue>>
-----------------------------------------------------------------------------
(* process_queue and manage_pdu.  Of what the handlers do, what matters    *)
(* here is which connections they replace and whether they call q6_state.  *)

(* The PDUs of stream s in the queue. *)
PdusFrom(s, q) ==
  FlattenSeq([i \in DOMAIN q |-> IF q[i].from = s THEN <<q[i].bytes>> ELSE <<>>])
Queued(s) == PdusFrom(s, Contents)

(* The streams in down end, those in up are replaced by a new connection.  *)
(* Bytes of the old one that are in the static buffer stay there.  drop    *)
(* are the pending PDUs the handler has dealt with.                        *)
Relink(up, down, drop) ==
  LET queued(s) == Len(Queued(s)) - Len(drop[s])
      rest(s) == SubSeq(pending[s], Len(drop[s]) + 1, Len(pending[s]))
      old == up \cup down
  IN  /\ link' = [s \in Stream |-> IF s \in up THEN "open" ELSE IF s \in down THEN "down" ELSE link[s]]
      /\ wire' = [s \in Stream |-> IF s \in old THEN <<>> ELSE wire[s]]
      /\ pending' = [s \in Stream |->
                       IF s \in old /\ s \notin broken THEN SubSeq(rest(s), 1, queued(s)) ELSE rest(s)]
      /\ broken' = broken \cup {s \in old : filled[s] > 0}

(* NET_JOIN: q12_state calls q13 or q14, which call q6_state, or q5 if the *)
(* node is alone.  With no successor socket send fails, and the handler    *)
(* returns to label.                                                       *)
HandleJoin(drop, label) ==
  \/ link["succ"] # "down" /\ Relink({}, {}, drop) /\ pc' = "poll"
  \/ link["succ"] # "down" /\ Relink({"succ"}, {}, drop) /\ pc' = "poll"
  \/ link["succ"] = "down" /\ link["pred"] = "down" /\ Relink(Stream, {}, drop) /\ pc' = "poll"
  \/ link["succ"] = "down" /\ Relink({}, {}, drop) /\ pc' = label

(* NET_CLOSE_CONNECTION: q17_state waits for the next predecessor, or, if  *)
(* its range is the whole circle, calls q6_state.                          *)
HandleClose(drop) ==
  \/ Relink({"pred"}, {}, drop) /\ pc' = "drain"
  \/ Relink({}, {"pred"}, drop) /\ pc' = "poll"

(* NET_LEAVING: q16_state connects to the next successor, if there is one *)
(* and it answers.                                                         *)
HandleLeaving(drop) ==
  /\ \/ Relink({"succ"}, {}, drop)
     \/ Relink({}, {"succ"}, drop)
  /\ pc' = "drain"

HandleOther(drop) == Relink({}, {}, drop) /\ pc' = "drain"

Handle ==
  LET p == FrontItem
      drop == [s \in Stream |-> IF s = p.from /\ pending[s] # <<>> THEN <<Head(pending[s])>> ELSE <<>>]
  IN  /\ pc = "drain" /\ queue_dequeue
      /\ CASE p.bytes[1] = NET_JOIN -> HandleJoin(drop, "drain")
           [] p.bytes[1] = NET_CLOSE_CONNECTION -> HandleClose(drop)
           [] p.bytes[1] = NET_LEAVING -> HandleLeaving(drop)
           [] OTHER -> HandleOther(drop)
      /\ UNCHANGED <<static, offset, sends>>

(* A prospect's NET_JOIN comes as a datagram and is handled at once. *)
Datagram ==
  /\ pc = "poll" /\ sends < MaxSent
  /\ HandleJoin([s \in Stream |-> <<>>], "poll")
  /\ sends' = sends + 1
  /\ UNCHANGED <<static, offset, queue>>

DrainEnd ==
  /\ pc = "drain" /\ queue_is_empty
  /\ pc' = "poll"
  /\ UNCHANGED <<stream, static, offset, sends, queue>>

Init ==
  /\ link = [s \in Stream |-> "open"]
  /\ wire = [s \in Stream |-> <<>>]
  /\ pending = [s \in Stream |-> <<>>]
  /\ broken = {}
  /\ buffer = [s \in Stream |-> [i \in 1 .. BufSize |-> 0]]
  /\ filled = [s \in Stream |-> 0]
  /\ offset = 0 /\ pc = "poll" /\ sends = 0
  /\ QueueInit

Loop == (\E s \in Stream : Read(s)) \/ Parse \/ ParseEnd \/ Handle \/ DrainEnd
Next == Loop \/ Datagram \/ \E s \in Stream : \E m \in Message[s] : Send(s, m)

Spec == Init /\ [][Next]_vars
FairSpec == Spec /\ WF_vars(Loop)
-----------------------------------------------------------------------------
TypeOK ==
  /\ link \in [Stream -> {"open", "ending", "down"}]
  /\ wire \in [Stream -> Seq(Byte)]
  /\ buffer \in [Stream -> [1 .. BufSize -> Byte]]
  /\ filled \in [Stream -> Nat]
  /\ offset \in 0 .. BufSize
  /\ pc \in {"poll", "drain", "overrun"} \cup Stream
  /\ sends \in 0 .. MaxSent
  /\ pending \in [Stream -> Seq(Seq(Byte))]
  /\ broken \subseteq Stream

(* The condition under which the parser is right: no read of the stream    *)
(* ended inside a PDU with a complete PDU before it, and no connection was *)
(* replaced while a part of a PDU was in its buffer.                       *)
Intact(s) == s \notin broken

(* The bytes of s the parse loop has still to look at. *)
Unparsed(s) ==
  LET from == IF s = pc THEN offset ELSE 0
  IN  SubSeq(buffer[s], from + 1, from + filled[s])

(* However the network cuts an intact stream, the queue holds exactly the  *)
(* oldest PDUs that were sent and not handled, whole and in order          *)
(* (get_packet_size, the parse loop, queue.c).                             *)
PdusAsSent ==
  \A s \in Stream : Intact(s) => Queued(s) = SubSeq(pending[s], 1, Len(Queued(s)))

(* No byte of an intact stream is lost, doubled or overwritten: what is in *)
(* the buffer and on the wire is what is still to be queued.               *)
BytesAccounted ==
  \A s \in Stream : Intact(s) =>
    Unparsed(s) \o wire[s]
      = FlattenSeq(SubSeq(pending[s], Len(Queued(s)) + 1, Len(pending[s])))

(* More bytes have arrived than there is room for behind a part of one PDU. *)
Burst(s) ==
  \E part \in {0} \cup {Len(m) - 1 : m \in Message[s]} : part + Len(wire[s]) > BufSize

(* What reads leave behind in the buffer of an intact stream never adds    *)
(* up: a read runs past the buffer only when more has arrived at once than *)
(* the buffer has room for behind an incomplete PDU, however many PDUs     *)
(* came before (recv at buffer + filled, with no check of filled).         *)
OverrunOnlyByBurst == pc = "overrun" => \E s \in Stream : ~Intact(s) \/ Burst(s)

(* A queue that a nested q6_state has inherited: process_queue looks at it *)
(* only after the next read.                                               *)
Inherited == pc = "poll" /\ ~queue_is_empty

(* Every PDU sent on an intact stream is handled, unless it waits in a     *)
(* queue that a nested loop has inherited or a read overran its buffer.    *)
PdusAreHandled ==
  \A s \in Stream :
    pending[s] # <<>> ~> (pending[s] = <<>> \/ ~Intact(s) \/ Inherited \/ pc = "overrun")
=============================================================================
