# A TLA+ model of the distributed hash table

The repository holds a course project: a distributed hash table whose nodes form a ring. Each
node owns a range of the 256 hash values and stores the entries whose social security number
hashes into it. The node is written in C (`src/OU3/Resources/TestNode/src/bin/Nodes/`); a tracker,
a client and a second, sample node are written in Rust. This directory models the C node with its
queue, its PDU parser and its hash table, the protocol C nodes run among themselves, the one sample
nodes run, and the tracker; it checks them with TLC and proves parts of them with TLAPS.

Paths below are relative to `src/OU3/Resources/TestNode/src/bin/` unless they start with `src/`.

## Inventory

| Part | State it keeps | Operations | Talks to |
|---|---|---|---|
| Start-up (`Nodes/initialization.c`, Q1-Q3) | sockets, own address | STUN, ask the tracker for a node | tracker (UDP) |
| Join (`Nodes/join_network.c`, `communication.c`: Q4, Q5, Q7, Q8, Q12-Q14) | range, successor, predecessor, `sockfd_b`, `sockfd_d` | start a network, ask to join, forward NET_JOIN, split the range and hand half of it over | UDP to the entry node, TCP between neighbours |
| Leave (`signal_handler.c`: Q10, Q11, Q15, Q16, Q18) | `should_close`, range, neighbours | offer the range, transfer the entries, close, name the new successor | TCP to both neighbours, signals |
| Hand-over of a connection (`communication.c`: Q17) | `sockfd_d` | drop the predecessor, accept the next one | TCP |
| Poll loop (`controller.c`: Q6, `process_queue`, `manage_pdu`) | static read buffers, `poll_fd`, the PDU queue | read, parse, enqueue, dispatch; called again from inside handlers | everything |
| Values (`client_communication.c`: Q9) | hash table | insert, remove, look up or forward | clients (UDP), successor (TCP) |
| `Nodes/queue.c` | a circular array | enqueue, dequeue, grow | poll loop |
| `Nodes/hashtable.c` | chains of keys and values | insert, look up, remove | Q9 and the transfers |
| `Nodes/utils.c` | - | hash span, range update, transfers | join and leave |
| `tracker.rs` | known nodes and when they were last heard | NET_ALIVE, NET_GET_NODE, STUN | nodes, client |
| `client.rs` | - | sends value PDUs to the tracker's node | tracker, nodes |
| `node.rs` with `pdu.rs`, `socket_wrapper.rs` | as the C node | the same states in Rust | as the C node |
| `node.c` (beside `Nodes/`) | - | first draft, not built by the Makefile | - |

How they interact: all state of a node is in one `struct Node` and a few statics of `q6_state`,
used by one thread. Concurrency is between nodes (their TCP and UDP messages arrive in any
relative order, except within one connection), between a node and the signals sent to it, and
inside a node through re-entrance: q5, q13, q14 and q17 call `q6_state` from inside a handler
that `q6_state` called.

What is hard, and what makes each part correct:

- *Ranges* move between nodes in several steps. They must stay a partition of the hash space.
- *Neighbours* are replaced by connections that two or three nodes open, accept and close
  without a common order. The ring must be closed again when they are done, and while it is
  not, nobody may wait for ever.
- *Entries* travel behind the ranges. None may be lost, duplicated or stored outside its
  owner's range.
- *Re-entrance*: the `poll_fd` array of a suspended loop is stale when the loop resumes.
- *Blocking calls* (`accept` in q5, q7, q17; `recv` in q7, q11) assume what comes next on a
  socket.
- *The parser, the queue and the hash table* work on raw buffers and pointers. PDUs must come out as
  they were sent, in order; the table must answer with what was stored.
- *The tracker* learns of nodes only by their NET_ALIVEs. It must not name nodes that are gone, nor
  let a second network be founded next to one that is alive.
- *The sample node* handles what one pass of its loop reads in one go and remembers a single PDU and a
  single next state while it does.

`PROJECT.json` lists the hazards line by line with the properties that cover them.

## Modules

| Module | What it is |
|---|---|
| `HashRange` | The arithmetic of ranges: `Span`, `Mid`, `UpperStart`, `FollowsRange`, `ValidRange`, with C's integer promotion, truncating division and `uint8_t` conversion. `MaxHash` is 255 in the code. |
| `HashRing` | Abstract specification: members and their ranges; a member joins, leaves or is the first, each in one step. |
| `Ring` | The C nodes: processes, poll loops, handlers, TCP connections, datagrams, clients and signals. |
| `Fifo` | Abstract specification of the queue. |
| `Queue` | `queue.c`: the circular array, its growth, its indices. |
| `Reader` | `controller.c` below the PDU: bytes of two TCP streams, static buffers, `get_packet_size`, the parse loop, the queue (it extends `Queue`), and what handlers do to connections and loops. |
| `ValueStore` | One node's values: `hashtable.c` with its chains and pointers to keys, the operations of Q9, the transfers of `utils.c`. |
| `Tracker` | `tracker.rs` and, second by second, the NET_ALIVEs and NET_GET_NODEs of C and sample nodes. |
| `SampleRing` | The sample nodes (`node.rs`) with their socket wrappers (`socket_wrapper.rs`): event loop, states, TCP connections, clients and signals. |
| `MCRing`, `MCReader`, `MCValueStore`, `MCTracker`, `MCSampleRing` | Instances for TLC. |
| `Ring_proofs`, `RingValues_proofs`, `RingGrowth_proofs` | Theorems and proofs about `Ring`, each extending the one before. |
| `HashRing_proofs`, `Tracker_proofs`, `ValueStore_proofs` | Theorems and proofs about the module they are named after. |
| `Reader_proofs` | Theorems and proofs about `Queue` and `Reader`. |
| `Sequence_lemmas` | Induction on the natural numbers and what `FlattenSeq` computes, for `ValueStore_proofs` and `Reader_proofs`. |

How they fit together: `Ring` and `SampleRing` both map to `HashRing`. What `Ring` takes as given is
modelled in detail elsewhere: that the queue is a FIFO (`Queue`, proved), that PDUs are read whole
(`Reader`, proved, with the condition under which it is so), that the hash table is a set of keys
(`ValueStore`, likewise), and that a starting node finds the network (`Tracker`, likewise).

### How `Ring` corresponds to the code

A *step* of a node runs from one blocking call or `queue_dequeue` to the next. `pc[n]` says
where the node is: `q6` (in `poll`, or in the rest of the loop after it), `drain` (in
`process_queue`), or in one of the blocking calls `q5_accept`, `q7_accept`, `q7_recv`,
`q17_accept`, `q11_recv`. `stack[n]` holds the suspended calls of `q6_state` with the
descriptors in their `poll_fd` arrays, and whether a datagram or a queued PDU was being handled,
which decides where the suspended loop resumes.

The variables `start`, `end`, `successor`, `predecessor`, `sockfd_b`, `sockfd_d`, `queue`,
`hash_table` and `should_close` are the fields of `struct Node` and the global of the same
names (`predecessor` is reduced to whether it is set, which is all the code ever asks).
`hash_span` is not a variable: every handler that changes the range recomputes it before
anything reads it (only q12 does), so `SpanOf(n)` stands for it. `stalled` says which read buffer has a head that
`get_packet_size` rejects or waits on for ever.

Handlers are actions: `StartFirst` is q4, `StartJoin`, `JoinAccept` and `JoinRecv` are q7 and
q8, `Q5` ... `Q18` carry the names of the states, and q12, which only chooses, is the guards of
`Q5`, `Q13` and `Q14`. A handler that blocks in the middle is two actions (`Q5`/`Q5Accept`,
`Q17`/`Q17Accept`, `Q11`/`Q18` or `Q11Abort`). Error paths are actions of their own
(`Q5Refused`, `Q13Refused`, `Q16Refused`, `SendFailed`, `SendKilled`, `Q11SendFailed`). A signal sets
`should_close` and interrupts the call a node is blocked in (`InterruptJoin`, `InterruptAccept`). Nodes in `Impatient`
may be told to stop again: a second signal while q11 waits makes its `recv` fail, and q11 and q10 return to
`main` although the neighbour may have taken over the range (`InterruptRecv`).
`ReadSocket` reads any prefix of what has arrived, notices the end of the stream or not, and
only then fills the queue, as the loop does.

TCP is modelled as two byte-ordered streams of PDUs per connection with a backlog at the
listener, descriptors handed out lowest first (the code's stale `poll_fd` arrays keep working
only because of that), end of stream, reset, `EBADF` and `SIGPIPE`.

### Abstractions

- In `Ring` a PDU is sent and read as a unit (see `Reader`), except where the code itself reads a wrong number of bytes
  (q7's `recv`, q11's `recv`). What is left of a PDU that lost its first bytes is `Garbage`, and
  the parser is taken to be stuck on it.
- The tracker may name any node that is in the network; there is a first node only when no node
  runs. Keep-alives and the tracker's expiry are in `Tracker`.
- The queue is a FIFO and the hash table a set of keys. The contents of entries and the answers
  to lookups are in `ValueStore`.
- The hash function is an arbitrary function.
- `socket`, `malloc` and UDP sends do not fail. UDP loses nothing, as `src/OU3/Specification/README.md:165`
  assumes. Nodes do not crash of themselves (`:179`), but they die from `SIGPIPE` and from errors
  that make a handler return to `main`.
- A node that has been told to stop may still read from its sockets before it notices
  (`pc = "q6"` stands for `poll` and for the loop after it).

### How `Queue` and `Reader` correspond to the code

`Queue`'s variables are the fields of `queue_t`; `queue_enqueue` has a case with and one without
`queue_resize`. `Reader` gives the environment two streams of bytes and lets `Read` take any number of
those that have arrived, with or without the end of the stream. `buffer` and `filled` are the static
variables of `q6_state`, `offset` the local variable of the parse loop, which is 0 again in every
pass. One `Parse` is one turn of the loop, `ParseEnd` its end, `Handle` one turn of `process_queue`. `recv`
writes behind what the buffer holds whatever that is (`controller.c:108`, `:158`): a read that goes past the end of the buffer is
undefined behaviour, and the model ends there, with `pc = "overrun"`. Of
the handlers, what matters below the PDU is kept: q5, q13, q16 and q17 replace or end connections,
and q5, q12 to q14 and q17 (which does so whenever the node owns the whole hash space, with or without a
successor's socket) go on in a nested `q6_state`, which leaves the queue to a later pass.

What the neighbours send is `Message`. `MessageAssumption` says that these are PDUs as `pdu.h` lays them out
(`IsPdu`, from the structs, independently of `get_packet_size`): the other end of both streams is a node that
writes whole structs, and a name and an email have the lengths their fields say.

`pending` is a history variable with the PDUs sent and not handled. `broken` marks streams on which the
parser cannot be right any more: a read ended inside a PDU with a complete PDU before it (the rest
stays at `offset`, but the next read and parse go by the start of the buffer), or a connection was
replaced while part of a PDU was in its buffer. Everything else must work, and that is what
`PdusAsSent`, `BytesAccounted` and `PdusAreHandled` say: PDUs cut anywhere else, several PDUs in one
read, the end of the stream together with data, a growing queue. The buffers have no bound of their own, but what
reads leave behind does not add up: `OverrunOnlyByBurst` says that a stream that is not broken overruns its buffer only if
more bytes are there at once than the buffer can hold. `src/OU3/Specification/README.md:181`
("PDUs must be read using buffers. One node sending a PDU one byte every 10 seconds should not prevent
the receiving node from handling PDUs from another node.") is met for a PDU that trickles in alone,
not for one that starts in the same read as the one before it ends.

### How `ValueStore` corresponds to the code

`table`, `length` and `num_entries` are `struct ht`. A chain node has the key it was created with, which is
the `ssn` inside the entry it was created with. When a key is inserted again, `ht_insert` frees that
entry and keeps the chain node: its key is `Freed` from then on, and the model lets each comparison
with it go either way (`chance`). `overwritten` records the buckets where this has happened. The two
transfers collect keys and visit them three times; each visit is an action, since each looks the key
up again and uses the result untested. A range of a single hash is split like any other: its upper half is inverted
and holds no entry. `hashtable.h:59` says of an insertion "If the key already exists in
table, then the corresponding value of that key will be replaced with the new value": in the node, where the
key lives in the value, that holds only as long as the freed memory is not reused. After a second
insertion of a key, no property of the bucket is claimed but its counters; what a freed key does to
other buckets (it may hash anywhere) is left out.

### How `Tracker` corresponds to the code

`nodes` and `age` are the tracker's map; `pc`, `timer` and `due` are the loop of a node (`last_time`,
`timeout`). `Tick` is a second of time. It waits for datagrams on their way and for loops that are due,
so a datagram takes less than a second and a node looks at its timer at least every `Wake` seconds. A
handler that calls `q6_state` starts the timer anew (`Reenter`), a blocking call stops the loop
(`Block`). `held` and `reentered` record both, so that `DroppedOnlyIfSilent` and `FoundsAlone` can say
that these are the only reasons why a node that is alive is forgotten, and that the only other way to two
networks is to start a node before the first has sent its first NET_ALIVE.

### How `SampleRing` corresponds to the code

The sample node has one thread, one `state` and one `last_pdu`. A pass of Q6 is a poll, `ReadEvent` and
`HandleDatagram` for its events (`pc` is the event, `seen` those of the pass so far), `HandleQueued` for
each PDU of an event, and the state that runs at the end of the pass. Value PDUs are served inside the
pass; of the others only the last one counts, and `dropped` records that a pass forgot one. Q12 is the
conditions of `Q5`, `Q13` and `Q14`; Q10, Q11 and Q18 are `Q10`, `Q11`, `Q11Await` and `Farewell`.
`incoming_queue` is a wrapper's queue of parsed PDUs. Q8 and Q11 read all that has arrived and take the
first PDU; the others stay queued without an event. A response that nobody awaits is passed over, as by the
default arm of `handle_pdu` (`Control` are the types that have an arm). A connection that was reset announces
itself, also without data, and fails when it is read to its end, sent to or shut down. Every `unwrap`,
`expect` and `panic!` that these paths can reach ends the process, and `cause` says which did.


## Runs

`Reconfig` restricts the environment. In `"free"` nodes start and are told to stop at any time.
In `"one_join"` a node starts only when no other is joining. In `"settled"` the environment does
one thing at a time: it starts a node, signals one or sends a value only when no PDU is in flight
and no node is busy. The specification's rule "Only one insertion of a node is performed at a
time" (`src/OU3/Specification/README.md:156`) is why the last two matter.

| Run | Instance | Shows |
|---|---|---|
| `ring_free` | 3 nodes, free, one may be told to stop, again and again, one value | types; no value is duplicated, also when a leave is given up half way; q7 reads its response first |
| `join_concurrent` | 4 nodes, free, no leaves, one value | the ranges implement `HashRing` even when joins overlap; entries stay in range; every neighbour socket is polled; the ring is closed at rest |
| `join_live` | 4 nodes, one join at a time, no value | every join completes |
| `leave_settled` | 4 nodes, settled, all may leave, two values | the ring closes again; hand-overs implement `HashRing`; values are lost only by a join's over-read, at once or later on the stream it has cut |
| `leave_live` | 3 nodes, settled, all may leave | every node told to stop exits |
| `join_loses_value` | 3 nodes, settled, one value | *violated*: see below |
| `rejoin` | 3 nodes, settled, one may leave | *violated*: see below |
| `leave_loses_value` | 3 nodes, one join at a time, one may leave, one value | *violated*: see below |
| `reader` | two streams, four PDUs out of five kinds, queue of capacity 1 that grows | on streams that are not broken, PDUs come out whole, in order and are handled, and only a burst overruns a buffer; the queue implements `Fifo` |
| `value_store` | three keys, two collide, two values each, two buckets | counters agree; lookups and transfers are right while no key was inserted twice; what can crash the process |
| `tracker` | a C node, a sample node | who is named, who is dropped, who founds a network; a node that has gone is forgotten |
| `sample_ring` | 3 sample nodes, two values | the ranges implement `HashRing` up to a panic; no value is duplicated; how one can be lost; which panics come first; joins complete; leaves end |

All runs say `CHECK_DEADLOCK FALSE`: a network in which nothing happens any more, or whose nodes
have all exited, is a legitimate end.

**Bounds.** *Ring.* Four nodes are the fewest for a join or leave whose three neighbours all differ from
each other and from a bystander; three give every overlap of a join, a leave and a value. With
`MaxHash` = 7 in `join_concurrent` every range of the reachable networks can still be split. In
`join_live` and `leave_settled` `MaxHash` is 3: four nodes fill the hash space with a hash each, so that
spans of 0 occur and the last join has to find the one range that can be split. (The node after that, the
257th of the code, is started in no run.) The value whose hash
is the largest lands in the upper half of every split of the range it is in, so that it takes part
in as many transfers as there can be, and a boundary test that is off by one misses it. The one of hash 0
is moved by no split; its owner is the node that has the successor for its heir, so that it moves when,
and only when, that node leaves. `leave_settled` has both, so that a value is also sent to, and forwarded in, a
ring in which an over-read has already cut a stream; the other runs have the one of the largest. `MaxConn` and
`MaxDepth` never bind in `join_concurrent`, `join_live`, `leave_settled` and `leave_live`: the
instances reach the same number of states with larger ones. They do bind in `ring_free`,
where nested loops are cut at depth 3; that run only checks invariants. With a second node that is told to stop at any
time it is out of reach of a run of minutes; its three invariants are proved for any number (see below). Symmetry is used in the
runs of invariants and of safety properties, never in a run of a liveness property.

*Reader.* An SSN and an address take one byte (12 and 6 in the code), a read buffer 12 (1 MB), which is
more than two PDUs of any kind. Four PDUs can be more than that, and overrun the buffer when they are read at once,
and so can what a broken stream leaves behind: the run reaches both. `MaxSent` = 4 gives
every pair of PDUs on one stream with two more on either. `InitialCapacity` is 1 (10 in the code), so
that the queue grows, also with its items wrapped around.

*ValueStore.* `TransferMax` is 2 (1024 in the code) for three keys, so that a transfer fits or does not.
Two hashes (`MaxHash` = 1) are one for the lower and one for the upper half; chains have up to three
nodes. The symmetry of the two colliding keys and of the two values is used.

*Tracker.* The times are scaled down and keep their order: NET_ALIVE after 1 s and then every 3 s with a
poll of 1 s (C: 1, 1 and 1 here), every 11 s with a poll of 5 s (sample node: 0 at first, then 2 with a
poll of 1 here), a timeout of 30 s (4 here) and a tracker's poll of 5 s (1 here). The longest silence of a
node that is not held up, 4 s and 16 s in the code, 2 and 3 here, stays below the timeout in both, and so
does what one nested call adds.

*SampleRing.* Three nodes on four hashes, a value of the largest hash and one of hash 0, for the same reasons as in `Ring`.
Nodes join one at a time,
values are sent at any time until the first node is told to leave; after that, as for signals
themselves, only when the ring has settled. `MaxConn` = 5 is what three nodes can use at once. Within this
regime passes that forget a PDU, panics of one node and of its neighbours, joins of all three
nodes and exits of all three all occur.

**Fairness.** `Ring`'s `FairSpec` has weak fairness on each node's own steps: a node is one thread that
`poll` wakes as long as something is readable, and a blocking `accept` or `recv` returns once
there is a connection or data, so a node that can take a step eventually does. Nothing is assumed
of users, clients and signals, nor of the order in which a node handles what is readable. `Reader` has
weak fairness on its loop, for the same reason. `SampleRing` has it on each of a node's four kinds
of steps, since a pass of Q6 goes through all its events and ends. In `Tracker` time passes (strong
fairness of `Tick`, which is disabled again and again while datagrams are handled), a node's loop
comes to its timer (strong fairness of `SendAlive`, since handlers may block the loop in between),
and the tracker's thread runs and handles what has arrived (`TrackerStep`, `HandlePdu`); nodes need not
start, join or end.

### What the violated runs show

- `join_loses_value`: q7 receives `sizeof(struct NET_JOIN_RESPONSE_PDU)`, 12 bytes with padding,
  while the PDU on the wire has 9. If the first transferred VAL_INSERT has arrived too, its first
  three bytes are gone: the entry is lost and the connection's remaining bytes do not parse.
- `rejoin`: the last node of a network that shrank to one keeps `predecessor_ip_address` when it
  read NET_CLOSE_CONNECTION and the end of the stream at once, since q17 only resets it while
  `sockfd_d` is open. It then no longer takes itself to be alone, and the next node to join waits
  for ever.
- `leave_loses_value`: q11 reads one byte and expects it to be NET_NEW_RANGE_RESPONSE. If a value
  PDU was on its way, the leave is abandoned and the process ends with its entries.

The first of these has a second face: with values in the network, `LeaveCompletes` fails after a
join has garbled a connection, because the heir no longer parses NET_NEW_RANGE. Likewise
`JoinCompletes` fails in `"free"`, where a NET_JOIN is forwarded behind a response. Neither is a
run of its own. `leave_live` and `join_live` are therefore without values and, for joins, one at a
time. It has a third: values that are sent much later, when no node joins any more, and are forwarded on the connection that the
over-read has cut, are read into a buffer in which nothing is ever found again. `LostOnlyByJoin` sets both losses
aside, what the over-read itself takes and what a stalled stream swallows (`ReadsStalled`), so as to say that
there is no other in a settled network.

### What the sample nodes' run shows

- The sample nodes read NET_JOIN_RESPONSE with the same wrapper as everything else, so the C node's
  12-byte read has no counterpart; but what Q8 read behind the response stays in the wrapper's queue until
  another event on that connection. If there is none before the node is told to leave, Q11 takes a
  VAL_INSERT of its own join for the answer to its NET_NEW_RANGE and panics (`node.rs:459`). Its
  neighbours' connections are reset, and they may panic too. The other panic that needs none before it is on a
  connection that a leaving node closed while a value on it was unread, which resets it. `FirstPanic` says that, in the regime
  above, the first panic is one of these two.
- Of two nodes the one with the lower range leaves. Its entries and NET_CLOSE_CONNECTION are on one connection to the
  other node, NET_LEAVING is on the other connection to it. If that node reads NET_LEAVING first, q16 finds that it is
  alone and sets `predecessor` to `None` (`node.rs:602-606`): the entries are dropped with the connection, and no node
  panics, although "no data is allowed to be lost when nodes join or leave the network, as long as there is one node
  left in the network" (`src/OU3/Specification/README.md:179`). The other way is that an insert has come to a node
  and waits unread when that node ends. `LostOnlyUnhandled` excuses these two and says that there is no third: without
  them `sample_ring` finds the loss at once.
- A pass that reads a NET_JOIN and then another PDU forgets the NET_JOIN (`node.rs:683`), and the joining
  node waits for ever. `JoinCompletes` sets exactly these passes aside (`dropped`); without the
  exception it fails.
- Ranges are not touched by either: `SampleFollowsHashRing` holds without exceptions but the panic
  itself, which takes the range of the process with it.

## What is proved

`HashRing_proofs`, for every `MaxHash` > 0 and every set of nodes:

- `TypeCorrect`, `PartitionInvariant`: in every reachable state the ranges of the members cover
  the hash space, are pairwise disjoint and not empty. `Partition` is inductive together with
  `TypeOK`; the arithmetic is in two lemmas, `SplitRange` (a range of at least two hashes is split
  into two non-empty halves, with no wrap-around) and `UInt8Identity`.
- `HeirInvariant`: every member but a last one has a neighbour adjoining its range on the side q11
  chooses. It follows from `Partition`: the hash next to the range has an owner, and that owner's
  range must end, or begin, there.

`Ring_proofs`, for every set of nodes and keys, every hash function, every set of requests and
all bounds:

- `TypeCorrect`: `TypeOK` is an inductive invariant. One lemma per action; below them lemmas on
  the PDU constructors, the TCP operations (`ConnTypes`), what the over-read leaves
  (`OverReadTypes`), what the parser takes (`ReadableBound`) and the range arithmetic. It needs the
  assumptions `MaxHashAssumption` and `RingAssumption` only.

`Ring`'s `TypeOK` is inductive as it stands because `JoinRecv` is guarded by the type of the PDU that q7
reads. That the guard is no restriction is `JoinResponseFirst`:

The second part of `Ring_proofs`, in the same generality, with any number of joins at once, any node leaving at any
time and any node dying of an error:

- `ResponseFirst`: what q7 reads first is the NET_JOIN_RESPONSE of the node that granted the range.
  The property by itself says nothing of how the backlog got there. The invariant `JoinInv` does: a node that
  waits in q7 with an empty backlog is *unknown*, that is, no successor, no queued or travelling PDU and
  no response names it but the NET_JOIN it sent (`Named`), so that nobody but the node that
  grants that NET_JOIN can connect to it; and the one that does writes its response first.
- `EndsUnshared`: each open end of a connection belongs to one socket of one node, or waits in one backlog
  once. It is part of `JoinInv` and what every argument about streams needs: that a step of one
  node leaves the streams of the others alone.
- `StepIn` is the lemma behind this and later invariants. It says, action by action, that a set which holds
  all PDUs under way and all a step may add still holds them all after it.

`RingValues_proofs`:

- `OneCopy`, in the same generality and for nodes that are told to stop again and again, too: of a value that a client inserts once there is at most one copy in all
  queues, streams and tables taken together. `AtMostOneCopy` is a bound on the number of copies; the proof
  goes through `OnePlace`: no queue, stream or table holds the value twice, no two of them hold it,
  and while the client has not sent it nobody does.
- `ValuesInRange`, for `Leavers = {}`, that is, while nodes only join, any number of them at a time: every
  stored entry has its hash in the node's range, also between the split of a range and the arrival of
  its entries. What needs the invariant `RangeInv` are the steps that change a range without moving
  entries. q5 changes it before it connects; if the prospect had gone (`Q5Refused`) the entries
  would stay behind. It cannot have: whoever asks the first node to join waits in q7 until that node answers
  (`FirstWithWaiting`). The steps of a leave widen a range before its entries arrive, and cannot happen since no
  NET_NEW_RANGE or NET_LEAVING is under way (`NobodyLeaves`). A joining node's range is new and it
  has no entries yet (`EmptyUntilServing`), and a split keeps what is below the half (`LowerHalf`),
  also when the range is a single hash and its upper half wraps around.

`RingGrowth_proofs`, for `Leavers = {}`: every set of nodes, keys and requests, and any number of joins at
a time, none of which need find the ring settled:

- `AllSocketsPolled`: a node in `poll` watches every neighbour socket it has. Handlers make sockets in the middle of
  a loop whose `poll_fd` was filled before (q17) or start a new loop inside the old one (q5, q7, q13), and a loop
  that is left open is not returned to.
- `NobodyDies`: no process ends. A send that finds its peer gone raises SIGPIPE, and a `connect` that finds its target gone
  ends the handler with an error; neither happens while nodes only join.

Both follow from `JoinsOnly`, the conjunction of all earlier invariants with `GrowInv`:
- `Streams`: nothing is sent down to a predecessor, and nothing up after NET_CLOSE_CONNECTION. Hence the connection
  of a node to its successor is open at both ends (`SuccessorSocket`), which is why every send succeeds.
- `Sockets`: a member with a successor has its connection; a node waits in `accept` only when the old predecessor's
  connection is gone and all it sent has been handled. That is why no second predecessor's socket is ever
  overwritten.
- `Dropping`: after a queued NET_CLOSE_CONNECTION nothing more comes from that predecessor, so q17 closes a stream that
  is read to its end.
- `Watching`: the loop polls both descriptors or, in a node that q8 let in and that has no predecessor yet, the one
  to its successor.
- `NeverHandled`: the error paths of q5 and q13, and the steps of a leave, are disabled.

The second part of `RingGrowth_proofs`, for `Leavers = {}` too, goes from `JoinsOnly` to the abstract specification:

- `GrantedOnce`: no joining node is granted two ranges. The invariant `Grantees` follows the NET_JOIN of each node:
  there is at most one in all datagrams, queues and streams taken together (`OnceIn`), and only while that node waits
  in q7 and has been granted nothing (`Asking`). q14 hands it on and keeps none; q5 and q13 take it and
  write the response.
- `JoinsImplementHashRing`: every step of the ring is a step of `HashRing` or a stutter. A step of the ring moves
  two things on which the mapping depends, ranges and responses under way, so most of the proof shows that
  nothing else touches the latter: a step of one node writes nothing to the connections that others may read a
  response from (`Mute`), and q7 takes over exactly the range it was granted (`JoinRecvStutters`). What is left is the founding of
  a network (`Founds`) and a grant (`Splits`), which are `First` and `Join` of `HashRing`.
- `OneOwner`: hence every hash has exactly one owner in every state, once there is a first node, also while responses
  are under way. It is `HashRing`'s `PartitionInvariant`, instantiated with the mapping of `Ring`.
- `JoinsCloseTheRing`: whenever the ring is at rest, it is closed: a node's successor owns the hashes behind the node's
  own and holds the other end of its connection. The invariant `Wired` says what is true of this in between. `Follows`: the node
  that a member is connected to, or that the response on its way to it names (`NextOf`), owns the hashes
  behind the member's, which a grant keeps because the joining node takes over the granter's successor together with
  the upper half. `Aimed`: the connection to the successor ends in the predecessor's socket of the successor or waits in its backlog.
  `Preceded`: a node at work has a predecessor unless it is alone. `Preceded` needs `OneOwner`: q17 goes back to the loop
  without an `accept` in a node that owns the whole hash space, and a joining node never does.

`JoinsImplementHashRing`, `OneOwner` and `JoinsCloseTheRing` need a hypothesis on the constants: `Room[Cardinality(Node) - 1] <= MaxHash + 1`, where
`Room[k]` is the `k`-th power of 2 (`IsRoom`; the prover has no exponents). Without one they are false: TLC refutes
`join_concurrent` with `MaxHash` = 3, though four hashes are enough for four nodes that join one after the other. q5 and
q13 do not look at the size of the range they split, and the one that q14's comparison of spans leads to need not be
the widest any more when the NET_JOIN comes back to it, so the worst case is that each join halves the narrowest
range. `split_range` turns a range of one hash into an empty one and an inverted one. The invariant `Roomy` says
that the ranges still to be split are wide enough: at least `Room[k]` hashes when `k` nodes are outside. With the
code's `MaxHash` of 255 this covers 9 nodes whatever their order; `join_concurrent` is at the bound, with 4
nodes and 8 hashes. More nodes do fit when joins do not overlap (`join_live` fills the hash space), but that
depends on who asks when.

`Reader_proofs` begins with `Queue`, for every set of items and every initial capacity:

- `Inductive`: the slots from `front` to `rear` hold items, never NULL. The invariant is `Shape` (bounds,
  and that the slot behind `rear` is the slot behind the last item: `(rear + 1) % capacity` equals
  `(front + size) % capacity`, also when `rear` is -1 and when the queue is full) and `Held`.
- `QueueIsFifo`: the array implements `Fifo`. It needs the invariant, a lemma for each way to
  enqueue (`InPlace`, `Resizing`) and one for `queue_dequeue` (`Dequeuing`), which say where each item is
  afterwards, and `Wrap`, by which an index that runs past the end is reduced once.

and goes on with `Reader`, for every set of PDUs of the format, every size of buffer, SSN and address, every initial
capacity and every way in which the network cuts the streams. The hypothesis `Item = Pdu` says what is in the queue:
records of a stream and a sequence of bytes, as in `MCReader`.

- `PdusComeAsSent`: the queue holds the oldest PDUs of an intact stream that were sent and not handled, whole and in
  order.
- `NoByteIsLost`: the bytes in the buffer and on the wire are those of the PDUs still to be queued.
- `OverrunsAreBursts`: a read goes past a buffer only on a broken stream or when more bytes are there at once than
  the buffer can hold behind a part of a PDU (`OverrunOnlyByBurst`).
- `NodesQueueIsFifo`: the queue in the running node is a FIFO, too, because each step of the node is a step of
  `Queue` or leaves it alone.

The first two follow from the invariant `RInv` (`StreamsAccounted`). Its core is `Account`: there is a sequence `r` of
PDUs such that what is pending is what is queued followed by `r`, and the unparsed bytes followed by those on the wire are
`r` flattened. A send lengthens `r` and the wire (`AccountSent`), a read moves bytes from the wire to the buffer
(`AccountRead`), a handler takes the first PDU off the queue and off what is pending (`AccountHandled`), and a
connection that is replaced while its buffer is empty starts a new account (`AccountClosed`). The step that matters is
`Parse`. `SizeIsRight` says that `get_packet_size`, applied to a prefix of a stream that begins with a PDU, gives
the length of that PDU or -1; `HeadCut` says that, if this many bytes are there, they are that PDU and the rest
of the bytes belongs to the rest of `r` (`AccountParsed`). `EntrySize` reads the two length bytes at places that have arrived
only if both of its tests succeed, which is why `IsEntry` and the tests must count alike. `InBuffer`, that
`offset` and `filled` together stay in the buffer while it is parsed, keeps `cut` and the zeros inside it. `Sendable`,
that what is pending consists of messages, survives `Relink` only because a handler takes from the front what
`queue_dequeue` gave it (`DropIsTaken`). What `FlattenSeq` returns for a sequence that grows at its end or loses its head is
proved in `Sequence_lemmas` from the function its definition builds (`FlattenAppend`, `FlattenHead`).
`OverrunsAreBursts` needs a second invariant, `LeftoverInv`: when its buffer is not being parsed, an intact stream
has less in it than one whole PDU. The parser stops only at an empty buffer or where `get_packet_size` returns -1
(`StopsAtPart`), and it does not return -1 for a PDU that has all arrived (`SizeIsKnown`, `NextPdu`). The read that
overruns the buffer therefore came on top of a part of a PDU (`OverrunIsBurst`), and after it nothing
moves (`OverrunStays`).

`Tracker_proofs`, for every set of nodes, all their timers, every timeout and poll of the tracker:

- `TypeCorrect`: clocks, counters and datagrams stay in their types.
- `NamedAreRecent`: a node the tracker names has been heard of within the timeout and one poll. The invariant
  `Recent` counts the part of a poll that has passed.
- `ServingIsKnown`: a node that is in its loop and whose longest silence is shorter than the timeout is
  never dropped. `Punctual` relates the node's clock to the tracker's: the age of what the tracker knows is at most
  the node's timer plus what nested calls of q6 have added since the last NET_ALIVE, and the node
  looks at its timer in time. `AsksOnce` says that a node that has not entered the loop has not been heard of.
- `NoSecondFounder`, an action property: a node founds a network next to one that runs only if no node of
  that network has been heard of or one of the reasons for a silence applies.

`ValueStore_proofs`, for every set of keys, every hash function and every number of hashes, with keys inserted
again, looked up, removed and given away in any order:

- `ValuesTyped`: the types, among them that `entries_to_transfer` is never overrun without the process crashing.
- `CountersAlwaysAgree`: `length` is the number of chain nodes and `num_entries` that of buckets in use, whatever
  `ht_insert` and `ht_remove` did to the chains, also where a freed key made a comparison go either way.
- `LookupsAlwaysRight`: between two PDUs `ht_lookup` answers with what was last inserted and neither removed nor
  given away, in every bucket in which no key was inserted twice.
- `TransfersComplete`: a transfer has sent each entry of the range it gives away once, and no other.
- `OnlyOverwrittenCrash`: without a key inserted twice, nothing makes a transfer look up a key that is not there.

All five come from one invariant, `IInv`: a chain node is in the bucket of its entry's hash and its key is that
entry's or freed (`InBucket`); where no key was inserted twice none is freed and none is there twice (`Untouched`); the
table and the history agree but for what the pass that removes has still to do (`Remembered`); nothing is stored beyond
`end` between two PDUs (`Within`); and what the three visits of a transfer have done so far: the keys collected are those
of the buckets from `moving` on, in their order (`Collected`), the entries sent are theirs up to the current one
(`SentSoFar`), and those removed are gone while the others are there (`Removing`). The counters are sums over the table,
which the code keeps up to date by one and the model defines by a fold; the keys are collected bucket by bucket, which
the model defines by `FlattenSeq`. What these operators return is proved from their definitions: `LeastNumber`, which
is `WFMin` of the library for the order of the natural numbers, gives each induction with a set in
the place of the predicate (`Induction`, `SubsetInduction`), and so the sum of a function that changes at one place
(`SumOther` and the lemmas before it) and the flattening of a sequence with one more element (`FlatMore`, `FlatSteps`).

Only model-checked, with the reason:

- *Liveness* (`JoinCompletes`, `LeaveCompletes`, `PdusAreHandled`, `GoneIsForgotten`): fairness and ENABLED are
  beyond the prover.
- *`SampleRing`*: its safety invariants hold in settled rings only, and `FirstPanic` and `OneCopy` need an
  invariant on which PDUs a pass may find behind each other in `incoming_queue`. Its types (`TypeOK`) and its
  copies of values are the next things to prove.
- *`LostOnlyByJoin` and `LostOnlyUnhandled`* compare copies of a value before and after a step and hold only in
  settled networks, whose regime is a restriction on many variables at once.
- *`RingImplementsHashRing` with nodes that leave* (`leave_settled`): in `"settled"` only, for the same reason.
- *`SettledRing` with nodes that leave* (`leave_settled`): for joins it is proved; with leaves it holds in `"settled"` only.

## Not modelled, and the plan

Still to prove: the types and the copies of `SampleRing`, and the safety of leaves in a settled ring, both of which need an
invariant for `"settled"`: that at most one join, leave or value is under way.

Left out, with the reason:

- *Values and signals that overlap a leave of a sample node.* `SampleRing` starts a leave only in a
  settled ring. Outside of that the code has more ways to panic than it has to go on: a value to forward
  after the successor's end of stream and before its NET_LEAVING is handled (`node.rs:880`, "Successor is
  not set, impossible!"), a signal during `await_pdu` (`node.rs:830`), a state chosen by the pass and
  overridden by `should_close` (`node.rs:341`).
- *The node after the last free hash*, the 257th, and joins of nodes
  that are told to stop before they are let in.
- *Four sample nodes*, and removals of values among them: out of reach of a run of minutes.
- *Stack growth* through nested loops: unbounded by design of the code; `MaxDepth` only cuts the state
  space.
- *`node.c` beside `Nodes/`*, a draft that is not built, the hand-out copies in `src/OU3/Resources/Hash` and
  `Hashtable`, and the exercise in `src/OU1`.
- *Pure I/O*: the STUN handshake and sockets of Q1 and Q2, the client's arguments and CSV file, logging,
  serialisation in `pdu.rs`, `queue_destroy` and the freeing of memory at exit, failures of `malloc`,
  `socket` and UDP `sendto`.

## Running

    tlc -workers 2 -config MCJoin.cfg MCRing
    tlc -workers 2 -config MCReader.cfg MCReader
    tlapm Ring_proofs.tla
    tlapm RingValues_proofs.tla
    tlapm RingGrowth_proofs.tla
    tlapm HashRing_proofs.tla
    tlapm Sequence_lemmas.tla
    tlapm Reader_proofs.tla
    tlapm ValueStore_proofs.tla
    tlapm Tracker_proofs.tla
