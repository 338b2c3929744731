---------------------------- MODULE Reader_proofs ----------------------------
(***************************************************************************)
(* The circular queue is a FIFO for every initial capacity, however often  *)
(* it wraps around and grows; and the parser that fills it cuts the bytes  *)
(* of a stream into the PDUs that were sent, however they arrive.          *)
(***************************************************************************)
EXTENDS Reader, Sequence_lemmas

(* The circular queue. *)

(* An index runs at most once around the array. *)
LEMMA Wrap ==
  ASSUME NEW c \in Nat \ {0}, NEW a \in 0 .. 2 * c - 1
  PROVE  a % c = IF a < c THEN a ELSE a - c
<1>1. ASSUME a < c PROVE a % c = a
  BY <1>1
<1>2. ASSUME a >= c PROVE a % c = a - c
  BY <1>2
<1> QED
  BY <1>1, <1>2

(* The slot of the i-th of at most c items, counted from slot f. *)
LEMMA SlotAt ==
  ASSUME NEW c \in Nat \ {0}, NEW f \in 0 .. c - 1, NEW i \in 1 .. c
  PROVE  (f + i - 1) % c = IF f + i - 1 < c THEN f + i - 1 ELSE f + i - 1 - c
OBVIOUS

(* The array, the number of items and the next slot to write agree.  rear  *)
(* itself is -1 before the first item and otherwise the slot of the last.  *)
Shape ==
  /\ capacity \in Nat \ {0}
  /\ size \in 0 .. capacity
  /\ front \in 0 .. capacity - 1
  /\ rear \in -1 .. capacity - 1
  /\ items \in [0 .. capacity - 1 -> Item \cup {NULL}]
  /\ (rear + 1) % capacity = (front + size) % capacity

Held == \A i \in 1 .. size : items[(front + i - 1) % capacity] \in Item

QueueInv == Shape /\ Held

(* The slot of the i-th item. *)
LEMMA SlotOf ==
  ASSUME Shape, NEW i \in 1 .. capacity
  PROVE  /\ (front + i - 1) % capacity \in 0 .. capacity - 1
         /\ (front + i - 1) % capacity =
              IF front + i - 1 < capacity THEN front + i - 1 ELSE front + i - 1 - capacity
<1>1. capacity \in Nat \ {0} /\ front \in 0 .. capacity - 1 /\ i \in 1 .. capacity
  BY DEF Shape
<1>2. (front + i - 1) % capacity =
        IF front + i - 1 < capacity THEN front + i - 1 ELSE front + i - 1 - capacity
  BY <1>1
<1> QED
  BY <1>1, <1>2 DEF Shape

(* queue_enqueue without a resize: the new item is the last, the others    *)
(* stay where they are.                                                    *)
LEMMA InPlace ==
  ASSUME QueueInv, NEW x \in Item, EnqueueInPlace(x)
  PROVE  /\ QueueInv'
         /\ items'[(front' + size' - 1) % capacity'] = x
         /\ \A i \in 1 .. size : items'[(front' + i - 1) % capacity'] = items[(front + i - 1) % capacity]
<1> DEFINE r == (rear + 1) % capacity
<1> USE DEF QueueInv
<1>1. /\ size' = size + 1 /\ front' = front /\ capacity' = capacity /\ rear' = r
      /\ items' = [items EXCEPT ![r] = x] /\ size < capacity
  BY DEF EnqueueInPlace, Shape
<1>2. r = (front + (size + 1) - 1) % capacity
  BY DEF Shape
<1>3. r \in 0 .. capacity - 1
      /\ r = IF front + size < capacity THEN front + size ELSE front + size - capacity
  <2>1. Shape /\ size + 1 \in 1 .. capacity
    BY <1>1 DEF Shape
  <2>2. /\ r \in 0 .. capacity - 1
        /\ r = IF front + (size + 1) - 1 < capacity THEN front + (size + 1) - 1
                ELSE front + (size + 1) - 1 - capacity
    <3>1. /\ (front + (size + 1) - 1) % capacity \in 0 .. capacity - 1
          /\ (front + (size + 1) - 1) % capacity =
               IF front + (size + 1) - 1 < capacity THEN front + (size + 1) - 1
               ELSE front + (size + 1) - 1 - capacity
      BY <2>1, SlotOf
    <3> QED
      BY <1>2, <3>1, Zenon
  <2>3. front \in Nat /\ size \in Nat /\ capacity \in Nat
    BY DEF Shape
  <2> HIDE DEF r
  <2> QED
    BY <2>2, <2>3
<1>4. \A i \in 1 .. size : items'[(front' + i - 1) % capacity'] = items[(front + i - 1) % capacity]
  <2> SUFFICES ASSUME NEW i \in 1 .. size
               PROVE  items'[(front + i - 1) % capacity] = items[(front + i - 1) % capacity]
    BY <1>1
  <2>1. i \in 1 .. capacity
    BY DEF Shape
  <2>2. (front + i - 1) % capacity # r
    BY <1>1, <1>3, <2>1, SlotOf DEF Shape
  <2> QED
    BY <1>1, <2>1, <2>2, SlotOf DEF Shape
<1>5. items'[(front' + size' - 1) % capacity'] = x
  BY <1>1, <1>2, <1>3 DEF Shape
<1>6. Held'
  <2> SUFFICES ASSUME NEW i \in 1 .. size + 1
               PROVE  items'[(front' + i - 1) % capacity'] \in Item
    BY <1>1 DEF Held
  <2>1. CASE i = size + 1
    BY <1>1, <1>5, <2>1
  <2>2. CASE i \in 1 .. size
    BY <1>4, <2>2 DEF Held
  <2> QED
    BY <2>1, <2>2 DEF Shape
<1>7. Shape'
  <2>1. (r + 1) % capacity = (front + (size + 1)) % capacity
    <3>1. /\ capacity \in Nat \ {0} /\ r \in 0 .. capacity - 1
          /\ front \in 0 .. capacity - 1 /\ size \in 0 .. capacity - 1
      BY <1>1, <1>3 DEF Shape
    <3> HIDE DEF r
    <3>2. /\ (r + 1) % capacity = IF r + 1 < capacity THEN r + 1 ELSE r + 1 - capacity
          /\ (front + (size + 1)) % capacity =
               IF front + (size + 1) < capacity THEN front + (size + 1)
               ELSE front + (size + 1) - capacity
      BY <3>1
    <3>3. \/ r = front + size /\ r < capacity
          \/ r + capacity = front + size /\ r + 1 < capacity
      BY <1>1, <1>3, <3>1 DEF Shape
    <3> QED
      BY <1>1, <1>3, <3>1, <3>2, <3>3 DEF Shape
  <2>2. items' \in [0 .. capacity' - 1 -> Item \cup {NULL}]
    BY <1>1, <1>3 DEF Shape
  <2> QED
    BY <1>1, <1>3, <2>1, <2>2 DEF Shape
<1> QED
  BY <1>4, <1>5, <1>6, <1>7

(* queue_resize moves the items to the start of the new array, in order.   *)
LEMMA Resizing ==
  ASSUME QueueInv, NEW x \in Item, EnqueueResizing(x)
  PROVE  /\ QueueInv'
         /\ items'[(front' + size' - 1) % capacity'] = x
         /\ \A i \in 1 .. size : items'[(front' + i - 1) % capacity'] = items[(front + i - 1) % capacity]
<1> USE DEF QueueInv
<1>1. /\ size = capacity /\ size' = size + 1 /\ front' = 0 /\ capacity' = 2 * capacity
      /\ capacity \in Nat \ {0}
  BY DEF EnqueueResizing, Shape
<1>2. size % (2 * capacity) = size
  <2>1. 2 * capacity \in Nat \ {0} /\ size \in 0 .. 2 * (2 * capacity) - 1 /\ size < 2 * capacity
    BY <1>1
  <2> QED
    BY <2>1, Wrap
<1>3. rear' = size /\ items' = [Resized EXCEPT ![size] = x]
  BY <1>2 DEF EnqueueResizing
<1>4. \A i \in 1 .. size + 1 : (front' + i - 1) % capacity' = i - 1
  <2> SUFFICES ASSUME NEW i \in 1 .. size + 1 PROVE (i - 1) % (2 * capacity) = i - 1
    BY <1>1
  <2>1. 2 * capacity \in Nat \ {0} /\ i - 1 \in 0 .. 2 * (2 * capacity) - 1 /\ i - 1 < 2 * capacity
    BY <1>1
  <2> QED
    BY <2>1, Wrap
<1>5. \A i \in 1 .. size :
        /\ Resized[i - 1] = items[(front + i - 1) % capacity]
        /\ items'[i - 1] = items[(front + i - 1) % capacity]
  <2> SUFFICES ASSUME NEW i \in 1 .. size
               PROVE  /\ Resized[i - 1] = items[(front + i - 1) % capacity]
                      /\ items'[i - 1] = items[(front + i - 1) % capacity]
    OBVIOUS
  <2>1. i - 1 \in 0 .. 2 * capacity - 1 /\ i - 1 < size /\ front + (i - 1) = front + i - 1
    BY <1>1 DEF Shape
  <2>2. Resized[i - 1] = items[(front + (i - 1)) % capacity]
    BY <2>1 DEF Resized
  <2>3. items'[i - 1] = Resized[i - 1]
    BY <1>1, <1>3, <2>1 DEF Resized
  <2> QED
    BY <2>1, <2>2, <2>3
<1>6. items'[size] = x
  BY <1>1, <1>3 DEF Resized
<1>7. \A i \in 1 .. size : items'[(front' + i - 1) % capacity'] = items[(front + i - 1) % capacity]
  BY <1>1, <1>4, <1>5
<1>8. items'[(front' + size' - 1) % capacity'] = x
  BY <1>1, <1>4, <1>6
<1>9. Held'
  <2> SUFFICES ASSUME NEW i \in 1 .. size + 1
               PROVE  items'[(front' + i - 1) % capacity'] \in Item
    BY <1>1 DEF Held
  <2>1. CASE i = size + 1
    BY <1>1, <1>8, <2>1
  <2>2. CASE i \in 1 .. size
    BY <1>7, <2>2 DEF Held
  <2> QED
    BY <1>1, <2>1, <2>2
<1>10. Shape'
  <2>1. Resized \in [0 .. 2 * capacity - 1 -> Item \cup {NULL}]
    <3> SUFFICES ASSUME NEW j \in 0 .. 2 * capacity - 1, j < size
                 PROVE  items[(front + j) % capacity] \in Item \cup {NULL}
      BY <1>1 DEF Resized
    <3>1. j + 1 \in 1 .. capacity /\ front + (j + 1) - 1 = front + j
      BY <1>1 DEF Shape
    <3> QED
      BY <3>1, SlotOf DEF Shape
  <2>2. items' \in [0 .. capacity' - 1 -> Item \cup {NULL}]
    BY <1>1, <1>3, <2>1
  <2>3. (rear' + 1) % capacity' = (front' + size') % capacity'
    BY <1>1, <1>3
  <2> QED
    BY <1>1, <1>3, <2>2, <2>3 DEF Shape
<1> QED
  BY <1>7, <1>8, <1>9, <1>10

(* queue_dequeue: what was second is first. *)
LEMMA Dequeuing ==
  ASSUME QueueInv, queue_dequeue
  PROVE  /\ QueueInv' /\ size > 0 /\ size' = size - 1
         /\ \A i \in 1 .. size - 1 :
              items'[(front' + i - 1) % capacity'] = items[(front + (i + 1) - 1) % capacity]
<1> USE DEF QueueInv
<1>1. /\ size > 0 /\ size' = size - 1 /\ front' = (front + 1) % capacity
      /\ items' = items /\ rear' = rear /\ capacity' = capacity
  BY DEF queue_dequeue, queue_is_empty, Shape
<1>2. front' \in 0 .. capacity - 1 /\ front' = IF front + 1 < capacity THEN front + 1 ELSE 0
  <2>1. capacity \in Nat \ {0} /\ front \in 0 .. capacity - 1
    BY DEF Shape
  <2>2. (front + 1) % capacity = IF front + 1 < capacity THEN front + 1 ELSE 0
    BY <2>1
  <2> QED
    BY <1>1, <2>1, <2>2
<1>3. \A i \in 1 .. size : (front' + i - 1) % capacity = (front + (i + 1) - 1) % capacity
  <2> SUFFICES ASSUME NEW i \in 1 .. size
               PROVE  (front' + i - 1) % capacity = (front + (i + 1) - 1) % capacity
    OBVIOUS
  <2>1. /\ capacity \in Nat \ {0}
        /\ front' \in 0 .. capacity - 1 /\ front \in 0 .. capacity - 1 /\ i \in 1 .. capacity
    BY <1>2 DEF Shape
  <2>2. (front' + i - 1) % capacity =
          IF front' + i - 1 < capacity THEN front' + i - 1 ELSE front' + i - 1 - capacity
    BY <2>1, SlotAt, Zenon
  <2>3. (front + (i + 1) - 1) % capacity =
          IF front + i < capacity THEN front + i ELSE front + i - capacity
    <3>1. front + (i + 1) - 1 = front + i
      BY <2>1
    <3>2. (front + i) % capacity = IF front + i < capacity THEN front + i ELSE front + i - capacity
      BY <2>1
    <3> QED
      BY <3>1, <3>2
  <2> QED
    BY <1>2, <2>1, <2>2, <2>3
<1>4. \A i \in 1 .. size - 1 :
        items'[(front' + i - 1) % capacity'] = items[(front + (i + 1) - 1) % capacity]
  BY <1>1, <1>3 DEF Shape
<1>5. Held'
  <2> SUFFICES ASSUME NEW i \in 1 .. size - 1
               PROVE  items'[(front' + i - 1) % capacity'] \in Item
    BY <1>1 DEF Held
  <2>1. i + 1 \in 1 .. size
    BY DEF Shape
  <2> QED
    BY <1>4, <2>1 DEF Held
<1>6. Shape'
  <2>1. (front' + size') % capacity = (front + size) % capacity
    <3>1. front' + size - 1 = front' + size' /\ front + (size + 1) - 1 = front + size /\ size \in 1 .. size
      BY <1>1, <1>2 DEF Shape
    <3> QED
      BY <1>3, <3>1
  <2> QED
    BY <1>1, <1>2, <2>1 DEF Shape
<1> QED
  BY <1>1, <1>4, <1>5, <1>6
-----------------------------------------------------------------------------
(* Every reachable array is one of these, and its items are never NULL:    *)
(* what queue_dequeue returns was enqueued.                                *)
THEOREM Inductive == QueueSpec => []QueueInv
<1>1. QueueInit => QueueInv
  <2> SUFFICES ASSUME QueueInit PROVE QueueInv
    OBVIOUS
  <2>1. /\ capacity \in Nat \ {0} /\ size = 0 /\ front = 0 /\ rear = -1
        /\ items \in [0 .. capacity - 1 -> Item \cup {NULL}]
    BY QueueAssumption DEF QueueInit
  <2> QED
    BY <2>1 DEF QueueInv, Shape, Held
<1>2. QueueInv /\ [QueueNext]_queue => QueueInv'
  <2> SUFFICES ASSUME QueueInv, [QueueNext]_queue PROVE QueueInv'
    OBVIOUS
  <2>1. CASE UNCHANGED queue
    BY <2>1 DEF queue, QueueInv, Shape, Held
  <2>2. ASSUME NEW x \in Item, queue_enqueue(x) PROVE QueueInv'
    BY <2>2, InPlace, Resizing DEF queue_enqueue
  <2>3. CASE queue_dequeue
    BY <2>3, Dequeuing
  <2> QED
    BY <2>1, <2>2, <2>3 DEF QueueNext
<1> QED
  BY <1>1, <1>2, PTL DEF QueueSpec

(* The abstract FIFO's view of an array. *)
LEMMA ContentsAt ==
  ASSUME QueueInv
  PROVE  /\ Contents \in Seq(Item) /\ Len(Contents) = size
         /\ \A i \in 1 .. size : Contents[i] = items[(front + i - 1) % capacity]
<1>1. size \in Nat
  BY DEF QueueInv, Shape
<1>2. \A i \in 1 .. size : items[(front + i - 1) % capacity] \in Item
  BY DEF QueueInv, Held
<1> QED
  BY <1>1, <1>2 DEF Contents

(* An enqueue, with or without a resize, appends; see Fifo.                *)
LEMMA EnqueueAppends ==
  ASSUME QueueInv, NEW x \in Item, queue_enqueue(x)
  PROVE  Fifo!Enqueue
<1>1. /\ QueueInv'
      /\ items'[(front' + size' - 1) % capacity'] = x
      /\ \A i \in 1 .. size : items'[(front' + i - 1) % capacity'] = items[(front + i - 1) % capacity]
  BY InPlace, Resizing DEF queue_enqueue
<1>2. size' = size + 1 /\ size \in Nat
  BY DEF queue_enqueue, EnqueueInPlace, EnqueueResizing, QueueInv, Shape
<1>3. /\ Len(Contents) = size
      /\ \A i \in 1 .. size : Contents[i] = items[(front + i - 1) % capacity]
  BY ContentsAt
<1>4. /\ Len(Contents') = size'
      /\ \A i \in 1 .. size' : Contents'[i] = items'[(front' + i - 1) % capacity']
  BY <1>1, <1>2 DEF Contents
<1>5. Contents'[Len(Contents')] = x
  BY <1>1, <1>2, <1>4
<1>6. \A i \in 1 .. Len(Contents) : Contents'[i] = Contents[i]
  BY <1>1, <1>2, <1>3, <1>4
<1> QED
  BY <1>2, <1>3, <1>4, <1>5, <1>6 DEF Fifo!Enqueue

(* A dequeue takes the first item. *)
LEMMA DequeueTakesFirst ==
  ASSUME QueueInv, queue_dequeue
  PROVE  Fifo!Dequeue
<1>1. /\ QueueInv' /\ size > 0 /\ size' = size - 1
      /\ \A i \in 1 .. size - 1 :
           items'[(front' + i - 1) % capacity'] = items[(front + (i + 1) - 1) % capacity]
  BY Dequeuing
<1>2. size \in Nat /\ size' \in Nat
  BY <1>1 DEF QueueInv, Shape
<1>3. /\ Contents \in Seq(Item) /\ Len(Contents) = size
      /\ \A i \in 1 .. size : Contents[i] = items[(front + i - 1) % capacity]
  BY ContentsAt
<1>4. /\ Contents' \in Seq(Item) /\ Len(Contents') = size - 1
      /\ \A i \in 1 .. size - 1 : Contents'[i] = items'[(front' + i - 1) % capacity']
  <2>1. \A i \in 1 .. size' : items'[(front' + i - 1) % capacity'] \in Item
    BY <1>1 DEF QueueInv, Held
  <2> QED
    BY <1>1, <1>2, <2>1 DEF Contents
<1>5. Contents # <<>>
  BY <1>1, <1>2, <1>3
<1>6. /\ Tail(Contents) \in Seq(Item) /\ Len(Tail(Contents)) = size - 1
      /\ \A i \in 1 .. size - 1 : Tail(Contents)[i] = Contents[i + 1]
  BY <1>2, <1>3, <1>5, HeadTailProperties
<1>7. \A i \in 1 .. size - 1 : Contents'[i] = Tail(Contents)[i]
  <2> SUFFICES ASSUME NEW i \in 1 .. size - 1 PROVE Contents'[i] = Tail(Contents)[i]
    OBVIOUS
  <2>1. i + 1 \in 1 .. size
    BY <1>2
  <2> QED
    BY <1>1, <1>3, <1>4, <1>6, <2>1
<1>8. Contents' = Tail(Contents)
  BY <1>4, <1>6, <1>7, SeqEqual
<1> QED
  BY <1>5, <1>8 DEF Fifo!Dequeue

(* queue.c implements a FIFO that refuses nothing and loses nothing, for   *)
(* every initial capacity and every sequence of calls.                     *)
THEOREM QueueIsFifo == QueueSpec => QueueImplementsFifo
<1>1. QueueInit => Fifo!Init
  <2> SUFFICES ASSUME QueueInit PROVE Contents = <<>>
    BY DEF Fifo!Init
  <2>1. size = 0
    BY DEF QueueInit
  <2> QED
    BY <2>1 DEF Contents
<1>2. QueueInv /\ [QueueNext]_queue => [Fifo!Next]_Contents
  <2> SUFFICES ASSUME QueueInv, [QueueNext]_queue PROVE [Fifo!Next]_Contents
    OBVIOUS
  <2>1. CASE UNCHANGED queue
    BY <2>1 DEF queue, Contents
  <2>2. ASSUME NEW x \in Item, queue_enqueue(x) PROVE Fifo!Next
    BY <2>2, EnqueueAppends DEF Fifo!Next
  <2>3. CASE queue_dequeue
    BY <2>3, DequeueTakesFirst DEF Fifo!Next
  <2> QED
    BY <2>1, <2>2, <2>3 DEF QueueNext
<1> QED
  BY <1>1, <1>2, Inductive, PTL DEF QueueSpec, QueueImplementsFifo, Fifo!Spec
-----------------------------------------------------------------------------
(* The parser. *)

Types == {NET_ALIVE, NET_GET_NODE, NET_GET_NODE_RESPONSE, NET_JOIN, NET_JOIN_RESPONSE,
          NET_CLOSE_CONNECTION, NET_NEW_RANGE, NET_NEW_RANGE_RESPONSE, NET_LEAVING}

(* A PDU's type decides which case of get_packet_size applies.             *)
LEMMA FixedSizes ==
  /\ DOMAIN FixedSize = Types
  /\ Types \cap {VAL_INSERT, VAL_REMOVE, VAL_LOOKUP, VAL_LOOKUP_RESPONSE} = {}
  /\ VAL_REMOVE \notin {VAL_INSERT, VAL_LOOKUP_RESPONSE, VAL_LOOKUP}
  /\ VAL_LOOKUP \notin {VAL_INSERT, VAL_LOOKUP_RESPONSE}
  /\ \A t \in Types : FixedSize[t] \in Nat \ {0}
<1> USE ReaderAssumption DEF Types, NET_ALIVE, NET_GET_NODE, NET_GET_NODE_RESPONSE, NET_JOIN, NET_JOIN_RESPONSE,
        NET_CLOSE_CONNECTION, NET_NEW_RANGE, NET_NEW_RANGE_RESPONSE, NET_LEAVING,
        VAL_INSERT, VAL_REMOVE, VAL_LOOKUP, VAL_LOOKUP_RESPONSE
<1>1. DOMAIN FixedSize = Types
  BY DEF FixedSize
<1>2. \A t \in Types : FixedSize[t] \in Nat \ {0}
  BY DEF FixedSize
<1> QED
  BY <1>1, <1>2

(* Whatever is in a buffer, the size get_packet_size finds is a number.    *)
LEMMA SizeIsInt ==
  ASSUME NEW at \in [0 .. BufSize -> Byte], NEW fill \in 1 .. BufSize
  PROVE  get_packet_size(at, fill) \in Int
<1>1. at[0] \in Byte
  BY ReaderAssumption
<1>2. CASE at[0] \in Types
  <2>1. get_packet_size(at, fill) = FixedSize[at[0]]
    BY <1>2, FixedSizes DEF get_packet_size
  <2> QED
    BY <1>2, <2>1, FixedSizes
<1>3. CASE at[0] = VAL_REMOVE
  <2>1. get_packet_size(at, fill) = WhenFilled(fill, 1 + SSN_LENGTH)
    BY <1>3, FixedSizes DEF get_packet_size
  <2> QED
    BY <2>1, ReaderAssumption DEF WhenFilled, Unknown
<1>4. CASE at[0] = VAL_LOOKUP
  <2>1. get_packet_size(at, fill) = WhenFilled(fill, 1 + SSN_LENGTH + ADDR_LENGTH)
    BY <1>4, FixedSizes DEF get_packet_size
  <2> QED
    BY <2>1, ReaderAssumption DEF WhenFilled, Unknown
<1>5. CASE at[0] \in {VAL_INSERT, VAL_LOOKUP_RESPONSE}
  <2>1. get_packet_size(at, fill) = EntrySize(at, fill)
    BY <1>5, FixedSizes DEF get_packet_size
  <2> DEFINE head == 1 + SSN_LENGTH + 1
  <2>2. head \in Nat \ {0}
    BY ReaderAssumption
  <2>3. CASE fill < head
    BY <2>1, <2>3 DEF EntrySize, Unknown
  <2>4. CASE ~(fill < head)
    <3>1. head - 1 \in 0 .. BufSize
      BY <2>2, <2>4, ReaderAssumption
    <3>2. PICK n \in Nat : n = at[head - 1]
      BY <3>1 DEF Byte
    <3>3. CASE fill < head + n + 1
      BY <2>1, <2>4, <3>2, <3>3 DEF EntrySize, Unknown
    <3>4. CASE ~(fill < head + n + 1)
      <4>1. head + n \in 0 .. BufSize
        BY <2>2, <3>2, <3>4, ReaderAssumption
      <4>2. PICK e \in Nat : e = at[head + n]
        BY <4>1 DEF Byte
      <4>3. get_packet_size(at, fill) = head + n + 1 + e
        BY <2>1, <2>4, <3>2, <3>4, <4>2 DEF EntrySize
      <4> QED
        BY <2>2, <4>3
    <3> QED
      BY <3>3, <3>4
  <2> QED
    BY <2>3, <2>4
<1>6. CASE at[0] \notin Types \cup {VAL_REMOVE, VAL_LOOKUP, VAL_INSERT, VAL_LOOKUP_RESPONSE}
  BY <1>6, FixedSizes DEF get_packet_size, Unknown
<1> QED
  BY <1>2, <1>3, <1>4, <1>5, <1>6

(* at is the beginning of m, as far as it has arrived. *)
Arrived(m, at, fill) ==
  \A i \in 0 .. BufSize : i < fill /\ i < Len(m) => at[i] = m[i + 1]

(* The heart of the parser: what get_packet_size takes for a PDU is one.   *)
LEMMA SizeIsRight ==
  ASSUME NEW at \in [0 .. BufSize -> Byte], NEW fill \in 1 .. BufSize,
         NEW m \in Seq(Byte), IsPdu(m), Arrived(m, at, fill),
         get_packet_size(at, fill) >= 0, fill >= get_packet_size(at, fill)
  PROVE  get_packet_size(at, fill) = Len(m)
<1>1. PICK len \in Nat \ {0} : len = Len(m)
  BY EmptySeq DEF IsPdu
<1>2. at[0] = m[1]
  BY <1>1, ReaderAssumption DEF Arrived
<1>3. CASE m[1] \in Types
  <2>1. get_packet_size(at, fill) = FixedSize[m[1]]
    BY <1>2, <1>3, FixedSizes DEF get_packet_size
  <2>2. Len(m) = FixedSize[m[1]]
    BY <1>3, FixedSizes DEF IsPdu
  <2> QED
    BY <2>1, <2>2
<1>4. CASE m[1] = VAL_REMOVE
  <2>1. get_packet_size(at, fill) = WhenFilled(fill, 1 + SSN_LENGTH)
    BY <1>2, <1>4, FixedSizes DEF get_packet_size
  <2>2. Len(m) = 1 + SSN_LENGTH
    BY <1>4, FixedSizes DEF IsPdu
  <2> QED
    BY <2>1, <2>2, ReaderAssumption DEF WhenFilled, Unknown
<1>5. CASE m[1] = VAL_LOOKUP
  <2>1. get_packet_size(at, fill) = WhenFilled(fill, 1 + SSN_LENGTH + ADDR_LENGTH)
    BY <1>2, <1>5, FixedSizes DEF get_packet_size
  <2>2. Len(m) = 1 + SSN_LENGTH + ADDR_LENGTH
    BY <1>5, FixedSizes DEF IsPdu
  <2> QED
    BY <2>1, <2>2, ReaderAssumption DEF WhenFilled, Unknown
<1>6. CASE m[1] \in {VAL_INSERT, VAL_LOOKUP_RESPONSE}
  <2>1. get_packet_size(at, fill) = EntrySize(at, fill)
    BY <1>2, <1>6, FixedSizes DEF get_packet_size
  <2>2. IsEntry(m)
    BY <1>6, FixedSizes DEF IsPdu
  <2>3. PICK head \in Nat \ {0} : head = 1 + SSN_LENGTH + 1
    BY ReaderAssumption
  <2>4. ~(fill < head)
    BY <2>1, <2>3 DEF EntrySize, Unknown
  <2>5. head <= len
    BY <1>1, <2>2, <2>3 DEF IsEntry
  <2>6. PICK n \in Nat : n = m[head] /\ n = at[head - 1]
    <3>1. head - 1 \in 0 .. BufSize /\ head - 1 < fill /\ head - 1 < len /\ head - 1 + 1 = head
      BY <2>3, <2>4, <2>5, ReaderAssumption
    <3>2. at[head - 1] = m[head] /\ at[head - 1] \in Byte
      BY <1>1, <3>1 DEF Arrived
    <3>3. PICK b \in Byte : b = at[head - 1]
      BY <3>2, Zenon
    <3>4. b \in Nat
      BY DEF Byte
    <3> QED
      BY <3>2, <3>3, <3>4, Zenon
  <2>7. ~(fill < head + n + 1)
    BY <2>1, <2>3, <2>4, <2>6 DEF EntrySize, Unknown
  <2>8. head + n + 1 <= len /\ len = head + n + 1 + m[head + n + 1]
    BY <1>1, <2>2, <2>3, <2>6 DEF IsEntry
  <2>9. at[head + n] = m[head + n + 1]
    <3>1. head + n \in 0 .. BufSize /\ head + n < fill /\ head + n < len
      BY <2>3, <2>6, <2>7, <2>8, ReaderAssumption
    <3> QED
      BY <1>1, <3>1 DEF Arrived
  <2>10. get_packet_size(at, fill) = head + n + 1 + at[head + n]
    BY <2>1, <2>3, <2>4, <2>6, <2>7 DEF EntrySize
  <2> QED
    BY <1>1, <2>8, <2>9, <2>10
<1> QED
  BY <1>3, <1>4, <1>5, <1>6, FixedSizes DEF IsPdu

(* And what has all arrived is taken for a PDU.                            *)
LEMMA SizeIsKnown ==
  ASSUME NEW at \in [0 .. BufSize -> Byte], NEW fill \in 1 .. BufSize,
         NEW m \in Seq(Byte), IsPdu(m), Arrived(m, at, fill), fill >= Len(m)
  PROVE  get_packet_size(at, fill) = Len(m)
<1>1. PICK len \in Nat \ {0} : len = Len(m)
  BY EmptySeq DEF IsPdu
<1>2. at[0] = m[1]
  BY <1>1, ReaderAssumption DEF Arrived
<1>3. CASE m[1] \in Types
  <2>1. get_packet_size(at, fill) = FixedSize[m[1]]
    BY <1>2, <1>3, FixedSizes DEF get_packet_size
  <2>2. Len(m) = FixedSize[m[1]]
    BY <1>3, FixedSizes DEF IsPdu
  <2> QED
    BY <2>1, <2>2
<1>4. CASE m[1] = VAL_REMOVE
  <2>1. get_packet_size(at, fill) = WhenFilled(fill, 1 + SSN_LENGTH)
    BY <1>2, <1>4, FixedSizes DEF get_packet_size
  <2>2. Len(m) = 1 + SSN_LENGTH
    BY <1>4, FixedSizes DEF IsPdu
  <2> QED
    BY <1>1, <2>1, <2>2, ReaderAssumption DEF WhenFilled
<1>5. CASE m[1] = VAL_LOOKUP
  <2>1. get_packet_size(at, fill) = WhenFilled(fill, 1 + SSN_LENGTH + ADDR_LENGTH)
    BY <1>2, <1>5, FixedSizes DEF get_packet_size
  <2>2. Len(m) = 1 + SSN_LENGTH + ADDR_LENGTH
    BY <1>5, FixedSizes DEF IsPdu
  <2> QED
    BY <1>1, <2>1, <2>2, ReaderAssumption DEF WhenFilled
<1>6. CASE m[1] \in {VAL_INSERT, VAL_LOOKUP_RESPONSE}
  <2>1. get_packet_size(at, fill) = EntrySize(at, fill)
    BY <1>2, <1>6, FixedSizes DEF get_packet_size
  <2>2. IsEntry(m)
    BY <1>6, FixedSizes DEF IsPdu
  <2>3. PICK head \in Nat \ {0} : head = 1 + SSN_LENGTH + 1
    BY ReaderAssumption
  <2>4. head <= len /\ len <= fill /\ len <= BufSize
    BY <1>1, <2>2, <2>3, ReaderAssumption DEF IsEntry
  <2>5. PICK n \in Nat : n = m[head] /\ n = at[head - 1]
    <3>1. head - 1 \in 0 .. BufSize /\ head - 1 < fill /\ head - 1 < len /\ head - 1 + 1 = head
      BY <2>3, <2>4, ReaderAssumption
    <3>2. at[head - 1] = m[head] /\ at[head - 1] \in Byte
      BY <1>1, <3>1 DEF Arrived
    <3>3. PICK b \in Byte : b = at[head - 1]
      BY <3>2, Zenon
    <3>4. b \in Nat
      BY DEF Byte
    <3> QED
      BY <3>2, <3>3, <3>4, Zenon
  <2>6. head + n + 1 <= len /\ len = head + n + 1 + m[head + n + 1]
    BY <1>1, <2>2, <2>3, <2>5 DEF IsEntry
  <2>7. at[head + n] = m[head + n + 1]
    <3>1. head + n \in 0 .. BufSize /\ head + n < fill /\ head + n < len
      BY <2>3, <2>4, <2>5, <2>6, ReaderAssumption
    <3> QED
      BY <1>1, <3>1 DEF Arrived
  <2>8. get_packet_size(at, fill) = head + n + 1 + at[head + n]
    <3>1. ~(fill < head) /\ ~(fill < head + n + 1)
      BY <2>3, <2>4, <2>5, <2>6
    <3> QED
      BY <2>1, <2>3, <2>5, <3>1 DEF EntrySize
  <2> QED
    BY <1>1, <2>6, <2>7, <2>8
<1> QED
  BY <1>3, <1>4, <1>5, <1>6, FixedSizes DEF IsPdu
-----------------------------------------------------------------------------
(* The PDUs of a stream that are in the queue. *)

LEMMA Enqueued ==
  ASSUME QueueInv, NEW x \in Item, queue_enqueue(x)
  PROVE  /\ QueueInv'
         /\ Contents' \in Seq(Item) /\ Contents' = Append(Contents, x)
<1>1. /\ QueueInv'
      /\ items'[(front' + size' - 1) % capacity'] = x
      /\ \A i \in 1 .. size : items'[(front' + i - 1) % capacity'] = items[(front + i - 1) % capacity]
  BY InPlace, Resizing DEF queue_enqueue
<1>2. size' = size + 1 /\ size \in Nat
  BY DEF queue_enqueue, EnqueueInPlace, EnqueueResizing, QueueInv, Shape
<1>3. /\ Contents \in Seq(Item) /\ Len(Contents) = size
      /\ \A i \in 1 .. size : Contents[i] = items[(front + i - 1) % capacity]
  BY ContentsAt
<1>4. /\ Contents' \in Seq(Item) /\ Len(Contents') = size'
      /\ \A i \in 1 .. size' : Contents'[i] = items'[(front' + i - 1) % capacity']
  <2>1. \A i \in 1 .. size' : items'[(front' + i - 1) % capacity'] \in Item
    BY <1>1 DEF QueueInv, Held
  <2> QED
    BY <1>1, <1>2, <2>1 DEF Contents
<1>5. PICK c \in Seq(Item), d \in Seq(Item) : c = Contents /\ d = Contents'
  BY <1>3, <1>4
<1>6. PICK n \in Nat : n = Len(c) /\ n + 1 = Len(d)
  BY <1>2, <1>3, <1>4, <1>5
<1>7. d[n + 1] = x /\ \A i \in 1 .. n : d[i] = c[i]
  BY <1>1, <1>2, <1>3, <1>4, <1>5, <1>6
<1>8. d = Append(c, x)
  <2>1. PICK a \in Seq(Item) : a = Append(c, x)
    BY AppendProperties
  <2>2. Len(a) = n + 1 /\ a[n + 1] = x /\ \A i \in 1 .. n : a[i] = c[i]
    BY <1>6, <2>1, AppendProperties
  <2>3. \A i \in 1 .. n + 1 : d[i] = a[i]
    BY <1>7, <2>2
  <2>4. d = a
    BY <1>6, <2>2, <2>3, SeqEqual
  <2> QED
    BY <2>1, <2>4
<1> QED
  BY <1>1, <1>4, <1>5, <1>8, Zenon

LEMMA Dequeued ==
  ASSUME QueueInv, queue_dequeue
  PROVE  /\ QueueInv'
         /\ Contents \in Seq(Item) /\ Contents # <<>>
         /\ FrontItem = Head(Contents) /\ Contents' = Tail(Contents)
<1>1. QueueInv' /\ size > 0
  BY Dequeuing
<1>2. Contents # <<>> /\ Contents' = Tail(Contents)
  BY DequeueTakesFirst DEF Fifo!Dequeue
<1>3. /\ Contents \in Seq(Item) /\ Len(Contents) = size
      /\ \A i \in 1 .. size : Contents[i] = items[(front + i - 1) % capacity]
  BY ContentsAt
<1>4. (front + 1 - 1) % capacity = front /\ 1 \in 1 .. size
  <2>1. capacity \in Nat \ {0} /\ front \in 0 .. capacity - 1 /\ size \in Nat
    BY DEF QueueInv, Shape
  <2>2. (front + 1 - 1) % capacity = IF front + 1 - 1 < capacity THEN front + 1 - 1 ELSE front + 1 - 1 - capacity
    BY <2>1
  <2> QED
    BY <1>1, <2>1, <2>2
<1>5. FrontItem = Contents[1]
  BY <1>3, <1>4 DEF FrontItem
<1> QED
  BY <1>1, <1>2, <1>3, <1>5

(* What is enqueued; see Parse. *)
Pdu == [from : Stream, bytes : Seq(Byte)]

Of(s, p) == IF p.from = s THEN <<p.bytes>> ELSE <<>>
AllOf(s, q) == [i \in DOMAIN q |-> Of(s, q[i])]

LEMMA OfType ==
  ASSUME NEW s \in Stream, NEW p \in Pdu
  PROVE  Of(s, p) \in Seq(Seq(Byte))
BY DEF Of, Pdu

LEMMA AllOfType ==
  ASSUME NEW s \in Stream, NEW q \in Seq(Pdu)
  PROVE  /\ AllOf(s, q) \in Seq(Seq(Seq(Byte))) /\ Len(AllOf(s, q)) = Len(q)
         /\ \A i \in 1 .. Len(q) : AllOf(s, q)[i] = Of(s, q[i])
         /\ PdusFrom(s, q) = FlattenSeq(AllOf(s, q))
<1>1. PICK n \in Nat : n = Len(q) /\ DOMAIN q = 1 .. n
  OBVIOUS
<1>2. \A i \in 1 .. n : Of(s, q[i]) \in Seq(Seq(Byte))
  BY <1>1, OfType
<1>3. AllOf(s, q) = [i \in 1 .. n |-> Of(s, q[i])]
  BY <1>1 DEF AllOf
<1>4. PdusFrom(s, q) = FlattenSeq(AllOf(s, q))
  BY DEF PdusFrom, AllOf, Of
<1>5. AllOf(s, q) \in Seq(Seq(Seq(Byte))) /\ Len(AllOf(s, q)) = n
  BY <1>2, <1>3
<1> QED
  BY <1>1, <1>3, <1>4, <1>5

LEMMA PdusType ==
  ASSUME NEW s \in Stream, NEW q \in Seq(Pdu)
  PROVE  PdusFrom(s, q) \in Seq(Seq(Byte))
BY AllOfType, FlattenType

LEMMA PdusNone ==
  ASSUME NEW s \in Stream
  PROVE  PdusFrom(s, <<>>) = <<>>
<1>1. [i \in DOMAIN <<>> |-> IF <<>>[i].from = s THEN <<<<>>[i].bytes>> ELSE <<>>] = <<>>
  OBVIOUS
<1> QED
  BY <1>1, FlattenNone DEF PdusFrom

LEMMA PdusAppend ==
  ASSUME NEW s \in Stream, NEW q \in Seq(Pdu), NEW p \in Pdu
  PROVE  PdusFrom(s, Append(q, p)) = PdusFrom(s, q) \o Of(s, p)
<1>1. PICK r \in Seq(Pdu) : r = Append(q, p)
  BY AppendProperties
<1>2. PICK n \in Nat : n = Len(q) /\ n + 1 = Len(r)
  BY <1>1, AppendProperties
<1>3. r[n + 1] = p /\ \A i \in 1 .. n : r[i] = q[i]
  BY <1>1, <1>2, AppendProperties
<1> DEFINE B == Seq(Seq(Byte))
<1>4. PICK a \in Seq(B), b \in Seq(B) : a = AllOf(s, q) /\ b = AllOf(s, r)
  BY AllOfType
<1>5. Len(a) = n /\ \A i \in 1 .. n : a[i] = Of(s, q[i])
  BY <1>2, <1>4, AllOfType
<1>6. Len(b) = n + 1 /\ \A i \in 1 .. n + 1 : b[i] = Of(s, r[i])
  BY <1>2, <1>4, AllOfType
<1>7. PICK x \in B : x = Of(s, p)
  BY OfType
<1> HIDE DEF B
<1>8. b = Append(a, x)
  <2>1. PICK c \in Seq(B) : c = Append(a, x)
    BY AppendProperties
  <2>2. Len(c) = n + 1 /\ c[n + 1] = x /\ \A i \in 1 .. n : c[i] = a[i]
    BY <1>5, <2>1, AppendProperties
  <2>3. \A i \in 1 .. n + 1 : b[i] = c[i]
    BY <1>3, <1>5, <1>6, <1>7, <2>2
  <2>4. b = c
    BY <1>6, <2>2, <2>3, SeqEqual
  <2> QED
    BY <2>1, <2>4
<1>9. FlattenSeq(b) = FlattenSeq(a) \o x
  BY <1>8, FlattenAppend DEF B
<1>10. PdusFrom(s, q) = FlattenSeq(a) /\ PdusFrom(s, r) = FlattenSeq(b)
  BY <1>4, AllOfType
<1> QED
  BY <1>1, <1>7, <1>9, <1>10

LEMMA PdusHead ==
  ASSUME NEW s \in Stream, NEW q \in Seq(Pdu), q # <<>>
  PROVE  PdusFrom(s, q) = Of(s, Head(q)) \o PdusFrom(s, Tail(q))
<1>1. PICK r \in Seq(Pdu), p \in Pdu : r = Tail(q) /\ p = Head(q)
  BY HeadTailProperties
<1>2. PICK n \in Nat : n + 1 = Len(q) /\ n = Len(r)
  BY <1>1, HeadTailProperties
<1>3. q[1] = p /\ \A i \in 1 .. n : r[i] = q[i + 1]
  BY <1>1, <1>2, HeadTailProperties
<1> DEFINE B == Seq(Seq(Byte))
<1>4. PICK a \in Seq(B), b \in Seq(B) : a = AllOf(s, q) /\ b = AllOf(s, r)
  BY AllOfType
<1>5. Len(a) = n + 1 /\ \A i \in 1 .. n + 1 : a[i] = Of(s, q[i])
  BY <1>2, <1>4, AllOfType
<1>6. Len(b) = n /\ \A i \in 1 .. n : b[i] = Of(s, r[i])
  BY <1>2, <1>4, AllOfType
<1> HIDE DEF B
<1>7. a # <<>> /\ Head(a) = Of(s, p)
  BY <1>3, <1>5
<1>8. b = Tail(a)
  <2>1. PICK c \in Seq(B) : c = Tail(a)
    BY <1>7, HeadTailProperties
  <2>2. Len(c) = n /\ \A i \in 1 .. n : c[i] = a[i + 1]
    BY <1>5, <1>7, <2>1, HeadTailProperties
  <2>3. \A i \in 1 .. n : b[i] = c[i]
    <3> SUFFICES ASSUME NEW i \in 1 .. n PROVE b[i] = c[i]
      OBVIOUS
    <3>1. i + 1 \in 1 .. n + 1
      OBVIOUS
    <3> QED
      BY <1>3, <1>5, <1>6, <2>2, <3>1
  <2>4. b = c
    BY <1>6, <2>2, <2>3, SeqEqual
  <2> QED
    BY <2>1, <2>4
<1>9. FlattenSeq(a) = Head(a) \o FlattenSeq(Tail(a))
  BY <1>7, FlattenHead DEF B
<1>10. PdusFrom(s, q) = FlattenSeq(a) /\ PdusFrom(s, r) = FlattenSeq(b)
  BY <1>1, <1>4, AllOfType
<1> QED
  BY <1>1, <1>7, <1>8, <1>9, <1>10
-----------------------------------------------------------------------------
(* A stream's account: what is queued and what is still to come make up    *)
(* what is pending, and the bytes in the buffer and on the wire are those  *)
(* of what is still to come.                                               *)

Account(q, p, b, w) ==
  \E r \in Seq(Seq(Byte)) : p = q \o r /\ b \o w = FlattenSeq(r)

LEMMA BytesAssociative ==
  ASSUME NEW x \in Seq(Byte), NEW y \in Seq(Byte), NEW z \in Seq(Byte)
  PROVE  (x \o y) \o z = x \o (y \o z)
BY ConcatAssociative

LEMMA PdusAssociative ==
  ASSUME NEW x \in Seq(Seq(Byte)), NEW y \in Seq(Seq(Byte)), NEW z \in Seq(Seq(Byte))
  PROVE  (x \o y) \o z = x \o (y \o z)
BY ConcatAssociative

LEMMA SplitConcat ==
  ASSUME NEW B, NEW q \in Seq(B), NEW r \in Seq(B)
  PROVE  q = SubSeq(q \o r, 1, Len(q)) /\ r = SubSeq(q \o r, Len(q) + 1, Len(q \o r))
<1>1. PICK p \in Seq(B) : p = q \o r
  BY ConcatProperties
<1>2. PICK n \in Nat, k \in Nat : n = Len(q) /\ k = Len(r)
  OBVIOUS
<1>3. /\ Len(p) = n + k
      /\ \A i \in 1 .. n + k : p[i] = IF i <= n THEN q[i] ELSE r[i - n]
  BY <1>1, <1>2, ConcatProperties
<1>4. q = SubSeq(p, 1, n)
  <2>1. PICK c : c = SubSeq(p, 1, n)
    OBVIOUS
  <2>2. c \in Seq(B) /\ Len(c) = n /\ \A i \in 1 .. n : c[i] = p[i]
    <3>1. \A i \in 1 .. n : p[i] \in B
      BY <1>3, ElementOfSeq
    <3>2. Len(c) = IF 1 <= n THEN n - 1 + 1 ELSE 0
      BY <2>1, <3>1, SubSeqProperties
    <3>3. c \in Seq(B) /\ \A i \in 1 .. n - 1 + 1 : c[i] = p[1 + i - 1]
      BY <2>1, <3>1, SubSeqProperties
    <3> QED
      BY <3>2, <3>3
  <2>3. q \in Seq(B) /\ \A i \in 1 .. n : q[i] = c[i]
    <3>1. \A i \in 1 .. n : q[i] = c[i]
      BY <1>3, <2>2
    <3> QED
      BY <3>1
  <2>4. q = c
    BY <1>2, <2>2, <2>3, SeqEqual
  <2> QED
    BY <2>1, <2>4
<1>5. r = SubSeq(p, n + 1, n + k)
  <2>1. PICK c : c = SubSeq(p, n + 1, n + k)
    OBVIOUS
  <2>2. c \in Seq(B) /\ Len(c) = k /\ \A i \in 1 .. k : c[i] = p[n + i]
    <3>1. \A i \in n + 1 .. n + k : p[i] \in B
      BY <1>3, ElementOfSeq
    <3>2. Len(c) = IF n + 1 <= n + k THEN n + k - (n + 1) + 1 ELSE 0
      <4>1. PICK u \in Int, v \in Int : u = n + 1 /\ v = n + k
        OBVIOUS
      <4>2. \A i \in u .. v : p[i] \in B
        BY <3>1, <4>1
      <4>3. Len(SubSeq(p, u, v)) = IF u <= v THEN v - u + 1 ELSE 0
        BY <4>2, SubSeqProperties
      <4>4. c = SubSeq(p, u, v)
        BY <2>1, <4>1, Zenon
      <4>5. Len(c) = IF u <= v THEN v - u + 1 ELSE 0
        BY <4>3, <4>4, Zenon
      <4> QED
        BY <4>1, <4>5
    <3>3. c \in Seq(B) /\ \A i \in 1 .. n + k - (n + 1) + 1 : c[i] = p[n + 1 + i - 1]
      BY <2>1, <3>1, SubSeqProperties
    <3> QED
      BY <3>2, <3>3
  <2>3. r \in Seq(B) /\ \A i \in 1 .. k : r[i] = c[i]
    <3>1. ASSUME NEW i \in 1 .. k PROVE r[i] = c[i]
      <4>1. n + i \in 1 .. n + k /\ ~(n + i <= n) /\ n + i - n = i
        OBVIOUS
      <4> QED
        BY <1>3, <2>2, <4>1
    <3> QED
      BY <3>1
  <2>4. r = c
    BY <1>2, <2>2, <2>3, SeqEqual
  <2> QED
    BY <2>1, <2>4
<1> QED
  BY <1>1, <1>2, <1>3, <1>4, <1>5

LEMMA AccountSays ==
  ASSUME NEW q \in Seq(Seq(Byte)), NEW p \in Seq(Seq(Byte)), NEW b, NEW w, Account(q, p, b, w)
  PROVE  /\ q = SubSeq(p, 1, Len(q))
         /\ b \o w = FlattenSeq(SubSeq(p, Len(q) + 1, Len(p)))
<1>1. PICK r \in Seq(Seq(Byte)) : p = q \o r /\ b \o w = FlattenSeq(r)
  BY DEF Account
<1>2. q = SubSeq(q \o r, 1, Len(q)) /\ r = SubSeq(q \o r, Len(q) + 1, Len(q \o r))
  BY SplitConcat
<1> QED
  BY <1>1, <1>2, Zenon

(* A PDU is sent. *)
LEMMA AccountSent ==
  ASSUME NEW q \in Seq(Seq(Byte)), NEW p \in Seq(Seq(Byte)), NEW b \in Seq(Byte), NEW w \in Seq(Byte),
         Account(q, p, b, w), NEW m \in Seq(Byte)
  PROVE  Account(q, Append(p, m), b, w \o m)
<1>1. PICK r \in Seq(Seq(Byte)) : p = q \o r /\ b \o w = FlattenSeq(r)
  BY DEF Account
<1>2. PICK t \in Seq(Seq(Byte)) : t = Append(r, m)
  BY AppendProperties
<1>3. Append(p, m) = q \o t
  <2> DEFINE B == Seq(Byte)
  <2>1. q \in Seq(B) /\ p \in Seq(B) /\ r \in Seq(B) /\ m \in B /\ <<m>> \in Seq(B)
    OBVIOUS
  <2> HIDE DEF B
  <2>2. Append(p, m) = p \o <<m>> /\ t = r \o <<m>>
    BY <1>2, <2>1, AppendIsConcat
  <2>3. (q \o r) \o <<m>> = q \o (r \o <<m>>)
    BY <2>1, PdusAssociative, Zenon DEF B
  <2> QED
    BY <1>1, <2>2, <2>3
<1>4. b \o (w \o m) = FlattenSeq(t)
  <2>1. (b \o w) \o m = b \o (w \o m)
    BY BytesAssociative, Zenon
  <2>2. FlattenSeq(t) = FlattenSeq(r) \o m
    BY <1>2, FlattenAppend
  <2> QED
    BY <1>1, <2>1, <2>2
<1> QED
  BY <1>3, <1>4 DEF Account

(* The node reads x. *)
LEMMA AccountRead ==
  ASSUME NEW q, NEW p, NEW b \in Seq(Byte), NEW x \in Seq(Byte), NEW w \in Seq(Byte),
         Account(q, p, b, x \o w)
  PROVE  Account(q, p, b \o x, w)
<1>1. (b \o x) \o w = b \o (x \o w)
  BY ConcatAssociative
<1> QED
  BY <1>1 DEF Account

(* Both b \o w and m \o x are the bytes to come; m is all in the buffer, *)
(* and c is what is behind it there.                                       *)
Overlap(b, w, m, x, c) ==
  /\ b \o w = m \o x
  /\ Len(m) + Len(c) = Len(b)
  /\ \A i \in 1 .. Len(c) : c[i] = b[Len(m) + i]

LEMMA HeadCut ==
  ASSUME NEW b \in Seq(Byte), NEW w \in Seq(Byte), NEW m \in Seq(Byte), NEW x \in Seq(Byte),
         NEW c \in Seq(Byte), Overlap(b, w, m, x, c)
  PROVE  b = m \o c /\ c \o w = x
<1>10. /\ b \o w = m \o x
       /\ Len(m) + Len(c) = Len(b) /\ \A i \in 1 .. Len(c) : c[i] = b[Len(m) + i]
  BY DEF Overlap
<1>1. PICK n \in Nat, k \in Nat, l \in Nat : n = Len(m) /\ k = Len(c) /\ l = Len(w)
  OBVIOUS
<1>2. PICK z \in Seq(Byte) : z = b \o w
  BY ConcatProperties
<1>3. \A i \in 1 .. n + k + l : z[i] = IF i <= n + k THEN b[i] ELSE w[i - (n + k)]
  <2>1. PICK g \in Nat : g = n + k /\ g = Len(b)
    BY <1>1, <1>10
  <2>2. \A i \in 1 .. g + l : z[i] = IF i <= g THEN b[i] ELSE w[i - g]
    BY <1>1, <1>2, <2>1, ConcatProperties
  <2> QED
    BY <2>1, <2>2
<1>4. PICK j \in Nat : j = Len(x)
  OBVIOUS
<1>5. \A i \in 1 .. n + j : z[i] = IF i <= n THEN m[i] ELSE x[i - n]
  BY <1>1, <1>2, <1>4, <1>10, ConcatProperties
<1>6. Len(z) = n + k + l /\ Len(z) = n + j
  BY <1>1, <1>10, <1>2, <1>4, ConcatProperties
<1>7. b = m \o c
  <2>1. PICK y \in Seq(Byte) : y = m \o c
    BY ConcatProperties
  <2>2. Len(y) = n + k /\ \A i \in 1 .. n + k : y[i] = IF i <= n THEN m[i] ELSE c[i - n]
    BY <1>1, <2>1, ConcatProperties
  <2>3. ASSUME NEW i \in 1 .. n + k PROVE b[i] = y[i]
    <3>1. CASE i <= n
      <4>1. i \in 1 .. n + k + l /\ i \in 1 .. n + j
        BY <1>6
      <4>2. z[i] = b[i]
        BY <1>3, <4>1
      <4>3. z[i] = m[i]
        BY <1>5, <3>1, <4>1
      <4>4. y[i] = m[i]
        BY <2>2, <3>1
      <4> QED
        BY <4>2, <4>3, <4>4
    <3>2. CASE ~(i <= n)
      <4>1. PICK h \in 1 .. k : h = i - n /\ n + h = i
        BY <3>2
      <4>2. c[h] = b[n + h]
        BY <1>1, <1>10
      <4> QED
        BY <2>2, <3>2, <4>1, <4>2
    <3> QED
      BY <3>1, <3>2
  <2>4. Len(b) = n + k
    BY <1>1, <1>10
  <2>5. b = y
    BY <2>2, <2>3, <2>4, SeqEqual
  <2> QED
    BY <2>1, <2>5
<1>8. m \o (c \o w) = m \o x
  <2>1. (m \o c) \o w = m \o (c \o w)
    BY BytesAssociative, Zenon
  <2> QED
    BY <1>7, <1>10, <2>1, Zenon
<1>9. c \o w \in Seq(Byte)
  BY ConcatProperties
<1> QED
  BY <1>7, <1>8, <1>9, ConcatSimplifications

(* What is in the buffer begins with the next PDU to come. *)
NextOf(r, q, p, b, w) == r # <<>> /\ p = q \o r /\ b \o w = Head(r) \o FlattenSeq(Tail(r))

LEMMA AccountNext ==
  ASSUME NEW q \in Seq(Seq(Byte)), NEW p \in Seq(Seq(Byte)), NEW b \in Seq(Byte), NEW w \in Seq(Byte),
         Account(q, p, b, w), b # <<>>
  PROVE  \E r \in Seq(Seq(Byte)) : NextOf(r, q, p, b, w)
<1>1. PICK r \in Seq(Seq(Byte)) : p = q \o r /\ b \o w = FlattenSeq(r)
  BY DEF Account
<1>2. b \o w # <<>>
  BY ConcatEqualIffEmpty
<1>3. r # <<>>
  BY <1>1, <1>2, FlattenNone
<1>4. FlattenSeq(r) = Head(r) \o FlattenSeq(Tail(r))
  BY <1>3, FlattenHead
<1> QED
  BY <1>1, <1>3, <1>4 DEF NextOf

LEMMA AccountParsed ==
  ASSUME NEW q \in Seq(Seq(Byte)), NEW r \in Seq(Seq(Byte)), r # <<>>, NEW c, NEW w,
         c \o w = FlattenSeq(Tail(r))
  PROVE  Account(q \o <<Head(r)>>, q \o r, c, w)
<1> DEFINE B == Seq(Byte)
<1>1. PICK m \in B, t \in Seq(B) : m = Head(r) /\ t = Tail(r)
  BY HeadTailProperties
<1>2. q \in Seq(B) /\ <<m>> \in Seq(B) /\ r \in Seq(B)
  OBVIOUS
<1> HIDE DEF B
<1>3. r = <<m>> \o t
  <2>1. PICK y \in Seq(B) : y = <<m>> \o t
    BY <1>2, ConcatProperties
  <2>2. PICK n \in Nat : n = Len(t) /\ n + 1 = Len(r)
    <3>1. PICK k \in Nat : k = Len(r)
      BY <1>2, LenProperties, Zenon
    <3>2. PICK l \in Nat : l = Len(t)
      BY LenProperties, Zenon
    <3>3. l = k - 1
      BY <1>1, <1>2, <3>1, <3>2, HeadTailProperties
    <3>4. l + 1 = k
      BY <3>3
    <3> QED
      BY <3>1, <3>2, <3>4, Zenon
  <2>3. \A i \in 1 .. n : t[i] = r[i + 1]
    BY <1>1, <1>2, <2>2, HeadTailProperties
  <2>4. Len(y) = n + 1 /\ y[1] = m /\ \A i \in 1 .. n : y[i + 1] = t[i]
    <3>1. Len(<<m>>) = 1 /\ <<m>>[1] = m
      OBVIOUS
    <3>2. Len(y) = 1 + n /\ \A i \in 1 .. 1 + n : y[i] = IF i <= 1 THEN <<m>>[i] ELSE t[i - 1]
      BY <1>2, <2>1, <2>2, <3>1, ConcatProperties
    <3>3. ASSUME NEW i \in 1 .. n PROVE y[i + 1] = t[i]
      <4>1. i + 1 \in 1 .. 1 + n /\ ~(i + 1 <= 1) /\ (i + 1) - 1 = i
        OBVIOUS
      <4> QED
        BY <3>2, <4>1
    <3> QED
      BY <3>1, <3>2, <3>3
  <2>5. r[1] = m
    BY <1>1, <1>2
  <2>6. ASSUME NEW i \in 1 .. n + 1 PROVE r[i] = y[i]
    <3>1. CASE i = 1
      BY <2>4, <2>5, <3>1
    <3>2. CASE i # 1
      <4>1. PICK j \in 1 .. n : i = j + 1
        <5>1. i - 1 \in 1 .. n /\ i = (i - 1) + 1
          BY <3>2
        <5> QED
          BY <5>1
      <4> QED
        BY <2>3, <2>4, <4>1
    <3> QED
      BY <3>1, <3>2
  <2>7. r = y
    BY <1>2, <2>2, <2>4, <2>6, SeqEqual
  <2> QED
    BY <2>1, <2>7
<1>4. (q \o <<m>>) \o t = q \o r
  BY <1>2, <1>3, ConcatAssociative
<1>5. t \in Seq(Seq(Byte))
  BY DEF B
<1> QED
  BY <1>1, <1>4, <1>5 DEF Account

(* d, which is nothing or the first PDU, was handled. *)
LEMMA AccountHandled ==
  ASSUME NEW q \in Seq(Seq(Byte)), NEW p \in Seq(Seq(Byte)), NEW b, NEW w,
         NEW d \in Seq(Seq(Byte)), Account(d \o q, p, b, w)
  PROVE  \E s \in Seq(Seq(Byte)) : p = d \o s /\ Account(q, s, b, w)
<1>1. PICK r \in Seq(Seq(Byte)) : p = (d \o q) \o r /\ b \o w = FlattenSeq(r)
  BY DEF Account
<1>2. PICK s \in Seq(Seq(Byte)) : s = q \o r
  BY ConcatProperties
<1>3. (d \o q) \o r = d \o s
  BY <1>2, ConcatAssociative
<1> QED
  BY <1>1, <1>2, <1>3 DEF Account

(* The connection is replaced while nothing of it is in the buffer. *)
LEMMA AccountClosed ==
  ASSUME NEW q \in Seq(Seq(Byte))
  PROVE  Account(q, q, <<>>, <<>>)
<1>1. q \o <<>> = q /\ <<>> \in Seq(Seq(Byte))
  BY ConcatEmptySeq, EmptySeq
<1>2. <<>> \o <<>> = FlattenSeq(<<>>)
  BY FlattenNone, ConcatEmptySeq
<1> QED
  BY <1>1, <1>2 DEF Account
-----------------------------------------------------------------------------
(* The invariant. *)

Sound(s) == Account(Queued(s), pending[s], Unparsed(s), wire[s])

Typed == TypeOK /\ filled \in [Stream -> 0 .. BufSize]
InBuffer == pc \in Stream => offset + filled[pc] <= BufSize
Sendable == \A s \in Stream : pending[s] \in Seq(Message[s])

RInv ==
  /\ Typed /\ QueueInv /\ InBuffer /\ Sendable
  /\ \A s \in Stream : Intact(s) => Sound(s)

(* Bytes f + 1 to f + n of a buffer. *)
LEMMA Window ==
  ASSUME NEW buf \in [1 .. BufSize -> Byte], NEW f \in Nat, NEW n \in Nat, f + n <= BufSize
  PROVE  /\ SubSeq(buf, f + 1, f + n) \in Seq(Byte)
         /\ Len(SubSeq(buf, f + 1, f + n)) = n
         /\ \A i \in 1 .. n : SubSeq(buf, f + 1, f + n)[i] = buf[f + i]
<1>1. PICK u \in Int, v \in Int : u = f + 1 /\ v = f + n
  OBVIOUS
<1>2. \A i \in u .. v : buf[i] \in Byte
  BY <1>1, ReaderAssumption
<1>3. PICK c : c = SubSeq(buf, u, v)
  OBVIOUS
<1>4. c \in Seq(Byte) /\ Len(c) = IF u <= v THEN v - u + 1 ELSE 0
  BY <1>2, <1>3, SubSeqProperties
<1>5. \A i \in 1 .. v - u + 1 : c[i] = buf[u + i - 1]
  BY <1>2, <1>3, SubSeqProperties
<1>6. Len(c) = n /\ \A i \in 1 .. n : c[i] = buf[f + i]
  BY <1>1, <1>4, <1>5
<1>7. c = SubSeq(buf, f + 1, f + n)
  BY <1>1, <1>3, Zenon
<1> QED
  BY <1>4, <1>6, <1>7, Zenon

LEMMA PendingType ==
  ASSUME Sendable
  PROVE  \A s \in Stream : pending[s] \in Seq(Seq(Byte))
<1> SUFFICES ASSUME NEW s \in Stream PROVE pending[s] \in Seq(Seq(Byte))
  OBVIOUS
<1>1. Message[s] \subseteq Seq(Byte) /\ pending[s] \in Seq(Message[s])
  BY ReaderAssumption DEF Sendable
<1> QED
  BY <1>1, SeqMonotonic

LEMMA QueuedType ==
  ASSUME Item = Pdu, QueueInv, NEW s \in Stream
  PROVE  Contents \in Seq(Pdu) /\ Queued(s) \in Seq(Seq(Byte))
<1>1. Contents \in Seq(Pdu)
  BY ContentsAt
<1> QED
  BY <1>1, PdusType DEF Queued

LEMMA UnparsedType ==
  ASSUME Typed, InBuffer, NEW s \in Stream
  PROVE  Unparsed(s) \in Seq(Byte) /\ Len(Unparsed(s)) = filled[s]
<1>1. buffer[s] \in [1 .. BufSize -> Byte] /\ filled[s] \in Nat /\ filled[s] <= BufSize
  BY ReaderAssumption DEF Typed, TypeOK
<1>2. PICK f \in Nat : f = (IF s = pc THEN offset ELSE 0) /\ f + filled[s] <= BufSize
  BY <1>1, ReaderAssumption DEF Typed, TypeOK, InBuffer
<1>3. Unparsed(s) = SubSeq(buffer[s], f + 1, f + filled[s])
  BY <1>2 DEF Unparsed
<1>4. PICK buf \in [1 .. BufSize -> Byte], n \in Nat : buf = buffer[s] /\ n = filled[s]
  BY <1>1
<1>6. f + n <= BufSize
  BY <1>2, <1>4
<1>5. SubSeq(buf, f + 1, f + n) \in Seq(Byte) /\ Len(SubSeq(buf, f + 1, f + n)) = n
  BY <1>6, Window, Zenon
<1> QED
  BY <1>3, <1>4, <1>5, Zenon

LEMMA QueueStays ==
  ASSUME QueueInv, UNCHANGED queue
  PROVE  QueueInv' /\ Contents' = Contents
BY DEF queue, QueueInv, Shape, Held, Contents

(* A stream of which nothing changes but what nobody accounts for. *)
LEMMA SoundStays ==
  ASSUME NEW s \in Stream, Sound(s), Queued(s)' = Queued(s), pending'[s] = pending[s],
         Unparsed(s)' = Unparsed(s), wire'[s] = wire[s]
  PROVE  Sound(s)'
BY DEF Sound

LEMMA InitRInv ==
  ASSUME Item = Pdu, Init
  PROVE  RInv
<1> USE ReaderAssumption
<1>1. Typed
  <2>1. [i \in 1 .. BufSize |-> 0] \in [1 .. BufSize -> Byte]
    BY DEF Byte
  <2>2. <<>> \in Seq(Byte) /\ <<>> \in Seq(Seq(Byte))
    BY EmptySeq
  <2>5. 0 \in 0 .. BufSize /\ 0 \in 0 .. MaxSent
    OBVIOUS
  <2>3. buffer \in [Stream -> [1 .. BufSize -> Byte]] /\ filled \in [Stream -> 0 .. BufSize]
    BY <2>1, <2>5 DEF Init
  <2>4. wire \in [Stream -> Seq(Byte)] /\ pending \in [Stream -> Seq(Seq(Byte))]
    BY <2>2 DEF Init
  <2> QED
    BY <2>3, <2>4, <2>5 DEF Init, Typed, TypeOK
<1>2. QueueInv
  <2>1. QueueInit
    BY DEF Init
  <2>2. /\ capacity \in Nat \ {0} /\ size = 0 /\ front = 0 /\ rear = -1
        /\ items \in [0 .. capacity - 1 -> Item \cup {NULL}]
    BY <2>1, QueueAssumption DEF QueueInit
  <2> QED
    BY <2>2 DEF QueueInv, Shape, Held
<1>3. InBuffer
  BY DEF Init, InBuffer, Stream
<1>4. Sendable
  BY EmptySeq DEF Init, Sendable
<1>5. ASSUME NEW s \in Stream PROVE Sound(s)
  <2>1. Contents = <<>>
    BY DEF Init, QueueInit, Contents
  <2>2. Queued(s) = <<>>
    BY <2>1, PdusNone DEF Queued
  <2>3. Unparsed(s) = <<>>
    <3>1. filled[s] = 0 /\ s # pc
      BY DEF Init, Stream
    <3>2. Unparsed(s) = SubSeq(buffer[s], 0 + 1, 0 + 0)
      BY <3>1 DEF Unparsed
    <3> QED
      BY <3>2, SubSeqEmpty
  <2>4. pending[s] = <<>> /\ wire[s] = <<>>
    BY DEF Init
  <2>5. Account(<<>>, <<>>, <<>>, <<>>)
    BY AccountClosed, EmptySeq
  <2> QED
    BY <2>2, <2>3, <2>4, <2>5 DEF Sound
<1> QED
  BY <1>1, <1>2, <1>3, <1>4, <1>5 DEF RInv

LEMMA SendInv ==
  ASSUME Item = Pdu, RInv, NEW s \in Stream, NEW m \in Message[s], Send(s, m)
  PROVE  RInv'
<1>1. m \in Seq(Byte)
  BY ReaderAssumption
<1>2. /\ link[s] = "open" /\ sends < MaxSent
      /\ wire' = [wire EXCEPT ![s] = wire[s] \o m]
      /\ pending' = [pending EXCEPT ![s] = Append(pending[s], m)]
      /\ link' = [link EXCEPT ![s] = IF IsLast(m) THEN "ending" ELSE "open"]
      /\ sends' = sends + 1
      /\ UNCHANGED <<broken, static, offset, pc, queue>>
  BY DEF Send
<1>3. Typed /\ QueueInv /\ InBuffer /\ Sendable
  BY DEF RInv
<1>4. pending[s] \in Seq(Message[s]) /\ pending[s] \in Seq(Seq(Byte)) /\ wire[s] \in Seq(Byte)
  BY <1>3, PendingType DEF Typed, TypeOK, Sendable
<1>5. QueueInv' /\ Contents' = Contents
  BY <1>2, <1>3, QueueStays
<1>6. InBuffer'
  BY <1>2, <1>3 DEF InBuffer, static
<1>7. Sendable'
  <2>1. Append(pending[s], m) \in Seq(Message[s])
    BY <1>4, AppendProperties
  <2> QED
    BY <1>2, <1>3, <2>1 DEF Typed, TypeOK, Sendable
<1>8. Typed'
  <2>1. Append(pending[s], m) \in Seq(Seq(Byte)) /\ wire[s] \o m \in Seq(Byte)
    BY <1>1, <1>4, AppendProperties, ConcatProperties
  <2>2. sends' \in 0 .. MaxSent
    BY <1>2, <1>3, ReaderAssumption DEF Typed, TypeOK
  <2> QED
    BY <1>2, <1>3, <2>1, <2>2 DEF Typed, TypeOK, static
<1>9. ASSUME NEW t \in Stream, Intact(t)' PROVE Sound(t)'
  <2>1. Intact(t) /\ Sound(t)
    BY <1>2, <1>9 DEF Intact, RInv
  <2>2. Queued(t)' = Queued(t)
    BY <1>5 DEF Queued
  <2>3. Unparsed(t)' = Unparsed(t)
    BY <1>2 DEF Unparsed, static
  <2>4. CASE t = s
    <3>1. pending'[t] = Append(pending[s], m) /\ wire'[t] = wire[s] \o m
      BY <1>2, <1>3, <2>4 DEF Typed, TypeOK
    <3>2. Queued(t) \in Seq(Seq(Byte)) /\ Unparsed(t) \in Seq(Byte)
      BY <1>3, QueuedType, UnparsedType
    <3>3. Account(Queued(t), pending[s], Unparsed(t), wire[s])
      BY <2>1, <2>4 DEF Sound
    <3>4. Account(Queued(t), Append(pending[s], m), Unparsed(t), wire[s] \o m)
      BY <1>1, <1>4, <3>2, <3>3, AccountSent
    <3> QED
      BY <2>2, <2>3, <3>1, <3>4 DEF Sound
  <2>5. CASE t # s
    <3>1. pending'[t] = pending[t] /\ wire'[t] = wire[t]
      BY <1>2, <1>3, <2>5 DEF Typed, TypeOK
    <3> QED
      BY <2>1, <2>2, <2>3, <3>1, SoundStays
  <2> QED
    BY <2>4, <2>5
<1> QED
  BY <1>5, <1>6, <1>7, <1>8, <1>9 DEF RInv

(* The read finds room: the bytes are written behind the filled ones.      *)
ReadInBuffer(s, n, eof) ==
  /\ filled[s] + n <= BufSize
  /\ buffer' = [buffer EXCEPT ![s] = Written(s, SubSeq(wire[s], 1, n))]
  /\ filled' = [filled EXCEPT ![s] = filled[s] + n]
  /\ wire' = [wire EXCEPT ![s] = SubSeq(wire[s], n + 1, Len(wire[s]))]
  /\ link' = IF eof THEN [link EXCEPT ![s] = "down"] ELSE link
  /\ pc = "poll" /\ offset' = 0 /\ pc' = s /\ UNCHANGED <<pending, broken, sends, queue>>

Overrun(s) ==
  /\ \E n \in 0 .. Len(wire[s]) : filled[s] + n > BufSize
  /\ pc = "poll" /\ pc' = "overrun"
  /\ UNCHANGED <<buffer, filled, wire, link, offset, pending, broken, sends, queue>>

LEMMA ReadCases ==
  ASSUME NEW s \in Stream, Read(s)
  PROVE  (\E n \in 0 .. Len(wire[s]), eof \in BOOLEAN : ReadInBuffer(s, n, eof)) \/ Overrun(s)
<1>1. pc = "poll" /\ UNCHANGED <<pending, broken, sends, queue>>
  BY DEF Read
<1>2. PICK n \in 0 .. Len(wire[s]), eof \in BOOLEAN :
        \/ /\ filled[s] + n <= BufSize
           /\ buffer' = [buffer EXCEPT ![s] = Written(s, SubSeq(wire[s], 1, n))]
           /\ filled' = [filled EXCEPT ![s] = filled[s] + n]
           /\ wire' = [wire EXCEPT ![s] = SubSeq(wire[s], n + 1, Len(wire[s]))]
           /\ link' = IF eof THEN [link EXCEPT ![s] = "down"] ELSE link
           /\ offset' = 0 /\ pc' = s
        \/ /\ filled[s] + n > BufSize
           /\ pc' = "overrun" /\ UNCHANGED <<buffer, filled, wire, link, offset>>
  BY DEF Read
<1> QED
  BY <1>1, <1>2 DEF ReadInBuffer, Overrun

LEMMA ReadInv ==
  ASSUME Item = Pdu, RInv, NEW s \in Stream,
         NEW n \in 0 .. Len(wire[s]), NEW eof \in BOOLEAN, ReadInBuffer(s, n, eof)
  PROVE  RInv'
<1>1. Typed /\ QueueInv /\ InBuffer /\ Sendable
  BY DEF RInv
<1>2. /\ filled[s] + n <= BufSize
      /\ buffer' = [buffer EXCEPT ![s] = Written(s, SubSeq(wire[s], 1, n))]
      /\ filled' = [filled EXCEPT ![s] = filled[s] + n]
      /\ wire' = [wire EXCEPT ![s] = SubSeq(wire[s], n + 1, Len(wire[s]))]
      /\ link' = IF eof THEN [link EXCEPT ![s] = "down"] ELSE link
  BY DEF ReadInBuffer
<1>3. pc = "poll" /\ offset' = 0 /\ pc' = s /\ UNCHANGED <<pending, broken, sends, queue>>
  BY DEF ReadInBuffer
<1>4. PICK w \in Seq(Byte), l \in Nat : w = wire[s] /\ l = Len(w)
  BY <1>1 DEF Typed, TypeOK
<1>5. PICK buf \in [1 .. BufSize -> Byte], k \in Nat : buf = buffer[s] /\ k = filled[s]
  <2>1. buffer[s] \in [1 .. BufSize -> Byte] /\ filled[s] \in 0 .. BufSize
    BY <1>1 DEF Typed, TypeOK
  <2>2. filled[s] \in Nat
    BY <2>1, ReaderAssumption
  <2> QED
    BY <2>1, <2>2, Zenon
<1>6. n \in 0 .. l /\ k + n <= BufSize /\ n \in Nat /\ l \in 0 .. l
  BY <1>2, <1>4, <1>5
<1>7. PICK x \in Seq(Byte), y \in Seq(Byte) :
        x = SubSeq(w, 1, n) /\ y = SubSeq(w, n + 1, l) /\ w = x \o y /\ Len(x) = n
  <2>1. 1 \in 1 .. Len(w) + 1 /\ n \in 1 - 1 .. Len(w) /\ Len(w) \in n .. Len(w)
    BY <1>4, <1>6
  <2>2. SubSeq(w, 1, n) \o SubSeq(w, n + 1, Len(w)) = SubSeq(w, 1, Len(w))
    BY <2>1, ConcatAdjacentSubSeq
  <2>3. SubSeq(w, 1, n) \o SubSeq(w, n + 1, l) = SubSeq(w, 1, l)
    BY <1>4, <2>2, Zenon
  <2>4. SubSeq(w, 1, l) = w
    BY <1>4, SubSeqFull
  <2>5. SubSeq(w, 1, n) \in Seq(Byte) /\ Len(SubSeq(w, 1, n)) = n
    <3>1. \A i \in 1 .. n : w[i] \in Byte
      BY <1>4, <1>6
    <3>2. Len(SubSeq(w, 1, n)) = IF 1 <= n THEN n - 1 + 1 ELSE 0
      BY <1>6, <3>1, SubSeqProperties
    <3>3. SubSeq(w, 1, n) \in Seq(Byte)
      BY <1>6, <3>1, SubSeqProperties
    <3> QED
      BY <1>6, <3>2, <3>3
  <2>6. SubSeq(w, n + 1, l) \in Seq(Byte)
    <3>1. \A i \in n + 1 .. l : w[i] \in Byte
      BY <1>4, <1>6
    <3> QED
      BY <1>6, <3>1, SubSeqProperties
  <2> QED
    BY <2>3, <2>4, <2>5, <2>6
<1>8. PICK new : new = Written(s, x)
  OBVIOUS
<1>9. /\ new \in [1 .. BufSize -> Byte]
      /\ \A i \in 1 .. k : new[i] = buf[i]
      /\ \A i \in 1 .. n : new[k + i] = x[i]
  <2>1. new = [i \in 1 .. BufSize |-> IF i - k \in 1 .. n THEN x[i - k] ELSE buf[i]]
    <3>1. DOMAIN x = 1 .. n
      BY <1>7
    <3> QED
      BY <1>5, <1>8, <3>1 DEF Written
  <2>2. \A i \in 1 .. n : x[i] \in Byte
    BY <1>7
  <2>3. new \in [1 .. BufSize -> Byte]
    BY <2>1, <2>2, ReaderAssumption
  <2>4. ASSUME NEW i \in 1 .. k PROVE new[i] = buf[i]
    <3>1. i \in 1 .. BufSize /\ i - k \notin 1 .. n
      BY <1>6, ReaderAssumption
    <3> QED
      BY <2>1, <3>1
  <2>5. ASSUME NEW i \in 1 .. n PROVE new[k + i] = x[i]
    <3>1. PICK j \in 1 .. BufSize : j = k + i /\ j - k = i
      BY <1>6, ReaderAssumption
    <3>2. new[j] = x[j - k]
      BY <2>1, <3>1
    <3> QED
      BY <3>1, <3>2
  <2> QED
    BY <2>3, <2>4, <2>5
<1>10. buffer' = [buffer EXCEPT ![s] = new] /\ wire' = [wire EXCEPT ![s] = y]
  BY <1>2, <1>4, <1>7, <1>8
<1>11. filled' = [filled EXCEPT ![s] = k + n]
  BY <1>2, <1>5
<1>12. QueueInv' /\ Contents' = Contents
  BY <1>1, <1>3, QueueStays
<1>13. InBuffer'
  <2>1. pc' = s /\ offset' = 0 /\ filled'[s] = k + n
    BY <1>1, <1>3, <1>11 DEF Typed, TypeOK
  <2> QED
    BY <1>6, <2>1 DEF InBuffer
<1>14. Sendable'
  BY <1>1, <1>3 DEF Sendable
<1>15. Typed'
  <2>1. k + n \in 0 .. BufSize
    BY <1>6, ReaderAssumption
  <2>2. filled' \in [Stream -> 0 .. BufSize]
    BY <1>1, <1>11, <2>1 DEF Typed, TypeOK
  <2>3. wire' \in [Stream -> Seq(Byte)] /\ buffer' \in [Stream -> [1 .. BufSize -> Byte]]
    BY <1>1, <1>9, <1>10 DEF Typed, TypeOK
  <2>4. link' \in [Stream -> {"open", "ending", "down"}]
    BY <1>1, <1>2 DEF Typed, TypeOK
  <2>5. offset' \in 0 .. BufSize /\ pc' \in {"poll", "drain", "overrun"} \cup Stream
    BY <1>3, ReaderAssumption
  <2> QED
    BY <1>1, <1>3, <2>2, <2>3, <2>4, <2>5 DEF Typed, TypeOK
<1>16. ASSUME NEW t \in Stream, Intact(t)' PROVE Sound(t)'
  <2>1. Intact(t) /\ Sound(t)
    BY <1>3, <1>16 DEF Intact, RInv
  <2>2. Queued(t)' = Queued(t) /\ pending'[t] = pending[t]
    BY <1>3, <1>12 DEF Queued
  <2>3. t # pc
    BY <1>3 DEF Stream
  <2>4. CASE t # s
    <3>1. buffer'[t] = buffer[t] /\ filled'[t] = filled[t] /\ wire'[t] = wire[t] /\ t # pc'
      BY <1>1, <1>3, <1>10, <1>11, <2>4 DEF Typed, TypeOK
    <3>2. Unparsed(t)' = Unparsed(t)
      BY <2>3, <3>1 DEF Unparsed
    <3> QED
      BY <2>1, <2>2, <3>1, <3>2, SoundStays
  <2>5. CASE t = s
    <3>1. buffer'[t] = new /\ filled'[t] = k + n /\ wire'[t] = y
      BY <1>1, <1>10, <1>11, <2>5 DEF Typed, TypeOK
    <3>2. Unparsed(t)' = SubSeq(new, 0 + 1, 0 + (k + n))
      BY <1>3, <2>5, <3>1 DEF Unparsed
    <3>3. Unparsed(t) = SubSeq(buf, 0 + 1, 0 + k)
      BY <1>5, <2>3, <2>5 DEF Unparsed
    <3>4. PICK b \in Seq(Byte) : b = SubSeq(buf, 0 + 1, 0 + k) /\ Len(b) = k /\ \A i \in 1 .. k : b[i] = buf[0 + i]
      <4>1. 0 \in Nat /\ 0 + k <= BufSize
        BY <1>6, ReaderAssumption
      <4> QED
        BY <4>1, Window
    <3>5. PICK g \in Nat : g = k + n
      BY <1>6
    <3>6. PICK c \in Seq(Byte) : c = SubSeq(new, 0 + 1, 0 + g) /\ Len(c) = g /\ \A i \in 1 .. g : c[i] = new[0 + i]
      <4>1. 0 \in Nat /\ 0 + g <= BufSize
        BY <1>6, <3>5, ReaderAssumption
      <4> QED
        BY <1>9, <4>1, Window
    <3>7. c = b \o x
      <4>1. PICK e \in Seq(Byte) : e = b \o x
        BY <1>7, ConcatProperties
      <4>2. Len(e) = g /\ \A i \in 1 .. g : e[i] = IF i <= k THEN b[i] ELSE x[i - k]
        <5>1. /\ Len(e) = Len(b) + Len(x)
              /\ \A i \in 1 .. Len(b) + Len(x) : e[i] = IF i <= Len(b) THEN b[i] ELSE x[i - Len(b)]
          BY <4>1, ConcatProperties, Zenon
        <5>2. Len(b) = k /\ Len(x) = n /\ Len(b) + Len(x) = g
          BY <1>7, <3>4, <3>5
        <5> QED
          BY <5>1, <5>2, Zenon
      <4>3. ASSUME NEW i \in 1 .. g PROVE c[i] = e[i]
        <5>1. c[i] = new[i]
          BY <3>6
        <5>2. CASE i <= k
          <6>1. i \in 1 .. k /\ 0 + i = i
            BY <5>2
          <6> QED
            BY <1>9, <3>4, <4>2, <5>1, <5>2, <6>1
        <5>3. CASE ~(i <= k)
          <6>1. PICK j \in 1 .. n : j = i - k /\ i = k + j
            BY <1>6, <3>5, <5>3
          <6>2. new[i] = x[j]
            BY <1>9, <6>1
          <6> QED
            BY <4>2, <5>1, <5>3, <6>1, <6>2
        <5> QED
          BY <5>2, <5>3
      <4>4. c = e
        BY <3>6, <4>2, <4>3, SeqEqual
      <4> QED
        BY <4>1, <4>4
    <3>8. Account(Queued(t), pending[t], b, x \o y)
      BY <1>4, <1>7, <2>1, <2>5, <3>3, <3>4 DEF Sound
    <3>9. Account(Queued(t), pending[t], c, y)
      BY <1>7, <3>7, <3>8, AccountRead
    <3> QED
      BY <2>2, <3>1, <3>2, <3>5, <3>6, <3>9 DEF Sound
  <2> QED
    BY <2>4, <2>5
<1> QED
  BY <1>12, <1>13, <1>14, <1>15, <1>16 DEF RInv

(* The read goes past the buffer, and nothing is said of what follows.     *)
LEMMA OverrunInv ==
  ASSUME Item = Pdu, RInv, NEW s \in Stream, Overrun(s)
  PROVE  RInv'
<1>1. /\ pc = "poll" /\ pc' = "overrun"
      /\ UNCHANGED <<link, wire, pending, broken, buffer, filled, offset, sends, queue>>
  BY DEF Overrun
<1>2. QueueInv' /\ Contents' = Contents
  BY <1>1, QueueStays DEF RInv
<1>3. Typed'
  BY <1>1 DEF RInv, Typed, TypeOK
<1>4. InBuffer' /\ Sendable'
  BY <1>1 DEF RInv, InBuffer, Sendable, Stream
<1>5. ASSUME NEW t \in Stream, Intact(t)' PROVE Sound(t)'
  <2>1. Sound(t)
    BY <1>1, <1>5 DEF RInv, Intact
  <2>2. Queued(t)' = Queued(t)
    BY <1>2 DEF Queued
  <2>3. Unparsed(t)' = Unparsed(t)
    BY <1>1 DEF Unparsed, Stream
  <2> QED
    BY <1>1, <2>1, <2>2, <2>3, SoundStays
<1> QED
  BY <1>2, <1>3, <1>4, <1>5 DEF RInv

(* One turn of the parse loop, on any stream: it stays inside the buffer.  *)
LEMMA ParseTypes ==
  ASSUME Item = Pdu, RInv, Parse
  PROVE  /\ pc \in Stream
         /\ \E k \in Nat, cut \in Seq(Byte) :
              /\ k = PduSize /\ k <= filled[pc] /\ offset + filled[pc] <= BufSize
              /\ cut = SubSeq(buffer[pc], offset + 1, offset + k) /\ Len(cut) = k
              /\ \A i \in 1 .. k : cut[i] = buffer[pc][offset + i]
              /\ queue_enqueue([from |-> pc, bytes |-> cut])
              /\ buffer' = [buffer EXCEPT ![pc] =
                              [i \in 1 .. BufSize |->
                                 IF i \in offset + 1 .. offset + k THEN 0 ELSE buffer[pc][i]]]
              /\ offset' = offset + k
              /\ filled' = [filled EXCEPT ![pc] = filled[pc] - k]
              /\ UNCHANGED <<stream, pc, sends>>
<1>1. Typed /\ InBuffer
  BY DEF RInv
<1>2. pc \in Stream /\ filled[pc] > 0 /\ PduSize >= 0 /\ filled[pc] >= PduSize
  BY DEF Parse, Parsable
<1>3. buffer[pc] \in [1 .. BufSize -> Byte] /\ filled[pc] \in 0 .. BufSize /\ offset \in 0 .. BufSize
  BY <1>1, <1>2 DEF Typed, TypeOK
<1>4. At \in [0 .. BufSize -> Byte]
  <2>1. 0 \in Byte
    BY DEF Byte
  <2>2. \A i \in 0 .. BufSize : offset + i + 1 <= BufSize => offset + i + 1 \in 1 .. BufSize
    BY <1>3, ReaderAssumption
  <2> QED
    BY <1>3, <2>1, <2>2 DEF At
<1>5. filled[pc] \in 1 .. BufSize
  BY <1>2, <1>3, ReaderAssumption
<1>6. PduSize \in Int
  BY <1>4, <1>5, SizeIsInt DEF PduSize
<1>7. PICK k \in Nat : k = PduSize
  BY <1>2, <1>6
<1>8. offset + filled[pc] <= BufSize /\ k <= filled[pc] /\ offset \in Nat /\ offset + k <= BufSize
  BY <1>1, <1>2, <1>3, <1>7, ReaderAssumption DEF InBuffer
<1>9. PICK buf \in [1 .. BufSize -> Byte], f \in Nat : buf = buffer[pc] /\ f = offset
  BY <1>3, <1>8
<1>10. /\ SubSeq(buf, f + 1, f + k) \in Seq(Byte) /\ Len(SubSeq(buf, f + 1, f + k)) = k
       /\ \A i \in 1 .. k : SubSeq(buf, f + 1, f + k)[i] = buf[f + i]
  BY <1>8, <1>9, Window
<1>11. PICK cut \in Seq(Byte) :
         /\ cut = SubSeq(buffer[pc], offset + 1, offset + k) /\ Len(cut) = k
         /\ \A i \in 1 .. k : cut[i] = buffer[pc][offset + i]
  BY <1>9, <1>10, Zenon
<1>12. /\ queue_enqueue([from |-> pc, bytes |-> cut])
       /\ buffer' = [buffer EXCEPT ![pc] =
                       [i \in 1 .. BufSize |->
                          IF i \in offset + 1 .. offset + k THEN 0 ELSE buffer[pc][i]]]
       /\ offset' = offset + k
       /\ filled' = [filled EXCEPT ![pc] = filled[pc] - k]
       /\ UNCHANGED <<stream, pc, sends>>
  BY <1>7, <1>11 DEF Parse
<1> QED
  BY <1>2, <1>7, <1>8, <1>11, <1>12

(* What the parse loop of an intact stream looks at is the beginning of    *)
(* the next PDU to come, as far as it has arrived.                         *)
LEMMA NextPdu ==
  ASSUME Item = Pdu, RInv, NEW s \in Stream, s = pc, Intact(s), filled[s] > 0
  PROVE  \E r \in Seq(Seq(Byte)) :
           /\ NextOf(r, Queued(s), pending[s], Unparsed(s), wire[s])
           /\ Head(r) \in Message[s] /\ Arrived(Head(r), At, filled[s])
<1>1. Typed /\ QueueInv /\ InBuffer /\ Sendable /\ Sound(s)
  BY DEF RInv
<1>2. PICK buf \in [1 .. BufSize -> Byte], n \in Nat, f \in Nat : buf = buffer[s] /\ n = filled[s] /\ f = offset
  <2>1. buffer[s] \in [1 .. BufSize -> Byte] /\ filled[s] \in 0 .. BufSize /\ offset \in 0 .. BufSize
    BY <1>1 DEF Typed, TypeOK
  <2>2. filled[s] \in Nat /\ offset \in Nat
    BY <2>1, ReaderAssumption
  <2> QED
    BY <2>1, <2>2, Zenon
<1>3. f + n <= BufSize
  BY <1>1, <1>2 DEF InBuffer
<1>4. PICK b \in Seq(Byte) : b = Unparsed(s) /\ Len(b) = n /\ \A i \in 1 .. n : b[i] = buf[f + i]
  <2>1. Unparsed(s) = SubSeq(buf, f + 1, f + n)
    BY <1>2 DEF Unparsed
  <2> QED
    BY <1>3, <2>1, Window
<1>5. PICK q \in Seq(Seq(Byte)), w \in Seq(Byte), p \in Seq(Message[s]) :
        q = Queued(s) /\ w = wire[s] /\ p = pending[s]
  BY <1>1, QueuedType DEF Typed, TypeOK, Sendable
<1>6. p \in Seq(Seq(Byte)) /\ Account(q, p, b, w)
  <2>1. p \in Seq(Seq(Byte))
    BY <1>1, <1>5, PendingType
  <2>2. Account(q, p, b, w)
    BY <1>1, <1>4, <1>5 DEF Sound
  <2> QED
    BY <2>1, <2>2
<1>7. n > 0 /\ b # <<>>
  BY <1>2, <1>4
<1>8. PICK r \in Seq(Seq(Byte)) : NextOf(r, q, p, b, w)
  BY <1>6, <1>7, AccountNext
<1>9. r # <<>> /\ p = q \o r /\ b \o w = Head(r) \o FlattenSeq(Tail(r))
  BY <1>8 DEF NextOf
<1>10. PICK m \in Seq(Byte), y \in Seq(Byte) : m = Head(r) /\ y = FlattenSeq(Tail(r))
  BY <1>9, HeadTailProperties, FlattenType
<1>11. m \in Message[s]
  <2>1. PICK h \in Nat : h = Len(q)
    OBVIOUS
  <2>2. PICK o \in Nat \ {0} : o = Len(r)
    BY <1>9, EmptySeq
  <2>3. Len(p) = h + o /\ \A i \in 1 .. h + o : p[i] = IF i <= h THEN q[i] ELSE r[i - h]
    BY <1>5, <1>9, <2>1, <2>2, ConcatProperties
  <2>4. h + 1 \in 1 .. h + o /\ ~(h + 1 <= h) /\ h + 1 - h = 1
    OBVIOUS
  <2>5. p[h + 1] = r[1]
    BY <2>3, <2>4
  <2>6. p[h + 1] \in Message[s]
    BY <1>5, <2>3, <2>4, ElementOfSeq
  <2> QED
    BY <1>9, <1>10, <2>5, <2>6
<1>12. Arrived(m, At, n)
  <2> SUFFICES ASSUME NEW i \in 0 .. BufSize, i < n, i < Len(m) PROVE At[i] = m[i + 1]
    BY DEF Arrived
  <2>1. PICK j \in Nat \ {0} : j = i + 1 /\ j \in 1 .. n /\ j \in 1 .. Len(m)
    BY ReaderAssumption
  <2>2. f + j <= BufSize /\ f + j = offset + i + 1
    <3>1. j <= n /\ f = offset
      BY <1>2, <2>1
    <3>2. f + j = f + i + 1
      BY <2>1
    <3>3. f + j <= BufSize
      BY <1>3, <3>1, ReaderAssumption
    <3> QED
      BY <3>1, <3>2, <3>3, Zenon
  <2>3. At[i] = buf[f + j]
    BY <1>2, <2>2 DEF At
  <2>4. b[j] = buf[f + j]
    BY <1>4, <2>1
  <2>5. b[j] = (b \o w)[j]
    <3>1. j \in 1 .. Len(b) + Len(w) /\ j <= Len(b)
      BY <1>4, <2>1
    <3> QED
      BY <3>1, ConcatProperties
  <2>6. m[j] = (m \o y)[j]
    <3>1. j \in 1 .. Len(m) + Len(y) /\ j <= Len(m)
      BY <2>1
    <3> QED
      BY <3>1, ConcatProperties
  <2> QED
    BY <1>9, <1>10, <2>1, <2>3, <2>4, <2>5, <2>6
<1> QED
  BY <1>2, <1>4, <1>5, <1>8, <1>10, <1>11, <1>12

LEMMA ParseInv ==
  ASSUME Item = Pdu, RInv, Parse
  PROVE  RInv'
<1>1. Typed /\ QueueInv /\ InBuffer /\ Sendable
  BY DEF RInv
<1>2. PICK s \in Stream : s = pc
  BY ParseTypes
<1>3. PICK k \in Nat, cut \in Seq(Byte) :
        /\ k = PduSize /\ k <= filled[s] /\ offset + filled[s] <= BufSize
        /\ cut = SubSeq(buffer[s], offset + 1, offset + k) /\ Len(cut) = k
        /\ \A i \in 1 .. k : cut[i] = buffer[s][offset + i]
        /\ queue_enqueue([from |-> s, bytes |-> cut])
        /\ buffer' = [buffer EXCEPT ![s] =
                        [i \in 1 .. BufSize |->
                           IF i \in offset + 1 .. offset + k THEN 0 ELSE buffer[s][i]]]
        /\ offset' = offset + k
        /\ filled' = [filled EXCEPT ![s] = filled[s] - k]
        /\ UNCHANGED <<stream, pc, sends>>
  BY <1>2, ParseTypes
<1>4. PICK buf \in [1 .. BufSize -> Byte], n \in Nat, f \in Nat : buf = buffer[s] /\ n = filled[s] /\ f = offset
  <2>1. buffer[s] \in [1 .. BufSize -> Byte] /\ filled[s] \in 0 .. BufSize /\ offset \in 0 .. BufSize
    BY <1>1 DEF Typed, TypeOK
  <2>2. filled[s] \in Nat /\ offset \in Nat
    BY <2>1, ReaderAssumption
  <2> QED
    BY <2>1, <2>2, Zenon
<1>5. k <= n /\ f + n <= BufSize /\ n - k \in Nat /\ f + k \in Nat
  BY <1>3, <1>4
<1>6. PICK new : new = [i \in 1 .. BufSize |-> IF i \in f + 1 .. f + k THEN 0 ELSE buf[i]]
  OBVIOUS
<1>7. /\ new \in [1 .. BufSize -> Byte]
      /\ \A i \in 1 .. n - k : new[(f + k) + i] = buf[(f + k) + i]
  <2>1. 0 \in Byte
    BY DEF Byte
  <2>2. ASSUME NEW i \in 1 .. n - k PROVE new[(f + k) + i] = buf[(f + k) + i]
    <3>1. PICK j \in 1 .. BufSize : j = (f + k) + i /\ j \notin f + 1 .. f + k
      BY <1>5, ReaderAssumption
    <3> QED
      BY <1>6, <3>1
  <2> QED
    BY <1>6, <2>1, <2>2
<1>8. /\ buffer' = [buffer EXCEPT ![s] = new] /\ filled' = [filled EXCEPT ![s] = n - k]
      /\ offset' = f + k /\ pc' = s
  BY <1>2, <1>3, <1>4, <1>6
<1>9. buffer'[s] = new /\ filled'[s] = n - k
  BY <1>1, <1>8 DEF Typed, TypeOK
<1>10. PICK x \in Pdu : x = [from |-> s, bytes |-> cut]
  BY DEF Pdu
<1>11. QueueInv' /\ Contents' = Append(Contents, x)
  BY <1>1, <1>3, <1>10, Enqueued
<1>12. InBuffer'
  BY <1>5, <1>8, <1>9 DEF InBuffer
<1>13. Sendable'
  BY <1>1, <1>3 DEF Sendable, stream
<1>14. Typed'
  <2>1. f + k \in 0 .. BufSize /\ n - k \in 0 .. BufSize
    BY <1>5, ReaderAssumption
  <2>2. buffer' \in [Stream -> [1 .. BufSize -> Byte]] /\ filled' \in [Stream -> 0 .. BufSize]
    BY <1>1, <1>7, <1>8, <2>1 DEF Typed, TypeOK
  <2>3. UNCHANGED <<link, wire, pending, broken, sends>> /\ offset' \in 0 .. BufSize /\ pc' \in Stream
    BY <1>3, <1>8, <2>1 DEF stream
  <2> QED
    BY <1>1, <2>2, <2>3 DEF Typed, TypeOK
<1>15. ASSUME NEW t \in Stream, Intact(t)' PROVE Sound(t)'
  <2>1. Intact(t) /\ Sound(t) /\ pending'[t] = pending[t] /\ wire'[t] = wire[t]
    BY <1>3, <1>15 DEF Intact, RInv, stream
  <2>2. Contents \in Seq(Pdu) /\ Queued(t) \in Seq(Seq(Byte))
    BY <1>1, QueuedType
  <2>3. Queued(t)' = Queued(t) \o Of(t, x)
    BY <1>11, <2>2, PdusAppend DEF Queued
  <2>4. CASE t # s
    <3>1. Of(t, x) = <<>>
      BY <1>10, <2>4 DEF Of
    <3>2. Queued(t)' = Queued(t)
      BY <2>2, <2>3, <3>1, ConcatEmptySeq
    <3>3. Unparsed(t)' = Unparsed(t)
      BY <1>1, <1>2, <1>8, <2>4 DEF Unparsed, Typed, TypeOK
    <3> QED
      BY <2>1, <3>2, <3>3, SoundStays
  <2>5. CASE t = s
    <3>1. PICK b \in Seq(Byte) : b = Unparsed(s) /\ Len(b) = n /\ \A i \in 1 .. n : b[i] = buf[f + i]
      <4>1. Unparsed(s) = SubSeq(buf, f + 1, f + n)
        BY <1>2, <1>4 DEF Unparsed
      <4> QED
        BY <1>5, <4>1, Window
    <3>2. PICK g \in Nat, l \in Nat : g = f + k /\ l = n - k /\ g + l = f + n
      BY <1>5
    <3>3. PICK c \in Seq(Byte) : c = Unparsed(s)' /\ Len(c) = l /\ \A i \in 1 .. l : c[i] = new[g + i]
      <4>1. Unparsed(s)' = SubSeq(new, g + 1, g + l)
        BY <1>8, <1>9, <3>2 DEF Unparsed
      <4>2. g + l <= BufSize
        BY <1>5, <3>2
      <4>3. /\ SubSeq(new, g + 1, g + l) \in Seq(Byte) /\ Len(SubSeq(new, g + 1, g + l)) = l
            /\ \A i \in 1 .. l : SubSeq(new, g + 1, g + l)[i] = new[g + i]
        BY <1>7, <4>2, Window
      <4> QED
        BY <4>1, <4>3, Zenon
    <3>4. PICK q \in Seq(Seq(Byte)), w \in Seq(Byte), p \in Seq(Message[s]) :
            q = Queued(s) /\ w = wire[s] /\ p = pending[s]
      BY <1>1, <2>2, <2>5 DEF Typed, TypeOK, Sendable
    <3>5. p \in Seq(Seq(Byte)) /\ Account(q, p, b, w)
      <4>1. p \in Seq(Seq(Byte))
        BY <1>1, <3>4, PendingType
      <4>2. Account(q, p, b, w)
        BY <2>1, <2>5, <3>1, <3>4 DEF Sound
      <4> QED
        BY <4>1, <4>2
    <3>6. n > 0 /\ b # <<>>
      <4>1. n > 0
        BY <1>2, <1>4 DEF Parse, Parsable
      <4> QED
        BY <3>1, <4>1
    <3>17. PICK r \in Seq(Seq(Byte)) :
             NextOf(r, q, p, b, w) /\ Head(r) \in Message[s] /\ Arrived(Head(r), At, n)
      BY <1>2, <1>4, <2>1, <2>5, <3>1, <3>4, <3>6, NextPdu
    <3>7. r # <<>> /\ p = q \o r /\ b \o w = Head(r) \o FlattenSeq(Tail(r))
      BY <3>17 DEF NextOf
    <3>8. PICK m \in Seq(Byte), y \in Seq(Byte) : m = Head(r) /\ y = FlattenSeq(Tail(r))
      BY <3>7, HeadTailProperties, FlattenType
    <3>10. IsPdu(m)
      BY <3>8, <3>17, MessageAssumption
    <3>11. Arrived(m, At, n)
      BY <3>8, <3>17
    <3>12. k = Len(m)
      <4>1. At \in [0 .. BufSize -> Byte]
        <5>1. 0 \in Byte
          BY DEF Byte
        <5>2. \A i \in 0 .. BufSize : f + i + 1 <= BufSize => f + i + 1 \in 1 .. BufSize
          BY ReaderAssumption
        <5> QED
          BY <1>2, <1>4, <5>1, <5>2 DEF At
      <4>2. n \in 1 .. BufSize
        BY <1>5, <3>6, ReaderAssumption
      <4>3. k = get_packet_size(At, n)
        BY <1>2, <1>3, <1>4 DEF PduSize
      <4>4. get_packet_size(At, n) >= 0 /\ n >= get_packet_size(At, n)
        BY <1>5, <4>3
      <4> QED
        BY <3>10, <3>11, <4>1, <4>2, <4>3, <4>4, SizeIsRight
    <3>13. b = m \o c /\ c \o w = y
      <4>1. Len(m) + Len(c) = Len(b)
        BY <1>5, <3>1, <3>2, <3>3, <3>12
      <4>2. \A i \in 1 .. Len(c) : c[i] = b[Len(m) + i]
        <5> SUFFICES ASSUME NEW i \in 1 .. l PROVE c[i] = b[k + i]
          BY <3>3, <3>12
        <5>1. PICK j \in 1 .. n : j = k + i /\ f + j = g + i
          BY <1>5, <3>2
        <5>2. new[g + i] = buf[g + i]
          BY <1>7, <3>2
        <5> QED
          BY <3>1, <3>3, <5>1, <5>2
      <4>3. b \o w = m \o y
        BY <3>7, <3>8
      <4>4. Overlap(b, w, m, y, c)
        BY <4>1, <4>2, <4>3 DEF Overlap
      <4> QED
        BY <4>4, HeadCut
    <3>14. cut = m
      <4>1. \A i \in 1 .. k : cut[i] = m[i]
        <5> SUFFICES ASSUME NEW i \in 1 .. k PROVE cut[i] = m[i]
          OBVIOUS
        <5>1. i \in 1 .. n /\ cut[i] = b[i]
          <6>1. i \in 1 .. n
            BY <1>5
          <6>2. cut[i] = buf[f + i]
            BY <1>3, <1>4, Zenon
          <6>3. b[i] = buf[f + i]
            BY <3>1, <6>1
          <6> QED
            BY <6>1, <6>2, <6>3
        <5>2. i \in 1 .. Len(m) + Len(c) /\ i <= Len(m)
          BY <3>12
        <5>3. (m \o c)[i] = m[i]
          BY <5>2, ConcatProperties
        <5> QED
          BY <3>13, <5>1, <5>3
      <4> QED
        BY <1>3, <3>12, <4>1, SeqEqual
    <3>15. Of(t, x) = <<m>>
      BY <1>10, <2>5, <3>14 DEF Of
    <3>16. Account(q \o <<m>>, q \o r, c, w)
      BY <3>7, <3>8, <3>13, AccountParsed
    <3> QED
      BY <2>1, <2>3, <2>5, <3>3, <3>4, <3>7, <3>15, <3>16 DEF Sound
  <2> QED
    BY <2>4, <2>5
<1> QED
  BY <1>11, <1>12, <1>13, <1>14, <1>15 DEF RInv

(* What is left in the buffer is where the next read looks for it, or the  *)
(* stream is broken.                                                       *)
LEMMA ParseEndInv ==
  ASSUME Item = Pdu, RInv, ParseEnd
  PROVE  RInv'
<1>1. Typed /\ QueueInv /\ InBuffer /\ Sendable
  BY DEF RInv
<1>2. /\ pc \in Stream /\ pc' = "drain" /\ offset' = 0
      /\ broken' = IF offset > 0 /\ filled[pc] > 0 THEN broken \cup {pc} ELSE broken
      /\ UNCHANGED <<link, wire, pending, static, sends, queue>>
  BY DEF ParseEnd
<1>3. QueueInv' /\ Contents' = Contents
  BY <1>1, <1>2, QueueStays
<1>4. InBuffer'
  BY <1>2 DEF InBuffer, Stream
<1>5. Sendable'
  BY <1>1, <1>2 DEF Sendable
<1>6. Typed'
  <2>1. 0 \in 0 .. BufSize
    BY ReaderAssumption
  <2>2. broken' \subseteq Stream
    BY <1>1, <1>2 DEF Typed, TypeOK
  <2> QED
    BY <1>1, <1>2, <2>1, <2>2 DEF Typed, TypeOK, static
<1>7. ASSUME NEW t \in Stream, Intact(t)' PROVE Sound(t)'
  <2>1. Intact(t) /\ Sound(t)
    BY <1>2, <1>7 DEF Intact, RInv
  <2>2. Queued(t)' = Queued(t)
    BY <1>3 DEF Queued
  <2>3. Unparsed(t)' = SubSeq(buffer[t], 0 + 1, 0 + filled[t])
    <3>1. t # pc'
      BY <1>2 DEF Stream
    <3> QED
      BY <1>2, <3>1 DEF Unparsed, static
  <2>4. Unparsed(t) = SubSeq(buffer[t], 0 + 1, 0 + filled[t])
    <3>1. CASE t # pc
      BY <3>1 DEF Unparsed
    <3>2. CASE t = pc
      <4>1. offset \in Nat /\ filled[t] \in Nat
        BY <1>1, ReaderAssumption DEF Typed, TypeOK
      <4>2. offset = 0 \/ filled[t] = 0
        BY <1>2, <1>7, <3>2, <4>1 DEF Intact
      <4>3. CASE offset = 0
        BY <3>2, <4>3 DEF Unparsed
      <4>4. CASE filled[t] = 0
        <5>1. Unparsed(t) = SubSeq(buffer[t], offset + 1, offset + 0)
          BY <3>2, <4>4 DEF Unparsed
        <5>2. offset + 0 < offset + 1 /\ 0 + 0 < 0 + 1 /\ offset + 1 \in Int /\ offset + 0 \in Int
          BY <4>1
        <5>3. Unparsed(t) = <<>>
          BY <5>1, <5>2, SubSeqEmpty
        <5>4. SubSeq(buffer[t], 0 + 1, 0 + 0) = <<>>
          BY SubSeqEmpty
        <5> QED
          BY <4>4, <5>3, <5>4
      <4> QED
        BY <4>2, <4>3, <4>4
    <3> QED
      BY <3>1, <3>2
  <2>5. pending'[t] = pending[t] /\ wire'[t] = wire[t]
    BY <1>2
  <2> QED
    BY <2>1, <2>2, <2>3, <2>4, <2>5, SoundStays
<1> QED
  BY <1>3, <1>4, <1>5, <1>6, <1>7 DEF RInv

(* The handlers. *)

(* From k + 1 on. *)
LEMMA DropType ==
  ASSUME NEW S, NEW p \in Seq(S), NEW k \in Nat
  PROVE  SubSeq(p, k + 1, Len(p)) \in Seq(S)
<1>1. PICK l \in Nat : l = Len(p)
  OBVIOUS
<1>2. \A i \in k + 1 .. l : p[i] \in S
  BY <1>1
<1> QED
  BY <1>1, <1>2, SubSeqProperties

LEMMA TakeType ==
  ASSUME NEW S, NEW p \in Seq(S), NEW k \in Nat, k <= Len(p)
  PROVE  SubSeq(p, 1, k) \in Seq(S)
<1>1. \A i \in 1 .. k : p[i] \in S
  OBVIOUS
<1> QED
  BY <1>1, SubSeqProperties

(* What drop must be for stream s, when the handler has taken d of it from *)
(* the queue.                                                              *)
Taken(s, d) ==
  Intact(s) => d \in Seq(Seq(Byte)) /\ Queued(s) = d \o Queued(s)' /\ Queued(s)' \in Seq(Seq(Byte))

(* A handler that replaces or ends connections, while no buffer is parsed. *)
LEMMA RelinkInv ==
  ASSUME Item = Pdu, RInv, pc \in {"poll", "drain"}, pc' \in {"poll", "drain"},
         QueueInv', sends' \in 0 .. MaxSent, UNCHANGED <<static, offset>>,
         NEW up \in SUBSET Stream, NEW down \in SUBSET Stream, NEW drop,
         \A s \in Stream : drop[s] \in Seq(Seq(Byte)) /\ Taken(s, drop[s]),
         Relink(up, down, drop)
  PROVE  RInv'
<1>1. Typed /\ QueueInv /\ InBuffer /\ Sendable
  BY DEF RInv
<1> DEFINE old == up \cup down
           rest(s) == SubSeq(pending[s], Len(drop[s]) + 1, Len(pending[s]))
           count(s) == Len(Queued(s)) - Len(drop[s])
<1>2. /\ link' = [s \in Stream |-> IF s \in up THEN "open" ELSE IF s \in down THEN "down" ELSE link[s]]
      /\ wire' = [s \in Stream |-> IF s \in old THEN <<>> ELSE wire[s]]
      /\ pending' = [s \in Stream |->
                       IF s \in old /\ s \notin broken THEN SubSeq(rest(s), 1, count(s)) ELSE rest(s)]
      /\ broken' = broken \cup {s \in old : filled[s] > 0}
  BY DEF Relink
<1>3. \A s \in Stream : s \notin {pc, pc'}
  BY DEF Stream
<1>4. ASSUME NEW s \in Stream, Intact(s)
      PROVE  \E q \in Seq(Seq(Byte)), y \in Seq(Seq(Byte)) :
               /\ q = Queued(s)' /\ y = rest(s) /\ count(s) = Len(q)
               /\ Account(q, y, Unparsed(s), wire[s])
               /\ SubSeq(rest(s), 1, count(s)) = q
  <2>1. PICK d \in Seq(Seq(Byte)), q \in Seq(Seq(Byte)), p \in Seq(Seq(Byte)) :
          d = drop[s] /\ q = Queued(s)' /\ p = pending[s] /\ Queued(s) = d \o q
    BY <1>1, <1>4, PendingType DEF Taken
  <2>2. Account(d \o q, p, Unparsed(s), wire[s])
    BY <1>4, <2>1 DEF RInv, Sound
  <2>3. PICK y \in Seq(Seq(Byte)) : p = d \o y /\ Account(q, y, Unparsed(s), wire[s])
    BY <2>2, AccountHandled
  <2>4. y = SubSeq(d \o y, Len(d) + 1, Len(d \o y))
    BY SplitConcat
  <2>5. y = rest(s)
    BY <2>1, <2>3, <2>4, Zenon
  <2>6. count(s) = Len(q)
    <3>1. PICK l \in Nat, k \in Nat : l = Len(d) /\ k = Len(q)
      OBVIOUS
    <3>2. Len(d \o q) = l + k
      BY <3>1, ConcatProperties
    <3> QED
      BY <2>1, <3>1, <3>2
  <2>7. q = SubSeq(y, 1, Len(q))
    BY <2>3, AccountSays
  <2> QED
    BY <2>1, <2>3, <2>5, <2>6, <2>7, Zenon
<1> HIDE DEF rest, count
<1>5. ASSUME NEW s \in Stream PROVE rest(s) \in Seq(Message[s])
  <2>1. PICK k \in Nat : k = Len(drop[s])
    OBVIOUS
  <2>2. pending[s] \in Seq(Message[s])
    BY <1>1 DEF Sendable
  <2>3. SubSeq(pending[s], k + 1, Len(pending[s])) \in Seq(Message[s])
    BY <2>2, DropType
  <2> QED
    BY <2>1, <2>3 DEF rest
<1>6. Sendable'
  <2> SUFFICES ASSUME NEW s \in Stream PROVE pending'[s] \in Seq(Message[s])
    BY DEF Sendable
  <2>1. CASE s \in old /\ s \notin broken
    <3>1. PICK q \in Seq(Seq(Byte)) : count(s) = Len(q) /\ SubSeq(rest(s), 1, count(s)) = q
      BY <1>4, <2>1 DEF Intact
    <3>2. PICK c \in Nat : c = count(s)
      BY <3>1
    <3>3. SubSeq(rest(s), 1, c) \in Seq(Message[s])
      <4>1. PICK p \in Seq(Message[s]), l \in Nat : p = rest(s) /\ l = Len(p)
        BY <1>5
      <4>2. c <= l
        <5>1. PICK q2 \in Seq(Seq(Byte)), y \in Seq(Seq(Byte)) :
                y = rest(s) /\ count(s) = Len(q2) /\ Account(q2, y, Unparsed(s), wire[s])
          BY <1>4, <2>1 DEF Intact
        <5>2. PICK r \in Seq(Seq(Byte)) : y = q2 \o r
          BY <5>1 DEF Account
        <5>3. PICK u \in Nat, v \in Nat : u = Len(q2) /\ v = Len(r)
          BY LenProperties, Zenon
        <5>4. Len(y) = u + v
          BY <5>2, <5>3, ConcatProperties
        <5> QED
          BY <3>2, <4>1, <5>1, <5>3, <5>4
      <4> QED
        BY <4>1, <4>2, TakeType
    <3> QED
      BY <1>2, <2>1, <3>2, <3>3
  <2>2. CASE ~(s \in old /\ s \notin broken)
    <3>1. pending'[s] = rest(s)
      BY <1>2, <2>2
    <3> QED
      BY <1>5, <3>1
  <2> QED
    BY <2>1, <2>2
<1>7. Typed'
  <2>1. \A s \in Stream : pending'[s] \in Seq(Seq(Byte))
    <3> SUFFICES ASSUME NEW s \in Stream PROVE pending'[s] \in Seq(Seq(Byte))
      OBVIOUS
    <3>1. Message[s] \subseteq Seq(Byte) /\ pending'[s] \in Seq(Message[s])
      BY <1>6, ReaderAssumption DEF Sendable
    <3> QED
      BY <3>1, SeqMonotonic
  <2>2. pending' \in [Stream -> Seq(Seq(Byte))]
    BY <1>2, <2>1
  <2>3. wire' \in [Stream -> Seq(Byte)]
    <3>1. <<>> \in Seq(Byte)
      BY EmptySeq
    <3> QED
      BY <1>1, <1>2, <3>1 DEF Typed, TypeOK
  <2>4. link' \in [Stream -> {"open", "ending", "down"}] /\ broken' \subseteq Stream
    BY <1>1, <1>2 DEF Typed, TypeOK
  <2> QED
    BY <1>1, <2>2, <2>3, <2>4 DEF Typed, TypeOK, static
<1>8. InBuffer'
  BY <1>3 DEF InBuffer
<1>9. ASSUME NEW s \in Stream, Intact(s)' PROVE Sound(s)'
  <2>1. Intact(s) /\ (s \in old => ~(filled[s] > 0))
    BY <1>2, <1>9 DEF Intact
  <2>2. PICK q \in Seq(Seq(Byte)), y \in Seq(Seq(Byte)) :
          /\ q = Queued(s)' /\ y = rest(s)
          /\ Account(q, y, Unparsed(s), wire[s])
          /\ SubSeq(rest(s), 1, count(s)) = q
    BY <1>4, <2>1
  <2>3. Unparsed(s)' = SubSeq(buffer[s], 0 + 1, 0 + filled[s])
    BY <1>3 DEF Unparsed, static
  <2>4. Unparsed(s) = SubSeq(buffer[s], 0 + 1, 0 + filled[s])
    BY <1>3 DEF Unparsed
  <2>5. CASE s \notin old
    <3>1. pending'[s] = y /\ wire'[s] = wire[s]
      BY <1>2, <2>2, <2>5
    <3> QED
      BY <2>2, <2>3, <2>4, <3>1 DEF Sound
  <2>6. CASE s \in old
    <3>1. pending'[s] = q /\ wire'[s] = <<>>
      BY <1>2, <2>1, <2>2, <2>6 DEF Intact
    <3>2. filled[s] = 0
      <4>1. filled[s] \in Nat
        BY <1>1, ReaderAssumption DEF Typed, TypeOK
      <4> QED
        BY <2>1, <2>6, <4>1
    <3>3. Unparsed(s)' = <<>>
      BY <2>3, <3>2, SubSeqEmpty
    <3>4. Account(q, q, <<>>, <<>>)
      BY AccountClosed
    <3> QED
      BY <2>2, <3>1, <3>3, <3>4 DEF Sound
  <2> QED
    BY <2>5, <2>6
<1> QED
  BY <1>6, <1>7, <1>8, <1>9 DEF RInv

LEMMA HeadFirst ==
  ASSUME NEW S, NEW b \in S, NEW y \in Seq(S)
  PROVE  <<b>> \in Seq(S) /\ <<b>> \o y # <<>> /\ Head(<<b>> \o y) = b
<1>1. <<b>> \in Seq(S) /\ Len(<<b>>) = 1 /\ <<b>>[1] = b
  OBVIOUS
<1>2. PICK x \in Seq(S) : x = <<b>>
  BY <1>1, Zenon
<1>3. PICK z \in Seq(S) : z = x \o y
  BY ConcatProperties
<1>4. PICK n \in Nat : n = Len(y)
  BY LenProperties
<1>5. Len(x) = 1 /\ x[1] = b
  BY <1>1, <1>2, Zenon
<1>6. Len(z) = 1 + n
  BY <1>3, <1>4, <1>5, ConcatProperties
<1>7. z[1] = b
  <2>1. \A i \in 1 .. Len(x) + Len(y) : (x \o y)[i] = IF i <= Len(x) THEN x[i] ELSE y[i - Len(x)]
    BY ConcatProperties, Zenon
  <2>2. 1 \in 1 .. Len(x) + Len(y) /\ 1 <= Len(x)
    BY <1>4, <1>5
  <2> QED
    BY <1>3, <1>5, <2>1, <2>2, Zenon
<1>8. z # <<>> /\ Head(z) = b
  BY <1>4, <1>6, <1>7
<1> QED
  BY <1>1, <1>2, <1>3, <1>8, Zenon

(* What a handler drops is what it took from the queue. *)
LEMMA DropIsTaken ==
  ASSUME Item = Pdu, RInv, queue_dequeue, NEW s \in Stream, NEW d,
         d = IF s = FrontItem.from /\ pending[s] # <<>> THEN <<Head(pending[s])>> ELSE <<>>
  PROVE  d \in Seq(Seq(Byte)) /\ Taken(s, d)
<1>1. QueueInv /\ Sendable
  BY DEF RInv
<1>2. PICK c \in Seq(Pdu), p \in Pdu :
        c = Contents /\ c # <<>> /\ p = FrontItem /\ p = Head(c) /\ Contents' = Tail(c)
  <2>1. Contents \in Seq(Pdu) /\ Contents # <<>> /\ FrontItem = Head(Contents) /\ Contents' = Tail(Contents)
    BY <1>1, Dequeued
  <2> QED
    BY <2>1, HeadTailProperties
<1>3. pending[s] \in Seq(Seq(Byte))
  BY <1>1, PendingType
<1>4. d \in Seq(Seq(Byte))
  <2>1. CASE s = FrontItem.from /\ pending[s] # <<>>
    <3>1. PICK h \in Seq(Byte) : h = Head(pending[s])
      BY <1>3, <2>1, HeadTailProperties
    <3> QED
      BY <2>1, <3>1
  <2>2. CASE ~(s = FrontItem.from /\ pending[s] # <<>>)
    BY <2>2, EmptySeq
  <2> QED
    BY <2>1, <2>2
<1>5. PICK q \in Seq(Seq(Byte)) : q = Queued(s)' /\ Queued(s) = Of(s, p) \o q
  <2>1. PICK t \in Seq(Pdu) : t = Tail(c)
    BY <1>2, HeadTailProperties
  <2>2. PdusFrom(s, t) \in Seq(Seq(Byte))
    BY PdusType
  <2>3. PdusFrom(s, c) = Of(s, p) \o PdusFrom(s, t)
    BY <1>2, <2>1, PdusHead
  <2> QED
    BY <1>2, <2>1, <2>2, <2>3 DEF Queued
<1>6. ASSUME Intact(s) PROVE d = Of(s, p)
  <2>1. CASE p.from # s
    BY <1>2, <2>1 DEF Of
  <2>2. CASE p.from = s
    <3>1. PICK b \in Seq(Byte) : b = p.bytes
      BY DEF Pdu
    <3>2. PICK x \in Seq(Seq(Byte)) : x = <<b>>
      BY HeadFirst, EmptySeq
    <3>3. Queued(s) = x \o q
      BY <1>5, <2>2, <3>1, <3>2 DEF Of
    <3>4. Account(x \o q, pending[s], Unparsed(s), wire[s])
      BY <1>6, <3>3 DEF RInv, Sound
    <3>5. PICK y \in Seq(Seq(Byte)) : pending[s] = x \o y
      <4> DEFINE u == Unparsed(s)
                 w == wire[s]
      <4>1. PICK a \in Seq(Seq(Byte)) : a = pending[s] /\ Account(x \o q, a, u, w)
        BY <1>3, <3>4
      <4> HIDE DEF u, w
      <4>2. \E y \in Seq(Seq(Byte)) : a = x \o y /\ Account(q, y, u, w)
        BY <4>1, AccountHandled
      <4> QED
        BY <4>1, <4>2
    <3>6. pending[s] # <<>> /\ Head(pending[s]) = b
      BY <3>2, <3>5, HeadFirst
    <3> QED
      BY <1>2, <2>2, <3>1, <3>6 DEF Of
  <2> QED
    BY <2>1, <2>2
<1> QED
  BY <1>4, <1>5, <1>6 DEF Taken

LEMMA HandleInv ==
  ASSUME Item = Pdu, RInv, Handle
  PROVE  RInv'
<1> DEFINE drop == [s \in Stream |-> IF s = FrontItem.from /\ pending[s] # <<>>
                                     THEN <<Head(pending[s])>> ELSE <<>>]
<1>1. \A s \in Stream : drop[s] \in Seq(Seq(Byte)) /\ Taken(s, drop[s])
  <2> SUFFICES ASSUME NEW s \in Stream PROVE drop[s] \in Seq(Seq(Byte)) /\ Taken(s, drop[s])
    OBVIOUS
  <2>1. queue_dequeue
    BY DEF Handle
  <2>2. drop[s] = IF s = FrontItem.from /\ pending[s] # <<>> THEN <<Head(pending[s])>> ELSE <<>>
    OBVIOUS
  <2> HIDE DEF drop
  <2> QED
    BY <2>1, <2>2, DropIsTaken
<1>2. HandleJoin(drop, "drain") \/ HandleClose(drop) \/ HandleLeaving(drop) \/ HandleOther(drop)
  BY DEF Handle
<1>3. pc = "drain" /\ queue_dequeue /\ UNCHANGED <<static, offset, sends>>
  BY DEF Handle
<1> HIDE DEF drop
<1>4. \E up \in SUBSET Stream, down \in SUBSET Stream : Relink(up, down, drop) /\ pc' \in {"poll", "drain"}
  BY <1>2 DEF HandleJoin, HandleClose, HandleLeaving, HandleOther, Stream
<1>5. QueueInv' /\ sends' \in 0 .. MaxSent
  <2>1. QueueInv /\ sends \in 0 .. MaxSent
    BY DEF RInv, Typed, TypeOK
  <2> QED
    BY <1>3, <2>1, Dequeued
<1> QED
  BY <1>1, <1>3, <1>4, <1>5, RelinkInv

LEMMA DatagramInv ==
  ASSUME Item = Pdu, RInv, Datagram
  PROVE  RInv'
<1> DEFINE drop == [s \in Stream |-> <<>>]
<1>1. HandleJoin(drop, "poll") /\ pc = "poll" /\ UNCHANGED <<static, offset, queue>>
  BY DEF Datagram
<1>2. QueueInv' /\ Contents' = Contents
  BY <1>1, QueueStays DEF RInv
<1>3. \A s \in Stream : drop[s] \in Seq(Seq(Byte)) /\ Taken(s, drop[s])
  <2> SUFFICES ASSUME NEW s \in Stream PROVE drop[s] \in Seq(Seq(Byte)) /\ Taken(s, drop[s])
    OBVIOUS
  <2>1. drop[s] = <<>>
    OBVIOUS
  <2>2. PICK q \in Seq(Seq(Byte)) : q = Queued(s)
    BY QueuedType DEF RInv
  <2>3. Queued(s)' = q
    BY <1>2, <2>2 DEF Queued
  <2>4. q = <<>> \o q
    BY ConcatEmptySeq
  <2>5. <<>> \in Seq(Seq(Byte))
    BY EmptySeq
  <2> HIDE DEF drop
  <2> QED
    BY <2>1, <2>2, <2>3, <2>4, <2>5, Zenon DEF Taken
<1> HIDE DEF drop
<1>4. \E up \in SUBSET Stream, down \in SUBSET Stream : Relink(up, down, drop) /\ pc' \in {"poll", "drain"}
  BY <1>1 DEF HandleJoin, Stream
<1>5. sends' \in 0 .. MaxSent
  BY ReaderAssumption DEF Datagram, RInv, Typed, TypeOK
<1> QED
  BY <1>1, <1>2, <1>3, <1>4, <1>5, RelinkInv

LEMMA DrainEndInv ==
  ASSUME Item = Pdu, RInv, DrainEnd
  PROVE  RInv'
<1>1. /\ pc = "drain" /\ pc' = "poll"
      /\ UNCHANGED <<link, wire, pending, broken, buffer, filled, offset, sends, queue>>
  BY DEF DrainEnd, stream, static
<1>2. QueueInv' /\ Contents' = Contents
  BY <1>1, QueueStays DEF RInv
<1>3. Typed'
  BY <1>1 DEF RInv, Typed, TypeOK
<1>4. InBuffer' /\ Sendable'
  BY <1>1 DEF RInv, InBuffer, Sendable, Stream
<1>5. ASSUME NEW s \in Stream, Intact(s)' PROVE Sound(s)'
  <2>1. Sound(s)
    BY <1>1, <1>5 DEF RInv, Intact
  <2>2. Queued(s)' = Queued(s)
    BY <1>2 DEF Queued
  <2>3. Unparsed(s)' = Unparsed(s)
    BY <1>1 DEF Unparsed, Stream
  <2> QED
    BY <1>1, <2>1, <2>2, <2>3, SoundStays
<1> QED
  BY <1>2, <1>3, <1>4, <1>5 DEF RInv

LEMMA StutterInv ==
  ASSUME Item = Pdu, RInv, UNCHANGED vars
  PROVE  RInv'
<1>1. UNCHANGED <<link, wire, pending, broken, buffer, filled, offset, pc, sends, queue>>
  BY DEF vars, stream, static
<1>2. QueueInv' /\ Contents' = Contents
  BY <1>1, QueueStays DEF RInv
<1>3. Typed' /\ InBuffer' /\ Sendable'
  BY <1>1 DEF RInv, Typed, TypeOK, InBuffer, Sendable
<1>4. ASSUME NEW s \in Stream, Intact(s)' PROVE Sound(s)'
  <2>1. Sound(s)
    BY <1>1, <1>4 DEF RInv, Intact
  <2>2. Queued(s)' = Queued(s)
    BY <1>2 DEF Queued
  <2>3. Unparsed(s)' = Unparsed(s)
    BY <1>1 DEF Unparsed
  <2> QED
    BY <1>1, <2>1, <2>2, <2>3, SoundStays
<1> QED
  BY <1>2, <1>3, <1>4 DEF RInv

LEMMA StepInv ==
  ASSUME Item = Pdu
  PROVE  RInv /\ [Next]_vars => RInv'
<1> SUFFICES ASSUME RInv, [Next]_vars PROVE RInv'
  OBVIOUS
<1>1. CASE UNCHANGED vars
  BY <1>1, StutterInv
<1>2. ASSUME NEW s \in Stream, NEW m \in Message[s], Send(s, m) PROVE RInv'
  BY <1>2, SendInv
<1>3. ASSUME NEW s \in Stream, Read(s) PROVE RInv'
  BY <1>3, ReadCases, ReadInv, OverrunInv
<1>4. CASE Parse
  BY <1>4, ParseInv
<1>5. CASE ParseEnd
  BY <1>5, ParseEndInv
<1>6. CASE Handle
  BY <1>6, HandleInv
<1>7. CASE DrainEnd
  BY <1>7, DrainEndInv
<1>8. CASE Datagram
  BY <1>8, DatagramInv
<1> QED
  BY <1>1, <1>2, <1>3, <1>4, <1>5, <1>6, <1>7, <1>8 DEF Next, Loop

(* A node's two streams are accounted for in every state: what is queued,  *)
(* what is in the buffer and what is on the wire make up the PDUs that     *)
(* were sent and not handled, unless a read or a hand-over has cut one.    *)
THEOREM StreamsAccounted ==
  ASSUME Item = Pdu
  PROVE  Spec => []RInv
<1>1. Init => RInv
  BY InitRInv
<1>2. RInv /\ [Next]_vars => RInv'
  BY StepInv
<1> QED
  BY <1>1, <1>2, PTL DEF Spec

(* What waits in the buffer of an intact stream while nobody parses it is  *)
(* less than a PDU.                                                        *)
Leftover(s) == filled[s] = 0 \/ \E m \in Message[s] : filled[s] < Len(m)

LeftoverInv == \A s \in Stream : Intact(s) /\ s # pc => Leftover(s)

(* The parse loop stops only at a PDU that has not all arrived.            *)
LEMMA StopsAtPart ==
  ASSUME Item = Pdu, RInv, ParseEnd, NEW s \in Stream, s = pc, Intact(s)'
  PROVE  Leftover(s)
<1>1. Typed /\ Intact(s)
  BY DEF RInv, ParseEnd, Intact
<1>2. filled[s] \in Nat /\ filled[s] <= BufSize /\ offset \in Nat /\ buffer[s] \in [1 .. BufSize -> Byte]
  BY <1>1, ReaderAssumption DEF Typed, TypeOK
<1>3. CASE filled[s] = 0
  BY <1>3 DEF Leftover
<1>4. CASE filled[s] # 0
  <2>1. filled[s] > 0 /\ filled[s] \in 1 .. BufSize
    BY <1>2, <1>4, ReaderAssumption
  <2>2. PICK m \in Message[s] : Arrived(m, At, filled[s])
    BY <1>1, <2>1, NextPdu
  <2>3. m \in Seq(Byte) /\ IsPdu(m)
    BY ReaderAssumption, MessageAssumption
  <2>4. At \in [0 .. BufSize -> Byte]
    <3>1. 0 \in Byte
      BY DEF Byte
    <3>2. \A i \in 0 .. BufSize : offset + i + 1 <= BufSize => offset + i + 1 \in 1 .. BufSize
      BY <1>2, ReaderAssumption
    <3> QED
      BY <1>2, <3>1, <3>2 DEF At
  <2>5. ~(PduSize >= 0 /\ filled[s] >= PduSize)
    BY <2>1 DEF ParseEnd, Parsable
  <2>6. CASE filled[s] >= Len(m)
    <3>1. PduSize = Len(m)
      BY <2>1, <2>2, <2>3, <2>4, <2>6, SizeIsKnown DEF PduSize
    <3> QED
      BY <2>3, <2>5, <2>6, <3>1
  <2>7. CASE ~(filled[s] >= Len(m))
    BY <1>2, <2>3, <2>7 DEF Leftover
  <2> QED
    BY <2>6, <2>7
<1> QED
  BY <1>3, <1>4

LEMMA LeftoverStays ==
  ASSUME Item = Pdu, RInv, LeftoverInv, [Next]_vars
  PROVE  LeftoverInv'
<1> SUFFICES ASSUME NEW s \in Stream, Intact(s)', s # pc' PROVE Leftover(s)'
  BY DEF LeftoverInv
<1>1. Typed
  BY DEF RInv
<1>2. ASSUME Intact(s), s # pc, filled'[s] = filled[s] PROVE Leftover(s)'
  BY <1>2 DEF LeftoverInv, Leftover
<1>3. CASE UNCHANGED vars
  BY <1>2, <1>3 DEF vars, stream, static, Intact
<1>4. ASSUME NEW t \in Stream, NEW m \in Message[t], Send(t, m) PROVE Leftover(s)'
  BY <1>2, <1>4 DEF Send, static, Intact
<1>5. ASSUME NEW t \in Stream, Read(t) PROVE Leftover(s)'
  <2>1. pc = "poll" /\ s # pc /\ Intact(s)
    BY <1>5 DEF Read, Stream, Intact
  <2>2. CASE Overrun(t)
    BY <1>2, <2>1, <2>2 DEF Overrun
  <2>3. ASSUME NEW n \in 0 .. Len(wire[t]), NEW eof \in BOOLEAN, ReadInBuffer(t, n, eof)
        PROVE  Leftover(s)'
    BY <1>1, <1>2, <2>1, <2>3 DEF ReadInBuffer, Typed
  <2> QED
    BY <1>5, <2>2, <2>3, ReadCases
<1>6. CASE Parse
  BY <1>1, <1>2, <1>6 DEF Parse, stream, Intact, Typed
<1>7. CASE ParseEnd
  <2>1. filled' = filled /\ Intact(s)
    BY <1>7 DEF ParseEnd, static, Intact
  <2>2. CASE s = pc
    BY <1>7, <2>1, <2>2, StopsAtPart DEF Leftover
  <2> QED
    BY <1>2, <2>1, <2>2
<1>8. CASE Handle
  <2>1. pc = "drain" /\ filled' = filled /\ Intact(s)
    BY <1>8 DEF Handle, static, Intact, HandleJoin, HandleClose, HandleLeaving, HandleOther, Relink
  <2> QED
    BY <1>2, <2>1 DEF Stream
<1>9. CASE DrainEnd
  BY <1>2, <1>9 DEF DrainEnd, stream, static, Intact, Stream
<1>10. CASE Datagram
  <2>1. pc = "poll" /\ filled' = filled /\ Intact(s)
    BY <1>10 DEF Datagram, static, Intact, HandleJoin, Relink
  <2> QED
    BY <1>2, <2>1 DEF Stream
<1> QED
  BY <1>3, <1>4, <1>5, <1>6, <1>7, <1>8, <1>9, <1>10 DEF Next, Loop

(* A read that finds no room is of a burst.                                *)
LEMMA OverrunIsBurst ==
  ASSUME RInv, LeftoverInv, NEW s \in Stream, Overrun(s), Intact(s)
  PROVE  Burst(s)
<1>1. s # pc /\ Leftover(s)
  BY DEF Overrun, Stream, LeftoverInv
<1>2. PICK l \in Nat, k \in Nat : l = Len(wire[s]) /\ k = filled[s]
  BY ReaderAssumption DEF RInv, Typed, TypeOK
<1>3. k + l > BufSize
  BY <1>2, ReaderAssumption DEF Overrun
<1>4. CASE k = 0
  BY <1>2, <1>3, <1>4 DEF Burst
<1>5. ASSUME NEW m \in Message[s], k < Len(m) PROVE Burst(s)
  <2>1. PICK o \in Nat : o = Len(m)
    BY ReaderAssumption
  <2>2. o - 1 + l > BufSize
    BY <1>3, <1>5, <2>1, ReaderAssumption
  <2> QED
    BY <1>2, <2>1, <2>2 DEF Burst
<1> QED
  BY <1>1, <1>2, <1>4, <1>5 DEF Leftover

LEMMA OverrunStays ==
  ASSUME RInv, LeftoverInv, OverrunOnlyByBurst, [Next]_vars
  PROVE  OverrunOnlyByBurst'
<1> SUFFICES ASSUME pc' = "overrun" PROVE \E s \in Stream : ~Intact(s)' \/ Burst(s)'
  BY DEF OverrunOnlyByBurst
<1>1. "overrun" \notin Stream
  BY DEF Stream
<1>2. CASE UNCHANGED vars
  BY <1>2 DEF vars, stream, Intact, Burst, OverrunOnlyByBurst
<1>3. ASSUME NEW t \in Stream, NEW m \in Message[t], Send(t, m)
      PROVE  \E s \in Stream : ~Intact(s)' \/ Burst(s)'
  <2>1. pc = "overrun" /\ broken' = broken /\ wire' = [wire EXCEPT ![t] = wire[t] \o m]
    BY <1>3 DEF Send
  <2>2. PICK s \in Stream : ~Intact(s) \/ Burst(s)
    BY <2>1 DEF OverrunOnlyByBurst
  <2>3. CASE ~Intact(s)
    BY <2>1, <2>3 DEF Intact
  <2>4. CASE Burst(s)
    <3>1. PICK w \in Seq(Byte), x \in Seq(Byte), y \in Seq(Byte) :
            w = wire[s] /\ y = wire'[s] /\ (y = w \o x \/ y = w)
      <4>1. wire \in [Stream -> Seq(Byte)] /\ m \in Seq(Byte)
        BY ReaderAssumption DEF RInv, Typed, TypeOK
      <4>2. wire[s] \o m \in Seq(Byte)
        BY <4>1, ConcatProperties
      <4>3. wire'[s] = wire[s] \o m \/ wire'[s] = wire[s]
        BY <2>1, <4>1
      <4> QED
        BY <4>1, <4>2, <4>3
    <3>2. PICK l \in Nat, k \in Nat : l = Len(w) /\ k = Len(y) /\ l <= k
      <4>1. Len(w) \in Nat /\ Len(x) \in Nat /\ Len(w \o x) = Len(w) + Len(x)
        BY LenProperties, ConcatProperties
      <4> QED
        BY <3>1, <4>1
    <3>3. PICK part \in {0} \cup {Len(o) - 1 : o \in Message[s]} : part + l > BufSize
      BY <2>4, <3>1, <3>2 DEF Burst
    <3>4. part \in Int
      BY ReaderAssumption
    <3>5. part + k > BufSize
      BY <3>2, <3>3, <3>4, ReaderAssumption
    <3> QED
      BY <3>1, <3>2, <3>5 DEF Burst
  <2> QED
    BY <2>2, <2>3, <2>4
<1>4. ASSUME NEW t \in Stream, Read(t) PROVE \E s \in Stream : ~Intact(s)' \/ Burst(s)'
  <2>1. Overrun(t)
    BY <1>1, <1>4, ReadCases DEF ReadInBuffer
  <2>2. Intact(t)' = Intact(t) /\ Burst(t)' = Burst(t)
    BY <2>1 DEF Overrun, Intact, Burst
  <2> QED
    BY <2>1, <2>2, OverrunIsBurst
<1>5. CASE Parse \/ ParseEnd \/ Handle \/ DrainEnd \/ Datagram
  BY <1>1, <1>5 DEF Parse, Parsable, ParseEnd, Handle, HandleJoin, HandleClose, HandleLeaving,
     HandleOther, DrainEnd, Datagram
<1> QED
  BY <1>2, <1>3, <1>4, <1>5 DEF Next, Loop

(* A read runs past its buffer only when more bytes have arrived at once   *)
(* than there is room for behind a part of one PDU, or on a stream whose   *)
(* bytes are out of step: for any PDUs, any sizes and however the network  *)
(* cuts the streams, what the reads leave behind does not add up (the recv *)
(* loops of q6_state, which never compare the fill with the size).         *)
THEOREM OverrunsAreBursts ==
  ASSUME Item = Pdu
  PROVE  Spec => []OverrunOnlyByBurst
<1>1. Init => LeftoverInv /\ OverrunOnlyByBurst
  BY DEF Init, LeftoverInv, Leftover, OverrunOnlyByBurst
<1>2. RInv /\ LeftoverInv /\ OverrunOnlyByBurst /\ [Next]_vars
        => LeftoverInv' /\ OverrunOnlyByBurst'
  BY LeftoverStays, OverrunStays
<1> QED
  BY <1>1, <1>2, StreamsAccounted, PTL DEF Spec

(* However the network cuts an intact stream, the queue holds the oldest   *)
(* PDUs that were sent and not handled, whole and in order, for any PDUs,  *)
(* any sizes of buffer, SSN and address (get_packet_size, queue.c).        *)
THEOREM PdusComeAsSent ==
  ASSUME Item = Pdu
  PROVE  Spec => []PdusAsSent
<1>1. RInv => PdusAsSent
  <2> SUFFICES ASSUME RInv, NEW s \in Stream, Intact(s)
               PROVE  Queued(s) = SubSeq(pending[s], 1, Len(Queued(s)))
    BY DEF PdusAsSent
  <2>1. Queued(s) \in Seq(Seq(Byte))
    BY QueuedType DEF RInv
  <2>2. pending[s] \in Seq(Seq(Byte))
    BY PendingType DEF RInv
  <2>3. Account(Queued(s), pending[s], Unparsed(s), wire[s])
    BY DEF RInv, Sound
  <2> QED
    BY <2>1, <2>2, <2>3, AccountSays
<1> QED
  BY <1>1, StreamsAccounted, PTL

(* No byte of an intact stream is lost, doubled or overwritten between the *)
(* socket and the queue (the static buffers, which keep what is left of a  *)
(* read for the next one).                                                 *)
THEOREM NoByteIsLost ==
  ASSUME Item = Pdu
  PROVE  Spec => []BytesAccounted
<1>1. RInv => BytesAccounted
  <2> SUFFICES ASSUME RInv, NEW s \in Stream, Intact(s)
               PROVE  Unparsed(s) \o wire[s]
                        = FlattenSeq(SubSeq(pending[s], Len(Queued(s)) + 1, Len(pending[s])))
    BY DEF BytesAccounted
  <2> DEFINE u == Unparsed(s)
             w == wire[s]
  <2>1. PICK q \in Seq(Seq(Byte)), p \in Seq(Seq(Byte)) : q = Queued(s) /\ p = pending[s]
    BY QueuedType, PendingType DEF RInv
  <2>2. Account(q, p, u, w)
    BY <2>1 DEF RInv, Sound
  <2> HIDE DEF u, w
  <2>3. u \o w = FlattenSeq(SubSeq(p, Len(q) + 1, Len(p)))
    BY <2>2, AccountSays
  <2> QED
    BY <2>1, <2>3, Zenon DEF u, w
<1> QED
  BY <1>1, StreamsAccounted, PTL

(* The node uses its queue as queue.h means it: what it enqueues is a PDU, *)
(* and it dequeues only what is there.                                     *)
LEMMA QueueIsUsed ==
  ASSUME Item = Pdu, RInv, [Next]_vars
  PROVE  [QueueNext]_queue
<1>1. CASE UNCHANGED vars
  BY <1>1 DEF vars
<1>2. ASSUME NEW s \in Stream, NEW m \in Message[s], Send(s, m) PROVE UNCHANGED queue
  BY <1>2 DEF Send
<1>3. ASSUME NEW s \in Stream, Read(s) PROVE UNCHANGED queue
  BY <1>3 DEF Read
<1>4. CASE Parse
  <2>1. PICK s \in Stream, cut \in Seq(Byte) : queue_enqueue([from |-> s, bytes |-> cut])
    BY <1>4, ParseTypes
  <2> DEFINE x == [from |-> s, bytes |-> cut]
  <2>2. x \in Pdu
    BY DEF Pdu
  <2> HIDE DEF x
  <2> QED
    BY <2>1, <2>2 DEF QueueNext, x
<1>5. CASE ParseEnd
  BY <1>5 DEF ParseEnd
<1>6. CASE Handle
  BY <1>6 DEF Handle, QueueNext
<1>7. CASE DrainEnd
  BY <1>7 DEF DrainEnd
<1>8. CASE Datagram
  BY <1>8 DEF Datagram
<1> QED
  BY <1>1, <1>2, <1>3, <1>4, <1>5, <1>6, <1>7, <1>8 DEF Next, Loop

(* In the running node, too, the queue behaves as a FIFO: q6_state and     *)
(* process_queue call it only as queue.h allows.                           *)
THEOREM NodesQueueIsFifo ==
  ASSUME Item = Pdu
  PROVE  Spec => QueueImplementsFifo
<1>1. Init => QueueInit
  BY DEF Init
<1>2. RInv /\ [Next]_vars => [QueueNext]_queue
  BY QueueIsUsed
<1>3. Spec => QueueSpec
  BY <1>1, <1>2, StreamsAccounted, PTL DEF Spec, QueueSpec
<1> QED
  BY <1>3, QueueIsFifo, PTL
=============================================================================
