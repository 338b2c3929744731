-------------------------------- MODULE Queue --------------------------------
(***************************************************************************)
(* The circular queue of Nodes/queue.c, which holds the PDUs that were     *)
(* read and not yet handled.  The array doubles when it is full.           *)
(***************************************************************************)
EXTENDS Integers, Sequences

CONSTANTS
  Item,             \* what is enqueued: never the NULL pointer
  NULL,             \* the content of an unused slot
  InitialCapacity   \* queue_create's argument

ASSUME QueueAssumption == InitialCapacity \in Nat \ {0} /\ NULL \notin Item

VARIABLES items, front, rear, size, capacity

queue == <<items, front, rear, size, capacity>>

QueueInit ==
  /\ items = [i \in 0 .. InitialCapacity - 1 |-> NULL]
  /\ front = 0 /\ rear = -1
  /\ size = 0 /\ capacity = InitialCapacity

queue_is_empty == size = 0

(* queue_resize: the items move to the start of an array twice as large. *)
ResizedFromZero ==   \* mutant
  [i \in 0 .. 2 * capacity - 1 |-> IF i < size THEN items[i] ELSE NULL]
Resized ==
  [i \in 0 .. 2 * capacity - 1 |-> IF i < size THEN items[(front + i) % capacity] ELSE NULL]

EnqueueInPlace(x) ==
  LET r == (rear + 1) % capacity
  IN  /\ size # capacity
      /\ rear' = r
      /\ items' = [items EXCEPT ![r] = x]
      /\ size' = size + 1
      /\ UNCHANGED <<front, capacity>>

(* After queue_resize rear is size - 1, so the new item goes to slot size. *)
EnqueueResizing(x) ==
  /\ size = capacity
  /\ capacity' = 2 * capacity
  /\ front' = 0
  /\ rear' = size % (2 * capacity)
  /\ items' = [Resized EXCEPT ![size % (2 * capacity)] = x]
  /\ size' = size + 1

queue_enqueue(x) == EnqueueInPlace(x) \/ EnqueueResizing(x)

(* The item queue_dequeue returns. *)
FrontItem == items[front]

queue_dequeue ==
  /\ ~queue_is_empty
  /\ front' = (front + 1) % capacity
  /\ size' = size - 1
  /\ UNCHANGED <<items, rear, capacity>>

QueueNext == (\E x \in Item : queue_enqueue(x)) \/ queue_dequeue
QueueSpec == QueueInit /\ [][QueueNext]_queue
-----------------------------------------------------------------------------
(* The items from front to rear, which wrap around the end of the array. *)
Contents == [i \in 1 .. size |-> items[(front + i - 1) % capacity]]

Fifo == INSTANCE Fifo WITH fifo <- Contents

(* Whatever the interleaving of enqueues, dequeues and resizes, the queue  *)
(* behaves as a FIFO (queue_enqueue, queue_resize, queue_dequeue).         *)
QueueImplementsFifo == Fifo!Spec
=============================================================================
