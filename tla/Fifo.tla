-------------------------------- MODULE Fifo --------------------------------
(* What queue.h promises: the items come out in the order they went in,     *)
(* and none is refused.                                                      *)
EXTENDS Naturals, Sequences

CONSTANT Item
VARIABLE fifo

Init == fifo = <<>>

(* One more item behind those that were there; Item need not be finite. *)
Enqueue ==
  /\ Len(fifo') = Len(fifo) + 1
  /\ fifo'[Len(fifo')] \in Item
  /\ \A i \in 1 .. Len(fifo) : fifo'[i] = fifo[i]
Dequeue == fifo # <<>> /\ fifo' = Tail(fifo)

Next == Enqueue \/ Dequeue
Spec == Init /\ [][Next]_fifo
=============================================================================
