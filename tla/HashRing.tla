------------------------------ MODULE HashRing ------------------------------
(***************************************************************************)
(* What the network promises about hash ranges, free of sockets, PDUs and  *)
(* nested loops: the members divide the hash space among them.  A node     *)
(* that joins gets the upper half of one member's range, a node that       *)
(* leaves gives its range to a neighbour in the order of the hashes, each  *)
(* in one step.  Ring implements this specification.                       *)
(***************************************************************************)
EXTENDS HashRange

CONSTANT Node

VARIABLES
  members,   \* the nodes that own a range
  lo, hi     \* the range of each member; (0, 0) for the others

vars == <<members, lo, hi>>

Init ==
  /\ members = {}
  /\ lo = [n \in Node |-> 0]
  /\ hi = [n \in Node |-> 0]

(* The first node of a network owns every hash. *)
First(n) ==
  /\ members = {}
  /\ members' = {n}
  /\ lo' = [lo EXCEPT ![n] = 0]
  /\ hi' = [hi EXCEPT ![n] = MaxHash]

(* p keeps the lower half of its range and n gets the upper half. *)
Join(n, p) ==
  /\ p \in members /\ n \notin members
  /\ lo[p] < hi[p]
  /\ members' = members \cup {n}
  /\ lo' = [lo EXCEPT ![n] = UpperStart(lo[p], hi[p])]
  /\ hi' = [hi EXCEPT ![n] = hi[p], ![p] = Mid(lo[p], hi[p])]

(* n's range goes to the member whose range ends before it ... *)
LeaveDown(n, q) ==
  /\ n \in members /\ q \in members
  /\ FollowsRange(hi[q], lo[n])
  /\ members' = members \ {n}
  /\ hi' = [hi EXCEPT ![q] = hi[n], ![n] = 0]
  /\ lo' = [lo EXCEPT ![n] = 0]

(* ... or, if it is the lowest range, to the member whose range follows. *)
LeaveUp(n, q) ==
  /\ n \in members /\ q \in members
  /\ lo[n] = 0 /\ FollowsRange(hi[n], lo[q])
  /\ members' = members \ {n}
  /\ lo' = [lo EXCEPT ![q] = 0]
  /\ hi' = [hi EXCEPT ![n] = 0]

(* The last member leaves and the network is gone. *)
LeaveLast(n) ==
  /\ members = {n}
  /\ members' = {}
  /\ lo' = [lo EXCEPT ![n] = 0]
  /\ hi' = [hi EXCEPT ![n] = 0]

Next ==
  \E n \in Node :
    \/ First(n) \/ LeaveLast(n)
    \/ \E q \in Node : Join(n, q) \/ LeaveDown(n, q) \/ LeaveUp(n, q)

Spec == Init /\ [][Next]_vars
-----------------------------------------------------------------------------
TypeOK ==
  /\ members \in SUBSET Node
  /\ lo \in [Node -> Hash]
  /\ hi \in [Node -> Hash]

(* Every hash of every network has an owner: whatever nodes join and leave, *)
(* as long as there is one, no value is without a place.                    *)
Complete == members # {} => \A h \in Hash : \E n \in members : InRange(h, lo[n], hi[n])

(* No two members own the same hash, so that no value has two homes.       *)
Disjoint ==
  \A n, m \in members, h \in Hash :
    InRange(h, lo[n], hi[n]) /\ InRange(h, lo[m], hi[m]) => n = m

(* A member owns at least one hash: a join never produces the inverted     *)
(* range that split_range computes from a single hash.                     *)
NonEmpty == \A n \in members : lo[n] <= hi[n]

Partition == Complete /\ Disjoint /\ NonEmpty

(* The rule of q11_state, that a node gives its range to its predecessor    *)
(* unless the range starts at 0, and then to its successor, leaves no node  *)
(* without an heir: LeaveLast, LeaveDown or LeaveUp can always be taken.    *)
HeirExists ==
  \A n \in members :
    \/ members = {n}
    \/ lo[n] # 0 /\ \E q \in members : FollowsRange(hi[q], lo[n])
    \/ lo[n] = 0 /\ \E q \in members : FollowsRange(hi[n], lo[q])
=============================================================================
