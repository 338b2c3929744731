--------------------------- MODULE HashRing_proofs ---------------------------
(***************************************************************************)
(* The ranges partition the hash space, for every set of nodes and every   *)
(* size of the hash space.                                                 *)
(***************************************************************************)
EXTENDS HashRing, TLAPS

(* Storing a hash value in a uint8_t does not change it. *)
LEMMA UInt8Identity ==
  ASSUME NEW h \in Hash PROVE UInt8(h) = h
BY MaxHashAssumption DEF UInt8, Hash

(* split_range cuts a range of at least two hashes into two that are not   *)
(* empty, adjacent, and together the whole.                                *)
LEMMA SplitRange ==
  ASSUME NEW a \in Hash, NEW b \in Hash, a < b
  PROVE  /\ Mid(a, b) \in Hash /\ UpperStart(a, b) \in Hash
         /\ a <= Mid(a, b) /\ Mid(a, b) < b
         /\ UpperStart(a, b) = Mid(a, b) + 1
<1> DEFINE m == (b - a) \div 2 + a
<1>1. m \in Int /\ a <= m /\ m < b
  BY DEF Hash
<1>2. m \in Hash /\ m + 1 \in Hash
  BY <1>1, MaxHashAssumption DEF Hash
<1>3. Half(b - a) = (b - a) \div 2
  BY DEF Half, Hash
<1>4. Mid(a, b) = m
  BY <1>2, <1>3, UInt8Identity DEF Mid
<1>5. UpperStart(a, b) = m + 1
  BY <1>2, <1>4, UInt8Identity DEF UpperStart
<1> QED
  BY <1>1, <1>2, <1>4, <1>5 DEF Hash
-----------------------------------------------------------------------------
(* Every range bound stays a hash: splitting and merging never overflow.   *)
THEOREM TypeCorrect == Spec => []TypeOK
<1>1. Init => TypeOK
  BY MaxHashAssumption DEF Init, TypeOK, Hash
<1>2. TypeOK /\ [Next]_vars => TypeOK'
  <2> SUFFICES ASSUME TypeOK, [Next]_vars PROVE TypeOK'
    OBVIOUS
  <2> USE DEF TypeOK
  <2>1. CASE UNCHANGED vars
    BY <2>1 DEF vars
  <2>2. ASSUME NEW n \in Node, First(n) PROVE TypeOK'
    BY <2>2, MaxHashAssumption DEF First, Hash
  <2>3. ASSUME NEW n \in Node, LeaveLast(n) PROVE TypeOK'
    BY <2>3, MaxHashAssumption DEF LeaveLast, Hash
  <2>4. ASSUME NEW n \in Node, NEW q \in Node, Join(n, q) PROVE TypeOK'
    BY <2>4, SplitRange DEF Join
  <2>5. ASSUME NEW n \in Node, NEW q \in Node, LeaveDown(n, q) PROVE TypeOK'
    BY <2>5, MaxHashAssumption DEF LeaveDown, Hash
  <2>6. ASSUME NEW n \in Node, NEW q \in Node, LeaveUp(n, q) PROVE TypeOK'
    BY <2>6, MaxHashAssumption DEF LeaveUp, Hash
  <2> QED
    BY <2>1, <2>2, <2>3, <2>4, <2>5, <2>6 DEF Next
<1> QED
  BY <1>1, <1>2, PTL DEF Spec
-----------------------------------------------------------------------------
(* Partition is inductive: one step at a time, given the types. *)

LEMMA FirstPartition ==
  ASSUME TypeOK, NEW n \in Node, First(n) PROVE Partition'
BY MaxHashAssumption DEF TypeOK, First, Partition, Complete, Disjoint, NonEmpty, InRange, Hash

LEMMA LeaveLastPartition ==
  ASSUME TypeOK, NEW n \in Node, LeaveLast(n) PROVE Partition'
BY DEF LeaveLast, Partition, Complete, Disjoint, NonEmpty

(* The two halves are disjoint and cover what the splitting node owned.    *)
LEMMA JoinPartition ==
  ASSUME TypeOK, Partition, NEW n \in Node, NEW p \in Node, Join(n, p) PROVE Partition'
<1> USE DEF TypeOK, Join
<1> DEFINE m == Mid(lo[p], hi[p])
<1>1. /\ m \in Hash /\ lo[p] <= m /\ m < hi[p]
      /\ UpperStart(lo[p], hi[p]) = m + 1
  BY SplitRange
<1> HIDE DEF m
<1>2. /\ n # p
      /\ lo'[n] = m + 1 /\ hi'[n] = hi[p]
      /\ lo'[p] = lo[p] /\ hi'[p] = m
      /\ \A x \in members \ {p} : x # n /\ lo'[x] = lo[x] /\ hi'[x] = hi[x]
  BY <1>1 DEF m
<1>3. NonEmpty'
  BY <1>1, <1>2 DEF Partition, NonEmpty, Hash
<1>4. ASSUME NEW h \in Hash PROVE
        /\ InRange(h, lo'[n], hi'[n]) => InRange(h, lo[p], hi[p])
        /\ InRange(h, lo'[p], hi'[p]) => InRange(h, lo[p], hi[p])
        /\ InRange(h, lo[p], hi[p]) => InRange(h, lo'[n], hi'[n]) \/ InRange(h, lo'[p], hi'[p])
        /\ ~(InRange(h, lo'[n], hi'[n]) /\ InRange(h, lo'[p], hi'[p]))
  BY <1>1, <1>2 DEF InRange, Hash
<1>5. Complete'
  BY <1>2, <1>4 DEF Partition, Complete
<1>6. Disjoint'
  BY <1>2, <1>4 DEF Partition, Disjoint
<1> QED
  BY <1>3, <1>5, <1>6 DEF Partition

(* The range of the leaving node and the one that ends before it become    *)
(* one.                                                                    *)
LEMMA LeaveDownPartition ==
  ASSUME TypeOK, Partition, NEW n \in Node, NEW q \in Node, LeaveDown(n, q) PROVE Partition'
<1> USE DEF TypeOK, LeaveDown
<1>1. lo[n] <= hi[n] /\ lo[q] <= hi[q] /\ lo[n] = hi[q] + 1 /\ n # q
  BY DEF Partition, NonEmpty, FollowsRange, Hash
<1>2. /\ lo'[q] = lo[q] /\ hi'[q] = hi[n]
      /\ \A x \in members' \ {q} : lo'[x] = lo[x] /\ hi'[x] = hi[x]
  BY <1>1
<1>3. NonEmpty'
  BY <1>1, <1>2 DEF Partition, NonEmpty, Hash
<1>4. \A h \in Hash :
        InRange(h, lo'[q], hi'[q]) <=> InRange(h, lo[q], hi[q]) \/ InRange(h, lo[n], hi[n])
  BY <1>1, <1>2 DEF InRange, Hash
<1>5. Complete'
  BY <1>1, <1>2, <1>4 DEF Partition, Complete
<1>6. Disjoint'
  BY <1>2, <1>4 DEF Partition, Disjoint
<1> QED
  BY <1>3, <1>5, <1>6 DEF Partition

(* The range from 0 and the one that follows it become one.                *)
LEMMA LeaveUpPartition ==
  ASSUME TypeOK, Partition, NEW n \in Node, NEW q \in Node, LeaveUp(n, q) PROVE Partition'
<1> USE DEF TypeOK, LeaveUp
<1>1. lo[n] <= hi[n] /\ lo[q] <= hi[q] /\ lo[q] = hi[n] + 1 /\ lo[n] = 0 /\ n # q
  BY DEF Partition, NonEmpty, FollowsRange, Hash
<1>2. /\ lo'[q] = 0 /\ hi'[q] = hi[q]
      /\ \A x \in members' \ {q} : lo'[x] = lo[x] /\ hi'[x] = hi[x]
  BY <1>1
<1>3. NonEmpty'
  BY <1>1, <1>2 DEF Partition, NonEmpty, Hash
<1>4. \A h \in Hash :
        InRange(h, lo'[q], hi'[q]) <=> InRange(h, lo[q], hi[q]) \/ InRange(h, lo[n], hi[n])
  BY <1>1, <1>2 DEF InRange, Hash
<1>5. Complete'
  BY <1>1, <1>2, <1>4 DEF Partition, Complete
<1>6. Disjoint'
  BY <1>2, <1>4 DEF Partition, Disjoint
<1> QED
  BY <1>3, <1>5, <1>6 DEF Partition

(* As long as the network has a node, every hash has one owner, whatever   *)
(* nodes join and leave in whatever order.                                 *)
THEOREM PartitionInvariant == Spec => []Partition
<1>1. Init => Partition
  BY DEF Init, Partition, Complete, Disjoint, NonEmpty
<1>2. TypeOK /\ Partition /\ [Next]_vars => Partition'
  <2> SUFFICES ASSUME TypeOK, Partition, [Next]_vars PROVE Partition'
    OBVIOUS
  <2>1. CASE UNCHANGED vars
    BY <2>1 DEF vars, Partition, Complete, Disjoint, NonEmpty
  <2>2. CASE Next
    BY <2>2, FirstPartition, LeaveLastPartition, JoinPartition, LeaveDownPartition,
       LeaveUpPartition DEF Next
  <2> QED
    BY <2>1, <2>2
<1> QED
  BY <1>1, <1>2, TypeCorrect, PTL DEF Spec

(* A node that is not alone always has a neighbour that can take its range *)
(* over: the owner of the hash next to it.                                 *)
THEOREM HeirInvariant == Spec => []HeirExists
<1>1. TypeOK /\ Partition => HeirExists
  <2> SUFFICES ASSUME TypeOK, Partition, NEW n \in members, members # {n}
               PROVE  \/ lo[n] # 0 /\ \E q \in members : FollowsRange(hi[q], lo[n])
                      \/ lo[n] = 0 /\ \E q \in members : FollowsRange(hi[n], lo[q])
    BY DEF HeirExists
  <2> USE DEF TypeOK
  <2>1. PICK m \in members : m # n
    OBVIOUS
  <2>2. /\ n \in Node /\ lo[n] \in Hash /\ hi[n] \in Hash /\ lo[n] <= hi[n]
        /\ \A q \in members : lo[q] \in Hash /\ hi[q] \in Hash /\ lo[q] <= hi[q]
    BY DEF Partition, NonEmpty
  <2>3. CASE lo[n] # 0
    <3>0. lo[n] - 1 \in Hash
      BY <2>2, <2>3, MaxHashAssumption DEF Hash
    <3>1. PICK q \in members : InRange(lo[n] - 1, lo[q], hi[q])
      BY <3>0, Zenon DEF Partition, Complete
    <3>2. ~InRange(lo[n], lo[q], hi[q])
      BY <2>2, <3>1 DEF Partition, Disjoint, InRange, Hash
    <3>3. FollowsRange(hi[q], lo[n])
      BY <2>2, <2>3, <3>1, <3>2 DEF FollowsRange, InRange, Hash
    <3> QED
      BY <2>3, <3>3
  <2>4. CASE lo[n] = 0
    <3>1. hi[n] # MaxHash
      BY <2>1, <2>2, <2>4 DEF Partition, Disjoint, InRange, Hash
    <3>0. hi[n] + 1 \in Hash
      BY <2>2, <3>1, MaxHashAssumption DEF Hash
    <3>2. PICK q \in members : InRange(hi[n] + 1, lo[q], hi[q])
      BY <3>0, Zenon DEF Partition, Complete
    <3>3. ~InRange(hi[n], lo[q], hi[q])
      BY <2>2, <3>2 DEF Partition, Disjoint, InRange, Hash
    <3>4. FollowsRange(hi[n], lo[q])
      BY <2>2, <2>4, <3>1, <3>2, <3>3 DEF FollowsRange, InRange, Hash
    <3> QED
      BY <2>4, <3>4
  <2> QED
    BY <2>3, <2>4
<1> QED
  BY <1>1, TypeCorrect, PartitionInvariant, PTL
=============================================================================
