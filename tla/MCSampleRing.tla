---------------------------- MODULE MCSampleRing ----------------------------
(* An instance of SampleRing for TLC: three nodes, and two values, of the   *)
(* smallest and of the largest hash.                                        *)
EXTENDS SampleRing

CONSTANTS n1, n2, n3, k1, k2

InsertAll == {Insert(k) : k \in Key}
HashOf == [k \in Key |-> IF k = k1 THEN 0 ELSE MaxHash]
=============================================================================
