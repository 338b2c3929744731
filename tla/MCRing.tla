------------------------------- MODULE MCRing -------------------------------
(* Instances of Ring for TLC. *)
EXTENDS Ring

CONSTANTS n1, n2, n3, n4, k1, k2

(* Each value is sent once.  The hash of k1 is the largest: every split     *)
(* moves it to the joining node.  That of k2 is 0: its node hands it to its *)
(* successor when it leaves, and no split moves it.                         *)
InsertAll == {Insert(k) : k \in Key}
HashOf == [k \in Key |-> IF k = k1 THEN MaxHash ELSE 0]

(* All nodes are interchangeable, or those that are not told to stop. *)
Symmetry == Permutations(Node)
OthersSymmetry == Permutations(Node \ Leavers)
=============================================================================
