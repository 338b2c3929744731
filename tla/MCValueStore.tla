---------------------------- MODULE MCValueStore ----------------------------
(* An instance of ValueStore for TLC: two keys that collide and a third,    *)
(* which the upper half of the hash space holds.                            *)
EXTENDS ValueStore

CONSTANTS k1, k2, k3, d1, d2

HashOf == [k \in {k1, k2, k3} |-> IF k = k3 THEN 0 ELSE MaxHash]

Symmetry == Permutations({k1, k2}) \cup Permutations({d1, d2})
=============================================================================
