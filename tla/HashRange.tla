------------------------------ MODULE HashRange ------------------------------
(***************************************************************************)
(* The arithmetic of hash ranges.  A node owns the hashes from its         *)
(* hash_range_start to its hash_range_end; both are uint8_t in the code,   *)
(* so MaxHash is 255 there and sums wrap modulo MaxHash + 1.  C promotes   *)
(* uint8_t to int before it subtracts and its division truncates toward    *)
(* zero, which matters for the inverted range (hi, hi - 1) that a node     *)
(* owning a single hash produces when it is split once more.               *)
(***************************************************************************)
EXTENDS Integers

CONSTANT MaxHash    \* the largest hash value, 255 in the code

ASSUME MaxHashAssumption == MaxHash \in Nat \ {0}

Hash == 0 .. MaxHash

(* A value stored into a uint8_t variable. *)
UInt8(i) == i % (MaxHash + 1)

(* C's d / 2. *)
Half(d) == IF d >= 0 THEN d \div 2 ELSE -((-d) \div 2)

(* calulate_hash_span(start, end) *)
Span(lo, hi) == UInt8(hi - lo)

(* split_range: the splitting node keeps (lo, Mid), its new successor gets *)
(* (UpperStart, hi).                                                       *)
Mid(lo, hi) == UInt8(Half(hi - lo) + lo)
UpperStart(lo, hi) == UInt8(Mid(lo, hi) + 1)

(* The test of q9 and of transfer_upper_half.  It is empty for an inverted *)
(* range.                                                                  *)
InRange(h, lo, hi) == lo <= h /\ h <= hi

(* q15 takes the range from its successor only if it follows its own. *)
FollowsRange(hi, from) == hi # MaxHash /\ from = hi + 1

(* update_hash_range ignores an inverted range. *)
ValidRange(lo, hi) == lo <= hi
=============================================================================
