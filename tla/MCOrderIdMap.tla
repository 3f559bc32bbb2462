---------------------------- MODULE MCOrderIdMap ----------------------------
(* A table of four slots, one id more than it holds, every hash function.  *)
EXTENDS OrderIdMap

CONSTANTS a, b, c, d, e

FiveIds == {a, b, c, d, e}
Symmetry == Permutations(FiveIds)

=============================================================================
