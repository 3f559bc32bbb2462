------------------------------- MODULE Filter --------------------------------
(* Some elements of a sequence, for the loops that pick them out one after  *)
(* another.                                                                 *)
EXTENDS Sequences, SequencesExt

(* The elements of s that are in K, in their order. *)
Those(s, K) == FoldLeft(LAMBDA q, x : IF x \in K THEN Append(q, x) ELSE q, <<>>, s)

=============================================================================
