------------------------------ MODULE MCDeque ------------------------------
(* Deque for TLC. *)
EXTENDS Deque, TLC

CONSTANTS a, b

MCUnbounded == -1
MCMaxLens == {-1, 1, 3}
Symmetry == Permutations(Values)

\* Out of range on both sides.
MCIndices == -4 .. 4
=============================================================================
