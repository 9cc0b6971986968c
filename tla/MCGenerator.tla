---------------------------- MODULE MCGenerator ----------------------------
(* Generator for TLC. *)
EXTENDS Generator, TLC

CONSTANTS g, k, v, w, e

Symmetry == Permutations(Sent)
=============================================================================
