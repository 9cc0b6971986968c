---------------------------- MODULE MCDictionary ----------------------------
(***************************************************************************)
(* CommonDictionaryStorage on small dictionaries: all keys probe the same  *)
(* slots of the initial array, and k1 and k3, of different types, have the *)
(* same hash code.                                                         *)
(***************************************************************************)
EXTENDS CommonDictionaryStorage, TLC

CONSTANTS k1, k2, k3, v1, v2, int, string

MCHash == [k \in Keys |-> IF k = k2 THEN 5 ELSE 2]
MCTypeOf == [k \in Keys |-> IF k = k3 THEN string ELSE int]

\* In dictionaries of one type k1 and k3 are interchangeable.
OneType == [k \in Keys |-> int]
Symmetry == Permutations({k1, k3})

NoSources == {}

\* A dictionary {k3: v1} to be copied.
MCSources == {[items |-> <<[key |-> k3, value |-> v1]>>, keyType |-> string, length |-> 2]}
=============================================================================
