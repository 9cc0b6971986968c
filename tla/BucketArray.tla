---------------------------- MODULE BucketArray ----------------------------
(***************************************************************************)
(* The open-addressed bucket array of CommonDictionaryStorage.cs as a      *)
(* value.  A bucket holds a key (or NoKey, never used, or Removed, the     *)
(* marker a deletion leaves), a value and the hash code stored with them.  *)
(*                                                                         *)
(* A key is probed along the slots hash, hash + 1, ... modulo the length;  *)
(* the distance d of a slot is its position on that path.  Keys stands for *)
(* keys up to ==, so that the equality delegates compare for identity, and *)
(* the hash functions agree on every key (Hash).                           *)
(***************************************************************************)
EXTENDS Integers, FiniteSets

CONSTANTS
    Keys,       \* the keys, None excluded: it has a field of its own
    Hash,       \* hash code & Int32.MaxValue of each key
    Values,     \* the values bound to keys, Null (Python's None) excluded
    NoKey, Removed, Null

ASSUME HashAssumption == Hash \in [Keys -> Nat]
ASSUME MarkerAssumption ==
    /\ NoKey \notin Keys /\ Removed \notin Keys /\ NoKey # Removed
    /\ Null \notin Values

Bucket == [key : Keys \cup {NoKey, Removed}, value : Values \cup {Null}, hash : Nat]
FreshBucket == [key |-> NoKey, value |-> Null, hash |-> 0]

\* new Bucket[n]
NewArray(n) == [length |-> n, at |-> [i \in 0 .. n - 1 |-> FreshBucket]]

IsArray(a) ==
    /\ a \in [length : Nat \ {0}, at : {a.at}]
    /\ a.at \in [0 .. a.length - 1 -> Bucket]

Distances(a) == 0 .. a.length - 1
Probe(a, k, d) == (Hash[k] + d) % a.length

\* The key that a probe for k meets at distance d.  The code compares hash codes
\* before keys; equal keys have equal ones.
Met(a, k, d) == a.at[Probe(a, k, d)].key

\* A scan for k is still going at distance d: no fresh bucket ended it before.
Passes(a, k, d) == \A e \in 0 .. d - 1 : Met(a, k, e) # NoKey

\* Variant: the scan also ends at a removed bucket.
MatchesBeforeRemoved(a, k) ==
    {d \in Distances(a) : Met(a, k, d) = k /\ \A e \in 0 .. d - 1 : Met(a, k, e) \notin {NoKey, Removed}}

\* The distances at which the scan for k stops with a match.
Matches(a, k) == {d \in Distances(a) : Met(a, k, d) = k /\ Passes(a, k, d)}

\* The first bucket on k's path that holds no key.
IsUsable(a, k, d) ==
    /\ d \in Distances(a)
    /\ Met(a, k, d) \in {NoKey, Removed}
    /\ \A e \in 0 .. d - 1 : Met(a, k, e) \notin {NoKey, Removed}

HasRoom(a, k) == \E d \in Distances(a) : IsUsable(a, k, d)

LiveSlots(a) == {i \in 0 .. a.length - 1 : a.at[i].key \in Keys}

\* buckets[i] = b
Write(a, i, b) == [a EXCEPT !.at[i] = b]

\* (_count >= _buckets.Length * Load), (int)(size / Load), with Load = .7
AtLoad(count, length) == 10 * count >= 7 * length
DividedByLoad(size) == (10 * size) \div 7
-----------------------------------------------------------------------------
\* Every key in the array is found by probing for it: each bucket between its
\* hash slot and its own is in use or was.
ChainUnbroken(a) ==
    \A i \in LiveSlots(a) :
        \E d \in Distances(a) :
            /\ Probe(a, a.at[i].key, d) = i
            /\ Passes(a, a.at[i].key, d)

NoDuplicates(a) ==
    \A i, j \in LiveSlots(a) : a.at[i].key = a.at[j].key => i = j
=============================================================================
