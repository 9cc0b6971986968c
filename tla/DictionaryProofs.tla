-------------------------- MODULE DictionaryProofs --------------------------
(***************************************************************************)
(* Proofs about the dictionary storage, for any keys, hash codes, readers  *)
(* and sizes.  Each invariant rests on the ones before it:                 *)
(*   IInv       every array in use is well formed, every call in progress  *)
(*              is where the code can be;                                  *)
(*   CountOK    the count agrees with the array, and there is room;        *)
(*   MappingOK  the array shows the mapping before or after the mutation;  *)
(*   LookupsOK  every lookup can still end with an admissible answer;      *)
(*   SitesOK    delegates, key types and the arrays picked up agree.       *)
(***************************************************************************)
EXTENDS CommonDictionaryStorage, FiniteSetTheorems, TLAPS

(* Lemmas about bucket arrays.                                               *)

\* Every probe of a scan falls inside the array.
LEMMA ProbeInRange ==
    ASSUME NEW a, IsArray(a), NEW k \in Keys, NEW d \in Nat
    PROVE  Probe(a, k, d) \in 0 .. a.length - 1
<1>1. a.length \in Nat /\ a.length > 0 /\ Hash[k] \in Nat
    BY HashAssumption DEF IsArray
<1>2. Hash[k] + d \in Nat
    BY <1>1
<1> QED
    BY <1>1, <1>2 DEF Probe

\* A new array is well formed: it holds no key.
LEMMA NewArrayWellFormed ==
    ASSUME NEW n \in Nat \ {0}
    PROVE  WellFormed(NewArray(n)) /\ LiveSlots(NewArray(n)) = {} /\ NewArray(n).length = n
<1>1. IsArray(NewArray(n))
    BY DEF IsArray, NewArray, Bucket, FreshBucket
<1>2. LiveSlots(NewArray(n)) = {}
    BY MarkerAssumption DEF LiveSlots, NewArray, FreshBucket
<1> QED
    BY <1>1, <1>2 DEF WellFormed, ChainUnbroken, NoDuplicates, NewArray

\* Writing a bucket changes that bucket and nothing else.
LEMMA WriteType ==
    ASSUME NEW a, IsArray(a), NEW i \in 0 .. a.length - 1, NEW b \in Bucket
    PROVE  /\ IsArray(Write(a, i, b))
           /\ Write(a, i, b).length = a.length
           /\ Write(a, i, b).at = [a.at EXCEPT ![i] = b]
BY DEF IsArray, Write

\* A write keeps every chain unbroken if it makes no bucket fresh again and
\* puts a key only where that key's own scan arrives.
LEMMA WriteKeepsChains ==
    ASSUME NEW a, IsArray(a), ChainUnbroken(a),
           NEW i \in 0 .. a.length - 1, NEW b \in Bucket,
           b.key = NoKey => a.at[i].key = NoKey,
           b.key \in Keys =>
               \/ a.at[i].key = b.key
               \/ \E d \in Distances(a) : Probe(a, b.key, d) = i /\ Passes(a, b.key, d)
    PROVE  ChainUnbroken(Write(a, i, b))
<1> DEFINE w == Write(a, i, b)
<1>1. IsArray(w) /\ w.length = a.length /\ w.at = [a.at EXCEPT ![i] = b]
    BY WriteType
<1>2. ASSUME NEW k \in Keys, NEW d \in Nat, Passes(a, k, d)
      PROVE  Passes(w, k, d)
  <2> SUFFICES ASSUME NEW e \in 0 .. d - 1 PROVE Met(w, k, e) # NoKey
      BY DEF Passes
  <2>1. Met(a, k, e) # NoKey /\ e \in Nat
      BY <1>2 DEF Passes
  <2>2. Probe(a, k, e) \in 0 .. a.length - 1 /\ Probe(w, k, e) = Probe(a, k, e)
      BY <1>1, <2>1, ProbeInRange DEF Probe
  <2> QED
      BY <1>1, <2>1, <2>2 DEF Met, IsArray
<1>3. ASSUME NEW j \in LiveSlots(w)
      PROVE  \E d \in Distances(w) : Probe(w, w.at[j].key, d) = j /\ Passes(w, w.at[j].key, d)
  <2>1. j \in 0 .. a.length - 1 /\ w.at[j].key \in Keys
      BY <1>1, <1>3 DEF LiveSlots
  <2>2. CASE w.at[j].key = a.at[j].key
    <3>1. j \in LiveSlots(a)
        BY <2>1, <2>2 DEF LiveSlots
    <3>2. PICK d \in Distances(a) : Probe(a, w.at[j].key, d) = j /\ Passes(a, w.at[j].key, d)
        BY <3>1, <2>2 DEF ChainUnbroken
    <3> QED
        BY <3>2, <2>1, <1>1, <1>2 DEF Distances, Probe
  <2>3. CASE w.at[j].key # a.at[j].key
    <3>1. j = i /\ w.at[j] = b
        BY <1>1, <2>1, <2>3 DEF IsArray
    <3>2. PICK d \in Distances(a) : Probe(a, b.key, d) = i /\ Passes(a, b.key, d)
        BY <3>1, <2>1, <2>3
    <3> QED
        BY <3>1, <3>2, <2>1, <1>1, <1>2 DEF Distances, Probe
  <2> QED
      BY <2>2, <2>3
<1> QED
    BY <1>3 DEF ChainUnbroken

\* A write that puts no second copy of a key keeps the keys unique.
LEMMA WriteKeepsUnique ==
    ASSUME NEW a, IsArray(a), NoDuplicates(a),
           NEW i \in 0 .. a.length - 1, NEW b \in Bucket,
           b.key \in Keys =>
               \/ a.at[i].key = b.key
               \/ \A j \in LiveSlots(a) : a.at[j].key # b.key
    PROVE  NoDuplicates(Write(a, i, b))
<1> DEFINE w == Write(a, i, b)
<1>1. IsArray(w) /\ w.length = a.length /\ w.at = [a.at EXCEPT ![i] = b]
    BY WriteType
<1>2. \A j \in LiveSlots(w) :
          /\ j \in 0 .. a.length - 1
          /\ j # i => j \in LiveSlots(a) /\ w.at[j] = a.at[j]
          /\ j = i => w.at[j] = b /\ b.key \in Keys
    BY <1>1 DEF LiveSlots, IsArray
<1> QED
    BY <1>2 DEF NoDuplicates, LiveSlots

\* What a write does to the well-formedness of the array.
LEMMA WriteWellFormed ==
    ASSUME NEW a, WellFormed(a), NEW i \in 0 .. a.length - 1, NEW b \in Bucket,
           b.key = NoKey => a.at[i].key = NoKey,
           b.key \in Keys => a.at[i].key = b.key \/ Settled(a, b.key, i)
    PROVE  WellFormed(Write(a, i, b))
<1>1. ASSUME Settled(a, b.key, i)
      PROVE  \E d \in Distances(a) : Probe(a, b.key, d) = i /\ Passes(a, b.key, d)
    BY <1>1 DEF Settled, IsUsable, Passes
<1>2. ASSUME Settled(a, b.key, i)
      PROVE  \A j \in LiveSlots(a) : a.at[j].key # b.key
    BY <1>2 DEF Settled
<1>3. IsArray(a) /\ ChainUnbroken(a) /\ NoDuplicates(a)
    BY DEF WellFormed
<1>4. IsArray(Write(a, i, b))
    BY <1>3, WriteType
<1>5. ChainUnbroken(Write(a, i, b))
    BY <1>1, <1>3, WriteKeepsChains
<1>6. NoDuplicates(Write(a, i, b))
    BY <1>2, <1>3, WriteKeepsUnique
<1> QED
    BY <1>4, <1>5, <1>6 DEF WellFormed

\* A scan without a match has seen every bucket the key could be in.
LEMMA NoMatchNoKey ==
    ASSUME NEW a, WellFormed(a), NEW k \in Keys, Matches(a, k) = {}
    PROVE  \A j \in LiveSlots(a) : a.at[j].key # k
<1> SUFFICES ASSUME NEW j \in LiveSlots(a), a.at[j].key = k PROVE FALSE
    OBVIOUS
<1>1. PICK d \in Distances(a) : Probe(a, k, d) = j /\ Passes(a, k, d)
    BY DEF WellFormed, ChainUnbroken
<1> QED
    BY <1>1 DEF Matches, Met
-----------------------------------------------------------------------------
(* What the two ways of changing _buckets do to the lookups in progress.     *)

\* A reader of the array that is replaced keeps it, every other reader is
\* not touched.
LEMMA ReplaceReaders ==
    ASSUME IInv, NEW a, IsArray(a), Replace(a)
    PROVE  /\ reader' \in [Readers -> {reader'[r] : r \in Readers}]
           /\ \A r \in Readers : ReaderOK(reader[r])'
<1>1. a # NoArray /\ a # Current /\ NoArray # Current
    BY DEF IsArray, NoArray, Current
<1>2. buckets # NoArray => WellFormed(buckets) /\ buckets # Current
    BY DEF IInv, BucketsOK, WellFormed, IsArray, Current
<1>3. reader' \in [Readers -> {reader'[r] : r \in Readers}]
    BY DEF Replace
<1>4. ASSUME NEW r \in Readers PROVE ReaderOK(reader[r])'
  <2>1. ReaderOK(reader[r])
      BY DEF IInv
  <2>2. CASE reader[r].held = Current
    <3>1. reader'[r] = [reader[r] EXCEPT !.held = buckets]
        BY <2>2 DEF Replace
    <3>2. buckets # NoArray
        BY <2>1, <2>2 DEF ReaderOK, Held
    <3>3. /\ reader'[r].pc = reader[r].pc /\ reader'[r].key = reader[r].key
          /\ reader'[r].dist = reader[r].dist /\ reader'[r].held = buckets
          /\ ReaderType(reader'[r])
        BY <2>1, <3>1, <3>2, <1>2 DEF ReaderOK, ReaderType, IsArrayOrNull, WellFormed
    <3>4. Held(r) = buckets /\ Held(r)' = buckets
        BY <2>2, <3>2, <3>3, <1>2 DEF Held, Dereference
    <3>5. buckets' # NoArray
        BY <1>1 DEF Replace
    <3> QED
        BY <2>1, <3>2, <3>3, <3>4, <3>5, <1>2 DEF ReaderOK, Held
  <2>3. CASE reader[r].held # Current
    <3>1. reader'[r] = reader[r]
        BY <2>3 DEF Replace
    <3>2. Held(r)' = Held(r)
        BY <2>3, <3>1 DEF Held, Dereference
    <3>3. buckets' # NoArray
        BY <1>1 DEF Replace
    <3> QED
        BY <2>1, <3>1, <3>2, <3>3 DEF ReaderOK, Held
  <2> QED
      BY <2>2, <2>3
<1> QED
    BY <1>3, <1>4

\* A write to the current array leaves its readers where they are.
LEMMA WriteReaders ==
    ASSUME IInv, UNCHANGED reader, buckets # NoArray => buckets' # NoArray,
           buckets'.length = buckets.length
    PROVE  /\ reader' \in [Readers -> {reader'[r] : r \in Readers}]
           /\ \A r \in Readers : ReaderOK(reader[r])'
<1>1. reader' \in [Readers -> {reader'[r] : r \in Readers}]
    BY DEF IInv
<1>2. ASSUME NEW r \in Readers PROVE ReaderOK(reader[r])'
  <2>1. ReaderOK(reader[r]) /\ reader'[r] = reader[r]
      BY DEF IInv
  <2>2. Distances(Held(r)') = Distances(Held(r))
      BY <2>1 DEF Held, Dereference, Distances
  <2> QED
      BY <2>1, <2>2 DEF ReaderOK, Held
<1> QED
    BY <1>1, <1>2
-----------------------------------------------------------------------------
(* Lookups: a step of one reader.                                            *)

\* Readers write nothing that the storage or another reader depends on.
LEMMA ReaderStep ==
    ASSUME IInv, NEW r \in Readers, NEW me, ReaderOK(me),
           UNCHANGED <<dict, op>>, reader' = [reader EXCEPT ![r] = me]
    PROVE  IInv'
<1>1. \A q \in Readers : ReaderOK(reader'[q])
    BY DEF IInv
<1>2. \A q \in Readers : ReaderOK(reader[q])'
    BY <1>1 DEF dict, ReaderOK, ReaderType, Dereference
<1>3. BucketsOK' /\ OpOK'
    BY DEF IInv, BucketsOK, OpOK, dict
<1>4. reader' \in [Readers -> {reader'[q] : q \in Readers}]
    BY DEF IInv
<1> QED
    BY <1>2, <1>3, <1>4 DEF IInv, dict

\* The idle record is a legal state of a reader.
LEMMA IdleOK == IInv => ReaderOK(Idle)
BY DEF ReaderOK, ReaderType, Idle, ReaderSteps, IsArrayOrNull, NoArray, Current, IInv

\* A lookup that moves on keeps its key and its array: what is left to check
\* is its type and what its new place in the code asks for.
LEMMA ReaderAdvances ==
    ASSUME IInv, NEW r \in Readers, NEW new, ReaderType(new),
           reader[r].pc # "idle",
           new.key = reader[r].key, new.held = reader[r].held,
           new.pc \in {"count", "keyType", "eqFunc"} => new.dist = 0,
           new.pc \in {"keyType", "eqFunc", "probe", "compare"} => new.held # NoArray,
           new.pc \in {"probe", "compare"} => new.dist \in Distances(Held(r)),
           Read(r, new)
    PROVE  IInv'
<1>1. ReaderOK(reader[r])
    BY DEF IInv
<1>2. Dereference(new.held) = Held(r)
    BY DEF Held
<1>3. ReaderOK(new)
    BY <1>1, <1>2 DEF ReaderOK
<1> QED
    BY <1>3, ReaderStep DEF Read

\* Each step of a lookup keeps the invariant.
LEMMA ReadersKeepIInv ==
    ASSUME IInv, NEW r \in Readers,
           (\E k \in Keys : BeginLookup(r, k)) \/ Advance(r) \/ Return(r)
    PROVE  IInv'
<1> DEFINE me == reader[r]
<1>1. ReaderOK(me) /\ ReaderType(me)
    BY DEF IInv, ReaderOK
<1>2. buckets # NoArray => IsArray(buckets)
    BY DEF IInv, BucketsOK, WellFormed
<1>3. me.held # NoArray => IsArray(Held(r))
    BY <1>1, <1>2 DEF ReaderOK, Held, Dereference, WellFormed
<1>4. ASSUME NEW k \in Keys PROVE ReaderOK(PickUp(k))
  <2> DEFINE new == PickUp(k)
  <2>1. /\ new.pc = "count" /\ new.key = k /\ new.dist = 0 /\ new.eq = NoType /\ new.met = NoKey
        /\ new.result = Absent
        /\ new.held = IF buckets = NoArray THEN NoArray ELSE Current
      BY DEF Idle, PickUp
  <2>2. ReaderType(new)
    <3>1. new \in [pc : {"count"}, key : {k}, held : {new.held}, eq : {NoType}, dist : {0},
                   met : {NoKey}, result : {Absent}]
        BY DEF Idle, PickUp
    <3>2. new.held = Current \/ new.held = NoArray
        BY <2>1
    <3> QED
        BY <1>4, <3>1, <3>2 DEF ReaderType, ReaderSteps, IsArrayOrNull
  <2>3. NoArray # Current
      BY DEF NoArray, Current
  <2> QED
      BY <1>4, <2>1, <2>2, <2>3 DEF ReaderOK
<1>5. ASSUME NEW k \in Keys, BeginLookup(r, k) PROVE IInv'
    BY <1>4, <1>5, ReaderStep DEF BeginLookup
<1>6. CASE ReadCount(r)
  <2> DEFINE new == [me EXCEPT !.pc = IF count > 0 /\ me.held # NoArray THEN "keyType" ELSE "miss"]
  <2>1. ReaderType(new) /\ Read(r, new)
    <3>1. \A pc \in ReaderSteps : ReaderType([me EXCEPT !.pc = pc])
        BY <1>1 DEF ReaderType
    <3>2. (IF count > 0 /\ me.held # NoArray THEN "keyType" ELSE "miss") \in ReaderSteps
        BY DEF ReaderSteps
    <3> QED
        BY <1>6, <3>1, <3>2 DEF ReadCount
  <2>2. /\ new.key = me.key /\ new.held = me.held /\ new.dist = 0
        /\ new.pc = "miss" \/ (new.pc = "keyType" /\ new.held # NoArray)
    <3>1. me.dist = 0
        BY <1>1, <1>6 DEF ReadCount, ReaderOK
    <3>2. CASE count > 0 /\ me.held # NoArray
      <4>1. new = [me EXCEPT !.pc = "keyType"]
          BY <3>2
      <4> HIDE DEF new
      <4> QED
          BY <1>1, <3>1, <3>2, <4>1 DEF ReaderType
    <3>3. CASE ~(count > 0 /\ me.held # NoArray)
      <4>1. new = [me EXCEPT !.pc = "miss"]
          BY <3>3
      <4> HIDE DEF new
      <4> QED
          BY <1>1, <3>1, <4>1 DEF ReaderType
    <3> QED
        BY <3>2, <3>3
  <2>3. me.pc = "count"
      BY <1>6 DEF ReadCount
  <2> HIDE DEF new
  <2> QED
      BY <2>1, <2>2, <2>3, ReaderAdvances
<1>7. CASE ReadKeyType(r)
  <2>1. me.pc = "keyType" /\ me.held # NoArray /\ me.dist = 0 /\ 0 \in Distances(Held(r))
      BY <1>1, <1>3, <1>7 DEF ReadKeyType, ReaderOK, IsArray, Distances
  <2>2. CASE keyType \in {TypeOf[me.key], Heterogeneous}
    <3> DEFINE new == [me EXCEPT !.pc = "eqFunc"]
    <3>1. ReaderType(new) /\ Read(r, new)
        BY <1>1, <1>7, <2>2 DEF ReadKeyType, ReaderType, ReaderSteps
    <3>2. new.key = me.key /\ new.held = me.held /\ new.dist = 0 /\ new.pc = "eqFunc"
        BY <1>1, <2>1 DEF ReaderType
    <3> HIDE DEF new
    <3> QED
        BY <2>1, <3>1, <3>2, ReaderAdvances
  <2>3. CASE keyType \notin {TypeOf[me.key], Heterogeneous}
    <3> DEFINE new == [me EXCEPT !.pc = "probe", !.eq = Generic]
    <3>1. ReaderType(new) /\ Read(r, new)
        BY <1>1, <1>7, <2>3 DEF ReadKeyType, ReaderType, ReaderSteps
    <3>2. new.key = me.key /\ new.held = me.held /\ new.dist = 0 /\ new.pc = "probe"
        BY <1>1, <2>1 DEF ReaderType
    <3> HIDE DEF new
    <3> QED
        BY <2>1, <3>1, <3>2, ReaderAdvances
  <2> QED
      BY <2>2, <2>3
<1>8. CASE ReadEqFunc(r)
  <2> DEFINE new == [me EXCEPT !.pc = "probe", !.eq = eqFunc]
  <2>1. me.pc = "eqFunc" /\ me.held # NoArray /\ me.dist = 0 /\ 0 \in Distances(Held(r))
      BY <1>1, <1>3, <1>8 DEF ReadEqFunc, ReaderOK, IsArray, Distances
  <2>2. ReaderType(new) /\ Read(r, new)
      BY <1>1, <1>8 DEF ReadEqFunc, ReaderType, ReaderSteps, IInv
  <2>3. new.key = me.key /\ new.held = me.held /\ new.dist = 0 /\ new.pc = "probe"
      BY <1>1, <2>1 DEF ReaderType
  <2> HIDE DEF new
  <2> QED
      BY <2>1, <2>2, <2>3, ReaderAdvances
<1>9. CASE ReadKey(r)
  <2> DEFINE met == Met(Held(r), me.key, me.dist)
             new == [me EXCEPT !.pc = IF met = NoKey THEN "miss" ELSE "compare",
                               !.met = IF met = NoKey THEN @ ELSE met]
  <2>1. /\ me.pc = "probe" /\ me.held # NoArray /\ me.dist \in Distances(Held(r))
        /\ IsArray(Held(r)) /\ me.dist \in Nat /\ me.key \in Keys
      BY <1>1, <1>3, <1>9 DEF ReadKey, ReaderOK, ReaderType, Held
  <2>2. met \in Keys \cup {NoKey, Removed}
      BY <2>1, ProbeInRange DEF Met, IsArray, Bucket
  <2>3. ReaderType(new)
      BY <1>1, <2>2 DEF ReaderType, ReaderSteps
  <2>4. /\ new.key = me.key /\ new.held = me.held /\ new.dist = me.dist
        /\ new.pc \in {"miss", "compare"}
      BY <1>1 DEF ReaderType
  <2>5. Read(r, new)
      BY <1>9 DEF ReadKey
  <2> HIDE DEF new
  <2> QED
      BY <2>1, <2>3, <2>4, <2>5, ReaderAdvances
<1>10. CASE ReadBucket(r)
  <2> DEFINE value == Held(r).at[Probe(Held(r), me.key, me.dist)].value
             last == me.dist + 1 = Held(r).length
  <2>1. /\ me.pc = "compare" /\ me.held # NoArray /\ me.dist \in Distances(Held(r))
        /\ IsArray(Held(r)) /\ me.dist \in Nat /\ me.key \in Keys
      BY <1>1, <1>3, <1>10 DEF ReadBucket, ReaderOK, ReaderType, Held
  <2>2. value \in Values \cup {Null}
      BY <2>1, ProbeInRange DEF IsArray, Bucket
  <2>3. CASE me.met = me.key
    <3> DEFINE new == [me EXCEPT !.pc = "found", !.result = value]
    <3>1. ReaderType(new) /\ Read(r, new)
        BY <1>1, <1>10, <2>2, <2>3 DEF ReadBucket, ReaderType, ReaderSteps
    <3>2. new.key = me.key /\ new.held = me.held /\ new.pc = "found"
        BY <1>1 DEF ReaderType
    <3> HIDE DEF new
    <3> QED
        BY <2>1, <3>1, <3>2, ReaderAdvances
  <2>4. CASE me.met # me.key
    <3> DEFINE new == [me EXCEPT !.pc = IF last THEN "miss" ELSE "probe",
                                 !.dist = IF last THEN @ ELSE me.dist + 1]
    <3>1. ReaderType(new)
      <4>1. \A pc \in ReaderSteps, dist \in Nat :
                ReaderType([me EXCEPT !.pc = pc, !.dist = dist])
          BY <1>1 DEF ReaderType
      <4>2. me.dist + 1 \in Nat
          BY <2>1
      <4>3. CASE last
          BY <2>1, <4>1, <4>3 DEF ReaderSteps
      <4>4. CASE ~last
          BY <4>1, <4>2, <4>4 DEF ReaderSteps
      <4> QED
          BY <4>3, <4>4
    <3>2. Read(r, new)
        BY <1>10, <2>4 DEF ReadBucket
    <3>3. /\ new.key = me.key /\ new.held = me.held
          /\ new.pc = "miss" \/ (new.pc = "probe" /\ new.dist \in Distances(Held(r)))
        BY <1>1, <2>1 DEF ReaderType, Distances, IsArray
    <3> HIDE DEF new
    <3> QED
        BY <2>1, <3>1, <3>2, <3>3, ReaderAdvances
  <2> QED
      BY <2>3, <2>4
<1>11. CASE Return(r)
    BY <1>11, IdleOK, ReaderStep DEF Return
<1> QED
    BY <1>5, <1>6, <1>7, <1>8, <1>9, <1>10, <1>11 DEF Advance
-----------------------------------------------------------------------------
(* Mutations: what is left to check for each way a step changes the storage. *)

KeyTypes == Types \cup {NoType, Heterogeneous}
Delegates == Types \cup {NoType, Generic}

\* A step that writes no bucket.
LEMMA FieldStep ==
    ASSUME IInv, UNCHANGED <<buckets, reader>>,
           count' \in Nat, keyType' \in KeyTypes, eqFunc' \in Delegates, OpOK',
           buckets = NoArray => count' = 0 /\ op'.pc \in {"free", "initialize", "allocate", "remove"}
    PROVE  IInv'
<1>1. \A r \in Readers : ReaderOK(reader[r])
    BY DEF IInv
<1>2. \A r \in Readers : ReaderOK(reader[r])'
    BY <1>1 DEF ReaderOK, ReaderType, Dereference
<1>3. BucketsOK'
    BY DEF IInv, BucketsOK
<1> QED
    BY <1>2, <1>3 DEF IInv, KeyTypes, Delegates

\* A step that writes one bucket of the current array.
LEMMA BucketStep ==
    ASSUME IInv, buckets # NoArray,
           NEW i \in 0 .. buckets.length - 1, NEW b \in Bucket,
           b.key = NoKey => buckets.at[i].key = NoKey,
           b.key \in Keys => buckets.at[i].key = b.key \/ Settled(buckets, b.key, i),
           WriteBucket(i, b), count' \in Nat, OpOK'
    PROVE  IInv'
<1>1. WellFormed(buckets) /\ IsArray(buckets)
    BY DEF IInv, BucketsOK, WellFormed
<1>2. WellFormed(buckets') /\ IsArray(buckets') /\ buckets'.length = buckets.length
    BY <1>1, WriteWellFormed, WriteType DEF WriteBucket
<1>3. buckets' # NoArray
    BY <1>2 DEF IsArray, NoArray
<1>4. BucketsOK'
    BY <1>2, <1>3 DEF BucketsOK
<1>5. /\ reader' \in [Readers -> {reader'[r] : r \in Readers}]
      /\ \A r \in Readers : ReaderOK(reader[r])'
    BY <1>2, <1>3, WriteReaders DEF WriteBucket
<1> QED
    BY <1>4, <1>5 DEF IInv, WriteBucket

\* A step that replaces the array.
LEMMA ArrayStep ==
    ASSUME IInv, NEW a, WellFormed(a), Replace(a),
           UNCHANGED <<count, keyType, eqFunc>>, OpOK'
    PROVE  IInv'
<1>1. IsArray(a) /\ a # NoArray
    BY DEF WellFormed, IsArray, NoArray
<1>2. BucketsOK'
    BY <1>1 DEF BucketsOK, Replace
<1> QED
    BY <1>1, <1>2, ReplaceReaders DEF IInv
-----------------------------------------------------------------------------
(* Mutations: what becomes of op.                                            *)

LEMMA UnlockedType == OpType(Unlocked)
<1>1. <<>> \in Seq(Items)
    OBVIOUS
<1>2. Unlocked.next = NoArray
    BY DEF Unlocked
<1> QED
    BY <1>1, <1>2 DEF Unlocked, OpType, Steps, IsArrayOrNull

LEMMA UnlockedOK == op' = Unlocked => OpOK'
<1>1. Unlocked.pc = "free" /\ Unlocked.next = NoArray
    BY DEF Unlocked
<1> QED
    BY <1>1, UnlockedType DEF OpOK

\* A step to a place that asks nothing of the arrays.
LEMMA GotoOK ==
    ASSUME OpOK, NEW pc, Goto(pc), op.pc # "free",
           \/ pc \in {"search", "count", "type", "clone", "delegates"} /\ op.key \in Keys
           \/ pc = "assign" /\ op.type \in Types /\ op.key \in Keys
           \/ pc = "zero"
    PROVE  OpOK'
<1>1. /\ op'.pc = pc /\ op'.type = op.type /\ op'.key = op.key /\ op'.next = op.next
      /\ OpType(op')
    BY DEF Goto, OpOK, OpType, Steps
<1> QED
    BY <1>1 DEF OpOK

\* The next item of a copy has a key; the end of a mutation releases the lock.
LEMMA NextItemOK ==
    ASSUME OpOK, NextItem
    PROVE  OpOK'
<1>1. CASE op.rest = <<>>
    BY <1>1, UnlockedOK DEF NextItem, Release
<1>2. CASE op.rest # <<>>
  <2>1. Head(op.rest) \in Items /\ Tail(op.rest) \in Seq(Items)
      BY <1>2 DEF OpOK, OpType
  <2>2. ASSUME NEW item \in Items, NEW rest \in Seq(Items),
               op' = [op EXCEPT !.pc = "search", !.key = item.key,
                                !.value = item.value, !.rest = rest]
        PROVE  /\ op'.pc = "search" /\ op'.key \in Keys /\ op'.next = op.next
               /\ OpType(op')
    <3>1. item.key \in Keys /\ item.value \in Values
        BY DEF Items
    <3> QED
        BY <2>2, <3>1 DEF OpOK, OpType, Steps
  <2>3. /\ op'.pc = "search" /\ op'.key \in Keys /\ op'.next = op.next
        /\ OpType(op')
      BY <1>2, <2>1, <2>2 DEF NextItem
  <2> QED
      BY <2>3 DEF OpOK
<1> QED
    BY <1>1, <1>2
-----------------------------------------------------------------------------
(* Mutations: the actions.                                                   *)

\* A mutation that begins.
LEMMA BeginsKeepIInv ==
    ASSUME IInv, Mutate
    PROVE  IInv'
<1>1. ASSUME NEW o, OpType(o), UNCHANGED <<dict, reader>>, op' = o,
             o.pc # "clear" => o.key \in Keys,
             o.pc \in {"initialize", "assign"} =>
                 o.type \in Types \/ (o.pc = "assign" /\ keyType # NoType),
             o.pc = "allocate" => o.index > 0,
             \/ o.pc \in {"initialize", "assign", "search", "remove", "clear", "allocate", "adopt"}
             \/ o.pc = "grow" /\ o.index = 0 /\ o.next # NoArray /\ LiveSlots(o.next) = {},
             o.next # NoArray => WellFormed(o.next),
             buckets = NoArray => o.pc \in {"initialize", "allocate", "remove"}
      PROVE  IInv'
  <2>1. buckets # NoArray => buckets.length \in Nat
      BY DEF IInv, BucketsOK, WellFormed, IsArray
  <2>2. buckets.length \in Nat
      BY <2>1 DEF NoArray
  <2>3. OpOK'
      BY <1>1, <2>2 DEF OpOK, RehashedFrom, dict
  <2> QED
      BY <1>1, <2>3, FieldStep DEF IInv, dict, KeyTypes, Delegates, BucketsOK
<1>2. ASSUME NEW k \in Keys, NEW v \in Values, BeginAdd(k, v) PROVE IInv'
  <2> DEFINE pc == IF buckets = NoArray THEN "initialize" ELSE SitesStep(TypeOf[k])
             o == [Unlocked EXCEPT !.pc = pc, !.type = TypeOf[k], !.key = k, !.value = v]
  <2>1. pc \in {"initialize", "search", "assign"} /\ (buckets = NoArray => pc = "initialize")
      BY DEF SitesStep
  <2>2. op' = o /\ UNCHANGED <<dict, reader>>
      BY <1>2 DEF BeginAdd, Begin
  <2>3. TypeOf[k] \in Types
      BY TypeAssumption
  <2> HIDE DEF pc
  <2>4. o.pc = pc /\ o.type = TypeOf[k] /\ o.key = k /\ o.next = NoArray /\ OpType(o)
      BY <2>1, <2>3, UnlockedType DEF OpType, Unlocked, Steps
  <2> HIDE DEF o
  <2> QED
      BY <1>1, <2>1, <2>2, <2>3, <2>4
<1>3. ASSUME NEW k \in Keys, BeginRemove(k) PROVE IInv'
  <2> DEFINE o == [Unlocked EXCEPT !.pc = "remove", !.key = k]
  <2>1. op' = o /\ UNCHANGED <<dict, reader>>
      BY <1>3 DEF BeginRemove, Begin
  <2>2. o.pc = "remove" /\ o.key = k /\ o.next = NoArray /\ OpType(o)
      BY UnlockedType DEF OpType, Unlocked, Steps
  <2> HIDE DEF o
  <2> QED
      BY <1>1, <2>1, <2>2
<1>4. ASSUME BeginClear PROVE IInv'
  <2> DEFINE o == [Unlocked EXCEPT !.pc = "clear"]
  <2>1. op' = o /\ UNCHANGED <<dict, reader>> /\ buckets # NoArray
      BY <1>4 DEF BeginClear, Begin
  <2>2. o.pc = "clear" /\ o.next = NoArray /\ OpType(o)
      BY UnlockedType DEF OpType, Unlocked, Steps
  <2> HIDE DEF o
  <2> QED
      BY <1>1, <2>1, <2>2
<1>5. ASSUME NEW source \in Sources
      PROVE  LET copy == CopyOf(source)
             IN  /\ copy.key \in Keys /\ copy.next = NoArray
                 /\ copy.index = 0 /\ OpType(copy) /\ source.length \in Nat \ {0}
  <2>1. source.items \in Seq(Items) /\ source.items # <<>>
      BY SourcesAssumption
  <2>2. Head(source.items) \in Items /\ Tail(source.items) \in Seq(Items)
      BY <2>1
  <2>3. source.keyType \in Types \cup {Heterogeneous} /\ source.length \in Nat \ {0}
      BY SourcesAssumption
  <2>4. ASSUME NEW item \in Items, NEW rest \in Seq(Items), NEW copy,
               copy = [Unlocked EXCEPT !.mode = "copy", !.type = source.keyType,
                          !.key = item.key, !.value = item.value, !.rest = rest]
        PROVE  /\ copy.key \in Keys /\ copy.next = NoArray
               /\ copy.index = 0 /\ OpType(copy)
    <3>1. item.key \in Keys /\ item.value \in Values
        BY DEF Items
    <3> QED
        BY <2>3, <2>4, <3>1, UnlockedType DEF OpType, Unlocked
  <2> QED
      BY <2>2, <2>3, <2>4 DEF CopyOf
<1>6. ASSUME NEW source \in Sources, BeginCopyIntoNull(source) PROVE IInv'
  <2> DEFINE copy == CopyOf(source)
             o == [copy EXCEPT !.pc = "allocate", !.index = source.length]
  <2>1. op' = o /\ UNCHANGED <<dict, reader>> /\ buckets = NoArray
      BY <1>6 DEF BeginCopyIntoNull, Begin
  <2>2. /\ copy.key \in Keys /\ copy.next = NoArray
        /\ OpType(copy) /\ source.length \in Nat \ {0}
      BY <1>5
  <2> HIDE DEF copy
  <2>3. /\ o.pc = "allocate" /\ o.key = copy.key /\ o.type = copy.type
        /\ o.next = NoArray /\ o.index = source.length /\ OpType(o)
      BY <2>2 DEF OpType, Steps
  <2> HIDE DEF o
  <2> QED
      BY <1>1, <2>1, <2>2, <2>3
<1>7. ASSUME NEW source \in Sources, BeginCopy(source) PROVE IInv'
  <2> DEFINE copy == CopyOf(source)
  <2>1. PICK size \in CopySizes(source.items) :
            /\ UNCHANGED <<dict, reader>>
            /\ op' = IF size > buckets.length
                     THEN [copy EXCEPT !.pc = "grow", !.next = NewArray(size)]
                     ELSE [copy EXCEPT !.pc = CopySites(source.keyType)]
      BY <1>7 DEF BeginCopy, Begin
  <2>2. /\ copy.key \in Keys /\ copy.next = NoArray
        /\ copy.index = 0 /\ OpType(copy)
      BY <1>5
  <2>3. buckets # NoArray
      BY <1>7 DEF BeginCopy
  <2> HIDE DEF copy
  <2>4. CASE size > buckets.length
    <3> DEFINE o == [copy EXCEPT !.pc = "grow", !.next = NewArray(size)]
    <3>1. size \in Nat \ {0}
      <4>1. count \in Nat /\ Len(source.items) \in Nat
          BY SourcesAssumption DEF IInv
      <4>2. \A n \in Nat : (10 * n) \div 7 \in Nat
          OBVIOUS
      <4>3. DividedByLoad(Len(source.items) + count) \in Nat
        <5>1. Len(source.items) + count \in Nat
            BY <4>1
        <5> QED
            BY <4>2, <5>1, Zenon DEF DividedByLoad
      <4>4. buckets.length + (DividedByLoad(Len(source.items) + count) + 2) * ResizeMultiplier
                \in Int
        <5>1. buckets.length \in Nat
            BY <2>3 DEF IInv, BucketsOK, WellFormed, IsArray
        <5>2. \A x, y, z \in Nat : x + (y + 2) * z \in Int
            OBVIOUS
        <5> QED
            BY <4>3, <5>1, <5>2, SizeAssumption
      <4>5. size \in Int /\ size >= DividedByLoad(Len(source.items) + count) + 2
          BY <4>3, <4>4 DEF CopySizes
      <4> QED
          BY <4>3, <4>5
    <3>2. /\ WellFormed(NewArray(size)) /\ LiveSlots(NewArray(size)) = {}
          /\ IsArray(NewArray(size)) /\ NewArray(size) # NoArray
        BY <3>1, NewArrayWellFormed DEF WellFormed, IsArray, NoArray
    <3>3. /\ o.pc = "grow" /\ o.key = copy.key /\ o.type = copy.type
          /\ o.next = NewArray(size) /\ o.index = 0 /\ OpType(o)
        BY <2>2, <3>2 DEF OpType, Steps, IsArrayOrNull
    <3>4. op' = o
        BY <2>1, <2>4
    <3> HIDE DEF o
    <3> QED
        BY <1>1, <2>1, <2>2, <2>3, <3>2, <3>3, <3>4
  <2>5. CASE ~(size > buckets.length)
    <3> DEFINE o == [copy EXCEPT !.pc = CopySites(source.keyType)]
    <3>1. /\ CopySites(source.keyType) \in {"adopt", "search", "assign"}
          /\ CopySites(source.keyType) = "assign" => keyType # NoType
        BY DEF CopySites, SitesStep
    <3>2. /\ o.pc = CopySites(source.keyType) /\ o.key = copy.key /\ o.type = copy.type
          /\ o.next = NoArray /\ o.index = 0 /\ OpType(o)
        BY <2>2, <3>1 DEF OpType, Steps
    <3>3. op' = o
        BY <2>1, <2>5
    <3> HIDE DEF o
    <3> QED
        BY <1>1, <2>1, <2>2, <2>3, <3>1, <3>2, <3>3
  <2> QED
      BY <2>4, <2>5
<1> QED
    BY <1>2, <1>3, <1>4, <1>6, <1>7 DEF Mutate
\* The steps that change the delegates and the key type.
LEMMA SitesKeepIInv ==
    ASSUME IInv, AssignSites \/ SetKeyType \/ AdoptKeyType \/ AdoptDelegates
    PROVE  IInv'
<1>1. /\ OpOK /\ OpType(op) /\ count \in Nat
      /\ keyType \in KeyTypes /\ eqFunc \in Delegates
    BY DEF IInv, OpOK, KeyTypes, Delegates
<1>2. ASSUME op.pc \in {"assign", "type", "adopt", "delegates"}
      PROVE  op.pc # "free" /\ op.key \in Keys /\ buckets # NoArray
    BY <1>1, <1>2 DEF OpOK, IInv, BucketsOK
<1>3. CASE AssignSites
  <2>1. op.type \in Types \/ keyType # NoType
      BY <1>1, <1>3 DEF AssignSites, OpOK
  <2>2. eqFunc' \in Delegates
      BY <1>3, <2>1 DEF AssignSites, Delegates
  <2>3. OpOK'
      BY <1>1, <1>2, <1>3, GotoOK DEF AssignSites
  <2> QED
      BY <1>1, <1>2, <1>3, <2>2, <2>3, FieldStep DEF AssignSites
<1>4. CASE SetKeyType
  <2>1. keyType' \in KeyTypes
      BY <1>1, <1>4 DEF SetKeyType, KeyTypes, OpType
  <2>2. OpOK'
      BY <1>1, <1>2, <1>4, GotoOK DEF SetKeyType
  <2> QED
      BY <1>1, <1>2, <1>4, <2>1, <2>2, FieldStep DEF SetKeyType
<1>5. CASE AdoptKeyType
  <2>1. keyType' \in KeyTypes
      BY <1>1, <1>5 DEF AdoptKeyType, KeyTypes, OpType
  <2>2. OpOK'
      BY <1>1, <1>2, <1>5, GotoOK DEF AdoptKeyType
  <2> QED
      BY <1>1, <1>2, <1>5, <2>1, <2>2, FieldStep DEF AdoptKeyType
<1>6. CASE AdoptDelegates
  <2>1. eqFunc' \in Delegates
      BY <1>1, <1>6 DEF AdoptDelegates, Delegates, OpType
  <2>2. OpOK'
      BY <1>1, <1>2, <1>6, GotoOK DEF AdoptDelegates
  <2> QED
      BY <1>1, <1>2, <1>6, <2>1, <2>2, FieldStep DEF AdoptDelegates
<1> QED
    BY <1>3, <1>4, <1>5, <1>6

\* The steps that replace the array.
LEMMA ReplacementsKeepIInv ==
    ASSUME IInv, Initialize \/ CloneBuckets \/ ClearBuckets \/ AllocateForCopy \/ PublishGrown
    PROVE  IInv'
<1>1. OpOK /\ OpType(op)
    BY DEF IInv, OpOK
<1>2. CASE Initialize
  <2>1. op.key \in Keys /\ op.type \in Types /\ op.pc # "free"
      BY <1>1, <1>2 DEF Initialize, OpOK
  <2>2. SitesStep(op.type) \in {"search", "assign"}
      BY DEF SitesStep
  <2>3. OpOK'
      BY <1>1, <1>2, <2>1, <2>2, GotoOK DEF Initialize
  <2> QED
      BY <1>2, <2>3, ArrayStep, NewArrayWellFormed, SizeAssumption DEF Initialize
<1>3. CASE CloneBuckets
  <2>1. op.key \in Keys /\ op.pc # "free" /\ WellFormed(buckets)
      BY <1>1, <1>3 DEF CloneBuckets, OpOK, IInv, BucketsOK
  <2>2. OpOK'
      BY <1>1, <1>3, <2>1, GotoOK DEF CloneBuckets
  <2> QED
      BY <1>3, <2>1, <2>2, ArrayStep DEF CloneBuckets
<1>4. CASE ClearBuckets
  <2>1. OpOK'
      BY <1>1, <1>4, GotoOK DEF ClearBuckets
  <2> QED
      BY <1>4, <2>1, ArrayStep, NewArrayWellFormed, SizeAssumption DEF ClearBuckets
<1>5. ASSUME op.key \in Keys, UNCHANGED keyType, NEW next, next = op.next \/ next = NoArray,
             op' = [op EXCEPT !.pc = CopySites(op.type), !.next = next, !.index = 0]
      PROVE  OpOK'
  <2>1. /\ CopySites(op.type) \in {"adopt", "search", "assign"}
        /\ CopySites(op.type) = "assign" => keyType # NoType
      BY DEF CopySites, SitesStep
  <2>2. /\ op'.pc = CopySites(op.type) /\ op'.key = op.key /\ op'.type = op.type
        /\ op'.next = next /\ OpType(op')
      BY <1>1, <1>5, <2>1 DEF OpType, Steps, IsArrayOrNull
  <2> QED
      BY <1>1, <1>5, <2>1, <2>2 DEF OpOK
<1>6. CASE AllocateForCopy
  <2>1. op.index \in Nat \ {0} /\ op.key \in Keys
      BY <1>1, <1>6 DEF AllocateForCopy, OpOK, OpType
  <2>2. [op EXCEPT !.pc = CopySites(op.type), !.next = op.next, !.index = 0]
            = [op EXCEPT !.pc = CopySites(op.type), !.index = 0]
      BY <1>1 DEF OpType
  <2>3. OpOK'
      BY <1>5, <1>6, <2>1, <2>2 DEF AllocateForCopy
  <2>4. UNCHANGED <<count, keyType, eqFunc>> /\ Replace(NewArray(op.index))
      BY <1>6 DEF AllocateForCopy
  <2> QED
      BY <2>1, <2>3, <2>4, ArrayStep, NewArrayWellFormed
<1>7. CASE PublishGrown
  <2>1. op.key \in Keys /\ op.next # NoArray /\ WellFormed(op.next)
      BY <1>1, <1>7 DEF PublishGrown, OpOK
  <2>2. CASE op.mode = "add"
    <3>1. op' = Unlocked
        BY <1>7, <2>2 DEF PublishGrown, Release
    <3> QED
        BY <1>7, <2>1, <3>1, UnlockedOK, ArrayStep DEF PublishGrown
  <2>3. CASE op.mode # "add"
    <3>1. OpOK'
        BY <1>5, <1>7, <2>1, <2>3 DEF PublishGrown
    <3> QED
        BY <1>7, <2>1, <3>1, ArrayStep DEF PublishGrown
  <2> QED
      BY <2>2, <2>3
<1> QED
    BY <1>2, <1>3, <1>4, <1>6, <1>7

\* A write that leaves the key of its bucket alone leaves every scan where it is.
LEMMA SameKeySettled ==
    ASSUME NEW a, IsArray(a), NEW i \in 0 .. a.length - 1, NEW b \in Bucket,
           b.key = a.at[i].key, NEW k \in Keys, NEW j, Settled(a, k, j)
    PROVE  Settled(Write(a, i, b), k, j)
<1> DEFINE w == Write(a, i, b)
<1>1. IsArray(w) /\ w.length = a.length /\ w.at = [a.at EXCEPT ![i] = b]
    BY WriteType
<1>2. \A n \in 0 .. a.length - 1 : w.at[n].key = a.at[n].key
    BY <1>1 DEF IsArray
<1>3. PICK d \in Distances(a) : Probe(a, k, d) = j /\ IsUsable(a, k, d)
    BY DEF Settled
<1>4. \A e \in Nat : Met(w, k, e) = Met(a, k, e) /\ Probe(w, k, e) = Probe(a, k, e)
    BY <1>1, <1>2, ProbeInRange DEF Met, Probe
<1>5. d \in Nat /\ Distances(w) = Distances(a)
    BY <1>1, <1>3 DEF Distances, IsArray
<1>6. IsUsable(w, k, d)
    BY <1>3, <1>4, <1>5 DEF IsUsable
<1>7. \A n \in LiveSlots(w) : w.at[n].key # k
    BY <1>1, <1>2 DEF Settled, LiveSlots
<1> QED
    BY <1>3, <1>4, <1>5, <1>6, <1>7 DEF Settled

\* The steps of AddWorker and TryRemoveNoLock that write a bucket.
LEMMA WritesKeepIInv ==
    ASSUME IInv, Update \/ WriteHash \/ WriteValue \/ WriteKey \/ RemoveKey \/ ForgetValue
    PROVE  IInv'
<1>1. OpOK /\ OpType(op) /\ count \in Nat
    BY DEF IInv, OpOK
<1>2. op.key \in Keys /\ buckets # NoArray
  <2>1. op.pc \in {"search", "value", "key", "forget"} \/ (op.pc = "remove" /\ count > 0)
      BY DEF Update, WriteHash, WriteValue, WriteKey, RemoveKey, ForgetValue
  <2> QED
      BY <1>1, <2>1 DEF OpOK, IInv, BucketsOK
<1>3. /\ WellFormed(buckets) /\ IsArray(buckets)
      /\ \A n \in 0 .. buckets.length - 1 : buckets.at[n] \in Bucket
    BY <1>2 DEF IInv, BucketsOK, WellFormed, IsArray
<1>4. \A d \in Distances(buckets) : Probe(buckets, op.key, d) \in 0 .. buckets.length - 1
    BY <1>2, <1>3, ProbeInRange DEF Distances, IsArray
<1>5. op.value \in Values \cup {Null} /\ Hash[op.key] \in Nat
    BY <1>1, <1>2, HashAssumption DEF OpType
<1>6. CASE Update
  <2>1. PICK d \in Matches(buckets, op.key) :
            LET i == Probe(buckets, op.key, d)
            IN  WriteBucket(i, [buckets.at[i] EXCEPT !.value = op.value])
      BY <1>6 DEF Update
  <2> DEFINE i == Probe(buckets, op.key, d)
             b == [buckets.at[i] EXCEPT !.value = op.value]
  <2>2. i \in 0 .. buckets.length - 1
      BY <1>4 DEF Matches
  <2>3. b \in Bucket /\ b.key = buckets.at[i].key
      BY <1>3, <1>5, <2>2 DEF Bucket
  <2>4. OpOK' /\ count' \in Nat
      BY <1>1, <1>6, NextItemOK DEF Update
  <2>5. WriteBucket(i, b)
      BY <2>1
  <2> HIDE DEF i, b
  <2> QED
      BY <1>2, <2>2, <2>3, <2>4, <2>5, BucketStep
<1>7. CASE WriteHash
  <2>1. PICK d \in Distances(buckets) :
            LET i == Probe(buckets, op.key, d)
            IN  /\ IsUsable(buckets, op.key, d)
                /\ WriteBucket(i, [buckets.at[i] EXCEPT !.hash = Hash[op.key]])
                /\ op' = [op EXCEPT !.pc = "value", !.index = i]
      BY <1>7 DEF WriteHash
  <2> DEFINE i == Probe(buckets, op.key, d)
             b == [buckets.at[i] EXCEPT !.hash = Hash[op.key]]
  <2>2. i \in 0 .. buckets.length - 1 /\ i \in Nat
      BY <1>3, <1>4 DEF IsArray
  <2>3. b \in Bucket /\ b.key = buckets.at[i].key
      BY <1>3, <1>5, <2>2 DEF Bucket
  <2>4. Settled(buckets, op.key, i)
      BY <1>2, <1>3, <1>7, <2>1, NoMatchNoKey DEF Settled, WriteHash
  <2>5. WriteBucket(i, b) /\ op' = [op EXCEPT !.pc = "value", !.index = i]
      BY <2>1
  <2> HIDE DEF i, b
  <2>6. Settled(buckets', op.key, i)
      BY <1>2, <1>3, <2>2, <2>3, <2>4, <2>5, SameKeySettled DEF WriteBucket
  <2>7. /\ op'.pc = "value" /\ op'.key = op.key /\ op'.index = i /\ op'.next = op.next
        /\ OpType(op')
      BY <1>1, <2>2, <2>5 DEF OpType, Steps
  <2>8. OpOK'
      BY <1>1, <1>2, <2>6, <2>7 DEF OpOK
  <2> QED
      BY <1>1, <1>2, <1>7, <2>2, <2>3, <2>5, <2>8, BucketStep DEF WriteHash
<1>8. ASSUME op.pc \in {"value", "key", "forget"}
      PROVE  op.index \in 0 .. buckets.length - 1 /\ buckets.at[op.index] \in Bucket
    BY <1>1, <1>3, <1>4, <1>8 DEF OpOK, Settled
<1>9. CASE WriteValue
  <2> DEFINE b == [buckets.at[op.index] EXCEPT !.value = op.value]
  <2>1. op.pc = "value" /\ WriteBucket(op.index, b) /\ Goto("key") /\ UNCHANGED count
      BY <1>9 DEF WriteValue
  <2>2. b \in Bucket /\ b.key = buckets.at[op.index].key
      BY <1>5, <1>8, <2>1 DEF Bucket
  <2>3. Settled(buckets, op.key, op.index)
      BY <1>1, <2>1 DEF OpOK
  <2> HIDE DEF b
  <2>4. Settled(buckets', op.key, op.index)
      BY <1>2, <1>3, <1>8, <2>1, <2>2, <2>3, SameKeySettled DEF WriteBucket
  <2>5. /\ op'.pc = "key" /\ op'.key = op.key /\ op'.index = op.index /\ op'.next = op.next
        /\ OpType(op')
      BY <1>1, <2>1 DEF OpType, Steps, Goto
  <2>6. OpOK'
      BY <1>1, <1>2, <2>4, <2>5 DEF OpOK
  <2> QED
      BY <1>1, <1>2, <1>8, <2>1, <2>2, <2>6, BucketStep
<1>10. CASE WriteKey
  <2> DEFINE b == [buckets.at[op.index] EXCEPT !.key = op.key]
  <2>1. op.pc = "key" /\ WriteBucket(op.index, b) /\ Goto("count") /\ UNCHANGED count
      BY <1>10 DEF WriteKey
  <2>2. b \in Bucket /\ b.key = op.key /\ b.key # NoKey
      BY <1>2, <1>8, <2>1, MarkerAssumption DEF Bucket
  <2>3. Settled(buckets, op.key, op.index)
      BY <1>1, <2>1 DEF OpOK
  <2> HIDE DEF b
  <2>4. OpOK'
      BY <1>1, <1>2, <2>1, GotoOK
  <2> QED
      BY <1>1, <1>2, <1>8, <2>1, <2>2, <2>3, <2>4, BucketStep
<1>11. CASE RemoveKey
  <2>1. PICK d \in Matches(buckets, op.key) :
            LET i == Probe(buckets, op.key, d)
            IN  /\ WriteBucket(i, [buckets.at[i] EXCEPT !.key = Removed])
                /\ op' = [op EXCEPT !.pc = "forget", !.index = i]
      BY <1>11 DEF RemoveKey
  <2> DEFINE i == Probe(buckets, op.key, d)
             b == [buckets.at[i] EXCEPT !.key = Removed]
  <2>2. i \in 0 .. buckets.length - 1 /\ i \in Nat
      BY <1>3, <1>4 DEF IsArray, Matches
  <2>3. b \in Bucket /\ b.key = Removed /\ b.key # NoKey /\ b.key \notin Keys
      BY <1>3, <2>2, MarkerAssumption DEF Bucket
  <2>4. WriteBucket(i, b) /\ op' = [op EXCEPT !.pc = "forget", !.index = i]
        /\ count' = count /\ count > 0
      BY <1>11, <2>1 DEF RemoveKey
  <2> HIDE DEF i, b
  <2>5. buckets'.length = buckets.length /\ buckets'.at = [buckets.at EXCEPT ![i] = b]
      BY <1>3, <2>2, <2>3, <2>4, WriteType DEF WriteBucket
  <2>6. buckets'.at[i] = b
      BY <1>3, <2>2, <2>5 DEF IsArray
  <2>7. /\ op'.pc = "forget" /\ op'.key = op.key /\ op'.index = i /\ op'.next = op.next
        /\ OpType(op')
      BY <1>1, <2>2, <2>4 DEF OpType, Steps
  <2>8. OpOK'
      BY <1>1, <1>2, <2>2, <2>3, <2>4, <2>5, <2>6, <2>7 DEF OpOK
  <2> QED
      BY <1>1, <1>2, <2>2, <2>3, <2>4, <2>8, BucketStep
<1>12. CASE ForgetValue
  <2> DEFINE b == [buckets.at[op.index] EXCEPT !.value = Null]
  <2>1. op.pc = "forget" /\ WriteBucket(op.index, b) /\ Goto("discount") /\ UNCHANGED count
      BY <1>12 DEF ForgetValue
  <2>2. b \in Bucket /\ b.key = buckets.at[op.index].key
      BY <1>8, <2>1 DEF Bucket
  <2> HIDE DEF b
  <2>3. /\ op'.pc = "discount" /\ op'.key = op.key /\ op'.next = op.next /\ OpType(op')
      BY <1>1, <2>1 DEF OpType, Steps, Goto
  <2>4. OpOK'
      BY <1>1, <1>2, <2>1, <2>3 DEF OpOK
  <2> QED
      BY <1>1, <1>2, <1>8, <2>1, <2>2, <2>4, BucketStep
<1> QED
    BY <1>6, <1>7, <1>9, <1>10, <1>11, <1>12

\* The steps that count, and those that find nothing to do.
LEMMA CountsKeepIInv ==
    ASSUME IInv, IncrementCount \/ DecrementCount \/ ZeroCount \/ RemoveNothing
    PROVE  IInv'
<1>1. /\ OpOK /\ OpType(op) /\ count \in Nat
      /\ keyType \in KeyTypes /\ eqFunc \in Delegates
    BY DEF IInv, OpOK, KeyTypes, Delegates
<1>2. ASSUME op.pc \in {"count", "discount"} PROVE buckets # NoArray
    BY <1>2 DEF IInv, BucketsOK
<1>3. CASE IncrementCount
  <2> DEFINE size == DividedByLoad(buckets.length) * ResizeMultiplier
  <2>1. /\ op.pc = "count" /\ count' = count + 1
        /\ UNCHANGED <<buckets, keyType, eqFunc, reader>>
        /\ (size > buckets.length /\ Grow(size)) \/ NextItem
      BY <1>3 DEF IncrementCount
  <2>2. IsArray(buckets) /\ buckets.length \in Nat
      BY <1>2, <2>1 DEF IInv, BucketsOK, WellFormed, IsArray
  <2>3. size \in Int
    <3>1. \A n \in Nat : (10 * n) \div 7 \in Int
        OBVIOUS
    <3>2. DividedByLoad(buckets.length) \in Int
        BY <2>2, <3>1, Zenon DEF DividedByLoad
    <3> QED
        BY <3>2, SizeAssumption
  <2> HIDE DEF size
  <2>4. CASE size > buckets.length /\ Grow(size)
    <3>1. /\ WellFormed(NewArray(size)) /\ LiveSlots(NewArray(size)) = {}
          /\ IsArray(NewArray(size)) /\ NewArray(size) # NoArray
        BY <2>2, <2>3, <2>4, NewArrayWellFormed DEF WellFormed, IsArray, NoArray
    <3>2. /\ op'.pc = "grow" /\ op'.key = op.key /\ op'.index = 0
          /\ op'.next = NewArray(size) /\ OpType(op')
        BY <1>1, <2>4, <3>1 DEF Grow, OpType, Steps, IsArrayOrNull
    <3>3. OpOK'
        BY <1>1, <2>1, <2>2, <3>1, <3>2 DEF OpOK, RehashedFrom
    <3> QED
        BY <1>1, <1>2, <2>1, <3>3, FieldStep
  <2>5. CASE NextItem
    <3>1. OpOK'
        BY <1>1, <2>5, NextItemOK
    <3> QED
        BY <1>1, <1>2, <2>1, <3>1, FieldStep
  <2> QED
      BY <2>1, <2>4, <2>5
<1>4. CASE DecrementCount
  <2>1. count > 0
      BY <1>1, <1>4 DEF DecrementCount, OpOK
  <2> QED
      BY <1>1, <1>2, <1>4, <2>1, UnlockedOK, FieldStep DEF DecrementCount, Release
<1>5. CASE ZeroCount
  <2>1. Unlocked.pc = "free"
      BY DEF Unlocked
  <2> QED
      BY <1>1, <1>5, <2>1, UnlockedOK, FieldStep DEF ZeroCount, Release
<1>6. CASE RemoveNothing
  <2>1. Unlocked.pc = "free"
      BY DEF Unlocked
  <2>2. buckets = NoArray => count = 0
      BY DEF IInv, BucketsOK
  <2> QED
      BY <1>1, <1>6, <2>1, <2>2, UnlockedOK, FieldStep DEF RemoveNothing, Release, dict
<1> QED
    BY <1>3, <1>4, <1>5, <1>6

\* Rehashing never meets a key twice, because the old array has it once.
LEMMA RehashKeepsIInv ==
    ASSUME IInv, RehashBucket
    PROVE  IInv'
<1> DEFINE n == op.index
           b == buckets.at[n]
<1>1. /\ OpOK /\ OpType(op) /\ count \in Nat
      /\ keyType \in KeyTypes /\ eqFunc \in Delegates
    BY DEF IInv, OpOK, KeyTypes, Delegates
<1>2. /\ op.pc = "grow" /\ n < buckets.length /\ UNCHANGED <<buckets, count, keyType, eqFunc, reader>>
      /\ op.next # NoArray /\ WellFormed(op.next) /\ RehashedFrom(op.next, buckets, n)
    BY <1>1 DEF RehashBucket, OpOK, dict
<1>3. buckets # NoArray /\ WellFormed(buckets) /\ IsArray(buckets)
    BY <1>2 DEF IInv, BucketsOK, WellFormed
<1>4. n \in 0 .. buckets.length - 1 /\ n \in Nat /\ b \in Bucket
    BY <1>1, <1>2, <1>3 DEF OpType, IsArray
<1>5. \A next : RehashedFrom(next, buckets, n) => RehashedFrom(next, buckets, n + 1)
    BY <1>3, <1>4 DEF RehashedFrom, LiveSlots, IsArray
<1>6. ASSUME NEW next, IsArray(next), WellFormed(next), RehashedFrom(next, buckets, n + 1),
             op' = [op EXCEPT !.index = n + 1, !.next = next]
      PROVE  IInv'
  <2>1. /\ op'.pc = "grow" /\ op'.key = op.key /\ op'.index = n + 1 /\ op'.next = next
        /\ OpType(op')
    <3>1. n + 1 \in Nat
        BY <1>4
    <3>2. ASSUME NEW m \in Nat, op' = [op EXCEPT !.index = m, !.next = next]
          PROVE  /\ op'.pc = op.pc /\ op'.key = op.key /\ op'.index = m /\ op'.next = next
                 /\ OpType(op')
        BY <1>1, <1>6, <3>2 DEF OpType, IsArrayOrNull
    <3> QED
        BY <1>2, <1>6, <3>1, <3>2
  <2>2. next # NoArray /\ n + 1 <= buckets.length
      BY <1>3, <1>4, <1>6 DEF IsArray, NoArray
  <2>3. OpOK'
      BY <1>1, <1>2, <1>6, <2>1, <2>2 DEF OpOK
  <2> QED
      BY <1>1, <1>2, <1>3, <2>3, FieldStep
<1>7. CASE b.key \in Keys
  <2>1. PICK d \in Distances(op.next) :
            /\ IsUsable(op.next, b.key, d)
            /\ op' = [op EXCEPT !.index = n + 1,
                                !.next = Write(op.next, Probe(op.next, b.key, d), b)]
      BY <1>7 DEF RehashBucket
  <2> DEFINE i == Probe(op.next, b.key, d)
             next == Write(op.next, i, b)
  <2>2. IsArray(op.next) /\ d \in Nat
      BY <1>2, <2>1 DEF WellFormed, IsArray, Distances
  <2>3. i \in 0 .. op.next.length - 1
      BY <1>7, <2>2, ProbeInRange
  <2>4. \A j \in LiveSlots(op.next) : op.next.at[j].key # b.key
    <3> SUFFICES ASSUME NEW j \in LiveSlots(op.next), op.next.at[j].key = b.key PROVE FALSE
        OBVIOUS
    <3>1. PICK m \in LiveSlots(buckets) : m < n /\ buckets.at[m].key = b.key
        BY <1>2 DEF RehashedFrom
    <3>2. n \in LiveSlots(buckets)
        BY <1>4, <1>7 DEF LiveSlots
    <3> QED
        BY <1>3, <1>4, <3>1, <3>2 DEF WellFormed, NoDuplicates
  <2>5. Settled(op.next, b.key, i) /\ b.key # NoKey
      BY <1>7, <2>1, <2>4, MarkerAssumption DEF Settled
  <2>6. WellFormed(next)
      BY <1>2, <1>4, <2>3, <2>5, WriteWellFormed
  <2>7. /\ IsArray(next) /\ next.length = op.next.length
        /\ next.at = [op.next.at EXCEPT ![i] = b]
      BY <1>4, <2>2, <2>3, WriteType
  <2>8. op' = [op EXCEPT !.index = n + 1, !.next = next]
      BY <2>1
  <2> HIDE DEF i, next
  <2>9. RehashedFrom(next, buckets, n + 1)
    <3> SUFFICES ASSUME NEW j \in LiveSlots(next)
                 PROVE  \E m \in LiveSlots(buckets) : m < n + 1 /\ next.at[j].key = buckets.at[m].key
        BY DEF RehashedFrom
    <3>1. CASE j = i
      <4>1. next.at[j] = b /\ n \in LiveSlots(buckets)
          BY <1>4, <1>7, <2>2, <2>3, <2>7, <3>1 DEF LiveSlots, IsArray
      <4> QED
          BY <1>4, <4>1
    <3>2. CASE j # i
      <4>1. j \in LiveSlots(op.next) /\ next.at[j] = op.next.at[j]
          BY <2>2, <2>7, <3>2 DEF LiveSlots, IsArray
      <4>2. PICK m \in LiveSlots(buckets) : m < n /\ op.next.at[j].key = buckets.at[m].key
          BY <1>2, <4>1 DEF RehashedFrom
      <4>3. m < n + 1
          BY <1>3, <1>4, <4>2 DEF LiveSlots, IsArray
      <4> QED
          BY <4>1, <4>2, <4>3
    <3> QED
        BY <3>1, <3>2
  <2> QED
      BY <1>6, <2>6, <2>7, <2>8, <2>9
<1>8. CASE b.key \notin Keys
  <2>1. op' = [op EXCEPT !.index = n + 1]
      BY <1>8 DEF RehashBucket
  <2>2. op' = [op EXCEPT !.index = n + 1, !.next = op.next]
      BY <1>1, <2>1 DEF OpType
  <2>3. IsArray(op.next)
      BY <1>2 DEF WellFormed
  <2> QED
      BY <1>2, <1>5, <1>6, <2>2, <2>3
<1> QED
    BY <1>7, <1>8
-----------------------------------------------------------------------------
(* The invariant and what it says of every dictionary.                       *)

LEMMA InitIInv == Init => IInv
<1> SUFFICES ASSUME Init PROVE IInv
    OBVIOUS
<1>1. op = Unlocked /\ op.pc = "free" /\ op.next = NoArray /\ OpType(op)
    BY UnlockedType DEF Init, Unlocked
<1>2. OpOK
    BY <1>1 DEF OpOK
<1>3. BucketsOK
    BY <1>1 DEF Init, BucketsOK
<1>4. \A r \in Readers : ReaderOK(reader[r])
    BY DEF Init, ReaderOK, ReaderType, Idle, ReaderSteps, IsArrayOrNull, NoArray, Current
<1>5. reader \in [Readers -> {reader[r] : r \in Readers}]
    BY DEF Init
<1> QED
    BY <1>2, <1>3, <1>4, <1>5 DEF Init, IInv

LEMMA StepKeepsIInv == IInv /\ [Next]_vars => IInv'
<1> SUFFICES ASSUME IInv, [Next]_vars PROVE IInv'
    OBVIOUS
<1>1. CASE Mutate
    BY <1>1, BeginsKeepIInv
<1>2. CASE Progress
    BY <1>2, SitesKeepIInv, ReplacementsKeepIInv, WritesKeepIInv, CountsKeepIInv,
       RehashKeepsIInv DEF Progress
<1>3. ASSUME NEW r \in Readers,
             (\E k \in Keys : BeginLookup(r, k)) \/ Advance(r) \/ Return(r)
      PROVE  IInv'
    BY <1>3, ReadersKeepIInv
<1>4. CASE UNCHANGED vars
    BY <1>4 DEF vars, dict, IInv, BucketsOK, OpOK, ReaderOK, ReaderType, Dereference
<1> QED
    BY <1>1, <1>2, <1>3, <1>4 DEF Next

\* The strengthening holds in every reachable state: every array in use is well
\* formed, and every call in progress is where the code can be.
THEOREM Invariance == Spec => []IInv
BY InitIInv, StepKeepsIInv, PTL DEF Spec

\* For every set of keys, hash codes and table sizes, the fields and the calls
\* keep their types and no lookup leaves the array it picked up.
THEOREM TypeCorrect == Spec => []TypeOK
<1>1. ASSUME IInv PROVE TypeOK
  <2>1. IsArrayOrNull(buckets) /\ OpType(op)
      BY <1>1 DEF IInv, BucketsOK, OpOK, WellFormed, IsArrayOrNull
  <2>2. ASSUME NEW r \in Readers
        PROVE  /\ ReaderType(reader[r])
               /\ reader[r].pc \in {"probe", "compare"} =>
                     Held(r) # NoArray /\ reader[r].dist \in Distances(Held(r))
    <3>1. ReaderOK(reader[r])
        BY <1>1 DEF IInv
    <3> QED
        BY <3>1 DEF ReaderOK, Held, Dereference
  <2> QED
      BY <1>1, <2>1, <2>2 DEF IInv, TypeOK
<1> QED
    BY <1>1, Invariance, PTL

\* However keys are added, removed, recycled and rehashed, every key in an array
\* that a lookup or a mutation may scan is reached by its probes.
THEOREM ProbesReachKeys == Spec => []ChainsUnbroken
<1>1. IInv => ChainsUnbroken
    BY DEF IInv, BucketsOK, OpOK, ReaderOK, ChainsUnbroken, WellFormed
<1> QED
    BY <1>1, Invariance, PTL

\* No key is ever in two buckets of an array.
THEOREM KeysAreUnique == Spec => []KeysUnique
<1>1. IInv => KeysUnique
    BY DEF IInv, BucketsOK, OpOK, KeysUnique, WellFormed
<1> QED
    BY <1>1, Invariance, PTL
-----------------------------------------------------------------------------
(* The count: Euclid, slots, and how a write changes the number of live slots. *)

\* Every set of natural numbers has a least element.
LEMMA LeastElement ==
    ASSUME NEW S \in SUBSET Nat, S # {}
    PROVE  \E n \in S : \A m \in S : n <= m
<1> DEFINE R == OpToRel(<, Nat)
<1>1. PICK n \in S : \A m \in S : <<m, n>> \notin R
    BY NatLessThanWellFounded, WFMin
<1>2. \A m \in S : m < n => <<m, n>> \in R
    BY DEF OpToRel
<1> HIDE DEF R
<1>3. ASSUME NEW m \in S PROVE n <= m
  <2>1. ~(m < n)
      BY <1>1, <1>2, Zenon
  <2>2. m \in Nat /\ n \in Nat
      OBVIOUS
  <2> QED
      BY <2>1, <2>2
<1> QED
    BY <1>3

\* A remainder is determined by what is left of a multiple.
LEMMA RemainderOf ==
    ASSUME NEW n \in Nat \ {0}, NEW q \in Int, NEW i \in 0 .. n - 1
    PROVE  (n * q + i) % n = i
OBVIOUS

\* Division by a positive number.
LEMMA QuotientAndRemainder ==
    ASSUME NEW n \in Nat \ {0}, NEW x \in Nat
    PROVE  x = n * (x \div n) + (x % n) /\ x % n \in 0 .. n - 1 /\ x \div n \in Nat
OBVIOUS

\* The probes of a key visit every slot.
LEMMA ProbesReachSlots ==
    ASSUME NEW a, IsArray(a), NEW k \in Keys, NEW i \in 0 .. a.length - 1
    PROVE  \E d \in Distances(a) : Probe(a, k, d) = i
<1> DEFINE n == a.length
           q == Hash[k] \div n
           h == Hash[k] % n
           d == IF h <= i THEN i - h ELSE i - h + n
<1>1. n \in Nat \ {0} /\ Hash[k] \in Nat
    BY HashAssumption DEF IsArray
<1>2. Hash[k] = n * q + h /\ h \in 0 .. n - 1 /\ q \in Nat
    BY <1>1, QuotientAndRemainder
<1> HIDE DEF n, q, h
<1>3. d \in 0 .. n - 1 /\ (Hash[k] + d = n * q + i \/ Hash[k] + d = n * (q + 1) + i)
    BY <1>1, <1>2 DEF n
<1>4. (Hash[k] + d) % n = i
  <2>1. q \in Int /\ q + 1 \in Int /\ i \in 0 .. n - 1
      BY <1>2 DEF n
  <2>2. (n * q + i) % n = i /\ (n * (q + 1) + i) % n = i
      BY <1>1, <2>1, RemainderOf
  <2> HIDE DEF d
  <2> QED
      BY <1>3, <2>2, Zenon
<1> QED
    BY <1>3, <1>4 DEF Distances, Probe, n

\* The live slots of an array are finitely many.
LEMMA LiveSlotsFinite ==
    ASSUME NEW a, IsArrayOrNull(a)
    PROVE  /\ IsFiniteSet(LiveSlots(a)) /\ Cardinality(LiveSlots(a)) \in Nat
           /\ LiveSlots(a) \subseteq 0 .. a.length - 1
           /\ a = NoArray => LiveSlots(a) = {}
<1>1. a.length \in Nat /\ (a = NoArray => a.length = 0)
    BY DEF IsArrayOrNull, IsArray, NoArray
<1>2. LiveSlots(a) \subseteq 0 .. a.length - 1
    BY DEF LiveSlots
<1>3. IsFiniteSet(0 .. a.length - 1)
    BY <1>1, FS_Interval
<1>4. IsFiniteSet(LiveSlots(a))
    BY <1>2, <1>3, FS_Subset
<1> QED
    BY <1>1, <1>2, <1>4, FS_CardinalityType

\* A write makes its slot live or not and leaves the others alone.
LEMMA WriteLive ==
    ASSUME NEW a, IsArray(a), NEW i \in 0 .. a.length - 1, NEW b \in Bucket
    PROVE  /\ LiveSlots(Write(a, i, b)) =
                  IF b.key \in Keys THEN LiveSlots(a) \cup {i} ELSE LiveSlots(a) \ {i}
           /\ Write(a, i, b).at[i] = b
           /\ \A j \in 0 .. a.length - 1 : j # i => Write(a, i, b).at[j] = a.at[j]
           /\ Write(a, i, b).length = a.length
<1> DEFINE w == Write(a, i, b)
<1>1. IsArray(w) /\ w.length = a.length /\ w.at = [a.at EXCEPT ![i] = b]
    BY WriteType
<1>2. w.at[i] = b /\ \A j \in 0 .. a.length - 1 : j # i => w.at[j] = a.at[j]
    BY <1>1 DEF IsArray
<1> HIDE DEF w
<1>3. LiveSlots(w) = IF b.key \in Keys THEN LiveSlots(a) \cup {i} ELSE LiveSlots(a) \ {i}
    BY <1>1, <1>2 DEF LiveSlots
<1> QED
    BY <1>1, <1>2, <1>3 DEF w

\* How a write changes the number of live slots.
LEMMA WriteCount ==
    ASSUME NEW a, IsArray(a), NEW i \in 0 .. a.length - 1, NEW b \in Bucket
    PROVE  Cardinality(LiveSlots(Write(a, i, b))) = Cardinality(LiveSlots(a)) +
               IF b.key \in Keys THEN IF a.at[i].key \in Keys THEN 0 ELSE 1
               ELSE IF a.at[i].key \in Keys THEN -1 ELSE 0
<1>1. IsFiniteSet(LiveSlots(a)) /\ Cardinality(LiveSlots(a)) \in Nat
    BY LiveSlotsFinite DEF IsArrayOrNull
<1>2. i \in LiveSlots(a) <=> a.at[i].key \in Keys
    BY DEF LiveSlots
<1>3. CASE b.key \in Keys
    BY <1>1, <1>2, <1>3, WriteLive, FS_AddElement
<1>4. CASE b.key \notin Keys
    BY <1>1, <1>2, <1>4, WriteLive, FS_RemoveElement
<1> QED
    BY <1>3, <1>4

\* While a slot is not live, every scan comes to a bucket that it can use.
LEMMA SpareBucketIsFound ==
    ASSUME NEW a, IsArray(a), Cardinality(LiveSlots(a)) < a.length, NEW k \in Keys
    PROVE  HasRoom(a, k)
<1> DEFINE Spare == {d \in Distances(a) : Met(a, k, d) \in {NoKey, Removed}}
<1>1. a.length \in Nat \ {0} /\ IsFiniteSet(LiveSlots(a)) /\ LiveSlots(a) \subseteq 0 .. a.length - 1
    BY LiveSlotsFinite DEF IsArray, IsArrayOrNull
<1>2. Cardinality(0 .. a.length - 1) = a.length
    BY <1>1, FS_Interval
<1>3. PICK i \in 0 .. a.length - 1 : i \notin LiveSlots(a)
  <2>1. LiveSlots(a) # 0 .. a.length - 1
      BY <1>1, <1>2
  <2> QED
      BY <1>1, <2>1, Zenon
<1>4. a.at[i].key \in {NoKey, Removed}
    BY <1>3 DEF LiveSlots, IsArray, Bucket
<1>5. PICK d \in Distances(a) : Probe(a, k, d) = i
    BY ProbesReachSlots
<1>6. d \in Spare /\ Spare \subseteq Nat
    BY <1>1, <1>4, <1>5 DEF Met, Distances
<1>7. PICK first \in Spare : \A e \in Spare : first <= e
    BY <1>6, LeastElement
<1>8. ASSUME NEW e \in 0 .. first - 1 PROVE Met(a, k, e) \notin {NoKey, Removed}
    BY <1>1, <1>7 DEF Distances
<1> QED
    BY <1>7, <1>8 DEF HasRoom, IsUsable

-----------------------------------------------------------------------------
(* What each step does to the array, the item in progress and the history.   *)

\* The item that is being added or removed stays the same.
SameItem ==
    /\ op'.mode = op.mode /\ op'.type = op.type
    /\ op'.key = op.key /\ op'.value = op.value /\ op'.rest = op.rest

\* A step that writes bucket i of the current array, and op.
Writes(i, b) ==
    /\ i \in 0 .. buckets.length - 1 /\ b \in Bucket
    /\ WellFormed(buckets) /\ buckets # NoArray /\ IsArray(buckets)
    /\ buckets' = Write(buckets, i, b) /\ buckets' # NoArray
    /\ UNCHANGED <<keyType, eqFunc, reader>>

\* What Goto leaves alone.
LEMMA GotoEffect ==
    ASSUME OpType(op), NEW pc, Goto(pc)
    PROVE  /\ op'.pc = pc /\ SameItem /\ op'.next = op.next /\ op'.index = op.index
           /\ UNCHANGED history
BY DEF OpType, Goto, SameItem

\* The record without a mutation.
LEMMA UnlockedFields ==
    /\ Unlocked.pc = "free" /\ Unlocked.mode = "add" /\ Unlocked.rest = <<>>
    /\ Unlocked.next = NoArray /\ Unlocked.key = NoKey /\ Unlocked.type = NoType
    /\ Unlocked.index = 0
BY DEF Unlocked

\* The steps that only change the delegates and the key type leave what is bound alone.
LEMMA SitesEffect ==
    ASSUME IInv, AssignSites \/ SetKeyType \/ CloneBuckets \/ AdoptKeyType \/ AdoptDelegates
    PROVE  /\ op.pc \in {"assign", "type", "clone", "adopt", "delegates"}
           /\ op'.pc \in {"type", "clone", "search", "delegates"}
           /\ SameItem /\ op'.next = op.next /\ op'.index = op.index
           /\ UNCHANGED <<buckets, count, history>>
<1>1. OpType(op)
    BY DEF IInv, OpOK
<1>2. CASE AssignSites
    BY <1>1, <1>2, GotoEffect DEF AssignSites
<1>3. CASE SetKeyType
    BY <1>1, <1>3, GotoEffect DEF SetKeyType
<1>4. CASE CloneBuckets
    BY <1>1, <1>4, GotoEffect DEF CloneBuckets, Replace
<1>5. CASE AdoptKeyType
    BY <1>1, <1>5, GotoEffect DEF AdoptKeyType
<1>6. CASE AdoptDelegates
    BY <1>1, <1>6, GotoEffect DEF AdoptDelegates
<1> QED
    BY <1>2, <1>3, <1>4, <1>5, <1>6

\* The first array of a dictionary is empty.
LEMMA AllocationEffect ==
    ASSUME IInv, Initialize \/ AllocateForCopy
    PROVE  /\ op.pc \in {"initialize", "allocate"}
           /\ op'.pc \in {"search", "assign", "adopt"}
           /\ SameItem /\ op'.next = op.next
           /\ WellFormed(buckets') /\ IsArray(buckets') /\ LiveSlots(buckets') = {}
           /\ buckets'.length = IF op.pc = "initialize" THEN InitialBucketSize ELSE op.index
           /\ Replace(buckets')
           /\ UNCHANGED <<count, history>>
<1>1. OpType(op)
    BY DEF IInv, OpOK
<1>2. SitesStep(op.type) \in {"search", "assign"} /\ CopySites(op.type) \in {"search", "assign", "adopt"}
    BY DEF SitesStep, CopySites
<1>3. CASE Initialize
  <2>1. /\ op.pc = "initialize" /\ Replace(NewArray(InitialBucketSize))
        /\ Goto(SitesStep(op.type)) /\ UNCHANGED count
      BY <1>3 DEF Initialize
  <2>2. /\ WellFormed(NewArray(InitialBucketSize)) /\ LiveSlots(NewArray(InitialBucketSize)) = {}
        /\ NewArray(InitialBucketSize).length = InitialBucketSize
      BY NewArrayWellFormed, SizeAssumption
  <2> QED
      BY <1>1, <1>2, <2>1, <2>2, GotoEffect DEF Replace, WellFormed
<1>4. CASE AllocateForCopy
  <2>1. /\ op.pc = "allocate" /\ Replace(NewArray(op.index)) /\ UNCHANGED <<count, history>>
        /\ op' = [op EXCEPT !.pc = CopySites(op.type), !.index = 0]
      BY <1>4 DEF AllocateForCopy
  <2>2. op.index \in Nat \ {0}
      BY <2>1 DEF IInv, OpOK, OpType
  <2>3. /\ WellFormed(NewArray(op.index)) /\ LiveSlots(NewArray(op.index)) = {}
        /\ NewArray(op.index).length = op.index
      BY <2>2, NewArrayWellFormed
  <2>4. SameItem /\ op'.next = op.next /\ op'.pc = CopySites(op.type)
      BY <1>1, <2>1 DEF OpType, SameItem
  <2> QED
      BY <1>2, <2>1, <2>3, <2>4 DEF Replace, WellFormed
<1> QED
    BY <1>3, <1>4

\* The lock is released, or the next item of a copy is about to be added.
LEMMA NextItemEffect ==
    ASSUME OpType(op), NextItem
    PROVE  /\ before' = after /\ UNCHANGED copied
           /\ \/ op.rest = <<>> /\ op' = Unlocked /\ UNCHANGED <<after, admissible>>
              \/ /\ op.rest # <<>> /\ op'.pc = "search" /\ op'.mode = op.mode
                 /\ op'.type = op.type /\ op'.next = op.next
                 /\ op'.key \in Keys /\ op'.value \in Values
                 /\ op'.rest \in Seq(Items) /\ Len(op'.rest) = Len(op.rest) - 1
                 /\ Expect([after EXCEPT ![op'.key] = op'.value])
<1>1. CASE op.rest = <<>>
    BY <1>1 DEF NextItem, Release
<1>2. CASE op.rest # <<>>
  <2>1. op.rest \in Seq(Items)
      BY DEF OpType
  <2>2. /\ Head(op.rest) \in Items /\ Tail(op.rest) \in Seq(Items)
        /\ Len(Tail(op.rest)) = Len(op.rest) - 1
      BY <1>2, <2>1
  <2>3. ASSUME NEW item \in Items, NEW rest,
               op' = [op EXCEPT !.pc = "search", !.key = item.key,
                                !.value = item.value, !.rest = rest]
        PROVE  /\ op'.pc = "search" /\ op'.mode = op.mode /\ op'.type = op.type
               /\ op'.next = op.next /\ op'.key = item.key /\ op'.value = item.value
               /\ op'.key \in Keys /\ op'.value \in Values /\ op'.rest = rest
    <3>1. item.key \in Keys /\ item.value \in Values
        BY DEF Items
    <3> QED
        BY <2>3, <3>1 DEF OpType
  <2>4. /\ op' = [op EXCEPT !.pc = "search", !.key = Head(op.rest).key,
                            !.value = Head(op.rest).value, !.rest = Tail(op.rest)]
        /\ Expect([after EXCEPT ![Head(op.rest).key] = Head(op.rest).value])
        /\ before' = after /\ UNCHANGED copied
      BY <1>2 DEF NextItem
  <2>5. /\ op'.pc = "search" /\ op'.mode = op.mode /\ op'.type = op.type
        /\ op'.next = op.next /\ op'.key = Head(op.rest).key /\ op'.value = Head(op.rest).value
        /\ op'.key \in Keys /\ op'.value \in Values /\ op'.rest = Tail(op.rest)
      BY <2>2, <2>3, <2>4
  <2> QED
      BY <1>2, <2>2, <2>4, <2>5
<1> QED
    BY <1>1, <1>2

\* Where the steps that write a bucket are, and that there is one.
LEMMA WritersHaveArray ==
    ASSUME IInv, op.pc \in {"search", "value", "key", "forget"} \/ (op.pc = "remove" /\ count > 0)
    PROVE  /\ op.key \in Keys /\ OpType(op) /\ op.value \in Values \cup {Null}
           /\ buckets # NoArray /\ WellFormed(buckets) /\ IsArray(buckets)
           /\ \A d \in Distances(buckets) : Probe(buckets, op.key, d) \in 0 .. buckets.length - 1
<1>1. op.key \in Keys /\ OpType(op) /\ buckets # NoArray
    BY DEF IInv, OpOK, BucketsOK
<1>2. WellFormed(buckets) /\ IsArray(buckets)
    BY <1>1 DEF IInv, BucketsOK, WellFormed
<1>3. \A d \in Distances(buckets) : d \in Nat
    BY <1>2 DEF Distances, IsArray
<1> QED
    BY <1>1, <1>2, <1>3, ProbeInRange DEF OpType

\* Writing a bucket: the facts that every such step shares.
LEMMA WriteBucketEffect ==
    ASSUME WellFormed(buckets), buckets # NoArray,
           NEW i \in 0 .. buckets.length - 1, NEW b \in Bucket, WriteBucket(i, b)
    PROVE  Writes(i, b)
<1>1. IsArray(buckets)
    BY DEF WellFormed
<1>2. IsArray(Write(buckets, i, b))
    BY <1>1, WriteType
<1> QED
    BY <1>1, <1>2 DEF WriteBucket, Writes, IsArray, NoArray

\* Replacing the value of a key that is there.
LEMMA UpdateEffect ==
    ASSUME IInv, Update
    PROVE  /\ op.pc = "search" /\ NextItem /\ UNCHANGED count
           /\ \E i \in LiveSlots(buckets), b \in Bucket :
                 /\ Writes(i, b)
                 /\ buckets.at[i].key = op.key /\ b.key = op.key /\ b.value = op.value
<1>1. op.pc = "search" /\ NextItem /\ UNCHANGED count
    BY DEF Update
<1>2. PICK d \in Matches(buckets, op.key) :
          WriteBucket(Probe(buckets, op.key, d),
                      [buckets.at[Probe(buckets, op.key, d)] EXCEPT !.value = op.value])
    BY DEF Update
<1> DEFINE i == Probe(buckets, op.key, d)
           b == [buckets.at[i] EXCEPT !.value = op.value]
<1>3. /\ op.key \in Keys /\ op.value \in Values \cup {Null}
      /\ buckets # NoArray /\ WellFormed(buckets) /\ IsArray(buckets)
      /\ i \in 0 .. buckets.length - 1 /\ buckets.at[i].key = op.key
    BY <1>1, WritersHaveArray DEF Matches, Met
<1>4. i \in LiveSlots(buckets) /\ buckets.at[i] \in Bucket
    BY <1>3 DEF LiveSlots, IsArray
<1> HIDE DEF i
<1>5. b \in Bucket /\ b.key = op.key /\ b.value = op.value
    BY <1>3, <1>4 DEF Bucket
<1>6. WriteBucket(i, b)
    BY <1>2 DEF i
<1> HIDE DEF b
<1>7. Writes(i, b)
    BY <1>3, <1>5, <1>6, WriteBucketEffect
<1> QED
    BY <1>1, <1>3, <1>4, <1>5, <1>7

\* A new key claims a bucket without a key ...
LEMMA WriteHashEffect ==
    ASSUME IInv, WriteHash
    PROVE  /\ op.pc = "search" /\ op'.pc = "value" /\ SameItem /\ op'.next = op.next
           /\ UNCHANGED <<count, history>>
           /\ \A j \in LiveSlots(buckets) : buckets.at[j].key # op.key
           /\ \E b \in Bucket :
                 /\ Writes(op'.index, b)
                 /\ buckets.at[op'.index].key \notin Keys /\ b.key \notin Keys
<1>1. PICK d \in Distances(buckets) :
          /\ IsUsable(buckets, op.key, d)
          /\ WriteBucket(Probe(buckets, op.key, d),
                         [buckets.at[Probe(buckets, op.key, d)] EXCEPT !.hash = Hash[op.key]])
          /\ op' = [op EXCEPT !.pc = "value", !.index = Probe(buckets, op.key, d)]
    BY DEF WriteHash
<1> DEFINE i == Probe(buckets, op.key, d)
           b == [buckets.at[i] EXCEPT !.hash = Hash[op.key]]
<1>2. op.pc = "search" /\ UNCHANGED <<count, history>> /\ Matches(buckets, op.key) = {}
    BY DEF WriteHash
<1>3. /\ op.key \in Keys /\ OpType(op)
      /\ buckets # NoArray /\ WellFormed(buckets) /\ IsArray(buckets)
      /\ i \in 0 .. buckets.length - 1 /\ buckets.at[i].key \notin Keys
    BY <1>1, <1>2, WritersHaveArray, MarkerAssumption DEF IsUsable, Met
<1>4. \A j \in LiveSlots(buckets) : buckets.at[j].key # op.key
    BY <1>2, <1>3, NoMatchNoKey
<1>5. buckets.at[i] \in Bucket /\ Hash[op.key] \in Nat
    BY <1>3, HashAssumption DEF IsArray
<1>6. WriteBucket(i, b) /\ op' = [op EXCEPT !.pc = "value", !.index = i]
    BY <1>1
<1> HIDE DEF i
<1>7. b \in Bucket /\ b.key \notin Keys
    BY <1>3, <1>5 DEF Bucket
<1> HIDE DEF b
<1>8. Writes(i, b)
    BY <1>3, <1>6, <1>7, WriteBucketEffect
<1>9. op'.pc = "value" /\ SameItem /\ op'.next = op.next /\ op'.index = i
    BY <1>3, <1>6 DEF OpType, SameItem
<1> QED
    BY <1>2, <1>3, <1>4, <1>7, <1>8, <1>9

\* ... gets its value ...
LEMMA WriteValueEffect ==
    ASSUME IInv, WriteValue
    PROVE  /\ op.pc = "value" /\ op'.pc = "key" /\ SameItem /\ op'.next = op.next
           /\ op'.index = op.index /\ UNCHANGED <<count, history>>
           /\ \E b \in Bucket :
                 /\ Writes(op.index, b) /\ b.value = op.value
                 /\ buckets.at[op.index].key \notin Keys /\ b.key \notin Keys
<1> DEFINE i == op.index
           b == [buckets.at[i] EXCEPT !.value = op.value]
<1>1. op.pc = "value" /\ WriteBucket(i, b) /\ Goto("key") /\ UNCHANGED count
    BY DEF WriteValue
<1>2. /\ op.key \in Keys /\ OpType(op) /\ op.value \in Values \cup {Null}
      /\ buckets # NoArray /\ WellFormed(buckets) /\ IsArray(buckets) /\ Settled(buckets, op.key, i)
    BY <1>1, WritersHaveArray DEF IInv, OpOK
<1>3. i \in 0 .. buckets.length - 1 /\ buckets.at[i].key \notin Keys
    BY <1>1, <1>2, WritersHaveArray, MarkerAssumption DEF Settled, IsUsable, Met
<1>4. buckets.at[i] \in Bucket
    BY <1>2, <1>3 DEF IsArray
<1>5. b \in Bucket /\ b.key \notin Keys /\ b.value = op.value
    BY <1>2, <1>3, <1>4 DEF Bucket
<1>6. Writes(i, b)
    BY <1>1, <1>2, <1>3, <1>5, WriteBucketEffect
<1> HIDE DEF b
<1>7. op'.pc = "key" /\ SameItem /\ op'.next = op.next /\ op'.index = op.index /\ UNCHANGED history
    BY <1>1, <1>2, GotoEffect
<1> QED
    BY <1>1, <1>3, <1>5, <1>6, <1>7

\* ... and then its key, which makes it visible.
LEMMA WriteKeyEffect ==
    ASSUME IInv, WriteKey
    PROVE  /\ op.pc = "key" /\ op'.pc = "count" /\ SameItem /\ op'.next = op.next
           /\ op'.index = op.index /\ UNCHANGED <<count, history>>
           /\ \A j \in LiveSlots(buckets) : buckets.at[j].key # op.key
           /\ \E b \in Bucket :
                 /\ Writes(op.index, b) /\ b.value = buckets.at[op.index].value
                 /\ op.key \in Keys /\ b.key = op.key /\ buckets.at[op.index].key \notin Keys
<1> DEFINE i == op.index
           b == [buckets.at[i] EXCEPT !.key = op.key]
<1>1. op.pc = "key" /\ WriteBucket(i, b) /\ Goto("count") /\ UNCHANGED count
    BY DEF WriteKey
<1>2. /\ op.key \in Keys /\ OpType(op)
      /\ buckets # NoArray /\ WellFormed(buckets) /\ IsArray(buckets) /\ Settled(buckets, op.key, i)
    BY <1>1, WritersHaveArray DEF IInv, OpOK
<1>3. i \in 0 .. buckets.length - 1 /\ buckets.at[i].key \notin Keys
    BY <1>1, <1>2, WritersHaveArray, MarkerAssumption DEF Settled, IsUsable, Met
<1>4. buckets.at[i] \in Bucket
    BY <1>2, <1>3 DEF IsArray
<1>5. b \in Bucket /\ b.key = op.key /\ b.value = buckets.at[i].value
    BY <1>2, <1>4 DEF Bucket
<1>6. Writes(i, b)
    BY <1>1, <1>2, <1>3, <1>5, WriteBucketEffect
<1> HIDE DEF b
<1>7. op'.pc = "count" /\ SameItem /\ op'.next = op.next /\ op'.index = op.index /\ UNCHANGED history
    BY <1>1, <1>2, GotoEffect
<1>8. \A j \in LiveSlots(buckets) : buckets.at[j].key # op.key
    BY <1>2 DEF Settled
<1> QED
    BY <1>1, <1>2, <1>3, <1>5, <1>6, <1>7, <1>8

\* Removing puts the marker in the bucket of the key ...
LEMMA RemoveKeyEffect ==
    ASSUME IInv, RemoveKey
    PROVE  /\ op.pc = "remove" /\ op'.pc = "forget" /\ SameItem /\ op'.next = op.next
           /\ UNCHANGED <<count, history>>
           /\ \E i \in LiveSlots(buckets), b \in Bucket :
                 Writes(i, b) /\ buckets.at[i].key = op.key /\ b.key \notin Keys
<1>1. PICK d \in Matches(buckets, op.key) :
          /\ WriteBucket(Probe(buckets, op.key, d),
                         [buckets.at[Probe(buckets, op.key, d)] EXCEPT !.key = Removed])
          /\ op' = [op EXCEPT !.pc = "forget", !.index = Probe(buckets, op.key, d)]
    BY DEF RemoveKey
<1> DEFINE i == Probe(buckets, op.key, d)
           b == [buckets.at[i] EXCEPT !.key = Removed]
<1>2. op.pc = "remove" /\ count > 0 /\ UNCHANGED <<count, history>>
    BY DEF RemoveKey
<1>3. /\ op.key \in Keys /\ OpType(op)
      /\ buckets # NoArray /\ WellFormed(buckets) /\ IsArray(buckets)
      /\ i \in 0 .. buckets.length - 1 /\ buckets.at[i].key = op.key
    BY <1>2, WritersHaveArray DEF Matches, Met
<1>4. i \in LiveSlots(buckets) /\ buckets.at[i] \in Bucket
    BY <1>3 DEF LiveSlots, IsArray
<1>5. WriteBucket(i, b) /\ op' = [op EXCEPT !.pc = "forget", !.index = i]
    BY <1>1
<1> HIDE DEF i
<1>6. b \in Bucket /\ b.key \notin Keys
    BY <1>4, MarkerAssumption DEF Bucket
<1> HIDE DEF b
<1>7. Writes(i, b)
    BY <1>3, <1>5, <1>6, WriteBucketEffect
<1>8. op'.pc = "forget" /\ SameItem /\ op'.next = op.next
    BY <1>3, <1>5 DEF OpType, SameItem
<1> QED
    BY <1>2, <1>3, <1>4, <1>6, <1>7, <1>8

\* ... and then drops its value.
LEMMA ForgetValueEffect ==
    ASSUME IInv, ForgetValue
    PROVE  /\ op.pc = "forget" /\ op'.pc = "discount" /\ SameItem /\ op'.next = op.next
           /\ UNCHANGED <<count, history>>
           /\ \E b \in Bucket : /\ Writes(op.index, b)
                                /\ buckets.at[op.index].key \notin Keys /\ b.key \notin Keys
<1> DEFINE i == op.index
           b == [buckets.at[i] EXCEPT !.value = Null]
<1>1. op.pc = "forget" /\ WriteBucket(i, b) /\ Goto("discount") /\ UNCHANGED count
    BY DEF ForgetValue
<1>2. /\ OpType(op) /\ buckets # NoArray /\ WellFormed(buckets) /\ IsArray(buckets)
      /\ i \in 0 .. buckets.length - 1 /\ buckets.at[i].key \notin Keys
    BY <1>1, WritersHaveArray, MarkerAssumption DEF IInv, OpOK
<1>3. buckets.at[i] \in Bucket
    BY <1>2 DEF IsArray
<1>4. b \in Bucket /\ b.key \notin Keys
    BY <1>2, <1>3 DEF Bucket
<1>5. Writes(i, b)
    BY <1>1, <1>2, <1>4, WriteBucketEffect
<1> HIDE DEF b
<1>6. op'.pc = "discount" /\ SameItem /\ op'.next = op.next /\ UNCHANGED history
    BY <1>1, <1>2, GotoEffect
<1> QED
    BY <1>1, <1>2, <1>4, <1>5, <1>6
\* A bucket that is rehashed is copied to a slot without a key.
LEMMA RehashEffect ==
    ASSUME IInv, RehashBucket
    PROVE  /\ op.pc = "grow" /\ op'.pc = "grow" /\ SameItem
           /\ op'.index = op.index + 1 /\ op.index \in 0 .. buckets.length - 1
           /\ WellFormed(buckets) /\ IsArray(buckets) /\ WellFormed(op.next) /\ IsArray(op.next)
           /\ buckets.at[op.index] \in Bucket
           /\ UNCHANGED <<dict, reader, history>>
           /\ \/ op.index \notin LiveSlots(buckets) /\ op'.next = op.next
              \/ /\ op.index \in LiveSlots(buckets)
                 /\ \E i \in 0 .. op.next.length - 1 :
                       /\ op.next.at[i].key \notin Keys
                       /\ op'.next = Write(op.next, i, buckets.at[op.index])
<1> DEFINE n == op.index
           b == buckets.at[n]
<1>1. /\ op.pc = "grow" /\ n < buckets.length /\ UNCHANGED <<dict, reader, history>>
      /\ OpType(op) /\ WellFormed(op.next) /\ IsArray(op.next)
    BY DEF RehashBucket, IInv, OpOK, WellFormed
<1>2. buckets # NoArray /\ WellFormed(buckets) /\ IsArray(buckets)
    BY <1>1 DEF IInv, BucketsOK, WellFormed
<1>3. n \in 0 .. buckets.length - 1 /\ n \in Nat /\ b \in Bucket
    BY <1>1, <1>2 DEF OpType, IsArray
<1>4. n \in LiveSlots(buckets) <=> b.key \in Keys
    BY <1>3 DEF LiveSlots
<1>5. CASE b.key \in Keys
  <2>1. PICK d \in Distances(op.next) :
            /\ IsUsable(op.next, b.key, d)
            /\ op' = [op EXCEPT !.index = n + 1,
                                !.next = Write(op.next, Probe(op.next, b.key, d), b)]
      BY <1>5 DEF RehashBucket
  <2> DEFINE i == Probe(op.next, b.key, d)
             next == Write(op.next, i, b)
  <2>2. d \in Nat
      BY <1>1, <2>1 DEF IsArray, Distances
  <2>3. i \in 0 .. op.next.length - 1 /\ op.next.at[i].key \notin Keys
      BY <1>1, <1>5, <2>1, <2>2, ProbeInRange, MarkerAssumption DEF IsUsable, Met
  <2>4. op' = [op EXCEPT !.index = n + 1, !.next = next]
      BY <2>1
  <2> HIDE DEF next, b
  <2>5. op'.pc = op.pc /\ SameItem /\ op'.index = n + 1 /\ op'.next = next
      BY <1>1, <2>4 DEF OpType, SameItem
  <2> QED
      BY <1>1, <1>2, <1>3, <1>4, <1>5, <2>3, <2>5 DEF next, b
<1>6. CASE b.key \notin Keys
  <2>1. op' = [op EXCEPT !.index = n + 1]
      BY <1>6 DEF RehashBucket
  <2> HIDE DEF b
  <2>2. op'.pc = op.pc /\ SameItem /\ op'.index = n + 1 /\ op'.next = op.next
      BY <1>1, <2>1 DEF OpType, SameItem
  <2> QED
      BY <1>1, <1>2, <1>3, <1>4, <1>6, <2>2 DEF b
<1> QED
    BY <1>5, <1>6

\* The grown array becomes the current one.
LEMMA PublishEffect ==
    ASSUME IInv, PublishGrown
    PROVE  /\ op.pc = "grow" /\ op.index = buckets.length
           /\ WellFormed(buckets) /\ IsArray(buckets)
           /\ WellFormed(op.next) /\ IsArray(op.next) /\ op.next # NoArray
           /\ Replace(op.next) /\ buckets' = op.next
           /\ UNCHANGED <<count, keyType, eqFunc>>
           /\ \/ op.mode = "add" /\ Release
              \/ /\ op.mode = "copy" /\ op'.pc \in {"search", "assign", "adopt"}
                 /\ SameItem /\ op'.next = NoArray /\ UNCHANGED history
<1>1. /\ op.pc = "grow" /\ op.index = buckets.length /\ Replace(op.next)
      /\ UNCHANGED <<count, keyType, eqFunc>>
    BY DEF PublishGrown
<1>2. /\ OpType(op) /\ WellFormed(op.next) /\ IsArray(op.next) /\ op.next # NoArray
      /\ WellFormed(buckets) /\ IsArray(buckets)
    BY <1>1 DEF IInv, OpOK, BucketsOK, WellFormed
<1>3. CASE op.mode = "add"
    BY <1>1, <1>2, <1>3 DEF PublishGrown, Replace
<1>4. CASE op.mode # "add"
  <2>1. /\ op' = [op EXCEPT !.pc = CopySites(op.type), !.next = NoArray, !.index = 0]
        /\ UNCHANGED history
      BY <1>4 DEF PublishGrown
  <2>2. CopySites(op.type) \in {"search", "assign", "adopt"}
      BY DEF CopySites, SitesStep
  <2>3. op'.pc = CopySites(op.type) /\ SameItem /\ op'.next = NoArray /\ op.mode = "copy"
      BY <1>2, <1>4, <2>1 DEF OpType, SameItem
  <2> QED
      BY <1>1, <1>2, <2>1, <2>2, <2>3 DEF Replace
<1> QED
    BY <1>3, <1>4

\* The array after a key was counted, with room for what is still to come.
LEMMA IncrementEffect ==
    ASSUME IInv, IncrementCount
    PROVE  /\ op.pc = "count" /\ count' = count + 1
           /\ WellFormed(buckets) /\ IsArray(buckets) /\ OpType(op)
           /\ UNCHANGED <<buckets, keyType, eqFunc, reader>>
           /\ \/ /\ op.mode = "add" /\ op'.pc = "grow" /\ SameItem /\ op'.index = 0
                 /\ \E size \in Nat \ {0} : size > buckets.length /\ op'.next = NewArray(size)
                 /\ UNCHANGED history
              \/ /\ NextItem
                 /\ op.mode = "add" => count' < buckets.length
<1> DEFINE size == DividedByLoad(buckets.length) * ResizeMultiplier
<1>1. /\ op.pc = "count" /\ count' = count + 1
      /\ UNCHANGED <<buckets, keyType, eqFunc, reader>>
      /\ IF op.mode = "add" /\ AtLoad(count', buckets.length) /\ size > buckets.length
         THEN Grow(size) ELSE NextItem
    BY DEF IncrementCount
<1>2. /\ WellFormed(buckets) /\ IsArray(buckets) /\ buckets.length \in Nat \ {0}
      /\ OpType(op) /\ count \in Nat
    BY <1>1 DEF IInv, BucketsOK, OpOK, WellFormed, IsArray
<1>3. size \in Nat /\ size > buckets.length
  <2>1. \A n \in Nat \ {0} : (10 * n) \div 7 \in Nat /\ (10 * n) \div 7 >= n
      OBVIOUS
  <2>2. DividedByLoad(buckets.length) \in Nat /\ DividedByLoad(buckets.length) >= buckets.length
      BY <1>2, <2>1, Zenon DEF DividedByLoad
  <2>3. ASSUME NEW n \in Nat \ {0}, NEW m \in Nat, m >= n, NEW f \in Nat \ {0, 1}
        PROVE  m * f \in Nat /\ m * f > n
    <3>1. m * f >= m * 2
        BY <2>3
    <3> QED
        BY <2>3, <3>1
  <2> QED
      BY <1>2, <2>2, <2>3, SizeAssumption
<1> HIDE DEF size
<1>4. CASE Grow(size) /\ op.mode = "add"
  <2>1. op' = [op EXCEPT !.pc = "grow", !.next = NewArray(size), !.index = 0] /\ UNCHANGED history
      BY <1>4 DEF Grow
  <2>2. op'.pc = "grow" /\ SameItem /\ op'.index = 0 /\ op'.next = NewArray(size)
      BY <1>2, <2>1 DEF OpType, SameItem
  <2>3. size \in Nat \ {0}
      BY <1>2, <1>3
  <2> QED
      BY <1>1, <1>2, <1>3, <1>4, <2>1, <2>2, <2>3
<1>5. CASE NextItem /\ (op.mode = "add" => ~AtLoad(count', buckets.length))
  <2>1. \A n, m \in Nat : ~(10 * n >= 7 * m) => n < m
      OBVIOUS
  <2>2. op.mode = "add" => count' < buckets.length
      BY <1>1, <1>2, <1>5, <2>1 DEF AtLoad
  <2> QED
      BY <1>1, <1>2, <1>5, <2>2
<1> QED
    BY <1>1, <1>3, <1>4, <1>5

-----------------------------------------------------------------------------
(* The count agrees with the array, through every mutation.                  *)

\* How far the count is behind the array.
Lag == IF op.pc = "count" THEN 1 ELSE IF op.pc \in {"forget", "discount"} THEN -1 ELSE 0

\* The items a copy has yet to add.
ToAdd == IF op.mode = "copy" THEN 1 + Len(op.rest) ELSE 0

\* The count and the array agree, whatever the mutation in progress has done; and
\* there is a spare bucket for everything a copy has yet to add.
CountOK ==
    /\ op.pc # "zero" => Cardinality(LiveSlots(buckets)) = count + Lag
    /\ op.pc = "zero" => LiveSlots(buckets) = {}
    /\ op.pc = "grow" => Cardinality(LiveSlots(op.next)) =
                         Cardinality({i \in LiveSlots(buckets) : i < op.index})
    /\ op.pc = "initialize" => op.mode = "add"
    /\ op.pc \in {"initialize", "allocate"} => buckets = NoArray
    /\ op.pc = "allocate" => ToAdd < op.index
    /\ buckets # NoArray /\ op.pc \notin {"grow", "zero"} => count + ToAdd < buckets.length
    /\ op.pc = "grow" => count + ToAdd < op.next.length

\* A copy has finitely many items to add.
LEMMA ToAddType == OpType(op) => ToAdd \in Nat
BY DEF OpType, ToAdd

\* The record of a copy that begins.
LEMMA CopyFields ==
    ASSUME NEW source \in Sources
    PROVE  /\ OpType(CopyOf(source))
           /\ CopyOf(source).mode = "copy" /\ CopyOf(source).type = source.keyType
           /\ CopyOf(source).key = Head(source.items).key
           /\ CopyOf(source).value = Head(source.items).value
           /\ CopyOf(source).rest = Tail(source.items)
           /\ CopyOf(source).next = NoArray /\ CopyOf(source).index = 0
           /\ CopyOf(source).key \in Keys /\ CopyOf(source).value \in Values
           /\ 1 + Len(CopyOf(source).rest) = Len(source.items)
<1>1. source.items \in Seq(Items) /\ source.items # <<>>
    BY SourcesAssumption
<1>2. Head(source.items) \in Items /\ Tail(source.items) \in Seq(Items)
      /\ Len(Tail(source.items)) = Len(source.items) - 1 /\ Len(source.items) \in Nat
    BY <1>1
<1>3. source.keyType \in Types \cup {Heterogeneous}
    BY SourcesAssumption
<1> DEFINE item == Head(source.items)
           rest == Tail(source.items)
           copy == CopyOf(source)
<1>4. /\ item \in Items /\ rest \in Seq(Items)
      /\ copy = [Unlocked EXCEPT !.mode = "copy", !.type = source.keyType,
                    !.key = item.key, !.value = item.value, !.rest = rest]
    BY <1>2 DEF CopyOf
<1> HIDE DEF copy, item, rest
<1>5. item.key \in Keys /\ item.value \in Values
    BY <1>4 DEF Items
<1>6. /\ copy.mode = "copy" /\ copy.type = source.keyType
      /\ copy.key = item.key /\ copy.value = item.value /\ copy.rest = rest
      /\ copy.next = NoArray /\ copy.index = 0
    BY <1>4 DEF Unlocked
<1>7. OpType(copy)
    BY <1>3, <1>4, <1>5, UnlockedType DEF OpType, Unlocked
<1> QED
    BY <1>2, <1>5, <1>6, <1>7 DEF copy, item, rest

\* There is room for what is about to be added in the array a copy chooses.
LEMMA CopyFits ==
    ASSUME NEW items \in Seq(Items), count \in Nat, IsArray(buckets), NEW size \in CopySizes(items)
    PROVE  size \in Nat \ {0} /\ Len(items) + count < size
<1>1. DividedByLoad(Len(items) + count) + 2 > Len(items) + count
      /\ DividedByLoad(Len(items) + count) \in Nat
  <2>1. \A n \in Nat : (10 * n) \div 7 \in Nat /\ (10 * n) \div 7 + 2 > n
      OBVIOUS
  <2>2. Len(items) + count \in Nat
      OBVIOUS
  <2> QED
      BY <2>1, <2>2, Zenon DEF DividedByLoad
<1>2. buckets.length + (DividedByLoad(Len(items) + count) + 2) * ResizeMultiplier \in Int
  <2>1. \A x, y, z \in Nat : x + (y + 2) * z \in Int
      OBVIOUS
  <2> QED
      BY <1>1, <2>1, SizeAssumption DEF IsArray
<1>3. size \in Int /\ size >= DividedByLoad(Len(items) + count) + 2
    BY <1>1, <1>2 DEF CopySizes
<1> QED
    BY <1>1, <1>3

\* Mutations that begin leave the array and its count alone.
LEMMA BeginsKeepCount ==
    ASSUME IInv, CountOK, Mutate
    PROVE  CountOK'
<1>1. op.pc = "free" /\ UNCHANGED <<buckets, count>>
    BY DEF Mutate, BeginAdd, BeginRemove, BeginCopyIntoNull, BeginCopy, BeginClear, Begin, dict
<1>2. /\ Cardinality(LiveSlots(buckets)) = count /\ count \in Nat
      /\ OpType(op) /\ ToAdd \in Nat
      /\ buckets # NoArray => count < buckets.length /\ IsArray(buckets) /\ buckets.length \in Nat
      /\ buckets = NoArray => count = 0
    BY <1>1, ToAddType DEF CountOK, Lag, IInv, OpOK, BucketsOK, WellFormed, IsArray
<1>3. ASSUME op'.mode = "add",
             op'.pc \notin {"free", "count", "forget", "discount", "grow", "zero", "allocate"},
             op'.pc = "initialize" => buckets = NoArray
      PROVE  CountOK'
    BY <1>1, <1>2, <1>3 DEF CountOK, Lag, ToAdd
<1>4. ASSUME NEW k \in Keys, NEW v \in Values, BeginAdd(k, v) PROVE CountOK'
  <2> DEFINE pc == IF buckets = NoArray THEN "initialize" ELSE SitesStep(TypeOf[k])
             o == [Unlocked EXCEPT !.pc = pc, !.type = TypeOf[k], !.key = k, !.value = v]
  <2>1. pc \in {"initialize", "search", "assign"} /\ (pc = "initialize" => buckets = NoArray)
      BY DEF SitesStep
  <2>2. op' = o
      BY <1>4 DEF BeginAdd, Begin
  <2>3. o.pc = pc /\ o.mode = "add"
      BY DEF Unlocked
  <2> HIDE DEF o, pc
  <2> QED
      BY <1>3, <2>1, <2>2, <2>3
<1>5. ASSUME NEW k \in Keys, BeginRemove(k) PROVE CountOK'
  <2>1. op'.pc = "remove" /\ op'.mode = "add"
      BY <1>5 DEF BeginRemove, Begin, Unlocked
  <2> QED
      BY <1>3, <2>1
<1>6. ASSUME BeginClear PROVE CountOK'
  <2>1. op'.pc = "clear" /\ op'.mode = "add"
      BY <1>6 DEF BeginClear, Begin, Unlocked
  <2> QED
      BY <1>3, <2>1
<1>7. ASSUME NEW source \in Sources, BeginCopyIntoNull(source) PROVE CountOK'
  <2> DEFINE copy == CopyOf(source)
             o == [copy EXCEPT !.pc = "allocate", !.index = source.length]
  <2>1. op' = o /\ buckets = NoArray
      BY <1>7 DEF BeginCopyIntoNull, Begin
  <2>2. /\ OpType(copy) /\ copy.mode = "copy" /\ 1 + Len(copy.rest) < source.length
        /\ copy.rest \in Seq(Items)
      BY CopyFields, SourcesAssumption DEF OpType
  <2> HIDE DEF copy
  <2>3. o.pc = "allocate" /\ o.mode = "copy" /\ o.rest = copy.rest /\ o.index = source.length
      BY <2>2 DEF OpType
  <2> HIDE DEF o
  <2> QED
      BY <1>1, <1>2, <2>1, <2>2, <2>3 DEF CountOK, Lag, ToAdd
<1>8. ASSUME NEW source \in Sources, BeginCopy(source) PROVE CountOK'
  <2> DEFINE copy == CopyOf(source)
  <2>1. PICK size \in CopySizes(source.items) :
            op' = IF size > buckets.length
                  THEN [copy EXCEPT !.pc = "grow", !.next = NewArray(size)]
                  ELSE [copy EXCEPT !.pc = CopySites(source.keyType)]
      BY <1>8 DEF BeginCopy, Begin
  <2>2. /\ OpType(copy) /\ copy.mode = "copy" /\ 1 + Len(copy.rest) = Len(source.items)
        /\ copy.rest \in Seq(Items) /\ copy.index = 0
      BY CopyFields DEF OpType
  <2>3. buckets # NoArray
      BY <1>8 DEF BeginCopy
  <2>4. size \in Nat \ {0} /\ Len(source.items) + count < size
      BY <1>2, <2>1, <2>3, CopyFits, SourcesAssumption
  <2>5. Len(source.items) \in Nat
      BY SourcesAssumption
  <2> HIDE DEF copy
  <2>6. CASE size > buckets.length
    <3> DEFINE o == [copy EXCEPT !.pc = "grow", !.next = NewArray(size)]
    <3>1. o.pc = "grow" /\ o.mode = "copy" /\ o.rest = copy.rest /\ o.next = NewArray(size)
          /\ o.index = 0
        BY <2>2 DEF OpType
    <3>2. op' = o
        BY <2>1, <2>6
    <3> HIDE DEF o
    <3>3. LiveSlots(NewArray(size)) = {} /\ NewArray(size).length = size
        BY <2>4, NewArrayWellFormed
    <3>4. {i \in LiveSlots(buckets) : i < 0} = {}
        BY <1>2, <2>3, LiveSlotsFinite DEF IsArrayOrNull
    <3>5. /\ op'.pc = "grow" /\ op'.next.length = size /\ LiveSlots(op'.next) = {}
          /\ {i \in LiveSlots(buckets') : i < op'.index} = {} /\ ToAdd' = Len(source.items)
        BY <1>1, <2>2, <3>1, <3>2, <3>3, <3>4 DEF ToAdd
    <3>6. Lag' = 0
        BY <3>5 DEF Lag
    <3>7. Cardinality(LiveSlots(op.next))' = Cardinality({i \in LiveSlots(buckets) : i < op.index})'
        BY <3>5
    <3>8. (count + ToAdd < op.next.length)' /\ (Cardinality(LiveSlots(buckets)) = count + Lag)'
        BY <1>1, <1>2, <2>4, <2>5, <3>5, <3>6
    <3> QED
        BY <3>5, <3>7, <3>8 DEF CountOK
  <2>7. CASE ~(size > buckets.length)
    <3> DEFINE pc == CopySites(source.keyType)
               o == [copy EXCEPT !.pc = pc]
    <3>1. pc \in {"adopt", "search", "assign"}
        BY DEF CopySites, SitesStep
    <3> HIDE DEF pc
    <3>2. o.pc = pc /\ o.mode = "copy" /\ o.rest = copy.rest
        BY <2>2 DEF OpType
    <3>3. op' = o
        BY <2>1, <2>7 DEF pc
    <3> HIDE DEF o
    <3>4. op'.pc \in {"adopt", "search", "assign"} /\ ToAdd' = Len(source.items)
        BY <2>2, <3>1, <3>2, <3>3 DEF ToAdd
    <3>5. count + Len(source.items) < buckets.length
        BY <1>2, <2>3, <2>4, <2>5, <2>7
    <3>6. Lag' = 0
        BY <3>4 DEF Lag
    <3> QED
        BY <1>1, <1>2, <2>3, <3>4, <3>5, <3>6 DEF CountOK
  <2> QED
      BY <2>6, <2>7
<1> QED
    BY <1>4, <1>5, <1>6, <1>7, <1>8 DEF Mutate
\* The steps that write a bucket change the number of keys as Lag says.
LEMMA WritesKeepCount ==
    ASSUME IInv, CountOK,
           Update \/ WriteHash \/ WriteValue \/ WriteKey \/ RemoveKey \/ ForgetValue
    PROVE  CountOK'
<1>1. OpType(op) /\ ToAdd \in Nat /\ count \in Nat
    BY ToAddType DEF IInv, OpOK
<1>2. ASSUME NEW i, NEW b, Writes(i, b)
      PROVE  /\ buckets'.length = buckets.length /\ buckets # NoArray /\ buckets' # NoArray
             /\ Cardinality(LiveSlots(buckets)) \in Nat
             /\ Cardinality(LiveSlots(buckets')) = Cardinality(LiveSlots(buckets)) +
                    IF b.key \in Keys THEN IF buckets.at[i].key \in Keys THEN 0 ELSE 1
                    ELSE IF buckets.at[i].key \in Keys THEN -1 ELSE 0
    BY <1>2, WriteCount, WriteType, LiveSlotsFinite DEF Writes, IsArrayOrNull
<1>3. ASSUME SameItem PROVE ToAdd' = ToAdd
    BY <1>3 DEF SameItem, ToAdd
<1>4. CASE Update
  <2>1. /\ op.pc = "search" /\ NextItem /\ count' = count
        /\ buckets'.length = buckets.length /\ buckets # NoArray
        /\ Cardinality(LiveSlots(buckets')) = Cardinality(LiveSlots(buckets))
    <3>1. PICK i \in LiveSlots(buckets), b \in Bucket :
              /\ Writes(i, b)
              /\ buckets.at[i].key = op.key /\ b.key = op.key
        BY <1>4, UpdateEffect
    <3>2. op.key \in Keys
        BY <3>1 DEF LiveSlots
    <3> QED
        BY <1>2, <1>4, <3>1, <3>2, UpdateEffect
  <2>2. Cardinality(LiveSlots(buckets)) = count /\ count + ToAdd < buckets.length
    <3>1. Lag = 0
        BY <2>1 DEF Lag
    <3> QED
        BY <1>1, <2>1, <3>1 DEF CountOK
  <2>3. op'.pc \in {"free", "search"} /\ ToAdd' \in Nat /\ ToAdd' <= ToAdd
    <3>1. CASE op' = Unlocked
        BY <1>1, <3>1, UnlockedFields DEF ToAdd
    <3>2. CASE op'.pc = "search" /\ op'.mode = op.mode /\ Len(op'.rest) = Len(op.rest) - 1
               /\ op'.rest \in Seq(Items)
        BY <1>1, <3>2 DEF ToAdd, OpType
    <3> QED
        BY <1>1, <2>1, <3>1, <3>2, NextItemEffect
  <2>4. Lag' = 0
      BY <2>3 DEF Lag
  <2>5. (count + ToAdd < buckets.length)'
    <3>1. \A x, y, z \in Nat, n \in Int : x + y < n /\ z <= y => x + z < n
        OBVIOUS
    <3>2. buckets.length \in Int
        BY <2>1 DEF IInv, BucketsOK, WellFormed, IsArray
    <3> QED
        BY <1>1, <2>1, <2>2, <2>3, <3>1, <3>2
  <2> QED
      BY <1>1, <2>1, <2>2, <2>3, <2>4, <2>5 DEF CountOK
<1>5. ASSUME NEW n \in {-1, 0, 1}, Lag' = Lag + n, count' = count, ToAdd' = ToAdd,
             op.pc \notin {"grow", "zero"},
             op'.pc \in {"value", "key", "count", "forget", "discount"},
             buckets # NoArray, buckets'.length = buckets.length,
             Cardinality(LiveSlots(buckets')) = Cardinality(LiveSlots(buckets)) + n
      PROVE  CountOK'
  <2>1. Cardinality(LiveSlots(buckets)) = count + Lag /\ count + ToAdd < buckets.length
      BY <1>5 DEF CountOK
  <2>2. Lag \in Int
      BY DEF Lag
  <2>3. (Cardinality(LiveSlots(buckets)) = count + Lag)'
      BY <1>1, <1>5, <2>1, <2>2
  <2> QED
      BY <1>5, <2>1, <2>3 DEF CountOK
<1>6. CASE WriteHash
  <2>1. /\ op.pc = "search" /\ op'.pc = "value" /\ ToAdd' = ToAdd /\ count' = count
        /\ buckets # NoArray /\ buckets'.length = buckets.length
        /\ Cardinality(LiveSlots(buckets')) = Cardinality(LiveSlots(buckets)) + 0
      BY <1>2, <1>3, <1>6, WriteHashEffect
  <2>2. Lag = 0 /\ Lag' = 0
      BY <2>1 DEF Lag
  <2> QED
      BY <1>5, <2>1, <2>2
<1>7. CASE WriteValue
  <2>1. /\ op.pc = "value" /\ op'.pc = "key" /\ ToAdd' = ToAdd /\ count' = count
        /\ buckets # NoArray /\ buckets'.length = buckets.length
        /\ Cardinality(LiveSlots(buckets')) = Cardinality(LiveSlots(buckets)) + 0
      BY <1>2, <1>3, <1>7, WriteValueEffect
  <2>2. Lag = 0 /\ Lag' = 0
      BY <2>1 DEF Lag
  <2> QED
      BY <1>5, <2>1, <2>2
<1>8. CASE WriteKey
  <2>1. /\ op.pc = "key" /\ op'.pc = "count" /\ ToAdd' = ToAdd /\ count' = count
        /\ buckets # NoArray /\ buckets'.length = buckets.length
        /\ Cardinality(LiveSlots(buckets')) = Cardinality(LiveSlots(buckets)) + 1
      BY <1>2, <1>3, <1>8, WriteKeyEffect
  <2>2. Lag = 0 /\ Lag' = 1
      BY <2>1 DEF Lag
  <2> QED
      BY <1>5, <2>1, <2>2
<1>9. CASE RemoveKey
  <2>1. /\ op.pc = "remove" /\ op'.pc = "forget" /\ ToAdd' = ToAdd /\ count' = count
        /\ buckets # NoArray /\ buckets'.length = buckets.length
        /\ Cardinality(LiveSlots(buckets')) = Cardinality(LiveSlots(buckets)) + -1
    <3>1. PICK i \in LiveSlots(buckets), b \in Bucket : Writes(i, b) /\ b.key \notin Keys
        BY <1>9, RemoveKeyEffect
    <3>2. buckets.at[i].key \in Keys
        BY DEF LiveSlots
    <3> QED
        BY <1>2, <1>3, <1>9, <3>1, <3>2, RemoveKeyEffect
  <2>2. Lag = 0 /\ Lag' = -1
      BY <2>1 DEF Lag
  <2> QED
      BY <1>5, <2>1, <2>2
<1>10. CASE ForgetValue
  <2>1. /\ op.pc = "forget" /\ op'.pc = "discount" /\ ToAdd' = ToAdd /\ count' = count
        /\ buckets # NoArray /\ buckets'.length = buckets.length
        /\ Cardinality(LiveSlots(buckets')) = Cardinality(LiveSlots(buckets)) + 0
      BY <1>2, <1>3, <1>10, ForgetValueEffect
  <2>2. Lag = -1 /\ Lag' = -1
      BY <2>1 DEF Lag
  <2> QED
      BY <1>5, <2>1, <2>2
<1> QED
    BY <1>4, <1>6, <1>7, <1>8, <1>9, <1>10

\* The steps that replace the array, or change the delegates, keep its keys.
LEMMA ReplacementsKeepCount ==
    ASSUME IInv, CountOK,
           \/ AssignSites \/ SetKeyType \/ CloneBuckets \/ AdoptKeyType \/ AdoptDelegates
           \/ Initialize \/ AllocateForCopy \/ PublishGrown \/ ClearBuckets
    PROVE  CountOK'
<1>1. OpType(op) /\ ToAdd \in Nat /\ count \in Nat
    BY ToAddType DEF IInv, OpOK
<1>2. ASSUME SameItem PROVE ToAdd' = ToAdd
    BY <1>2 DEF SameItem, ToAdd
<1>3. CASE AssignSites \/ SetKeyType \/ CloneBuckets \/ AdoptKeyType \/ AdoptDelegates
  <2>1. /\ op.pc \in {"assign", "type", "clone", "adopt", "delegates"}
        /\ op'.pc \in {"type", "clone", "search", "delegates"}
        /\ ToAdd' = ToAdd /\ buckets' = buckets /\ count' = count
      BY <1>2, <1>3, SitesEffect
  <2>2. Lag = 0 /\ Lag' = 0
      BY <2>1 DEF Lag
  <2> QED
      BY <2>1, <2>2 DEF CountOK
<1>4. CASE Initialize \/ AllocateForCopy
  <2>1. /\ op.pc \in {"initialize", "allocate"} /\ op'.pc \in {"search", "assign", "adopt"}
        /\ ToAdd' = ToAdd /\ count' = count /\ LiveSlots(buckets') = {}
        /\ buckets'.length = IF op.pc = "initialize" THEN InitialBucketSize ELSE op.index
      BY <1>2, <1>4, AllocationEffect
  <2>2. count = 0
      BY <2>1 DEF CountOK, IInv, BucketsOK
  <2>3. ToAdd < buckets'.length
      BY <2>1, SizeAssumption DEF CountOK, ToAdd
  <2>4. Lag' = 0 /\ Cardinality({}) = 0
      BY <2>1, FS_EmptySet DEF Lag
  <2> QED
      BY <1>1, <2>1, <2>2, <2>3, <2>4 DEF CountOK
<1>5. CASE PublishGrown
  <2>1. /\ op.pc = "grow" /\ op.index = buckets.length /\ IsArray(buckets)
        /\ op.next # NoArray /\ IsArray(op.next) /\ buckets' = op.next /\ count' = count
      BY <1>5, PublishEffect
  <2>2. {i \in LiveSlots(buckets) : i < op.index} = LiveSlots(buckets)
      BY <2>1 DEF LiveSlots, IsArray
  <2>3. Lag = 0
      BY <2>1 DEF Lag
  <2>4. Cardinality(LiveSlots(buckets')) = count /\ count + ToAdd < buckets'.length
    <3>1. Cardinality(LiveSlots(op.next)) = Cardinality({i \in LiveSlots(buckets) : i < op.index})
        BY <2>1 DEF CountOK
    <3>2. Cardinality(LiveSlots(buckets)) = count + Lag /\ count + ToAdd < op.next.length
        BY <2>1 DEF CountOK
    <3> QED
        BY <1>1, <2>1, <2>2, <2>3, <3>1, <3>2
  <2>5. op'.pc \in {"free", "search", "assign", "adopt"} /\ ToAdd' \in {0, ToAdd}
    <3>1. CASE op.mode = "add" /\ Release
        BY <3>1, UnlockedFields DEF Release, ToAdd
    <3> QED
        BY <1>2, <1>5, <3>1, PublishEffect
  <2>6. Lag' = 0
      BY <2>5 DEF Lag
  <2>7. buckets'.length \in Nat
      BY <2>1 DEF IsArray
  <2>8. (count + ToAdd < buckets.length)'
      BY <1>1, <2>1, <2>4, <2>5, <2>7
  <2> QED
      BY <1>1, <2>1, <2>4, <2>5, <2>6, <2>8 DEF CountOK
<1>6. CASE ClearBuckets
  <2>1. buckets' = NewArray(ClearedBucketSize) /\ Goto("zero")
      BY <1>6 DEF ClearBuckets, Replace
  <2>2. op'.pc = "zero" /\ LiveSlots(buckets') = {}
      BY <1>1, <2>1, GotoEffect, NewArrayWellFormed, SizeAssumption
  <2> QED
      BY <2>2 DEF CountOK
<1> QED
    BY <1>3, <1>4, <1>5, <1>6

\* The steps that count, and those that find nothing to do.
LEMMA CountsKeepCount ==
    ASSUME IInv, CountOK, IncrementCount \/ DecrementCount \/ ZeroCount \/ RemoveNothing
    PROVE  CountOK'
<1>1. OpType(op) /\ ToAdd \in Nat /\ count \in Nat /\ op.rest \in Seq(Items)
    BY ToAddType DEF IInv, OpOK, OpType
<1>2. buckets # NoArray => IsArray(buckets) /\ buckets.length \in Nat \ {0}
    BY DEF IInv, BucketsOK, WellFormed, IsArray
<1>3. ASSUME op' = Unlocked, buckets' = buckets, Cardinality(LiveSlots(buckets)) = count',
             buckets # NoArray => count' < buckets.length, count' \in Nat
      PROVE  CountOK'
  <2>1. op'.pc = "free" /\ ToAdd' = 0 /\ Lag' = 0
      BY <1>3, UnlockedFields DEF ToAdd, Lag
  <2>2. (Cardinality(LiveSlots(buckets)) = count + Lag)'
    <3>1. count' + Lag' = count'
      <4>1. \A n \in Nat : n + 0 = n
          OBVIOUS
      <4>2. count' \in Nat
          BY <1>3
      <4> QED
          BY <2>1, <4>1, <4>2
    <3>2. LiveSlots(buckets') = LiveSlots(buckets)
        BY <1>3
    <3> QED
        BY <1>3, <3>1, <3>2
  <2>3. (buckets # NoArray => count + ToAdd < buckets.length)'
      BY <1>2, <1>3, <2>1
  <2> QED
      BY <2>1, <2>2, <2>3 DEF CountOK
<1>4. CASE DecrementCount
  <2>1. op.pc = "discount" /\ count' = count - 1 /\ op' = Unlocked /\ buckets' = buckets /\ count > 0
      BY <1>4 DEF DecrementCount, Release, IInv, OpOK
  <2>2. Lag = -1
      BY <2>1 DEF Lag
  <2>3. Cardinality(LiveSlots(buckets)) = count'
      BY <1>1, <2>1, <2>2 DEF CountOK
  <2>4. buckets # NoArray => count' < buckets.length
      BY <1>1, <1>2, <2>1 DEF CountOK
  <2> QED
      BY <1>1, <1>3, <2>1, <2>3, <2>4
<1>5. CASE ZeroCount
  <2>1. op.pc = "zero" /\ count' = 0 /\ op' = Unlocked /\ buckets' = buckets
      BY <1>5 DEF ZeroCount, Release
  <2>2. LiveSlots(buckets) = {} /\ Cardinality({}) = 0
      BY <2>1, FS_EmptySet DEF CountOK
  <2> QED
      BY <1>2, <1>3, <2>1, <2>2
<1>6. CASE RemoveNothing
  <2>1. op.pc = "remove" /\ count' = count /\ op' = Unlocked /\ buckets' = buckets
      BY <1>6 DEF RemoveNothing, Release, dict
  <2>2. Lag = 0
      BY <2>1 DEF Lag
  <2>3. Cardinality(LiveSlots(buckets)) = count'
      BY <1>1, <2>1, <2>2 DEF CountOK
  <2>4. buckets # NoArray => count' < buckets.length
      BY <1>1, <1>2, <2>1 DEF CountOK
  <2> QED
      BY <1>1, <1>3, <2>1, <2>3, <2>4
<1>7. CASE IncrementCount
  <2>1. op.pc = "count" /\ count' = count + 1 /\ buckets' = buckets /\ buckets # NoArray
      BY <1>7, IncrementEffect DEF IInv, BucketsOK
  <2>2. Lag = 1
      BY <2>1 DEF Lag
  <2>3. Cardinality(LiveSlots(buckets)) = count' /\ count + ToAdd < buckets.length /\ count' \in Nat
      BY <1>1, <2>1, <2>2 DEF CountOK
  <2>4. ASSUME op.mode = "add", op'.pc = "grow", SameItem, op'.index = 0,
               NEW size \in Nat \ {0}, size > buckets.length, op'.next = NewArray(size)
        PROVE  CountOK'
    <3>1. LiveSlots(op'.next) = {} /\ op'.next.length = size
        BY <2>4, NewArrayWellFormed
    <3>2. {i \in LiveSlots(buckets') : i < op'.index} = {}
        BY <1>2, <2>1, <2>4 DEF LiveSlots
    <3>3. Lag' = 0 /\ ToAdd' = 0 /\ ToAdd = 0
        BY <2>4 DEF Lag, ToAdd, SameItem
    <3>4. Cardinality(LiveSlots(op.next))' = Cardinality({i \in LiveSlots(buckets) : i < op.index})'
        BY <3>1, <3>2
    <3>5. (count + ToAdd < op.next.length)'
        BY <1>1, <1>2, <2>1, <2>3, <2>4, <3>1, <3>3
    <3> QED
        BY <2>1, <2>3, <2>4, <3>3, <3>4, <3>5 DEF CountOK
  <2>5. ASSUME NextItem, op.mode = "add" => count' < buckets.length
        PROVE  CountOK'
    <3>1. op.mode = "copy" => ToAdd = 1 + Len(op.rest) /\ Len(op.rest) \in Nat
        BY <1>1 DEF ToAdd
    <3>2. count' < buckets.length
        BY <1>1, <1>2, <2>1, <2>3, <2>5, <3>1 DEF OpType
    <3>3. CASE op' = Unlocked
        BY <1>3, <2>1, <2>3, <3>2, <3>3
    <3>4. CASE /\ op'.pc = "search" /\ op'.mode = op.mode
               /\ op'.rest \in Seq(Items) /\ Len(op'.rest) = Len(op.rest) - 1
      <4>1. Lag' = 0
          BY <3>4 DEF Lag
      <4>2. op.mode = "copy" => ToAdd' = ToAdd - 1
          BY <1>1, <3>1, <3>4 DEF ToAdd
      <4>3. op.mode # "copy" => ToAdd' = 0
          BY <3>4 DEF ToAdd
      <4>4. (count + ToAdd < buckets.length)'
          BY <1>1, <1>2, <2>1, <2>3, <3>2, <4>2, <4>3
      <4> QED
          BY <2>1, <2>3, <3>4, <4>1, <4>4 DEF CountOK
    <3> QED
        BY <1>1, <2>5, <3>3, <3>4, NextItemEffect
  <2> QED
      BY <1>7, <2>4, <2>5, IncrementEffect
<1> QED
    BY <1>4, <1>5, <1>6, <1>7

\* The array that is being filled holds as many keys as were rehashed.
LEMMA RehashKeepsCount ==
    ASSUME IInv, CountOK, RehashBucket
    PROVE  CountOK'
<1> DEFINE n == op.index
           Done(m) == {i \in LiveSlots(buckets) : i < m}
<1>1. /\ op.pc = "grow" /\ op'.pc = "grow" /\ SameItem /\ op'.index = n + 1
      /\ n \in 0 .. buckets.length - 1 /\ IsArray(buckets) /\ IsArray(op.next)
      /\ buckets.at[n] \in Bucket /\ UNCHANGED <<dict, reader, history>>
    BY RehashEffect
<1>2. /\ IsFiniteSet(LiveSlots(buckets)) /\ LiveSlots(buckets) \subseteq 0 .. buckets.length - 1
      /\ buckets.length \in Nat
    BY <1>1, LiveSlotsFinite DEF IsArrayOrNull, IsArray
<1>3. IsFiniteSet(Done(n)) /\ n \notin Done(n)
    BY <1>2, FS_Subset
<1>4. Done(n + 1) = IF n \in LiveSlots(buckets) THEN Done(n) \cup {n} ELSE Done(n)
    BY <1>1, <1>2
<1>5. Cardinality(LiveSlots(op.next)) = Cardinality(Done(n)) /\ count + ToAdd < op.next.length
    BY <1>1 DEF CountOK
<1> HIDE DEF Done
<1>6. Cardinality(LiveSlots(op'.next)) = Cardinality(Done(n + 1)) /\ op'.next.length = op.next.length
  <2>1. CASE n \notin LiveSlots(buckets) /\ op'.next = op.next
      BY <1>4, <1>5, <2>1
  <2>2. ASSUME n \in LiveSlots(buckets), NEW i \in 0 .. op.next.length - 1,
               op.next.at[i].key \notin Keys, op'.next = Write(op.next, i, buckets.at[n])
        PROVE  Cardinality(LiveSlots(op'.next)) = Cardinality(Done(n + 1))
               /\ op'.next.length = op.next.length
    <3>1. buckets.at[n].key \in Keys
        BY <2>2 DEF LiveSlots
    <3>2. Cardinality(LiveSlots(op'.next)) = Cardinality(LiveSlots(op.next)) + 1
        BY <1>1, <2>2, <3>1, WriteCount
    <3>3. Cardinality(Done(n + 1)) = Cardinality(Done(n)) + 1
        BY <1>3, <1>4, <2>2, FS_AddElement
    <3>4. Write(op.next, i, buckets.at[n]).length = op.next.length
        BY <1>1, <2>2, WriteType
    <3> QED
        BY <1>5, <2>2, <3>2, <3>3, <3>4
  <2> QED
      BY <2>1, <2>2, RehashEffect
<1>7. Lag' = 0 /\ Lag = 0 /\ ToAdd' = ToAdd
    BY <1>1 DEF Lag, ToAdd, SameItem
<1>8. Cardinality(LiveSlots(op.next))' = Cardinality({i \in LiveSlots(buckets) : i < op.index})'
    BY <1>1, <1>6 DEF Done, dict
<1>9. (Cardinality(LiveSlots(buckets)) = count + Lag)'
    BY <1>1, <1>7 DEF CountOK, dict
<1> QED
    BY <1>1, <1>5, <1>6, <1>7, <1>8, <1>9 DEF CountOK, dict

\* The dictionary begins empty.
LEMMA InitCount == Init => CountOK
<1> SUFFICES ASSUME Init PROVE CountOK
    OBVIOUS
<1>1. op.pc = "free" /\ op.mode = "add" /\ buckets = NoArray /\ count = 0
    BY UnlockedFields DEF Init
<1>2. LiveSlots(buckets) = {} /\ Cardinality({}) = 0
    BY <1>1, LiveSlotsFinite, FS_EmptySet DEF IsArrayOrNull
<1> QED
    BY <1>1, <1>2 DEF CountOK, Lag

\* Every step keeps the count in agreement.
LEMMA StepKeepsCount == IInv /\ CountOK /\ [Next]_vars => CountOK'
<1> SUFFICES ASSUME IInv, CountOK, [Next]_vars PROVE CountOK'
    OBVIOUS
<1>1. CASE Mutate
    BY <1>1, BeginsKeepCount
<1>2. CASE Progress
    BY <1>2, WritesKeepCount, ReplacementsKeepCount, CountsKeepCount, RehashKeepsCount DEF Progress
<1>3. ASSUME UNCHANGED <<buckets, count, op>> PROVE CountOK'
    BY <1>3 DEF CountOK, Lag, ToAdd
<1>4. ASSUME NEW r \in Readers,
             (\E k \in Keys : BeginLookup(r, k)) \/ Advance(r) \/ Return(r)
      PROVE  UNCHANGED <<buckets, count, op>>
    BY <1>4 DEF BeginLookup, Advance, ReadCount, ReadKeyType, ReadEqFunc, ReadKey, ReadBucket,
                Return, Read, dict
<1> QED
    BY <1>1, <1>2, <1>3, <1>4 DEF Next, vars, dict

\* The count is exact up to the step in progress.
THEOREM CountInvariance == Spec => []CountOK
BY InitCount, StepKeepsCount, Invariance, PTL DEF Spec

\* Between mutations the count is the number of keys in the array, and whatever
\* was removed, recycled, copied or rehashed, AddWorker finds a bucket.
THEOREM CountIsAlwaysExact == Spec => []CountIsExact
<1>1. ASSUME IInv, CountOK PROVE CountIsExact
  <2>1. CASE op.pc = "free"
    <3>1. buckets = NoArray => count = 0
        BY <1>1 DEF IInv, BucketsOK
    <3>2. Cardinality(LiveSlots(buckets)) = count + 0 /\ count \in Nat
        BY <1>1, <2>1 DEF CountOK, Lag, IInv
    <3> QED
        BY <2>1, <3>1, <3>2 DEF CountIsExact
  <2>2. CASE op.pc = "search"
    <3>1. op.key \in Keys /\ OpType(op) /\ buckets # NoArray /\ IsArray(buckets)
        BY <1>1, <2>2, WritersHaveArray
    <3>2. /\ Cardinality(LiveSlots(buckets)) = count + 0 /\ count \in Nat /\ ToAdd \in Nat
          /\ count + ToAdd < buckets.length /\ buckets.length \in Nat
        BY <1>1, <2>2, <3>1, ToAddType DEF CountOK, Lag, IInv, IsArray
    <3>3. count < buckets.length
        BY <3>2
    <3>4. HasRoom(buckets, op.key)
        BY <3>1, <3>2, <3>3, SpareBucketIsFound
    <3> QED
        BY <2>2, <3>3, <3>4 DEF CountIsExact
  <2> QED
      BY <2>1, <2>2 DEF CountIsExact
<1> QED
    BY <1>1, Invariance, CountInvariance, PTL

-----------------------------------------------------------------------------
(* The array shows the mapping that a dictionary would have.                 *)

\* What a dictionary can bind.
Mappings == [Keys -> Values \cup {Null, Absent}]

\* The array binds the keys that the mapping m binds, to the same values.
Represents(a, m) ==
    /\ \A i \in LiveSlots(a) : m[a.at[i].key] = a.at[i].value
    /\ \A k \in Keys : m[k] # Absent => \E i \in LiveSlots(a) : a.at[i].key = k

\* The array already shows what the mutation leaves, or not yet.
InEffect ==
    \/ op.pc \in {"count", "forget", "discount", "zero"}
    \/ op.pc = "grow" /\ op.mode = "add"

\* The mapping that the array shows.
Mapped == IF InEffect THEN after ELSE before

\* An item is to be added that the array does not show yet.
Adding == ~InEffect /\ op.pc \notin {"free", "remove", "clear"}

\* The buckets of a before bucket n, and no others, are in b.
Rehashed(b, a, n) ==
    /\ \A j \in LiveSlots(b) : \E i \in LiveSlots(a) : i < n /\ b.at[j] = a.at[i]
    /\ \A i \in LiveSlots(a) : i < n => \E j \in LiveSlots(b) : b.at[j] = a.at[i]

MappingOK ==
    /\ before \in Mappings /\ after \in Mappings
    /\ Represents(buckets, Mapped)
    /\ op.pc = "free" => after = before
    /\ Adding \/ op.pc = "count" => after = [before EXCEPT ![op.key] = op.value]
    /\ op.pc \in {"value", "key", "count"} => before[op.key] = Absent
    /\ op.pc = "remove" => after = [before EXCEPT ![op.key] = Absent]
    /\ op.pc \in {"clear", "zero"} => after = [k \in Keys |-> Absent]
    /\ op.pc = "key" => buckets.at[op.index].value = op.value
    /\ op.pc = "grow" => Rehashed(op.next, buckets, op.index)

\* Binding a key: in its own bucket, or in one without a key if it was not bound.
LEMMA RepresentsBinding ==
    ASSUME NEW a, WellFormed(a), NEW m \in Mappings, Represents(a, m),
           NEW i \in 0 .. a.length - 1, NEW b \in Bucket, NEW k \in Keys, b.key = k,
           a.at[i].key = k \/ (a.at[i].key \notin Keys /\ \A j \in LiveSlots(a) : a.at[j].key # k)
    PROVE  Represents(Write(a, i, b), [m EXCEPT ![k] = b.value])
<1> DEFINE w == Write(a, i, b)
           new == [m EXCEPT ![k] = b.value]
<1>1. /\ LiveSlots(w) = LiveSlots(a) \cup {i} /\ w.at[i] = b
      /\ \A j \in 0 .. a.length - 1 : j # i => w.at[j] = a.at[j]
      /\ LiveSlots(a) \subseteq 0 .. a.length - 1
    BY WriteLive DEF WellFormed, LiveSlots
<1>2. new[k] = b.value /\ \A l \in Keys : l # k => new[l] = m[l]
    BY DEF Mappings
<1>3. \A j \in LiveSlots(a) : a.at[j].key \in Keys /\ (j # i => a.at[j].key # k)
    BY DEF WellFormed, NoDuplicates, LiveSlots
<1> HIDE DEF w, new
<1>4. ASSUME NEW j \in LiveSlots(w) PROVE new[w.at[j].key] = w.at[j].value
    BY <1>1, <1>2, <1>3 DEF Represents
<1>5. ASSUME NEW l \in Keys, new[l] # Absent PROVE \E j \in LiveSlots(w) : w.at[j].key = l
  <2>1. CASE l = k
      BY <1>1, <2>1
  <2>2. CASE l # k
    <3>1. PICK j \in LiveSlots(a) : a.at[j].key = l
        BY <1>2, <1>5, <2>2 DEF Represents
    <3>2. j # i
        BY <2>2, <3>1 DEF LiveSlots
    <3> QED
        BY <1>1, <3>1, <3>2
  <2> QED
      BY <2>1, <2>2
<1> QED
    BY <1>4, <1>5 DEF Represents, w, new

\* Unbinding a key: its bucket loses it.
LEMMA RepresentsUnbinding ==
    ASSUME NEW a, WellFormed(a), NEW m \in Mappings, Represents(a, m),
           NEW i \in LiveSlots(a), NEW b \in Bucket, b.key \notin Keys
    PROVE  Represents(Write(a, i, b), [m EXCEPT ![a.at[i].key] = Absent])
<1> DEFINE w == Write(a, i, b)
           k == a.at[i].key
           new == [m EXCEPT ![k] = Absent]
<1>1. /\ LiveSlots(w) = LiveSlots(a) \ {i} /\ i \in 0 .. a.length - 1 /\ k \in Keys
      /\ \A j \in 0 .. a.length - 1 : j # i => w.at[j] = a.at[j]
      /\ LiveSlots(a) \subseteq 0 .. a.length - 1
    BY WriteLive DEF WellFormed, LiveSlots
<1>2. new[k] = Absent /\ \A l \in Keys : l # k => new[l] = m[l]
    BY <1>1 DEF Mappings
<1>3. \A j \in LiveSlots(a) : a.at[j].key \in Keys /\ (j # i => a.at[j].key # k)
    BY DEF WellFormed, NoDuplicates, LiveSlots
<1> HIDE DEF w, new
<1>4. ASSUME NEW j \in LiveSlots(w) PROVE new[w.at[j].key] = w.at[j].value
    BY <1>1, <1>2, <1>3 DEF Represents
<1>5. ASSUME NEW l \in Keys, new[l] # Absent PROVE \E j \in LiveSlots(w) : w.at[j].key = l
  <2>1. PICK j \in LiveSlots(a) : a.at[j].key = l
      BY <1>2, <1>5 DEF Represents
  <2> QED
      BY <1>1, <1>2, <1>5, <2>1
<1> QED
    BY <1>4, <1>5 DEF Represents, w, new

\* Writing a bucket without a key binds and unbinds nothing.
LEMMA RepresentsQuiet ==
    ASSUME NEW a, IsArray(a), NEW m, Represents(a, m),
           NEW i \in 0 .. a.length - 1, NEW b \in Bucket, b.key \notin Keys, a.at[i].key \notin Keys
    PROVE  Represents(Write(a, i, b), m)
<1> DEFINE w == Write(a, i, b)
<1>1. /\ LiveSlots(w) = LiveSlots(a) /\ i \notin LiveSlots(a)
      /\ \A j \in 0 .. a.length - 1 : j # i => w.at[j] = a.at[j]
      /\ LiveSlots(a) \subseteq 0 .. a.length - 1
    BY WriteLive DEF LiveSlots
<1> HIDE DEF w
<1>2. \A j \in LiveSlots(a) : w.at[j] = a.at[j]
    BY <1>1
<1> QED
    BY <1>1, <1>2 DEF Represents, w

\* An array that holds the same buckets binds the same keys.
LEMMA RepresentsRehashed ==
    ASSUME NEW a, IsArray(a), NEW b, NEW m, Represents(a, m), Rehashed(b, a, a.length)
    PROVE  Represents(b, m)
<1>1. \A i \in LiveSlots(a) : i < a.length
    BY DEF LiveSlots, IsArray
<1>2. ASSUME NEW j \in LiveSlots(b) PROVE m[b.at[j].key] = b.at[j].value
  <2>1. PICK i \in LiveSlots(a) : b.at[j] = a.at[i]
      BY DEF Rehashed
  <2> QED
      BY <2>1 DEF Represents
<1>3. ASSUME NEW k \in Keys, m[k] # Absent PROVE \E j \in LiveSlots(b) : b.at[j].key = k
  <2>1. PICK i \in LiveSlots(a) : a.at[i].key = k
      BY <1>3 DEF Represents
  <2>2. PICK j \in LiveSlots(b) : b.at[j] = a.at[i]
      BY <1>1 DEF Rehashed
  <2> QED
      BY <2>1, <2>2
<1> QED
    BY <1>2, <1>3 DEF Represents

\* An array without keys binds nothing.
LEMMA RepresentsNothing ==
    ASSUME NEW a, LiveSlots(a) = {}, NEW m
    PROVE  Represents(a, m) <=> \A k \in Keys : m[k] = Absent
BY DEF Represents

\* What a mutation is about to do when it begins.
LEMMA BeginEffect ==
    ASSUME IInv, Mutate
    PROVE  /\ op.pc = "free" /\ UNCHANGED <<dict, reader, before>>
           /\ op'.mode \in {"add", "copy"}
           /\ Expect(after') /\ copied' = (copied \/ op'.mode = "copy")
           /\ \/ /\ op'.mode = "add" /\ op'.pc \in {"initialize", "search", "assign"}
                 /\ buckets # NoArray => op'.pc = SitesStep(op'.type)
                 /\ op'.type = TypeOf[op'.key]
                 /\ op'.rest = <<>> /\ op'.key \in Keys /\ op'.value \in Values
                 /\ after' = [after EXCEPT ![op'.key] = op'.value]
              \/ /\ op'.mode = "copy" /\ op'.pc \in {"allocate", "search", "assign", "adopt", "grow"}
                 /\ op'.pc = "grow" => op'.index = 0 /\ LiveSlots(op'.next) = {}
                 /\ op'.key \in Keys /\ op'.value \in Values
                 /\ after' = [after EXCEPT ![op'.key] = op'.value]
              \/ /\ op'.mode = "add" /\ op'.pc = "remove" /\ op'.key \in Keys /\ op'.rest = <<>>
                 /\ after' = [after EXCEPT ![op'.key] = Absent]
              \/ /\ op'.mode = "add" /\ op'.pc = "clear" /\ op'.rest = <<>>
                 /\ after' = [k \in Keys |-> Absent]
<1>1. ASSUME NEW o, NEW m, Begin(o, m), o.mode \in {"add", "copy"}
      PROVE  /\ op.pc = "free" /\ UNCHANGED <<dict, reader, before>> /\ op' = o /\ after' = m
             /\ op'.mode \in {"add", "copy"}
             /\ Expect(after') /\ copied' = (copied \/ op'.mode = "copy")
    BY <1>1 DEF Begin, Expect
<1>2. OpType(Unlocked)
    BY UnlockedType
<1>3. ASSUME NEW k \in Keys, NEW v \in Values, BeginAdd(k, v)
      PROVE  /\ op.pc = "free" /\ UNCHANGED <<dict, reader, before>>
             /\ Expect(after') /\ copied' = (copied \/ op'.mode = "copy")
             /\ op'.mode = "add" /\ op'.pc \in {"initialize", "search", "assign"}
             /\ buckets # NoArray => op'.pc = SitesStep(op'.type)
             /\ op'.type = TypeOf[op'.key]
             /\ op'.rest = <<>> /\ op'.key \in Keys /\ op'.value \in Values
             /\ after' = [after EXCEPT ![op'.key] = op'.value]
  <2> DEFINE pc == IF buckets = NoArray THEN "initialize" ELSE SitesStep(TypeOf[k])
             o == [Unlocked EXCEPT !.pc = pc, !.type = TypeOf[k], !.key = k, !.value = v]
  <2>1. pc \in {"initialize", "search", "assign"} /\ (buckets # NoArray => pc = SitesStep(TypeOf[k]))
      BY DEF SitesStep
  <2>2. o.pc = pc /\ o.type = TypeOf[k] /\ o.key = k /\ o.value = v /\ o.mode = "add" /\ o.rest = <<>>
      BY DEF Unlocked
  <2>3. Begin(o, [after EXCEPT ![k] = v])
      BY <1>3 DEF BeginAdd
  <2> HIDE DEF o, pc
  <2> QED
      BY <1>1, <2>1, <2>2, <2>3
<1>4. ASSUME NEW k \in Keys, BeginRemove(k)
      PROVE  /\ op.pc = "free" /\ UNCHANGED <<dict, reader, before>>
             /\ Expect(after') /\ copied' = (copied \/ op'.mode = "copy")
             /\ op'.mode = "add" /\ op'.pc = "remove" /\ op'.key \in Keys /\ op'.rest = <<>>
             /\ after' = [after EXCEPT ![op'.key] = Absent]
  <2> DEFINE o == [Unlocked EXCEPT !.pc = "remove", !.key = k]
  <2>1. o.pc = "remove" /\ o.key = k /\ o.mode = "add" /\ o.rest = <<>>
      BY DEF Unlocked
  <2>2. Begin(o, [after EXCEPT ![k] = Absent])
      BY <1>4 DEF BeginRemove
  <2> HIDE DEF o
  <2> QED
      BY <1>1, <2>1, <2>2
<1>5. ASSUME BeginClear
      PROVE  /\ op.pc = "free" /\ UNCHANGED <<dict, reader, before>>
             /\ Expect(after') /\ copied' = (copied \/ op'.mode = "copy")
             /\ op'.mode = "add" /\ op'.pc = "clear" /\ op'.rest = <<>>
             /\ after' = [k \in Keys |-> Absent]
  <2> DEFINE o == [Unlocked EXCEPT !.pc = "clear"]
  <2>1. o.pc = "clear" /\ o.mode = "add" /\ o.rest = <<>>
      BY DEF Unlocked
  <2>2. Begin(o, [k \in Keys |-> Absent])
      BY <1>5 DEF BeginClear
  <2> HIDE DEF o
  <2> QED
      BY <1>1, <2>1, <2>2
<1>6. ASSUME NEW source \in Sources, BeginCopyIntoNull(source) \/ BeginCopy(source)
      PROVE  /\ op.pc = "free" /\ UNCHANGED <<dict, reader, before>>
             /\ Expect(after') /\ copied' = (copied \/ op'.mode = "copy")
             /\ op'.mode = "copy" /\ op'.pc \in {"allocate", "search", "assign", "adopt", "grow"}
             /\ op'.pc = "grow" => op'.index = 0 /\ LiveSlots(op'.next) = {}
             /\ op'.key \in Keys /\ op'.value \in Values
             /\ after' = [after EXCEPT ![op'.key] = op'.value]
  <2> DEFINE copy == CopyOf(source)
             first == FirstBound(source)
  <2>1. OpType(copy) /\ copy.mode = "copy" /\ copy.index = 0 /\ copy.key \in Keys /\ copy.value \in Values
      BY CopyFields
  <2>2. first = [after EXCEPT ![copy.key] = copy.value]
      BY CopyFields DEF FirstBound
  <2>3. ASSUME NEW o, Begin(o, first), o.mode = "copy", o.key = copy.key, o.value = copy.value,
               o.pc \in {"allocate", "search", "assign", "adopt", "grow"},
               o.pc = "grow" => o.index = 0 /\ LiveSlots(o.next) = {}
        PROVE  /\ op.pc = "free" /\ UNCHANGED <<dict, reader, before>>
               /\ Expect(after') /\ copied' = (copied \/ op'.mode = "copy")
               /\ op'.mode = "copy" /\ op'.pc \in {"allocate", "search", "assign", "adopt", "grow"}
               /\ op'.pc = "grow" => op'.index = 0 /\ LiveSlots(op'.next) = {}
               /\ op'.key \in Keys /\ op'.value \in Values
               /\ after' = [after EXCEPT ![op'.key] = op'.value]
      BY <1>1, <2>1, <2>2, <2>3
  <2>4. CASE BeginCopyIntoNull(source)
    <3> DEFINE o == [copy EXCEPT !.pc = "allocate", !.index = source.length]
    <3>1. Begin(o, first)
        BY <2>4 DEF BeginCopyIntoNull
    <3> HIDE DEF copy, first
    <3>2. o.pc = "allocate" /\ o.mode = "copy" /\ o.key = copy.key /\ o.value = copy.value
        BY <2>1 DEF OpType
    <3> HIDE DEF o
    <3> QED
        BY <2>3, <3>1, <3>2
  <2>5. CASE BeginCopy(source)
    <3>1. PICK size \in CopySizes(source.items) :
              Begin(IF size > buckets.length
                    THEN [copy EXCEPT !.pc = "grow", !.next = NewArray(size)]
                    ELSE [copy EXCEPT !.pc = CopySites(source.keyType)], first)
        BY <2>5 DEF BeginCopy
    <3>2. buckets # NoArray /\ IsArray(buckets) /\ count \in Nat
        BY <2>5 DEF BeginCopy, IInv, BucketsOK, WellFormed
    <3>3. size \in Nat \ {0}
        BY <3>2, CopyFits, SourcesAssumption
    <3> HIDE DEF copy, first
    <3>4. CASE size > buckets.length
      <4> DEFINE o == [copy EXCEPT !.pc = "grow", !.next = NewArray(size)]
      <4>1. Begin(o, first)
          BY <3>1, <3>4
      <4>2. /\ o.pc = "grow" /\ o.mode = "copy" /\ o.key = copy.key /\ o.value = copy.value
            /\ o.index = 0 /\ o.next = NewArray(size)
          BY <2>1 DEF OpType
      <4>3. LiveSlots(NewArray(size)) = {}
          BY <3>3, NewArrayWellFormed
      <4> HIDE DEF o
      <4> QED
          BY <2>3, <4>1, <4>2, <4>3
    <3>5. CASE ~(size > buckets.length)
      <4> DEFINE o == [copy EXCEPT !.pc = CopySites(source.keyType)]
      <4>1. Begin(o, first)
          BY <3>1, <3>5
      <4>2. CopySites(source.keyType) \in {"search", "assign", "adopt"}
          BY DEF CopySites, SitesStep
      <4>3. o.pc \in {"search", "assign", "adopt"} /\ o.mode = "copy" /\ o.key = copy.key
            /\ o.value = copy.value
          BY <2>1, <4>2 DEF OpType
      <4> HIDE DEF o
      <4> QED
          BY <2>3, <4>1, <4>3
    <3> QED
        BY <3>4, <3>5
  <2> QED
      BY <1>6, <2>4, <2>5
<1> QED
    BY <1>3, <1>4, <1>5, <1>6 DEF Mutate

\* An unbound key has no value.
LEMMA AbsentIsNoValue == Absent \notin Values /\ Absent # Null
BY AbsentAssumption

\* Binding or unbinding a key gives a mapping.
LEMMA MappingsClosed ==
    ASSUME NEW m \in Mappings, NEW k \in Keys, NEW v \in Values \cup {Null, Absent}
    PROVE  [m EXCEPT ![k] = v] \in Mappings
BY DEF Mappings

\* A mutation that begins has not changed the array.
LEMMA BeginsKeepMapping ==
    ASSUME IInv, MappingOK, Mutate
    PROVE  MappingOK'
<1>1. /\ op.pc = "free" /\ buckets' = buckets /\ before' = before /\ after = before
      /\ before \in Mappings /\ Represents(buckets, before)
    BY BeginEffect DEF MappingOK, InEffect, Mapped, dict
<1>2. ASSUME op'.mode \in {"add", "copy"}, op'.key \in Keys, op'.value \in Values,
             op'.pc \in {"initialize", "search", "assign"}
                \/ (op'.mode = "copy" /\ op'.pc \in {"allocate", "adopt", "grow"}),
             op'.pc = "grow" => op'.index = 0 /\ LiveSlots(op'.next) = {},
             after' = [after EXCEPT ![op'.key] = op'.value]
      PROVE  MappingOK'
  <2>1. ~InEffect'
      BY <1>2 DEF InEffect
  <2>2. after' \in Mappings /\ after' = [before EXCEPT ![op'.key] = op'.value]
      BY <1>1, <1>2, MappingsClosed
  <2>3. Represents(buckets, Mapped)'
      BY <1>1, <2>1 DEF Mapped
  <2>4. IsArrayOrNull(buckets)
      BY DEF IInv, BucketsOK, WellFormed, IsArrayOrNull
  <2>5. op'.pc = "grow" => Rehashed(op'.next, buckets', op'.index)
      BY <1>1, <1>2, <2>4, LiveSlotsFinite DEF Rehashed
  <2> QED
      BY <1>1, <1>2, <2>1, <2>2, <2>3, <2>5 DEF MappingOK
<1>3. ASSUME op'.pc = "remove", op'.key \in Keys, after' = [after EXCEPT ![op'.key] = Absent]
      PROVE  MappingOK'
  <2>1. ~InEffect' /\ ~Adding'
      BY <1>3 DEF InEffect, Adding
  <2>2. after' \in Mappings
      BY <1>1, <1>3, MappingsClosed
  <2> QED
      BY <1>1, <1>3, <2>1, <2>2 DEF MappingOK, Mapped
<1>4. ASSUME op'.pc = "clear", after' = [k \in Keys |-> Absent]
      PROVE  MappingOK'
  <2>1. ~InEffect' /\ ~Adding'
      BY <1>4 DEF InEffect, Adding
  <2>2. after' \in Mappings
      BY <1>4 DEF Mappings
  <2> QED
      BY <1>1, <1>4, <2>1, <2>2 DEF MappingOK, Mapped
<1> QED
    BY <1>2, <1>3, <1>4, BeginEffect

\* When the array shows what the mutation leaves, the lock can be released.
LEMMA ReleaseKeepsMapping ==
    ASSUME MappingOK, Represents(buckets', after), op' = Unlocked, before' = after, after' = after
    PROVE  MappingOK'
<1>1. op'.pc = "free" /\ ~InEffect' /\ ~Adding'
    BY UnlockedFields DEF InEffect, Adding
<1> QED
    BY <1>1 DEF MappingOK, Mapped

\* The next item of a copy is one that the array does not show yet.
LEMMA NextItemKeepsMapping ==
    ASSUME IInv, MappingOK, NextItem, Represents(buckets', after)
    PROVE  MappingOK'
<1>1. OpType(op)
    BY DEF IInv, OpOK
<1>2. CASE op' = Unlocked /\ before' = after /\ after' = after
    BY <1>2, ReleaseKeepsMapping
<1>3. CASE /\ before' = after /\ op'.pc = "search" /\ op'.key \in Keys /\ op'.value \in Values
           /\ Expect([after EXCEPT ![op'.key] = op'.value])
  <2>1. ~InEffect'
      BY <1>3 DEF InEffect
  <2>2. after' = [after EXCEPT ![op'.key] = op'.value] /\ after \in Mappings
      BY <1>3 DEF Expect, MappingOK
  <2>3. after' \in Mappings /\ after' = [before' EXCEPT ![op'.key] = op'.value]
      BY <1>3, <2>2, MappingsClosed
  <2> QED
      BY <1>3, <2>1, <2>2, <2>3 DEF MappingOK, Mapped
<1> QED
    BY <1>1, <1>2, <1>3, NextItemEffect

\* The steps that write a bucket.
LEMMA WritesKeepMapping ==
    ASSUME IInv, MappingOK,
           Update \/ WriteHash \/ WriteValue \/ WriteKey \/ RemoveKey \/ ForgetValue
    PROVE  MappingOK'
<1>1. OpType(op) /\ before \in Mappings /\ after \in Mappings /\ Represents(buckets, Mapped)
    BY DEF IInv, OpOK, MappingOK
<1>2. ASSUME NEW i, NEW b, Writes(i, b), b.key \notin Keys, buckets.at[i].key \notin Keys, NEW m,
             Represents(buckets, m)
      PROVE  Represents(buckets', m) /\ buckets'.at[i] = b
    BY <1>2, RepresentsQuiet, WriteLive DEF Writes
<1>3. CASE Update
  <2>1. PICK i \in LiveSlots(buckets), b \in Bucket :
            Writes(i, b) /\ buckets.at[i].key = op.key /\ b.key = op.key /\ b.value = op.value
      BY <1>3, UpdateEffect
  <2>2. op.pc = "search" /\ NextItem
      BY <1>3, UpdateEffect
  <2>3. Represents(buckets, before) /\ after = [before EXCEPT ![op.key] = op.value] /\ op.key \in Keys
      BY <1>1, <2>1, <2>2 DEF MappingOK, Mapped, InEffect, Adding, LiveSlots
  <2>4. Represents(buckets', after)
      BY <1>1, <2>1, <2>3, RepresentsBinding DEF Writes
  <2> QED
      BY <2>2, <2>4, NextItemKeepsMapping
<1>4. CASE WriteHash
  <2>1. /\ op.pc = "search" /\ op'.pc = "value" /\ SameItem /\ UNCHANGED history
        /\ \A j \in LiveSlots(buckets) : buckets.at[j].key # op.key
      BY <1>4, WriteHashEffect
  <2>2. PICK b \in Bucket :
            Writes(op'.index, b) /\ buckets.at[op'.index].key \notin Keys /\ b.key \notin Keys
      BY <1>4, WriteHashEffect
  <2>3. ~InEffect /\ ~InEffect' /\ Adding /\ op.key \in Keys
      BY <2>1 DEF InEffect, Adding, IInv, OpOK
  <2>4. Represents(buckets, before)
      BY <1>1, <2>3 DEF Mapped
  <2>5. before[op.key] = Absent
      BY <2>1, <2>3, <2>4 DEF Represents
  <2>6. Represents(buckets', before)
      BY <1>2, <2>2, <2>4
  <2> QED
      BY <1>1, <2>1, <2>3, <2>5, <2>6 DEF MappingOK, Mapped, SameItem, history
<1>5. CASE WriteValue
  <2>1. /\ op.pc = "value" /\ op'.pc = "key" /\ SameItem /\ UNCHANGED history /\ op'.index = op.index
      BY <1>5, WriteValueEffect
  <2>2. PICK b \in Bucket :
            Writes(op.index, b) /\ b.value = op.value
            /\ buckets.at[op.index].key \notin Keys /\ b.key \notin Keys
      BY <1>5, WriteValueEffect
  <2>3. ~InEffect /\ ~InEffect' /\ Adding
      BY <2>1 DEF InEffect, Adding
  <2>4. Represents(buckets', before) /\ buckets'.at[op.index].value = op.value
      BY <1>1, <1>2, <2>2, <2>3 DEF Mapped
  <2> QED
      BY <1>1, <2>1, <2>3, <2>4 DEF MappingOK, Mapped, SameItem, history
<1>6. CASE WriteKey
  <2>1. /\ op.pc = "key" /\ op'.pc = "count" /\ SameItem /\ UNCHANGED history
        /\ \A j \in LiveSlots(buckets) : buckets.at[j].key # op.key
      BY <1>6, WriteKeyEffect
  <2>2. PICK b \in Bucket :
            /\ Writes(op.index, b) /\ b.value = buckets.at[op.index].value
            /\ op.key \in Keys /\ b.key = op.key /\ buckets.at[op.index].key \notin Keys
      BY <1>6, WriteKeyEffect
  <2>3. ~InEffect /\ InEffect' /\ Adding
      BY <2>1 DEF InEffect, Adding
  <2>4. Represents(buckets, before) /\ after = [before EXCEPT ![op.key] = op.value] /\ b.value = op.value
      BY <1>1, <2>1, <2>2, <2>3 DEF Mapped, MappingOK
  <2>5. Represents(buckets', after)
      BY <1>1, <2>1, <2>2, <2>4, RepresentsBinding DEF Writes
  <2> QED
      BY <1>1, <2>1, <2>3, <2>4, <2>5 DEF MappingOK, Mapped, SameItem, history
<1>7. CASE RemoveKey
  <2>1. op.pc = "remove" /\ op'.pc = "forget" /\ SameItem /\ UNCHANGED history
      BY <1>7, RemoveKeyEffect
  <2>2. PICK i \in LiveSlots(buckets), b \in Bucket :
            Writes(i, b) /\ buckets.at[i].key = op.key /\ b.key \notin Keys
      BY <1>7, RemoveKeyEffect
  <2>3. ~InEffect /\ InEffect' /\ ~Adding'
      BY <2>1 DEF InEffect, Adding
  <2>4. Represents(buckets, before) /\ after = [before EXCEPT ![op.key] = Absent]
      BY <1>1, <2>1, <2>3 DEF Mapped, MappingOK
  <2>5. Represents(buckets', after)
      BY <1>1, <2>2, <2>4, RepresentsUnbinding DEF Writes
  <2> QED
      BY <1>1, <2>1, <2>3, <2>5 DEF MappingOK, Mapped, history
<1>8. CASE ForgetValue
  <2>1. op.pc = "forget" /\ op'.pc = "discount" /\ SameItem /\ UNCHANGED history
      BY <1>8, ForgetValueEffect
  <2>2. PICK b \in Bucket :
            Writes(op.index, b) /\ buckets.at[op.index].key \notin Keys /\ b.key \notin Keys
      BY <1>8, ForgetValueEffect
  <2>3. InEffect /\ InEffect' /\ ~Adding'
      BY <2>1 DEF InEffect, Adding
  <2>4. Represents(buckets', after)
      BY <1>1, <1>2, <2>2, <2>3 DEF Mapped
  <2> QED
      BY <1>1, <2>1, <2>3, <2>4 DEF MappingOK, Mapped, history
<1> QED
    BY <1>3, <1>4, <1>5, <1>6, <1>7, <1>8

\* The steps that replace the array, or change the delegates, bind nothing.
LEMMA ReplacementsKeepMapping ==
    ASSUME IInv, CountOK, MappingOK,
           \/ AssignSites \/ SetKeyType \/ CloneBuckets \/ AdoptKeyType \/ AdoptDelegates
           \/ Initialize \/ AllocateForCopy \/ PublishGrown \/ ClearBuckets
    PROVE  MappingOK'
<1>1. OpType(op) /\ before \in Mappings /\ after \in Mappings /\ Represents(buckets, Mapped)
    BY DEF IInv, OpOK, MappingOK
<1>2. ASSUME Adding, Adding', op'.pc \notin {"value", "key", "count", "grow"}, SameItem,
             UNCHANGED history, Represents(buckets', before)
      PROVE  MappingOK'
  <2>1. ~InEffect /\ ~InEffect' /\ op'.pc \notin {"free", "remove", "clear", "zero"}
      BY <1>2 DEF Adding, InEffect
  <2> QED
      BY <1>1, <1>2, <2>1 DEF MappingOK, Mapped, SameItem, history
<1>3. CASE AssignSites \/ SetKeyType \/ CloneBuckets \/ AdoptKeyType \/ AdoptDelegates
  <2>1. /\ op.pc \in {"assign", "type", "clone", "adopt", "delegates"}
        /\ op'.pc \in {"type", "clone", "search", "delegates"}
        /\ SameItem /\ buckets' = buckets /\ UNCHANGED history
      BY <1>3, SitesEffect
  <2>2. Adding /\ Adding' /\ ~InEffect
      BY <2>1 DEF Adding, InEffect
  <2> QED
      BY <1>1, <1>2, <2>1, <2>2 DEF Mapped
<1>4. CASE Initialize \/ AllocateForCopy
  <2>1. /\ op.pc \in {"initialize", "allocate"} /\ op'.pc \in {"search", "assign", "adopt"}
        /\ SameItem /\ LiveSlots(buckets') = {} /\ UNCHANGED history
      BY <1>4, AllocationEffect
  <2>2. Adding /\ Adding' /\ ~InEffect
      BY <2>1 DEF Adding, InEffect
  <2>3. LiveSlots(buckets) = {}
      BY <2>1, LiveSlotsFinite DEF CountOK, IsArrayOrNull
  <2>4. Represents(buckets', before)
      BY <1>1, <2>1, <2>2, <2>3, RepresentsNothing DEF Mapped
  <2> QED
      BY <1>2, <2>1, <2>2, <2>4
<1>5. CASE PublishGrown
  <2>1. /\ op.pc = "grow" /\ op.index = buckets.length /\ IsArray(buckets) /\ buckets' = op.next
        /\ (op.mode = "add" /\ Release) \/
           (/\ op.mode = "copy" /\ op'.pc \in {"search", "assign", "adopt"}
            /\ SameItem /\ UNCHANGED history)
      BY <1>5, PublishEffect
  <2>2. Represents(buckets', Mapped)
      BY <1>1, <2>1, RepresentsRehashed DEF MappingOK
  <2>3. CASE op.mode = "add" /\ Release
    <3>1. Mapped = after
        BY <2>1, <2>3 DEF Mapped, InEffect
    <3> QED
        BY <2>2, <2>3, <3>1, ReleaseKeepsMapping DEF Release
  <2>4. CASE /\ op.mode = "copy" /\ op'.pc \in {"search", "assign", "adopt"}
             /\ SameItem /\ UNCHANGED history
    <3>1. Adding /\ Adding' /\ ~InEffect
        BY <2>1, <2>4 DEF Adding, InEffect
    <3> QED
        BY <1>2, <2>2, <2>4, <3>1 DEF Mapped
  <2> QED
      BY <2>1, <2>3, <2>4
<1>6. CASE ClearBuckets
  <2>1. op.pc = "clear" /\ buckets' = NewArray(ClearedBucketSize) /\ Goto("zero")
      BY <1>6 DEF ClearBuckets, Replace
  <2>2. op'.pc = "zero" /\ LiveSlots(buckets') = {} /\ UNCHANGED history
      BY <1>1, <2>1, GotoEffect, NewArrayWellFormed, SizeAssumption
  <2>3. InEffect' /\ ~Adding'
      BY <2>2 DEF InEffect, Adding
  <2>4. after = [k \in Keys |-> Absent]
      BY <2>1 DEF MappingOK
  <2>5. Represents(buckets', after)
      BY <2>2, <2>4, RepresentsNothing
  <2> QED
      BY <1>1, <2>2, <2>3, <2>4, <2>5 DEF MappingOK, Mapped, history
<1> QED
    BY <1>3, <1>4, <1>5, <1>6

\* A key that is not there when it is removed was not bound.
LEMMA NothingToRemove ==
    ASSUME IInv, CountOK, MappingOK, op.pc = "remove", count > 0 => Matches(buckets, op.key) = {}
    PROVE  after = before
<1>1. op.key \in Keys /\ before \in Mappings /\ after = [before EXCEPT ![op.key] = Absent]
      /\ Represents(buckets, before)
    BY DEF IInv, OpOK, MappingOK, Mapped, InEffect
<1>2. \A i \in LiveSlots(buckets) : buckets.at[i].key # op.key
  <2>1. CASE count > 0
    <3>1. buckets # NoArray /\ WellFormed(buckets)
        BY <2>1 DEF IInv, BucketsOK
    <3> QED
        BY <1>1, <2>1, <3>1, NoMatchNoKey
  <2>2. CASE ~(count > 0)
    <3>1. count = 0 /\ Lag = 0
        BY <2>2 DEF IInv, Lag
    <3>2. Cardinality(LiveSlots(buckets)) = 0
      <4>1. Cardinality(LiveSlots(buckets)) = count + Lag
          BY DEF CountOK
      <4> QED
          BY <3>1, <4>1
    <3>3. IsArrayOrNull(buckets)
        BY DEF IInv, BucketsOK, WellFormed, IsArrayOrNull
    <3>4. LiveSlots(buckets) = {}
        BY <3>2, <3>3, LiveSlotsFinite, FS_EmptySet
    <3> QED
        BY <3>4
  <2> QED
      BY <2>1, <2>2
<1>3. before[op.key] = Absent
    BY <1>1, <1>2 DEF Represents
<1> QED
    BY <1>1, <1>3 DEF Mappings

\* The steps that count, and those that find nothing to do.
LEMMA CountsKeepMapping ==
    ASSUME IInv, CountOK, MappingOK, IncrementCount \/ DecrementCount \/ ZeroCount \/ RemoveNothing
    PROVE  MappingOK'
<1>1. OpType(op) /\ before \in Mappings /\ after \in Mappings /\ Represents(buckets, Mapped)
    BY DEF IInv, OpOK, MappingOK
<1>2. CASE DecrementCount
  <2>1. op.pc = "discount" /\ buckets' = buckets /\ Release
      BY <1>2 DEF DecrementCount
  <2>2. Represents(buckets', after)
      BY <1>1, <2>1 DEF Mapped, InEffect
  <2> QED
      BY <2>1, <2>2, ReleaseKeepsMapping DEF Release
<1>3. CASE ZeroCount
  <2>1. op.pc = "zero" /\ buckets' = buckets /\ Release
      BY <1>3 DEF ZeroCount
  <2>2. Represents(buckets', after)
      BY <1>1, <2>1 DEF Mapped, InEffect
  <2> QED
      BY <2>1, <2>2, ReleaseKeepsMapping DEF Release
<1>4. CASE RemoveNothing
  <2>1. /\ op.pc = "remove" /\ buckets' = buckets /\ Release
        /\ count > 0 => Matches(buckets, op.key) = {}
      BY <1>4 DEF RemoveNothing, dict
  <2>2. after = before /\ Mapped = before
      BY <2>1, NothingToRemove DEF Mapped, InEffect
  <2> QED
      BY <1>1, <2>1, <2>2, ReleaseKeepsMapping DEF Release
<1>5. CASE IncrementCount
  <2>1. op.pc = "count" /\ buckets' = buckets /\ IsArray(buckets)
      BY <1>5, IncrementEffect
  <2>2. Represents(buckets', after)
      BY <1>1, <2>1 DEF Mapped, InEffect
  <2>3. ASSUME op.mode = "add", op'.pc = "grow", SameItem, op'.index = 0, UNCHANGED history,
               NEW size \in Nat \ {0}, op'.next = NewArray(size)
        PROVE  MappingOK'
    <3>1. LiveSlots(op'.next) = {}
        BY <2>3, NewArrayWellFormed
    <3>2. LiveSlots(buckets) \subseteq 0 .. buckets.length - 1
        BY <2>1, LiveSlotsFinite DEF IsArrayOrNull
    <3>3. Rehashed(op.next, buckets, op.index)'
        BY <2>1, <2>3, <3>1, <3>2 DEF Rehashed
    <3>4. InEffect' /\ ~Adding'
        BY <2>3 DEF InEffect, Adding, SameItem
    <3> QED
        BY <1>1, <2>2, <2>3, <3>3, <3>4 DEF MappingOK, Mapped, history
  <2>4. CASE NextItem
      BY <2>2, <2>4, NextItemKeepsMapping
  <2> QED
      BY <1>5, <2>3, <2>4, IncrementEffect
<1> QED
    BY <1>2, <1>3, <1>4, <1>5

\* Rehashing copies one bucket after the other.
LEMMA RehashKeepsMapping ==
    ASSUME IInv, MappingOK, RehashBucket
    PROVE  MappingOK'
<1> DEFINE n == op.index
           next == op'.next
<1>1. /\ op.pc = "grow" /\ op'.pc = "grow" /\ SameItem /\ op'.index = n + 1
      /\ n \in 0 .. buckets.length - 1 /\ IsArray(buckets) /\ IsArray(op.next)
      /\ buckets.at[n] \in Bucket /\ UNCHANGED <<dict, reader, history>>
    BY RehashEffect
<1>2. Rehashed(op.next, buckets, n)
    BY <1>1 DEF MappingOK
<1>3. \A i \in LiveSlots(buckets) : i \in Nat /\ (i < n + 1 <=> i < n \/ i = n)
    BY <1>1 DEF LiveSlots, IsArray
<1>4. ASSUME n \notin LiveSlots(buckets), next = op.next
      PROVE  Rehashed(next, buckets, n + 1)
    BY <1>2, <1>3, <1>4 DEF Rehashed
<1>5. ASSUME n \in LiveSlots(buckets), NEW i \in 0 .. op.next.length - 1,
             op.next.at[i].key \notin Keys, next = Write(op.next, i, buckets.at[n])
      PROVE  Rehashed(next, buckets, n + 1)
  <2>1. buckets.at[n].key \in Keys
      BY <1>5 DEF LiveSlots
  <2>2. /\ LiveSlots(next) = LiveSlots(op.next) \cup {i} /\ next.at[i] = buckets.at[n]
        /\ \A j \in 0 .. op.next.length - 1 : j # i => next.at[j] = op.next.at[j]
      BY <1>1, <1>5, <2>1, WriteLive
  <2>3. \A j \in LiveSlots(op.next) : j # i /\ next.at[j] = op.next.at[j]
      BY <1>5, <2>2 DEF LiveSlots
  <2> HIDE DEF next
  <2>4. ASSUME NEW j \in LiveSlots(next)
        PROVE  \E m \in LiveSlots(buckets) : m < n + 1 /\ next.at[j] = buckets.at[m]
      BY <1>2, <1>3, <1>5, <2>2, <2>3 DEF Rehashed
  <2>5. ASSUME NEW m \in LiveSlots(buckets), m < n + 1
        PROVE  \E j \in LiveSlots(next) : next.at[j] = buckets.at[m]
      BY <1>2, <1>3, <2>2, <2>3, <2>5 DEF Rehashed
  <2> QED
      BY <2>4, <2>5 DEF Rehashed
<1>6. Rehashed(next, buckets, n + 1)
  <2>1. \/ n \notin LiveSlots(buckets) /\ next = op.next
        \/ /\ n \in LiveSlots(buckets)
           /\ \E i \in 0 .. op.next.length - 1 :
                 op.next.at[i].key \notin Keys /\ next = Write(op.next, i, buckets.at[n])
      BY RehashEffect
  <2>2. CASE /\ n \in LiveSlots(buckets)
             /\ \E i \in 0 .. op.next.length - 1 :
                   op.next.at[i].key \notin Keys /\ next = Write(op.next, i, buckets.at[n])
    <3>1. PICK i \in 0 .. op.next.length - 1 :
              op.next.at[i].key \notin Keys /\ next = Write(op.next, i, buckets.at[n])
        BY <2>2
    <3> HIDE DEF next
    <3> QED
        BY <1>5, <2>2, <3>1
  <2> QED
      BY <1>4, <2>1, <2>2, Zenon
<1> HIDE DEF next
<1>7. Rehashed(op.next, buckets, op.index)'
    BY <1>1, <1>6 DEF next, dict
<1>8. InEffect' = InEffect /\ Adding' = Adding
    BY <1>1 DEF InEffect, Adding, SameItem
<1>9. UNCHANGED <<buckets, before, after>>
    BY <1>1 DEF dict, history
<1> QED
    BY <1>1, <1>7, <1>8, <1>9 DEF MappingOK, Mapped, SameItem

\* The dictionary begins without bindings.
LEMMA InitMapping == Init => MappingOK
<1> SUFFICES ASSUME Init PROVE MappingOK
    OBVIOUS
<1>1. op.pc = "free" /\ buckets = NoArray /\ before = [k \in Keys |-> Absent] /\ after = before
    BY UnlockedFields DEF Init
<1>2. LiveSlots(buckets) = {} /\ ~InEffect /\ ~Adding
    BY <1>1, LiveSlotsFinite DEF IsArrayOrNull, InEffect, Adding
<1>3. Represents(buckets, Mapped)
    BY <1>1, <1>2, RepresentsNothing DEF Mapped
<1> QED
    BY <1>1, <1>2, <1>3 DEF MappingOK, Mappings

\* Every step keeps the array showing the mapping it has to show.
LEMMA StepKeepsMapping == IInv /\ CountOK /\ MappingOK /\ [Next]_vars => MappingOK'
<1> SUFFICES ASSUME IInv, CountOK, MappingOK, [Next]_vars PROVE MappingOK'
    OBVIOUS
<1>1. CASE Mutate
    BY <1>1, BeginsKeepMapping
<1>2. CASE Progress
    BY <1>2, WritesKeepMapping, ReplacementsKeepMapping, CountsKeepMapping, RehashKeepsMapping
       DEF Progress
<1>3. ASSUME UNCHANGED <<buckets, op, before, after>> PROVE MappingOK'
    BY <1>3 DEF MappingOK, Mapped, InEffect, Adding
<1>4. ASSUME NEW r \in Readers,
             (\E k \in Keys : BeginLookup(r, k)) \/ Advance(r) \/ Return(r)
      PROVE  UNCHANGED <<buckets, op, before, after>>
    BY <1>4 DEF BeginLookup, Advance, ReadCount, ReadKeyType, ReadEqFunc, ReadKey, ReadBucket,
                Return, Read, dict, history
<1> QED
    BY <1>1, <1>2, <1>3, <1>4 DEF Next, vars, dict, history

\* What the array binds is what the mutations so far, and the steps of the one in
\* progress, have to leave.
THEOREM MappingInvariance == Spec => []MappingOK
BY InitMapping, StepKeepsMapping, Invariance, CountInvariance, PTL DEF Spec

\* Between mutations every key is bound as in a dictionary without buckets.
THEOREM MappingIsAlwaysExact == Spec => []MappingIsExact
<1>1. ASSUME IInv, MappingOK, op.pc = "free", NEW k \in Keys
      PROVE  IF buckets # NoArray /\ Matches(buckets, k) # {}
             THEN \A d \in Matches(buckets, k) :
                      before[k] = buckets.at[Probe(buckets, k, d)].value
             ELSE before[k] = Absent
  <2>1. Represents(buckets, before)
      BY <1>1 DEF MappingOK, Mapped, InEffect
  <2>2. CASE buckets = NoArray
    <3>1. LiveSlots(buckets) = {}
        BY <2>2, LiveSlotsFinite DEF IsArrayOrNull
    <3> QED
        BY <2>1, <2>2, <3>1, RepresentsNothing
  <2>3. CASE buckets # NoArray
    <3>1. WellFormed(buckets) /\ IsArray(buckets)
        BY <1>1, <2>3 DEF IInv, BucketsOK, WellFormed
    <3>2. CASE Matches(buckets, k) = {}
        BY <2>1, <3>1, <3>2, NoMatchNoKey DEF Represents
    <3>3. ASSUME NEW d \in Matches(buckets, k)
          PROVE  before[k] = buckets.at[Probe(buckets, k, d)].value
      <4>1. d \in Nat /\ buckets.at[Probe(buckets, k, d)].key = k
          BY <3>1, <3>3 DEF Matches, Met, Distances, IsArray
      <4>2. Probe(buckets, k, d) \in LiveSlots(buckets)
          BY <3>1, <4>1, ProbeInRange DEF LiveSlots
      <4> QED
          BY <2>1, <4>1, <4>2 DEF Represents
    <3> QED
        BY <2>3, <3>2, <3>3
  <2> QED
      BY <2>2, <2>3
<1>2. IInv /\ MappingOK => MappingIsExact
    BY <1>1 DEF MappingIsExact
<1> QED
    BY <1>2, Invariance, MappingInvariance, PTL

-----------------------------------------------------------------------------
(* Lookups: a step of the mutator.                                           *)

\* What a lookup may find.
Outcomes == Values \cup {Null, Absent}

\* Looking k up in a, undisturbed, has the outcome x.
Answers(a, k, x) ==
    \/ x = Absent /\ \A i \in LiveSlots(a) : a.at[i].key # k
    \/ \E i \in LiveSlots(a) : a.at[i].key = k /\ a.at[i].value = x

\* The distances that the scan has left behind.
Passed(me) == {e \in 0 .. me.dist : e < me.dist \/ (me.pc = "compare" /\ me.met # me.key)}

\* A lookup may answer as before or after the mutation in progress; it has an
\* admissible answer in the array it holds; and it may miss its key if it has
\* passed the bucket of the key, or saw the key in a bucket that lost it.
LookupOK(r) ==
    LET me == reader[r]
        mayMiss == Absent \in admissible[r]
        mayHit == \E x \in admissible[r] : x # Absent
        meets(d) == Met(Held(r), me.key, d) = me.key
    IN  LookingUp(r) =>
            /\ before[me.key] \in admissible[r] /\ after[me.key] \in admissible[r]
            /\ me.held # Current => \E x \in admissible[r] : Answers(me.held, me.key, x)
            /\ me.pc \in {"probe", "compare"} => \A e \in Passed(me) : meets(e) => mayMiss
            /\ me.pc = "compare" /\ me.met = me.key => mayHit /\ (mayMiss \/ meets(me.dist))
            /\ me.pc = "found" => mayHit /\ (mayMiss \/ me.result \in admissible[r])
            /\ me.pc = "miss" => mayMiss

LookupsOK ==
    /\ admissible \in [Readers -> SUBSET Outcomes]
    /\ \A r \in Readers : LookupOK(r)

\* Every lookup has an admissible answer in the array it scans.
LEMMA HeldAnswers ==
    ASSUME IInv, MappingOK, NEW r \in Readers, LookupOK(r), LookingUp(r)
    PROVE  \E x \in admissible[r] : Answers(Held(r), reader[r].key, x)
<1> DEFINE me == reader[r]
<1>1. me.key \in Keys
    BY DEF IInv, ReaderOK, LookingUp
<1>2. CASE me.held = Current
  <2>1. Held(r) = buckets
      BY <1>2 DEF Held, Dereference
  <2>2. Mapped[me.key] \in admissible[r] /\ Represents(buckets, Mapped)
      BY DEF LookupOK, Mapped, MappingOK
  <2>3. Answers(buckets, me.key, Mapped[me.key])
      BY <1>1, <2>2 DEF Represents, Answers
  <2> QED
      BY <2>1, <2>2, <2>3
<1>3. CASE me.held # Current
    BY <1>3 DEF LookupOK, Held, Dereference
<1> QED
    BY <1>2, <1>3

\* A mutation may add to what the lookups may answer, never take away.
HistoryKept ==
    /\ admissible' \in [Readers -> SUBSET Outcomes]
    /\ \A r \in Readers : LookingUp(r) =>
          /\ admissible[r] \subseteq admissible'[r]
          /\ before'[reader[r].key] \in admissible'[r]
          /\ after'[reader[r].key] \in admissible'[r]

\* The ways in which the history moves take nothing away.
LEMMA HistoryMoves ==
    ASSUME IInv, LookupsOK, MappingOK',
           \/ UNCHANGED <<before, after, admissible>>
           \/ before' = after /\ UNCHANGED <<after, admissible>>
           \/ before' \in {before, after} /\ Expect(after')
    PROVE  HistoryKept
<1>1. \A r \in Readers : LookingUp(r) =>
          /\ reader[r].key \in Keys
          /\ before[reader[r].key] \in admissible[r] /\ after[reader[r].key] \in admissible[r]
    BY DEF IInv, ReaderOK, LookingUp, LookupsOK, LookupOK
<1>2. admissible \in [Readers -> SUBSET Outcomes]
    BY DEF LookupsOK
<1>3. CASE UNCHANGED <<before, after, admissible>>
    BY <1>1, <1>2, <1>3 DEF HistoryKept
<1>4. CASE before' = after /\ UNCHANGED <<after, admissible>>
    BY <1>1, <1>2, <1>4 DEF HistoryKept
<1>5. CASE before' \in {before, after} /\ Expect(after')
  <2>1. admissible' = [r \in Readers |->
            IF LookingUp(r) THEN admissible[r] \cup {after'[reader[r].key]} ELSE admissible[r]]
      BY <1>5 DEF Expect
  <2>2. \A k \in Keys : after'[k] \in Outcomes
      BY DEF MappingOK, Mappings, Outcomes
  <2>3. ASSUME NEW r \in Readers
        PROVE  /\ admissible'[r] \in SUBSET Outcomes
               /\ LookingUp(r) => /\ admissible[r] \subseteq admissible'[r]
                                  /\ before'[reader[r].key] \in admissible'[r]
                                  /\ after'[reader[r].key] \in admissible'[r]
      BY <1>1, <1>2, <1>5, <2>1, <2>2
  <2>4. admissible' \in [Readers -> SUBSET Outcomes]
      BY <2>1, <2>3
  <2> QED
      BY <2>3, <2>4 DEF HistoryKept
<1> QED
    BY <1>3, <1>4, <1>5

\* What a step of a mutation has to leave to the lookups in progress.
LEMMA LookupsKept ==
    ASSUME IInv, LookupsOK, HistoryKept,
           \A r \in Readers :
              /\ reader'[r].pc = reader[r].pc /\ reader'[r].key = reader[r].key
              /\ reader'[r].dist = reader[r].dist /\ reader'[r].met = reader[r].met
              /\ reader'[r].result = reader[r].result,
           \A r \in Readers : LookingUp(r) =>
              /\ reader'[r].held # Current =>
                    \E x \in admissible'[r] : Answers(reader'[r].held, reader[r].key, x)
              /\ \A d \in Nat :
                    \/ Absent \in admissible'[r]
                    \/ Met(Held(r)', reader[r].key, d) = reader[r].key
                          <=> Met(Held(r), reader[r].key, d) = reader[r].key
    PROVE  LookupsOK'
<1> SUFFICES ASSUME NEW r \in Readers, LookingUp(r)' PROVE LookupOK(r)'
    BY DEF HistoryKept, LookupsOK, LookupOK
<1> DEFINE me == reader[r]
           a == Held(r)
           b == Held(r)'
           old == admissible[r]
           new == admissible'[r]
<1>1. /\ reader'[r].pc = me.pc /\ reader'[r].key = me.key /\ reader'[r].dist = me.dist
      /\ reader'[r].met = me.met /\ reader'[r].result = me.result /\ LookingUp(r)
    BY DEF LookingUp
<1>2. LookupOK(r) /\ me.dist \in Nat
    BY DEF LookupsOK, IInv, ReaderOK, ReaderType
<1>3. old \subseteq new /\ before'[me.key] \in new /\ after'[me.key] \in new
    BY <1>1 DEF HistoryKept
<1>4. \A d \in Nat : Absent \in new \/ (Met(b, me.key, d) = me.key <=> Met(a, me.key, d) = me.key)
    BY <1>1
<1>5. reader'[r].held # Current => \E x \in new : Answers(reader'[r].held, me.key, x)
    BY <1>1
<1>6. Passed(reader'[r]) = Passed(me) /\ Passed(me) \subseteq Nat
    BY <1>1, <1>2 DEF Passed
<1>7. me.pc \in {"probe", "compare"} =>
          \A e \in Passed(me) : Met(b, me.key, e) = me.key => Absent \in new
    BY <1>1, <1>2, <1>3, <1>4, <1>6 DEF LookupOK
<1>8. me.pc = "compare" /\ me.met = me.key =>
          /\ \E x \in new : x # Absent
          /\ Absent \in new \/ Met(b, me.key, me.dist) = me.key
    BY <1>1, <1>2, <1>3, <1>4 DEF LookupOK
<1>9. /\ me.pc = "found" => (\E x \in new : x # Absent) /\ (Absent \in new \/ me.result \in new)
      /\ me.pc = "miss" => Absent \in new
    BY <1>1, <1>2, <1>3 DEF LookupOK
<1> HIDE DEF a, b, old, new
<1> QED
    BY <1>1, <1>3, <1>5, <1>6, <1>7, <1>8, <1>9 DEF LookupOK, b, new

\* A step that writes no bucket.
LEMMA FieldLookups ==
    ASSUME IInv, LookupsOK, HistoryKept, UNCHANGED <<buckets, reader>>
    PROVE  LookupsOK'
<1>1. \A r \in Readers : Held(r)' = Held(r)
    BY DEF Held, Dereference
<1>2. \A r \in Readers : LookingUp(r) /\ reader[r].held # Current =>
          \E x \in admissible'[r] : Answers(reader[r].held, reader[r].key, x)
    BY DEF LookupsOK, LookupOK, HistoryKept
<1> QED
    BY <1>1, <1>2, LookupsKept

\* A step that replaces the array: the lookups stay with the old one.
LEMMA ArrayLookups ==
    ASSUME IInv, MappingOK, LookupsOK, HistoryKept, NEW a, Replace(a)
    PROVE  LookupsOK'
<1>1. \A r \in Readers : ReaderOK(reader[r]) /\ ReaderType(reader[r])
    BY DEF IInv, ReaderOK
<1>2. buckets # NoArray => buckets # Current
    BY DEF IInv, BucketsOK, WellFormed, IsArray, Current
<1>3. ASSUME NEW r \in Readers
      PROVE  /\ reader'[r].pc = reader[r].pc /\ reader'[r].key = reader[r].key
             /\ reader'[r].dist = reader[r].dist /\ reader'[r].met = reader[r].met
             /\ reader'[r].result = reader[r].result
             /\ reader'[r].held = IF reader[r].held = Current THEN buckets ELSE reader[r].held
             /\ Held(r)' = Held(r)
  <2>1. CASE reader[r].held = Current
    <3>1. reader'[r] = [reader[r] EXCEPT !.held = buckets] /\ buckets # Current
        BY <1>1, <1>2, <2>1 DEF Replace, ReaderOK
    <3>2. /\ reader'[r].pc = reader[r].pc /\ reader'[r].key = reader[r].key
          /\ reader'[r].dist = reader[r].dist /\ reader'[r].met = reader[r].met
          /\ reader'[r].result = reader[r].result /\ reader'[r].held = buckets
        BY <1>1, <3>1 DEF ReaderType
    <3> QED
        BY <2>1, <3>1, <3>2 DEF Held, Dereference
  <2>2. CASE reader[r].held # Current
    <3>1. reader'[r] = reader[r]
        BY <2>2 DEF Replace
    <3> QED
        BY <2>2, <3>1 DEF Held, Dereference
  <2> QED
      BY <2>1, <2>2
<1>4. ASSUME NEW r \in Readers, LookingUp(r), reader'[r].held # Current
      PROVE  \E x \in admissible'[r] : Answers(reader'[r].held, reader[r].key, x)
  <2>1. reader'[r].held = Held(r) /\ LookupOK(r) /\ admissible[r] \subseteq admissible'[r]
      BY <1>3, <1>4 DEF Held, Dereference, LookupsOK, HistoryKept
  <2> QED
      BY <1>4, <2>1, HeldAnswers
<1> QED
    BY <1>3, <1>4, LookupsKept

\* A step that writes one bucket: most lookups must not see a difference.
LEMMA WrittenLookups ==
    ASSUME IInv, LookupsOK, HistoryKept, NEW i, NEW b, Writes(i, b),
           \A r \in Readers : LookingUp(r) =>
              \/ Absent \in admissible'[r]
              \/ buckets.at[i].key = reader[r].key <=> b.key = reader[r].key
    PROVE  LookupsOK'
<1>1. IsArray(buckets) /\ reader' = reader /\ buckets' = Write(buckets, i, b)
    BY DEF Writes
<1>2. ASSUME NEW r \in Readers, LookingUp(r), NEW d \in Nat
      PROVE  \/ Absent \in admissible'[r]
             \/ Met(Held(r)', reader[r].key, d) = reader[r].key
                   <=> Met(Held(r), reader[r].key, d) = reader[r].key
  <2>1. reader[r].key \in Keys
      BY <1>2 DEF IInv, ReaderOK, LookingUp
  <2>2. CASE reader[r].held # Current
      BY <1>1, <2>2 DEF Held, Dereference
  <2>3. CASE reader[r].held = Current
    <3> DEFINE p == Probe(buckets, reader[r].key, d)
    <3>1. Held(r) = buckets /\ Held(r)' = Write(buckets, i, b)
        BY <1>1, <2>3 DEF Held, Dereference
    <3>2. p \in 0 .. buckets.length - 1 /\ Probe(Write(buckets, i, b), reader[r].key, d) = p
        BY <1>1, <2>1, ProbeInRange, WriteType DEF Probe, Writes
    <3>3. Write(buckets, i, b).at[p] = IF p = i THEN b ELSE buckets.at[p]
        BY <1>1, <3>2, WriteLive DEF Writes
    <3> HIDE DEF p
    <3>4. /\ Met(Held(r), reader[r].key, d) = buckets.at[p].key
          /\ Met(Held(r)', reader[r].key, d) = IF p = i THEN b.key ELSE buckets.at[p].key
        BY <3>1, <3>2, <3>3 DEF Met, p
    <3> QED
        BY <1>2, <2>1, <3>4
  <2> QED
      BY <2>2, <2>3
<1>3. \A r \in Readers : LookingUp(r) /\ reader[r].held # Current =>
          \E x \in admissible'[r] : Answers(reader[r].held, reader[r].key, x)
    BY DEF LookupsOK, LookupOK, HistoryKept
<1> QED
    BY <1>1, <1>2, <1>3, LookupsKept

\* A step that writes one bucket: lookups of the key it shows or hides may miss it.
LEMMA BucketLookups ==
    ASSUME IInv, LookupsOK, HistoryKept, NEW i, NEW b, Writes(i, b),
           NEW k, {buckets.at[i].key, b.key} \cap Keys \subseteq {k},
           \A r \in Readers : LookingUp(r) /\ reader[r].key = k => Absent \in admissible'[r]
    PROVE  LookupsOK'
<1>1. \A r \in Readers : LookingUp(r) => reader[r].key \in Keys
    BY DEF IInv, ReaderOK, LookingUp
<1>2. \A r \in Readers : LookingUp(r) =>
          \/ Absent \in admissible'[r]
          \/ buckets.at[i].key = reader[r].key <=> b.key = reader[r].key
    BY <1>1
<1> QED
    BY <1>2, WrittenLookups

\* A step that changes the value of a bucket, not its key.
LEMMA ValueLookups ==
    ASSUME IInv, LookupsOK, HistoryKept, NEW i, NEW b, Writes(i, b), buckets.at[i].key = b.key
    PROVE  LookupsOK'
BY WrittenLookups

\* A mutation that begins adds what it has to leave to the admissible answers.
LEMMA BeginsKeepLookups ==
    ASSUME IInv, LookupsOK, MappingOK', Mutate
    PROVE  LookupsOK'
<1>1. UNCHANGED <<buckets, reader, before>> /\ Expect(after')
    BY BeginEffect DEF dict
<1>2. HistoryKept
    BY <1>1, HistoryMoves
<1> QED
    BY <1>1, <1>2, FieldLookups

\* The end of an item, and the next one, only add to the admissible answers.
LEMMA NextItemHistory ==
    ASSUME IInv, LookupsOK, MappingOK', NextItem
    PROVE  HistoryKept
<1>1. OpType(op)
    BY DEF IInv, OpOK
<1>2. before' = after
    BY <1>1, NextItemEffect
<1>3. CASE UNCHANGED <<after, admissible>>
    BY <1>2, <1>3, HistoryMoves
<1>4. CASE Expect([after EXCEPT ![op'.key] = op'.value])
  <2>1. Expect(after')
      BY <1>4 DEF Expect
  <2> QED
      BY <1>2, <2>1, HistoryMoves
<1> QED
    BY <1>1, <1>3, <1>4, NextItemEffect

\* The steps that write a bucket: only the key in question comes or goes.
LEMMA WritesKeepLookups ==
    ASSUME IInv, MappingOK, LookupsOK, MappingOK',
           Update \/ WriteHash \/ WriteValue \/ WriteKey \/ RemoveKey \/ ForgetValue
    PROVE  LookupsOK'
<1>1. before \in Mappings
    BY DEF MappingOK
<1>2. ASSUME UNCHANGED history PROVE HistoryKept
    BY <1>2, HistoryMoves DEF history
<1>3. ASSUME HistoryKept, NEW i, NEW b, Writes(i, b), buckets.at[i].key \notin Keys, b.key \notin Keys
      PROVE  LookupsOK'
  <2>1. \A r \in Readers : LookingUp(r) => reader[r].key \in Keys
      BY DEF IInv, ReaderOK, LookingUp
  <2>2. \A r \in Readers : LookingUp(r) =>
            (buckets.at[i].key = reader[r].key <=> b.key = reader[r].key)
      BY <1>3, <2>1
  <2> QED
      BY <1>3, <2>2, WrittenLookups
<1>4. CASE Update
  <2>1. PICK i \in LiveSlots(buckets), b \in Bucket :
            Writes(i, b) /\ buckets.at[i].key = op.key /\ b.key = op.key
      BY <1>4, UpdateEffect
  <2>2. HistoryKept
      BY <1>4, UpdateEffect, NextItemHistory
  <2> QED
      BY <2>1, <2>2, ValueLookups
<1>5. CASE WriteHash
  <2>1. PICK b \in Bucket :
            Writes(op'.index, b) /\ buckets.at[op'.index].key \notin Keys /\ b.key \notin Keys
      BY <1>5, WriteHashEffect
  <2> QED
      BY <1>2, <1>3, <1>5, <2>1, WriteHashEffect
<1>6. CASE WriteValue
  <2>1. PICK b \in Bucket :
            Writes(op.index, b) /\ buckets.at[op.index].key \notin Keys /\ b.key \notin Keys
      BY <1>6, WriteValueEffect
  <2> QED
      BY <1>2, <1>3, <1>6, <2>1, WriteValueEffect
<1>7. CASE ForgetValue
  <2>1. PICK b \in Bucket :
            Writes(op.index, b) /\ buckets.at[op.index].key \notin Keys /\ b.key \notin Keys
      BY <1>7, ForgetValueEffect
  <2> QED
      BY <1>2, <1>3, <1>7, <2>1, ForgetValueEffect
<1>8. CASE WriteKey
  <2>1. PICK b \in Bucket :
            Writes(op.index, b) /\ b.key = op.key /\ buckets.at[op.index].key \notin Keys
      BY <1>8, WriteKeyEffect
  <2>2. HistoryKept /\ op.pc = "key" /\ UNCHANGED history
      BY <1>2, <1>8, WriteKeyEffect
  <2>3. before[op.key] = Absent
      BY <2>2 DEF MappingOK
  <2>4. \A r \in Readers : LookingUp(r) /\ reader[r].key = op.key => Absent \in admissible'[r]
      BY <2>2, <2>3 DEF LookupsOK, LookupOK, history
  <2>5. {buckets.at[op.index].key, b.key} \cap Keys \subseteq {op.key}
      BY <2>1
  <2> QED
      BY <2>1, <2>2, <2>4, <2>5, BucketLookups
<1>9. CASE RemoveKey
  <2>1. PICK i \in LiveSlots(buckets), b \in Bucket :
            Writes(i, b) /\ buckets.at[i].key = op.key /\ b.key \notin Keys
      BY <1>9, RemoveKeyEffect
  <2>2. HistoryKept /\ op.pc = "remove" /\ UNCHANGED history
      BY <1>2, <1>9, RemoveKeyEffect
  <2>3. after = [before EXCEPT ![op.key] = Absent] /\ op.key \in Keys
      BY <2>1, <2>2 DEF MappingOK, LiveSlots
  <2>4. after[op.key] = Absent
      BY <1>1, <2>3 DEF Mappings
  <2>5. \A r \in Readers : LookingUp(r) /\ reader[r].key = op.key => Absent \in admissible'[r]
      BY <2>2, <2>4 DEF LookupsOK, LookupOK, history
  <2>6. {buckets.at[i].key, b.key} \cap Keys \subseteq {op.key}
      BY <2>1
  <2> QED
      BY <2>1, <2>2, <2>5, <2>6, BucketLookups
<1> QED
    BY <1>4, <1>5, <1>6, <1>7, <1>8, <1>9

\* The steps that replace the array.
LEMMA ReplacementsKeepLookups ==
    ASSUME IInv, MappingOK, LookupsOK, MappingOK',
           Initialize \/ CloneBuckets \/ ClearBuckets \/ AllocateForCopy \/ PublishGrown
    PROVE  LookupsOK'
<1>1. OpType(op)
    BY DEF IInv, OpOK
<1>2. \E a : Replace(a)
    BY DEF Initialize, CloneBuckets, ClearBuckets, AllocateForCopy, PublishGrown
<1>3. UNCHANGED <<before, after, admissible>> \/ Release
    BY DEF Initialize, CloneBuckets, ClearBuckets, AllocateForCopy, PublishGrown, Goto, history
<1>4. HistoryKept
    BY <1>3, HistoryMoves DEF Release
<1> QED
    BY <1>2, <1>4, ArrayLookups

\* The steps that change neither the array nor the lookups.
LEMMA FieldsKeepLookups ==
    ASSUME IInv, LookupsOK, MappingOK',
           \/ AssignSites \/ SetKeyType \/ AdoptKeyType \/ AdoptDelegates \/ RehashBucket
           \/ IncrementCount \/ DecrementCount \/ ZeroCount \/ RemoveNothing
    PROVE  LookupsOK'
<1>1. UNCHANGED <<buckets, reader>>
    BY DEF AssignSites, SetKeyType, AdoptKeyType, AdoptDelegates, RehashBucket,
           IncrementCount, DecrementCount, ZeroCount, RemoveNothing, dict
<1>2. UNCHANGED <<before, after, admissible>> \/ Release \/ NextItem
    BY DEF AssignSites, SetKeyType, AdoptKeyType, AdoptDelegates, RehashBucket, Goto, Grow,
           IncrementCount, DecrementCount, ZeroCount, RemoveNothing, history
<1>3. HistoryKept
    BY <1>2, HistoryMoves, NextItemHistory DEF Release
<1> QED
    BY <1>1, <1>3, FieldLookups
-----------------------------------------------------------------------------
(* Lookups: a step of one reader.                                            *)

\* A reader that sees no key in the dictionary may miss its own.
LEMMA EmptyMeansAbsent ==
    ASSUME IInv, CountOK, MappingOK, count = 0, NEW k \in Keys
    PROVE  before[k] = Absent \/ after[k] = Absent
<1>1. Represents(buckets, Mapped) /\ IsArrayOrNull(buckets) /\ before \in Mappings
    BY DEF MappingOK, IInv, BucketsOK, WellFormed, IsArrayOrNull
<1>2. IsFiniteSet(LiveSlots(buckets))
    BY <1>1, LiveSlotsFinite
<1>3. CASE LiveSlots(buckets) = {}
    BY <1>1, <1>3, RepresentsNothing DEF Mapped
<1>4. CASE LiveSlots(buckets) # {}
  <2>1. op.pc = "count" /\ Cardinality(LiveSlots(buckets)) = 1
    <3>1. Cardinality(LiveSlots(buckets)) # 0
        BY <1>2, <1>4, FS_EmptySet
    <3>2. op.pc # "zero"
        BY <1>4 DEF CountOK
    <3>3. op.pc \notin {"forget", "discount"}
        BY DEF IInv, OpOK
    <3>4. Cardinality(LiveSlots(buckets)) = 0 + Lag
        BY <3>2 DEF CountOK
    <3> QED
        BY <3>1, <3>3, <3>4 DEF Lag
  <2>2. PICK i : LiveSlots(buckets) = {i}
      BY <1>2, <2>1, FS_Singleton
  <2>3. /\ before[op.key] = Absent /\ after = [before EXCEPT ![op.key] = op.value]
        /\ op.key \in Keys /\ op.value \in Values \cup {Null}
      BY <2>1 DEF MappingOK, IInv, OpOK, OpType
  <2>4. Represents(buckets, after) /\ after[op.key] # Absent
      BY <1>1, <2>1, <2>3, AbsentIsNoValue DEF Mapped, InEffect, Mappings
  <2>5. buckets.at[i].key = op.key
      BY <2>2, <2>3, <2>4 DEF Represents
  <2>6. k # op.key => after[k] = Absent
      BY <2>2, <2>4, <2>5 DEF Represents
  <2> QED
      BY <2>3, <2>6
<1> QED
    BY <1>3, <1>4

\* What a step of one lookup has to establish.
LEMMA LookupAdvances ==
    ASSUME IInv, LookupsOK, NEW r \in Readers, NEW new, Read(r, new), LookingUp(r),
           new.key = reader[r].key, new.held = reader[r].held, new.pc # "idle",
           new.pc \in {"probe", "compare"} =>
              \A e \in Passed(new) :
                 Met(Held(r), new.key, e) = new.key => Absent \in admissible[r],
           new.pc = "compare" /\ new.met = new.key =>
              /\ \E x \in admissible[r] : x # Absent
              /\ Absent \in admissible[r] \/ Met(Held(r), new.key, new.dist) = new.key,
           new.pc = "found" =>
              /\ \E x \in admissible[r] : x # Absent
              /\ Absent \in admissible[r] \/ new.result \in admissible[r],
           new.pc = "miss" => Absent \in admissible[r]
    PROVE  LookupsOK'
<1>1. /\ reader' = [reader EXCEPT ![r] = new]
      /\ UNCHANGED <<buckets, before, after, admissible>>
    BY DEF Read, dict, history
<1>2. \A q \in Readers : q # r => reader'[q] = reader[q]
    BY <1>1 DEF IInv
<1>3. reader'[r] = new
    BY <1>1 DEF IInv
<1>4. Held(r)' = Held(r)
    BY <1>1, <1>3 DEF Held, Dereference
<1>5. LookupOK(r)
    BY DEF LookupsOK
<1>6. LookupOK(r)'
    BY <1>1, <1>3, <1>4, <1>5 DEF LookupOK
<1>7. ASSUME NEW q \in Readers, q # r PROVE LookupOK(q)'
  <2>1. LookupOK(q) /\ reader'[q] = reader[q]
      BY <1>2, <1>7 DEF LookupsOK
  <2>2. Held(q)' = Held(q)
      BY <1>1, <2>1 DEF Held, Dereference
  <2> QED
      BY <1>1, <2>1, <2>2 DEF LookupOK, LookingUp
<1> QED
    BY <1>1, <1>6, <1>7 DEF LookupsOK

\* A reader that is not looking anything up has nothing to answer for.
LEMMA NotLookingUp ==
    ASSUME IInv, LookupsOK, UNCHANGED <<buckets, before, after>>,
           admissible' \in [Readers -> SUBSET Outcomes],
           \A q \in Readers : \/ reader'[q].pc = "idle"
                              \/ reader'[q] = reader[q] /\ admissible'[q] = admissible[q]
    PROVE  LookupsOK'
<1>1. ASSUME NEW q \in Readers PROVE LookupOK(q)'
  <2>1. CASE reader'[q].pc = "idle"
      BY <2>1 DEF LookupOK, LookingUp
  <2>2. CASE reader'[q] = reader[q] /\ admissible'[q] = admissible[q]
    <3>1. LookupOK(q) /\ Held(q)' = Held(q)
        BY <2>2 DEF Held, Dereference, LookupsOK
    <3> QED
        BY <2>2, <3>1 DEF LookupOK, LookingUp
  <2> QED
      BY <1>1, <2>1, <2>2
<1> QED
    BY <1>1 DEF LookupsOK

\* A scan that ends without its key has passed every bucket the key can be in.
LEMMA MissIsAdmissible ==
    ASSUME IInv, MappingOK, NEW r \in Readers, LookupOK(r), LookingUp(r),
           reader[r].pc \in {"probe", "compare"},
           \A d \in Distances(Held(r)) :
              Met(Held(r), reader[r].key, d) = reader[r].key /\ Passes(Held(r), reader[r].key, d)
                 => d \in Passed(reader[r])
    PROVE  Absent \in admissible[r]
<1> DEFINE me == reader[r]
<1>1. PICK x \in admissible[r] : Answers(Held(r), me.key, x)
    BY HeldAnswers
<1>2. WellFormed(Held(r))
    BY DEF IInv, BucketsOK, ReaderOK, Held, Dereference
<1>3. CASE x = Absent
    BY <1>3
<1>4. ASSUME NEW i \in LiveSlots(Held(r)), Held(r).at[i].key = me.key
      PROVE  Absent \in admissible[r]
  <2>1. PICK d \in Distances(Held(r)) : Probe(Held(r), me.key, d) = i /\ Passes(Held(r), me.key, d)
      BY <1>2, <1>4 DEF WellFormed, ChainUnbroken
  <2>2. Met(Held(r), me.key, d) = me.key
      BY <1>4, <2>1 DEF Met
  <2> QED
      BY <2>1, <2>2 DEF LookupOK
<1> QED
    BY <1>1, <1>3, <1>4 DEF Answers

\* The bucket of the key holds an admissible answer.
LEMMA HitIsAdmissible ==
    ASSUME IInv, MappingOK, NEW r \in Readers, LookupOK(r), LookingUp(r),
           Held(r) # NoArray, NEW d \in Distances(Held(r)),
           Met(Held(r), reader[r].key, d) = reader[r].key
    PROVE  /\ Held(r).at[Probe(Held(r), reader[r].key, d)].value \in admissible[r]
           /\ \E x \in admissible[r] : x # Absent
<1> DEFINE me == reader[r]
           a == Held(r)
           p == Probe(a, me.key, d)
<1>1. PICK x \in admissible[r] : Answers(a, me.key, x)
    BY HeldAnswers
<1>2. WellFormed(a) /\ IsArray(a) /\ me.key \in Keys
    BY DEF IInv, BucketsOK, ReaderOK, Held, Dereference, WellFormed, LookingUp
<1>3. d \in Nat
    BY <1>2 DEF Distances, IsArray
<1>4. p \in LiveSlots(a) /\ a.at[p].key = me.key
    BY <1>2, <1>3, ProbeInRange DEF Met, LiveSlots
<1>5. x = a.at[p].value
    BY <1>1, <1>2, <1>4 DEF Answers, WellFormed, NoDuplicates
<1>6. a.at[p].value \in Values \cup {Null}
    BY <1>2, <1>4 DEF LiveSlots, IsArray, Bucket
<1> QED
    BY <1>5, <1>6, AbsentIsNoValue

\* Each step of a lookup.
LEMMA ReadersKeepLookups ==
    ASSUME IInv, CountOK, MappingOK, LookupsOK, NEW r \in Readers,
           (\E k \in Keys : BeginLookup(r, k)) \/ Advance(r) \/ Return(r)
    PROVE  LookupsOK'
<1> DEFINE me == reader[r]
           a == Held(r)
<1>1. ReaderOK(me) /\ ReaderType(me) /\ LookupOK(r) /\ before \in Mappings /\ after \in Mappings
    BY DEF IInv, ReaderOK, LookupsOK, MappingOK
<1>2. ASSUME me.pc \in {"probe", "compare"}
      PROVE  /\ me.dist \in Nat /\ me.dist \in Distances(a) /\ me.key \in Keys
             /\ a # NoArray /\ IsArray(a) /\ LookingUp(r)
    BY <1>1, <1>2 DEF IInv, BucketsOK, ReaderOK, ReaderType, Held, Dereference, WellFormed, LookingUp
<1>3. ASSUME NEW k \in Keys, BeginLookup(r, k) PROVE LookupsOK'
  <2>1. /\ reader' = [reader EXCEPT ![r] = PickUp(k)]
        /\ admissible' = [admissible EXCEPT ![r] = {before[k], after[k]}]
        /\ UNCHANGED <<buckets, before, after>>
      BY <1>3 DEF BeginLookup, dict
  <2>2. /\ reader'[r] = PickUp(k) /\ admissible'[r] = {before[k], after[k]}
        /\ \A q \in Readers : q # r => reader'[q] = reader[q] /\ admissible'[q] = admissible[q]
      BY <2>1 DEF IInv, LookupsOK
  <2>3. {before[k], after[k]} \in SUBSET Outcomes
      BY <1>1 DEF Mappings, Outcomes
  <2>4. admissible' \in [Readers -> SUBSET Outcomes]
      BY <2>1, <2>3 DEF LookupsOK
  <2>5. /\ reader'[r].pc = "count" /\ reader'[r].key = k
        /\ reader'[r].held = IF buckets = NoArray THEN NoArray ELSE Current
      BY <2>2 DEF PickUp, Idle
  <2>6. buckets = NoArray => Answers(NoArray, k, Mapped[k])
    <3>1. Represents(buckets, Mapped)
        BY DEF MappingOK
    <3> QED
        BY <3>1, LiveSlotsFinite, RepresentsNothing DEF IsArrayOrNull, Answers
  <2>7. Mapped[k] \in admissible'[r]
      BY <2>2 DEF Mapped
  <2>8. LookupOK(r)'
      BY <2>1, <2>2, <2>5, <2>6, <2>7 DEF LookupOK
  <2>9. ASSUME NEW q \in Readers, q # r PROVE LookupOK(q)'
    <3>1. LookupOK(q) /\ reader'[q] = reader[q] /\ admissible'[q] = admissible[q]
        BY <2>2, <2>9 DEF LookupsOK
    <3>2. Held(q)' = Held(q)
        BY <2>1, <3>1 DEF Held, Dereference
    <3> QED
        BY <2>1, <3>1, <3>2 DEF LookupOK, LookingUp
  <2> QED
      BY <2>4, <2>8, <2>9 DEF LookupsOK
<1>4. CASE ReadCount(r)
  <2>1. me.pc = "count" /\ LookingUp(r) /\ me.key \in Keys
      BY <1>1, <1>4 DEF ReadCount, LookingUp, ReaderOK
  <2>2. CASE count > 0 /\ me.held # NoArray
    <3> DEFINE new == [me EXCEPT !.pc = "keyType"]
    <3>1. Read(r, new)
        BY <1>4, <2>2 DEF ReadCount
    <3>2. new.pc = "keyType" /\ new.key = me.key /\ new.held = me.held
        BY <1>1 DEF ReaderType
    <3> HIDE DEF new
    <3> QED
        BY <2>1, <3>1, <3>2, LookupAdvances
  <2>3. CASE ~(count > 0 /\ me.held # NoArray)
    <3> DEFINE new == [me EXCEPT !.pc = "miss"]
    <3>1. Read(r, new)
        BY <1>4, <2>3 DEF ReadCount
    <3>2. new.pc = "miss" /\ new.key = me.key /\ new.held = me.held
        BY <1>1 DEF ReaderType
    <3>3. Absent \in admissible[r]
      <4>1. CASE count = 0
        <5>1. before[me.key] = Absent \/ after[me.key] = Absent
            BY <2>1, <4>1, EmptyMeansAbsent
        <5> QED
            BY <1>1, <2>1, <5>1 DEF LookupOK
      <4>2. CASE me.held = NoArray
        <5>1. NoArray # Current /\ LiveSlots(NoArray) = {}
            BY LiveSlotsFinite DEF NoArray, Current, IsArrayOrNull
        <5> QED
            BY <1>1, <2>1, <4>2, <5>1 DEF LookupOK, Answers
      <4> QED
          BY <2>3, <4>1, <4>2 DEF IInv
    <3> HIDE DEF new
    <3> QED
        BY <2>1, <3>1, <3>2, <3>3, LookupAdvances
  <2> QED
      BY <2>2, <2>3
<1>5. ASSUME NEW new, Read(r, new), me.pc \in {"keyType", "eqFunc"},
             new.pc \in {"eqFunc", "probe"}, new.key = me.key, new.held = me.held, new.dist = 0
      PROVE  LookupsOK'
  <2>1. Passed(new) = {} \/ new.pc = "eqFunc"
      BY <1>5 DEF Passed
  <2> QED
      BY <1>5, <2>1, LookupAdvances DEF LookingUp
<1>6. CASE ReadKeyType(r)
  <2>1. me.pc = "keyType" /\ me.dist = 0
      BY <1>1, <1>6 DEF ReadKeyType, ReaderOK
  <2>2. CASE keyType \in {TypeOf[me.key], Heterogeneous}
    <3> DEFINE new == [me EXCEPT !.pc = "eqFunc"]
    <3>1. Read(r, new)
        BY <1>6, <2>2 DEF ReadKeyType
    <3>2. new.pc = "eqFunc" /\ new.key = me.key /\ new.held = me.held /\ new.dist = 0
        BY <1>1, <2>1 DEF ReaderType
    <3> HIDE DEF new
    <3> QED
        BY <1>5, <2>1, <3>1, <3>2
  <2>3. CASE keyType \notin {TypeOf[me.key], Heterogeneous}
    <3> DEFINE new == [me EXCEPT !.pc = "probe", !.eq = Generic]
    <3>1. Read(r, new)
        BY <1>6, <2>3 DEF ReadKeyType
    <3>2. new.pc = "probe" /\ new.key = me.key /\ new.held = me.held /\ new.dist = 0
        BY <1>1, <2>1 DEF ReaderType
    <3> HIDE DEF new
    <3> QED
        BY <1>5, <2>1, <3>1, <3>2
  <2> QED
      BY <2>2, <2>3
<1>7. CASE ReadEqFunc(r)
  <2> DEFINE new == [me EXCEPT !.pc = "probe", !.eq = eqFunc]
  <2>1. me.pc = "eqFunc" /\ me.dist = 0 /\ Read(r, new)
      BY <1>1, <1>7 DEF ReadEqFunc, ReaderOK
  <2>2. new.pc = "probe" /\ new.key = me.key /\ new.held = me.held /\ new.dist = 0
      BY <1>1, <2>1 DEF ReaderType
  <2> HIDE DEF new
  <2> QED
      BY <1>5, <2>1, <2>2
<1>8. CASE ReadKey(r)
  <2> DEFINE met == Met(a, me.key, me.dist)
  <2>1. me.pc = "probe" /\ me.key # NoKey /\ LookingUp(r)
      BY <1>2, <1>8, MarkerAssumption DEF ReadKey
  <2>2. me.dist \in Nat /\ me.dist \in Distances(a) /\ me.key \in Keys /\ a # NoArray /\ IsArray(a)
      BY <1>2, <2>1
  <2>3. CASE met = NoKey
    <3> DEFINE new == [me EXCEPT !.pc = "miss"]
    <3>1. Read(r, new)
      <4>1. Read(r, [me EXCEPT !.pc = "miss", !.met = me.met])
          BY <1>8, <2>3 DEF ReadKey
      <4>2. [me EXCEPT !.pc = "miss", !.met = me.met] = new
          BY <1>1 DEF ReaderType
      <4> QED
          BY <4>1, <4>2
    <3>2. new.pc = "miss" /\ new.key = me.key /\ new.held = me.held
        BY <1>1 DEF ReaderType
    <3>3. ASSUME NEW d \in Distances(a), Met(a, me.key, d) = me.key, Passes(a, me.key, d)
          PROVE  d \in Passed(me)
      <4>1. d \in Nat /\ d # me.dist
          BY <2>1, <2>2, <2>3, <3>3 DEF Distances, IsArray
      <4>2. ~(d > me.dist)
          BY <2>2, <2>3, <3>3, <4>1 DEF Passes
      <4> QED
          BY <2>2, <4>1, <4>2 DEF Passed
    <3>4. Absent \in admissible[r]
        BY <1>1, <2>1, <3>3, MissIsAdmissible
    <3> HIDE DEF new
    <3> QED
        BY <2>1, <3>1, <3>2, <3>4, LookupAdvances
  <2>4. CASE met # NoKey
    <3> DEFINE new == [me EXCEPT !.pc = "compare", !.met = met]
    <3>1. Read(r, new)
        BY <1>8, <2>4 DEF ReadKey
    <3>2. /\ new.pc = "compare" /\ new.key = me.key /\ new.held = me.held
          /\ new.dist = me.dist /\ new.met = met
        BY <1>1 DEF ReaderType
    <3> HIDE DEF new
    <3>3. ASSUME NEW e \in Passed(new), Met(a, me.key, e) = me.key PROVE Absent \in admissible[r]
      <4>1. e < me.dist \/ e = me.dist
          BY <2>2, <3>2 DEF Passed
      <4>2. e < me.dist
          BY <3>2, <3>3, <4>1 DEF Passed
      <4>3. e \in Passed(me)
          BY <3>2, <4>2 DEF Passed
      <4> QED
          BY <1>1, <2>1, <3>3, <4>3 DEF LookupOK
    <3>4. met = me.key => \E x \in admissible[r] : x # Absent
        BY <1>1, <2>1, <2>2, HitIsAdmissible
    <3> HIDE DEF met
    <3> QED
        BY <2>1, <3>1, <3>2, <3>3, <3>4, LookupAdvances DEF met
  <2> QED
      BY <2>3, <2>4
<1>9. CASE ReadBucket(r)
  <2> DEFINE value == a.at[Probe(a, me.key, me.dist)].value
  <2>1. me.pc = "compare"
      BY <1>9 DEF ReadBucket
  <2>2. /\ me.dist \in Nat /\ me.dist \in Distances(a) /\ me.key \in Keys
        /\ a # NoArray /\ IsArray(a) /\ LookingUp(r)
      BY <1>2, <2>1
  <2>3. CASE me.met = me.key
    <3> DEFINE new == [me EXCEPT !.pc = "found", !.result = value]
    <3>1. Read(r, new)
        BY <1>9, <2>3 DEF ReadBucket
    <3>2. new.pc = "found" /\ new.key = me.key /\ new.held = me.held /\ new.result = value
        BY <1>1 DEF ReaderType
    <3>3. (\E x \in admissible[r] : x # Absent)
          /\ (Absent \in admissible[r] \/ Met(a, me.key, me.dist) = me.key)
        BY <1>1, <2>1, <2>2, <2>3 DEF LookupOK
    <3>4. Absent \in admissible[r] \/ value \in admissible[r]
        BY <1>1, <2>2, <3>3, HitIsAdmissible
    <3> HIDE DEF new, value
    <3> QED
        BY <2>2, <3>1, <3>2, <3>3, <3>4, LookupAdvances
  <2>4. CASE me.met # me.key /\ me.dist + 1 = a.length
    <3> DEFINE new == [me EXCEPT !.pc = "miss"]
    <3>1. Read(r, new)
      <4>1. Read(r, [me EXCEPT !.pc = "miss", !.dist = me.dist])
          BY <1>9, <2>4 DEF ReadBucket
      <4>2. [me EXCEPT !.pc = "miss", !.dist = me.dist] = new
          BY <1>1 DEF ReaderType
      <4> QED
          BY <4>1, <4>2
    <3>2. new.pc = "miss" /\ new.key = me.key /\ new.held = me.held
        BY <1>1 DEF ReaderType
    <3>3. \A d \in Distances(a) : d \in Passed(me)
        BY <2>1, <2>2, <2>4 DEF Passed, Distances, IsArray
    <3>4. Absent \in admissible[r]
        BY <1>1, <2>1, <2>2, <3>3, MissIsAdmissible
    <3> HIDE DEF new
    <3> QED
        BY <2>2, <3>1, <3>2, <3>4, LookupAdvances
  <2>5. CASE me.met # me.key /\ me.dist + 1 # a.length
    <3> DEFINE new == [me EXCEPT !.pc = "probe", !.dist = me.dist + 1]
    <3>1. Read(r, new)
        BY <1>9, <2>5 DEF ReadBucket
    <3>2. new.pc = "probe" /\ new.key = me.key /\ new.held = me.held /\ new.dist = me.dist + 1
        BY <1>1 DEF ReaderType
    <3> HIDE DEF new
    <3>3. \A e \in Passed(new) : e \in Passed(me)
        BY <2>1, <2>2, <2>5, <3>2 DEF Passed
    <3>4. \A e \in Passed(new) : Met(a, me.key, e) = me.key => Absent \in admissible[r]
        BY <1>1, <2>1, <2>2, <3>3 DEF LookupOK
    <3> QED
        BY <2>2, <3>1, <3>2, <3>4, LookupAdvances
  <2> QED
      BY <2>3, <2>4, <2>5
<1>10. Idle.pc = "idle"
    BY DEF Idle
<1>11. \A q \in Readers : q # r => \A new : [reader EXCEPT ![r] = new][q] = reader[q]
    BY DEF IInv
<1>12. CASE Return(r)
  <2>1. /\ reader' = [reader EXCEPT ![r] = Idle] /\ UNCHANGED <<buckets, before, after>>
        /\ admissible' = [admissible EXCEPT ![r] = {}]
      BY <1>12 DEF Return, dict
  <2>2. reader'[r].pc = "idle" /\ \A q \in Readers : q # r => reader'[q] = reader[q]
      BY <1>10, <1>11, <2>1 DEF IInv
  <2>3. /\ admissible' \in [Readers -> SUBSET Outcomes]
        /\ \A q \in Readers : q # r => admissible'[q] = admissible[q]
      BY <2>1 DEF LookupsOK
  <2> QED
      BY <2>1, <2>2, <2>3, NotLookingUp
<1> QED
    BY <1>3, <1>4, <1>6, <1>7, <1>8, <1>9, <1>12 DEF Advance

\* Nobody is looking anything up at first.
LEMMA InitLookups == Init => LookupsOK
<1> SUFFICES ASSUME Init PROVE LookupsOK
    OBVIOUS
<1>1. \A r \in Readers : reader[r].pc = "idle"
    BY DEF Init, Idle
<1>2. admissible \in [Readers -> SUBSET Outcomes]
    BY DEF Init
<1> QED
    BY <1>1, <1>2 DEF LookupsOK, LookupOK, LookingUp

\* Every step leaves the lookups in progress an admissible answer.
LEMMA StepKeepsLookups == IInv /\ CountOK /\ MappingOK /\ LookupsOK /\ [Next]_vars => LookupsOK'
<1> SUFFICES ASSUME IInv, CountOK, MappingOK, LookupsOK, [Next]_vars PROVE LookupsOK'
    OBVIOUS
<1>1. MappingOK'
    BY StepKeepsMapping
<1>2. CASE Mutate
    BY <1>1, <1>2, BeginsKeepLookups
<1>3. CASE Progress
    BY <1>1, <1>3, WritesKeepLookups, ReplacementsKeepLookups, FieldsKeepLookups DEF Progress
<1>4. ASSUME NEW r \in Readers,
             (\E k \in Keys : BeginLookup(r, k)) \/ Advance(r) \/ Return(r)
      PROVE  LookupsOK'
    BY <1>4, ReadersKeepLookups
<1>5. CASE UNCHANGED vars
    BY <1>5 DEF vars, dict, history, LookupsOK, LookupOK, LookingUp, Held, Dereference
<1> QED
    BY <1>2, <1>3, <1>4, <1>5 DEF Next

\* Every lookup in progress can still end with an answer that is right for some
\* moment of the call, whatever the mutators do to the array it reads.
THEOREM LookupInvariance == Spec => []LookupsOK
BY InitLookups, StepKeepsLookups, Invariance, CountInvariance, MappingInvariance, PTL DEF Spec

\* A lookup that finds its key was right to find it, one that misses it was right
\* to miss it, at some moment during the call.
THEOREM LookupsAreAlwaysConsistent == Spec => []LookupsAreConsistent
<1>1. LookupsOK => LookupsAreConsistent
    BY DEF LookupsOK, LookupOK, LookingUp, LookupsAreConsistent
<1> QED
    BY <1>1, LookupInvariance, PTL

\* A key that stays bound during a lookup is found with one of its values.
THEOREM StableKeysAreAlwaysRead == Spec => []StableKeysAreRead
<1>1. LookupsOK => StableKeysAreRead
    BY DEF LookupsOK, LookupOK, LookingUp, StableKeysAreRead
<1> QED
    BY <1>1, LookupInvariance, PTL

-----------------------------------------------------------------------------
(* Delegates: a step of the mutator.                                         *)

\* All keys of an array have the type t.
KeysOfType(a, t) == \A i \in LiveSlots(a) : TypeOf[a.at[i].key] = t

\* What is known of the delegates as long as nothing was copied: until a second
\* type arrives, all keys have the type that _keyType names and _eqFunc compares.
SitesFit ==
    /\ op.mode = "add" /\ op.rest = <<>>
    /\ op.pc \notin {"allocate", "adopt", "delegates"}
    /\ op.pc \notin {"free", "remove", "clear", "zero", "forget", "discount"} => op.type = TypeOf[op.key]
    /\ op.pc \in {"assign", "type"} => keyType \notin {op.type, Heterogeneous}
    /\ op.pc \in {"search", "value", "key", "count"} => keyType \in {op.type, Heterogeneous}
    /\ op.pc = "clone" => keyType = Heterogeneous
    /\ eqFunc = IF op.pc = "type" THEN IF keyType = NoType THEN op.type ELSE Generic
                ELSE IF keyType = Heterogeneous THEN Generic ELSE keyType
    /\ keyType # Heterogeneous => KeysOfType(buckets, keyType)
    /\ op.pc = "grow" /\ keyType # Heterogeneous => KeysOfType(op.next, keyType)

\* A lookup that compares with a delegate of one type holds an array of that
\* type; it may be the current array until that is cloned for a second type.
ReaderFits(r) ==
    LET me == reader[r]
    IN  LookingUp(r) =>
            /\ keyType # Heterogeneous /\ me.held # Current => KeysOfType(me.held, keyType)
            /\ me.pc = "eqFunc" => keyType \in {TypeOf[me.key], Heterogeneous}
            /\ me.pc \in {"probe", "compare"} /\ me.eq # Generic =>
                  /\ me.eq = TypeOf[me.key]
                  /\ keyType \in {me.eq, Heterogeneous}
                  /\ KeysOfType(Held(r), me.eq)
                  /\ me.held = Current => keyType = me.eq \/ op.pc = "clone"
                  /\ me.pc = "compare" /\ me.met \in Keys => TypeOf[me.met] = me.eq

ReadersFit == \A r \in Readers : ReaderFits(r)

SitesOK == ~copied => SitesFit /\ ReadersFit

\* The markers of _keyType are not types.
LEMMA TypeMarkers ==
    /\ \A k \in Keys : TypeOf[k] \in Types /\ TypeOf[k] \notin {NoType, Heterogeneous, Generic}
    /\ NoType # Heterogeneous /\ NoType # Generic
    /\ NoType \notin Types /\ Heterogeneous \notin Types /\ Generic \notin Types
BY TypeAssumption

\* A write keeps an array of one type if the key it writes has that type.
LEMMA WriteKeepsType ==
    ASSUME NEW a, IsArray(a), NEW i \in 0 .. a.length - 1, NEW b \in Bucket, NEW t,
           KeysOfType(a, t), b.key \in Keys => TypeOf[b.key] = t
    PROVE  KeysOfType(Write(a, i, b), t)
<1> DEFINE w == Write(a, i, b)
<1>1. /\ LiveSlots(w) = IF b.key \in Keys THEN LiveSlots(a) \cup {i} ELSE LiveSlots(a) \ {i}
      /\ w.at[i] = b /\ \A j \in 0 .. a.length - 1 : j # i => w.at[j] = a.at[j]
    BY WriteLive
<1> HIDE DEF w
<1>2. LiveSlots(a) \subseteq 0 .. a.length - 1
    BY DEF LiveSlots
<1>3. KeysOfType(w, t)
    BY <1>1, <1>2 DEF KeysOfType
<1> QED
    BY <1>3 DEF w

\* An array whose keys have no type has no keys.
LEMMA NoTypeNoKeys ==
    ASSUME NEW a, KeysOfType(a, NoType), NEW t
    PROVE  KeysOfType(a, t)
BY TypeMarkers DEF KeysOfType, LiveSlots

\* A mutation begins with the delegates as the last one left them.
LEMMA BeginsKeepSites ==
    ASSUME IInv, SitesFit, Mutate, ~copied'
    PROVE  SitesFit'
<1>1. /\ op.pc = "free" /\ UNCHANGED <<buckets, keyType, eqFunc>>
      /\ op'.mode = "add" /\ op'.rest = <<>>
      /\ op'.pc \in {"initialize", "search", "assign", "remove", "clear"}
    BY BeginEffect DEF dict
<1>2. op'.pc \in {"initialize", "search", "assign"} =>
          /\ op'.type = TypeOf[op'.key] /\ op'.key \in Keys
          /\ buckets # NoArray => op'.pc = SitesStep(op'.type)
    BY <1>1, BeginEffect DEF dict
<1>3. op'.pc \in {"search", "assign"} => buckets # NoArray
    BY <1>1, BeginsKeepIInv DEF IInv, BucketsOK
<1> QED
    BY <1>1, <1>2, <1>3 DEF SitesFit, SitesStep

\* What a step leaves of the key types when it only moves on.
LEMMA SameSites ==
    ASSUME IInv, SitesFit, SameItem, UNCHANGED <<keyType, eqFunc>>,
           op.pc # "type", op'.pc \in {"search", "value", "key", "count", "forget", "discount", "grow"},
           op'.pc \in {"search", "value", "key", "count"} => keyType \in {op.type, Heterogeneous},
           op'.pc = "grow" => op.pc \in {"count", "grow"},
           op'.pc \in {"search", "value", "key", "count"} =>
              op.pc \in {"initialize", "clone", "search", "value", "key"},
           keyType # Heterogeneous => KeysOfType(buckets', keyType),
           op'.pc = "grow" /\ keyType # Heterogeneous => KeysOfType(op'.next, keyType)
    PROVE  SitesFit'
BY DEF SitesFit, SameItem

\* The end of a mutation.
LEMMA ReleaseKeepsSites ==
    ASSUME IInv, SitesFit, Release, UNCHANGED <<keyType, eqFunc>>, op.pc # "type",
           keyType # Heterogeneous => KeysOfType(buckets', keyType)
    PROVE  SitesFit'
BY UnlockedFields DEF SitesFit, Release

\* Adding in one piece ends with the item.
LEMMA NextItemReleases == ASSUME SitesFit, NextItem PROVE Release
BY DEF SitesFit, NextItem

\* Each step of a mutation under the lock.
LEMMA ProgressKeepsSites ==
    ASSUME IInv, SitesFit, Progress
    PROVE  SitesFit'
<1>1. OpType(op) /\ (buckets # NoArray => IsArray(buckets) /\ WellFormed(buckets))
    BY DEF IInv, OpOK, BucketsOK, WellFormed
<1>2. op.pc \notin {"free", "clear", "zero"} => op.key \in Keys
    BY DEF IInv, OpOK
<1>3. CASE Initialize
  <2>1. op.pc = "initialize" /\ SameItem /\ LiveSlots(buckets') = {} /\ op'.pc = SitesStep(op.type)
        /\ UNCHANGED <<keyType, eqFunc>>
      BY <1>1, <1>3, AllocationEffect DEF Initialize, Goto, OpType
  <2>2. KeysOfType(buckets', keyType)
      BY <2>1 DEF KeysOfType
  <2> QED
      BY <2>1, <2>2 DEF SitesFit, SitesStep, SameItem
<1>4. CASE AssignSites
  <2>1. op.pc = "assign" /\ op'.pc = "type" /\ SameItem /\ UNCHANGED <<buckets, keyType>>
        /\ eqFunc' = IF keyType = NoType THEN op.type ELSE Generic
      BY <1>1, <1>4, GotoEffect DEF AssignSites
  <2> QED
      BY <2>1 DEF SitesFit, SameItem
<1>5. CASE SetKeyType
  <2>1. /\ op.pc = "type" /\ SameItem /\ UNCHANGED <<buckets, eqFunc>>
        /\ keyType' = IF keyType = NoType THEN op.type ELSE Heterogeneous
        /\ op.mode = "add" /\ op.type = TypeOf[op.key] /\ op.key \in Keys
      BY <1>1, <1>2, <1>5, GotoEffect DEF SetKeyType, SitesFit
  <2>2. op'.pc = IF keyType = NoType THEN "search" ELSE "clone"
      BY <1>1, <1>5, <2>1 DEF SetKeyType, Goto, OpType
  <2>3. keyType = NoType => KeysOfType(buckets, op.type)
      BY <2>1, NoTypeNoKeys, TypeMarkers DEF SitesFit
  <2> QED
      BY <2>1, <2>2, <2>3, TypeMarkers DEF SitesFit, SameItem
<1>6. CASE CloneBuckets
  <2>1. op.pc = "clone" /\ op'.pc = "search" /\ SameItem /\ UNCHANGED <<buckets, keyType, eqFunc>>
      BY <1>1, <1>6, GotoEffect, SitesEffect DEF CloneBuckets
  <2> QED
      BY <2>1 DEF SitesFit, SameItem
<1>7. CASE Update
  <2>1. PICK i \in LiveSlots(buckets), b \in Bucket :
            Writes(i, b) /\ buckets.at[i].key = op.key /\ b.key = op.key
      BY <1>7, UpdateEffect
  <2>2. op.pc = "search" /\ Release
      BY <1>7, UpdateEffect, NextItemReleases
  <2>3. KeysOfType(buckets, keyType) => KeysOfType(buckets', keyType)
      BY <2>1, WriteKeepsType DEF Writes, KeysOfType
  <2> QED
      BY <2>1, <2>2, <2>3, ReleaseKeepsSites DEF Writes, SitesFit
<1>8. CASE WriteHash
  <2>1. PICK b \in Bucket : Writes(op'.index, b) /\ b.key \notin Keys
      BY <1>8, WriteHashEffect
  <2>2. KeysOfType(buckets, keyType) => KeysOfType(buckets', keyType)
      BY <2>1, WriteKeepsType DEF Writes
  <2>3. op.pc = "search" /\ op'.pc = "value" /\ SameItem
      BY <1>8, WriteHashEffect
  <2> QED
      BY <2>1, <2>2, <2>3, SameSites DEF Writes, SitesFit
<1>9. CASE WriteValue
  <2>1. PICK b \in Bucket : Writes(op.index, b) /\ b.key \notin Keys
      BY <1>9, WriteValueEffect
  <2>2. KeysOfType(buckets, keyType) => KeysOfType(buckets', keyType)
      BY <2>1, WriteKeepsType DEF Writes
  <2>3. op.pc = "value" /\ op'.pc = "key" /\ SameItem
      BY <1>9, WriteValueEffect
  <2> QED
      BY <2>1, <2>2, <2>3, SameSites DEF Writes, SitesFit
<1>10. CASE WriteKey
  <2>1. PICK b \in Bucket : Writes(op.index, b) /\ b.key = op.key
      BY <1>10, WriteKeyEffect
  <2>2. op.pc = "key" /\ op'.pc = "count" /\ SameItem
      BY <1>10, WriteKeyEffect
  <2>3. keyType # Heterogeneous => keyType = TypeOf[op.key]
      BY <2>2 DEF SitesFit
  <2>4. keyType # Heterogeneous => KeysOfType(buckets', keyType)
      BY <2>1, <2>3, WriteKeepsType DEF Writes, SitesFit
  <2> QED
      BY <2>1, <2>2, <2>4, SameSites DEF Writes, SitesFit
<1>11. CASE IncrementCount
  <2>1. op.pc = "count" /\ UNCHANGED <<buckets, keyType, eqFunc>>
      BY <1>11, IncrementEffect
  <2>2. ASSUME SameItem, op'.pc = "grow", NEW size \in Nat \ {0}, op'.next = NewArray(size)
        PROVE  SitesFit'
    <3>1. KeysOfType(op'.next, keyType)
        BY <2>2, NewArrayWellFormed DEF KeysOfType
    <3> QED
        BY <2>1, <2>2, <3>1, SameSites DEF SitesFit
  <2>3. ASSUME NextItem PROVE SitesFit'
      BY <2>1, <2>3, NextItemReleases, ReleaseKeepsSites DEF SitesFit
  <2> QED
      BY <1>11, <2>2, <2>3, IncrementEffect
<1>12. CASE RehashBucket
  <2>1. /\ op.pc = "grow" /\ op'.pc = "grow" /\ SameItem /\ UNCHANGED <<buckets, keyType, eqFunc>>
        /\ IsArray(op.next) /\ buckets.at[op.index] \in Bucket
      BY <1>12, RehashEffect DEF dict
  <2>2. ASSUME NEW i \in 0 .. op.next.length - 1, op'.next = Write(op.next, i, buckets.at[op.index]),
               op.index \in LiveSlots(buckets), keyType # Heterogeneous
        PROVE  KeysOfType(op'.next, keyType)
    <3>1. TypeOf[buckets.at[op.index].key] = keyType /\ KeysOfType(op.next, keyType)
        BY <2>1, <2>2 DEF SitesFit, KeysOfType
    <3> QED
        BY <2>1, <2>2, <3>1, WriteKeepsType
  <2>3. keyType # Heterogeneous => KeysOfType(op'.next, keyType)
      BY <1>12, <2>1, <2>2, RehashEffect DEF SitesFit
  <2> QED
      BY <2>1, <2>3, SameSites DEF SitesFit
<1>13. CASE PublishGrown
  <2>1. op.pc = "grow" /\ op.mode = "add"
      BY <1>13, PublishEffect DEF SitesFit
  <2>2. Release /\ buckets' = op.next /\ UNCHANGED <<keyType, eqFunc>>
      BY <1>13, <2>1, PublishEffect
  <2> QED
      BY <2>1, <2>2, ReleaseKeepsSites DEF SitesFit
<1>14. CASE RemoveKey
  <2>1. PICK i \in LiveSlots(buckets), b \in Bucket : Writes(i, b) /\ b.key \notin Keys
      BY <1>14, RemoveKeyEffect
  <2>2. KeysOfType(buckets, keyType) => KeysOfType(buckets', keyType)
      BY <2>1, WriteKeepsType DEF Writes
  <2>3. op.pc = "remove" /\ op'.pc = "forget" /\ SameItem
      BY <1>14, RemoveKeyEffect
  <2> QED
      BY <2>1, <2>2, <2>3, SameSites DEF Writes, SitesFit
<1>15. CASE ForgetValue
  <2>1. PICK b \in Bucket : Writes(op.index, b) /\ b.key \notin Keys
      BY <1>15, ForgetValueEffect
  <2>2. KeysOfType(buckets, keyType) => KeysOfType(buckets', keyType)
      BY <2>1, WriteKeepsType DEF Writes
  <2>3. op.pc = "forget" /\ op'.pc = "discount" /\ SameItem
      BY <1>15, ForgetValueEffect
  <2> QED
      BY <2>1, <2>2, <2>3, SameSites DEF Writes, SitesFit
<1>16. CASE ClearBuckets
  <2>1. op.pc = "clear" /\ op'.pc = "zero" /\ SameItem /\ buckets' = NewArray(ClearedBucketSize)
        /\ UNCHANGED <<keyType, eqFunc>>
      BY <1>1, <1>16, GotoEffect DEF ClearBuckets, Replace
  <2>2. KeysOfType(buckets', keyType)
      BY <2>1, NewArrayWellFormed, SizeAssumption DEF KeysOfType
  <2> QED
      BY <2>1, <2>2 DEF SitesFit, SameItem
<1>17. CASE RemoveNothing \/ DecrementCount \/ ZeroCount
  <2>1. Release /\ UNCHANGED <<buckets, keyType, eqFunc>> /\ op.pc # "type"
      BY <1>17 DEF RemoveNothing, DecrementCount, ZeroCount, dict
  <2> QED
      BY <2>1, ReleaseKeepsSites DEF SitesFit
<1>18. ~(AllocateForCopy \/ AdoptKeyType \/ AdoptDelegates)
    BY DEF SitesFit, AllocateForCopy, AdoptKeyType, AdoptDelegates
<1> QED
    BY <1>3, <1>4, <1>5, <1>6, <1>7, <1>8, <1>9, <1>10, <1>11, <1>12, <1>13, <1>14, <1>15,
       <1>16, <1>17, <1>18 DEF Progress

-----------------------------------------------------------------------------
(* Delegates: the lookups.                                                   *)

\* A reader of a replaced array goes on with what it has.
LEMMA ReplacedReader ==
    ASSUME IInv, NEW a, Replace(a), NEW r \in Readers
    PROVE  /\ reader'[r].pc = reader[r].pc /\ reader'[r].key = reader[r].key
           /\ reader'[r].eq = reader[r].eq /\ reader'[r].met = reader[r].met
           /\ reader'[r].held = IF reader[r].held = Current THEN buckets ELSE reader[r].held
           /\ reader'[r].held # Current /\ Held(r)' = Held(r)
<1>1. ReaderOK(reader[r]) /\ ReaderType(reader[r])
    BY DEF IInv, ReaderOK
<1>2. buckets # NoArray => buckets # Current
    BY DEF IInv, BucketsOK, WellFormed, IsArray, Current
<1>3. CASE reader[r].held = Current
  <2>1. reader'[r] = [reader[r] EXCEPT !.held = buckets] /\ buckets # Current
      BY <1>1, <1>2, <1>3 DEF Replace, ReaderOK
  <2>2. /\ reader'[r].pc = reader[r].pc /\ reader'[r].key = reader[r].key
        /\ reader'[r].eq = reader[r].eq /\ reader'[r].met = reader[r].met
        /\ reader'[r].held = buckets
      BY <1>1, <2>1 DEF ReaderType
  <2> QED
      BY <1>3, <2>1, <2>2 DEF Held, Dereference
<1>4. CASE reader[r].held # Current
  <2>1. reader'[r] = reader[r]
      BY <1>4 DEF Replace
  <2> QED
      BY <1>4, <2>1 DEF Held, Dereference
<1> QED
    BY <1>3, <1>4

\* A step that replaces the array: its readers stay with an array of one type.
LEMMA ReplacementFits ==
    ASSUME IInv, SitesFit, ReadersFit, NEW a, Replace(a), keyType' = keyType
    PROVE  ReadersFit'
<1> SUFFICES ASSUME NEW r \in Readers PROVE ReaderFits(r)'
    BY DEF ReadersFit
<1>1. ReaderFits(r)
    BY DEF ReadersFit
<1>2. /\ reader'[r].pc = reader[r].pc /\ reader'[r].key = reader[r].key
      /\ reader'[r].eq = reader[r].eq /\ reader'[r].met = reader[r].met
      /\ reader'[r].held = IF reader[r].held = Current THEN buckets ELSE reader[r].held
      /\ reader'[r].held # Current /\ Held(r)' = Held(r)
    BY ReplacedReader
<1>3. keyType # Heterogeneous => KeysOfType(buckets, keyType)
    BY DEF SitesFit
<1> QED
    BY <1>1, <1>2, <1>3 DEF ReaderFits, LookingUp

\* A step that writes the current array: keys of its type only.
LEMMA WriteFits ==
    ASSUME IInv, SitesFit, ReadersFit, SitesFit', reader' = reader, keyType' = keyType,
           op.pc # "clone"
    PROVE  ReadersFit'
<1> SUFFICES ASSUME NEW r \in Readers PROVE ReaderFits(r)'
    BY DEF ReadersFit
<1>1. ReaderFits(r)
    BY DEF ReadersFit
<1>2. keyType # Heterogeneous => KeysOfType(buckets', keyType)
    BY DEF SitesFit
<1>3. reader[r].held # Current => Held(r)' = Held(r)
    BY DEF Held, Dereference
<1>4. reader[r].held = Current => Held(r)' = buckets'
    BY DEF Held, Dereference
<1>5. reader[r].key \in Keys \/ ~LookingUp(r)
    BY DEF IInv, ReaderOK, LookingUp
<1>6. ASSUME LookingUp(r), reader[r].pc \in {"probe", "compare"}, reader[r].eq # Generic
      PROVE  KeysOfType(Held(r)', reader[r].eq)
             /\ (reader[r].held = Current => keyType = reader[r].eq)
    BY <1>1, <1>2, <1>3, <1>4, <1>5, <1>6, TypeMarkers DEF ReaderFits
<1> QED
    BY <1>1, <1>6 DEF ReaderFits, LookingUp

\* A first type arrives in a dictionary without keys; a second one is followed
\* by a clone.
LEMMA NewTypeFits ==
    ASSUME IInv, SitesFit, ReadersFit, SetKeyType
    PROVE  ReadersFit'
<1> SUFFICES ASSUME NEW r \in Readers PROVE ReaderFits(r)'
    BY DEF ReadersFit
<1>1. ReaderFits(r) /\ OpType(op)
    BY DEF ReadersFit, IInv, OpOK
<1>2. /\ op.pc = "type" /\ UNCHANGED <<buckets, reader>>
      /\ keyType' = IF keyType = NoType THEN op.type ELSE Heterogeneous
      /\ op.mode = "add"
    BY DEF SetKeyType, SitesFit
<1>3. op'.pc = IF keyType = NoType THEN "search" ELSE "clone"
    BY <1>1, <1>2 DEF SetKeyType, Goto, OpType
<1>4. Held(r)' = Held(r)
    BY <1>2 DEF Held, Dereference
<1>5. reader[r].key \in Keys \/ ~LookingUp(r)
    BY DEF IInv, ReaderOK, LookingUp
<1>6. CASE keyType = NoType
  <2>1. LookingUp(r) /\ reader[r].held # Current => KeysOfType(reader[r].held, op.type)
      BY <1>1, <1>6, NoTypeNoKeys, TypeMarkers DEF ReaderFits
  <2>2. ~(LookingUp(r) /\ reader[r].pc = "eqFunc")
      BY <1>1, <1>5, <1>6, TypeMarkers DEF ReaderFits
  <2>3. ~(LookingUp(r) /\ reader[r].pc \in {"probe", "compare"} /\ reader[r].eq # Generic)
      BY <1>1, <1>5, <1>6, TypeMarkers DEF ReaderFits
  <2> QED
      BY <1>2, <1>6, <2>1, <2>2, <2>3 DEF ReaderFits, LookingUp
<1>7. CASE keyType # NoType
    BY <1>1, <1>2, <1>3, <1>4, <1>7 DEF ReaderFits, LookingUp
<1> QED
    BY <1>6, <1>7

\* Each step of a mutation.
LEMMA MutationsFit ==
    ASSUME IInv, SitesFit, ReadersFit, SitesFit', Mutate \/ Progress
    PROVE  ReadersFit'
<1>1. CASE Mutate
  <2>1. op.pc = "free" /\ UNCHANGED <<keyType, reader>>
      BY <1>1, BeginEffect DEF dict
  <2> QED
      BY <2>1, WriteFits
<1>2. CASE SetKeyType
    BY <1>2, NewTypeFits
<1>3. CASE Initialize \/ CloneBuckets \/ ClearBuckets \/ AllocateForCopy \/ PublishGrown
  <2>1. (\E a : Replace(a)) /\ keyType' = keyType
      BY <1>3 DEF Initialize, CloneBuckets, ClearBuckets, AllocateForCopy, PublishGrown
  <2> QED
      BY <2>1, ReplacementFits
<1>4. CASE \/ AssignSites \/ Update \/ WriteHash \/ WriteValue \/ WriteKey \/ IncrementCount
           \/ RehashBucket \/ RemoveKey \/ RemoveNothing \/ ForgetValue \/ DecrementCount
           \/ ZeroCount
  <2>1. UNCHANGED <<keyType, reader>> /\ op.pc # "clone"
      BY <1>4 DEF AssignSites, Update, WriteHash, WriteValue, WriteKey, IncrementCount, RehashBucket,
             RemoveKey, RemoveNothing, ForgetValue, DecrementCount, ZeroCount, WriteBucket, dict
  <2> QED
      BY <2>1, WriteFits
<1>5. ~(AdoptKeyType \/ AdoptDelegates)
    BY DEF SitesFit, AdoptKeyType, AdoptDelegates
<1> QED
    BY <1>1, <1>2, <1>3, <1>4, <1>5 DEF Progress

\* What a step of one reader has to establish.
LEMMA ReaderStepFits ==
    ASSUME IInv, ReadersFit, NEW r \in Readers, NEW new, UNCHANGED <<dict, op>>,
           reader' = [reader EXCEPT ![r] = new],
           new.pc = "idle" \/
              (/\ keyType # Heterogeneous /\ new.held # Current => KeysOfType(new.held, keyType)
               /\ new.pc = "eqFunc" => keyType \in {TypeOf[new.key], Heterogeneous}
               /\ new.pc \in {"probe", "compare"} /\ new.eq # Generic =>
                     /\ new.eq = TypeOf[new.key]
                     /\ keyType \in {new.eq, Heterogeneous}
                     /\ KeysOfType(Dereference(new.held), new.eq)
                     /\ new.held = Current => keyType = new.eq \/ op.pc = "clone"
                     /\ new.pc = "compare" /\ new.met \in Keys => TypeOf[new.met] = new.eq)
    PROVE  ReadersFit'
<1>1. reader'[r] = new /\ \A q \in Readers : q # r => reader'[q] = reader[q]
    BY DEF IInv
<1>2. UNCHANGED <<buckets, keyType, op>>
    BY DEF dict
<1>3. Held(r)' = Dereference(new.held)
    BY <1>1, <1>2 DEF Held, Dereference
<1>4. ReaderFits(r)'
    BY <1>1, <1>2, <1>3 DEF ReaderFits, LookingUp
<1>5. ASSUME NEW q \in Readers, q # r PROVE ReaderFits(q)'
  <2>1. ReaderFits(q) /\ reader'[q] = reader[q] /\ Held(q)' = Held(q)
      BY <1>1, <1>2, <1>5 DEF ReadersFit, Held, Dereference
  <2> QED
      BY <1>2, <2>1 DEF ReaderFits, LookingUp
<1> QED
    BY <1>4, <1>5 DEF ReadersFit

\* Each step of a lookup.
LEMMA LookupsFit ==
    ASSUME IInv, SitesFit, ReadersFit, NEW r \in Readers,
           (\E k \in Keys : BeginLookup(r, k)) \/ Advance(r) \/ Return(r)
    PROVE  ReadersFit'
<1> DEFINE me == reader[r]
           a == Held(r)
<1>1. ReaderOK(me) /\ ReaderType(me) /\ ReaderFits(r)
    BY DEF IInv, ReaderOK, ReadersFit
<1>2. UNCHANGED <<dict, op>>
    BY DEF BeginLookup, Advance, ReadCount, ReadKeyType, ReadEqFunc, ReadKey, ReadBucket,
           Return, Read
<1>3. ASSUME NEW k \in Keys, BeginLookup(r, k) PROVE ReadersFit'
  <2> DEFINE new == PickUp(k)
  <2>1. reader' = [reader EXCEPT ![r] = new]
      BY <1>3 DEF BeginLookup
  <2>2. new.pc = "count" /\ new.held = IF buckets = NoArray THEN NoArray ELSE Current
      BY DEF PickUp, Idle
  <2>3. LiveSlots(NoArray) = {}
      BY LiveSlotsFinite DEF IsArrayOrNull
  <2> HIDE DEF new
  <2>4. new.held # Current => KeysOfType(new.held, keyType)
      BY <2>2, <2>3 DEF KeysOfType
  <2> QED
      BY <1>2, <2>1, <2>2, <2>4, ReaderStepFits
<1>4. ASSUME Advance(r)
      PROVE  me.key \in Keys /\ LookingUp(r)
             /\ (keyType # Heterogeneous /\ me.held # Current => KeysOfType(me.held, keyType))
    BY <1>1, <1>4 DEF ReaderFits, ReaderOK, LookingUp, Advance, ReadCount, ReadKeyType, ReadEqFunc,
                      ReadKey, ReadBucket
<1>5. ASSUME Advance(r), NEW pc, pc \in {"miss", "keyType"},
             reader' = [reader EXCEPT ![r] = [me EXCEPT !.pc = pc]]
      PROVE  ReadersFit'
  <2> DEFINE new == [me EXCEPT !.pc = pc]
  <2>1. new.pc = pc /\ new.held = me.held
      BY <1>1 DEF ReaderType
  <2> HIDE DEF new
  <2> QED
      BY <1>2, <1>4, <1>5, <2>1, ReaderStepFits DEF new
<1>6. CASE ReadCount(r)
  <2>1. \E pc \in {"miss", "keyType"} : reader' = [reader EXCEPT ![r] = [me EXCEPT !.pc = pc]]
      BY <1>6 DEF ReadCount, Read
  <2> QED
      BY <1>5, <1>6, <2>1 DEF Advance
<1>7. CASE ReadKeyType(r)
  <2>1. CASE keyType \in {TypeOf[me.key], Heterogeneous}
    <3> DEFINE new == [me EXCEPT !.pc = "eqFunc"]
    <3>1. reader' = [reader EXCEPT ![r] = new]
        BY <1>7, <2>1 DEF ReadKeyType, Read
    <3>2. new.pc = "eqFunc" /\ new.held = me.held /\ new.key = me.key
        BY <1>1 DEF ReaderType
    <3> HIDE DEF new
    <3> QED
        BY <1>2, <1>4, <1>7, <2>1, <3>1, <3>2, ReaderStepFits DEF Advance
  <2>2. CASE keyType \notin {TypeOf[me.key], Heterogeneous}
    <3> DEFINE new == [me EXCEPT !.pc = "probe", !.eq = Generic]
    <3>1. reader' = [reader EXCEPT ![r] = new]
        BY <1>7, <2>2 DEF ReadKeyType, Read
    <3>2. new.pc = "probe" /\ new.held = me.held /\ new.eq = Generic
        BY <1>1 DEF ReaderType
    <3> HIDE DEF new
    <3> QED
        BY <1>2, <1>4, <1>7, <3>1, <3>2, ReaderStepFits DEF Advance
  <2> QED
      BY <2>1, <2>2
<1>8. CASE ReadEqFunc(r)
  <2> DEFINE new == [me EXCEPT !.pc = "probe", !.eq = eqFunc]
  <2>1. me.pc = "eqFunc" /\ reader' = [reader EXCEPT ![r] = new]
      BY <1>8 DEF ReadEqFunc, Read
  <2>2. new.pc = "probe" /\ new.held = me.held /\ new.eq = eqFunc /\ new.key = me.key
      BY <1>1 DEF ReaderType
  <2> HIDE DEF new
  <2>3. keyType \in {TypeOf[me.key], Heterogeneous}
      BY <1>1, <1>4, <1>8, <2>1 DEF ReaderFits, Advance
  <2>4. eqFunc # Generic => keyType = TypeOf[me.key] /\ eqFunc = TypeOf[me.key]
      BY <1>4, <1>8, <2>3, TypeMarkers DEF SitesFit, Advance
  <2>5. keyType = TypeOf[me.key] => KeysOfType(Dereference(me.held), keyType)
      BY <1>4, <1>8, TypeMarkers DEF SitesFit, Advance, Dereference
  <2> QED
      BY <1>2, <1>4, <1>8, <2>1, <2>2, <2>4, <2>5, ReaderStepFits DEF Advance
<1>9. ASSUME Advance(r), me.pc \in {"probe", "compare"}, me.eq # Generic
      PROVE  /\ me.eq = TypeOf[me.key]
             /\ keyType \in {me.eq, Heterogeneous}
             /\ KeysOfType(Dereference(me.held), me.eq)
             /\ me.held = Current => keyType = me.eq \/ op.pc = "clone"
    BY <1>1, <1>4, <1>9 DEF ReaderFits, Held
<1>10. CASE ReadKey(r)
  <2> DEFINE met == Met(a, me.key, me.dist)
  <2>1. me.pc = "probe" /\ Advance(r)
      BY <1>10 DEF ReadKey, Advance
  <2>2. CASE met = NoKey
    <3>1. reader' = [reader EXCEPT ![r] = [me EXCEPT !.pc = "miss", !.met = me.met]]
        BY <1>10, <2>2 DEF ReadKey, Read
    <3>2. [me EXCEPT !.pc = "miss", !.met = me.met] = [me EXCEPT !.pc = "miss"]
        BY <1>1 DEF ReaderType
    <3> QED
        BY <1>5, <2>1, <3>1, <3>2
  <2>3. CASE met # NoKey
    <3> DEFINE new == [me EXCEPT !.pc = "compare", !.met = met]
    <3>1. reader' = [reader EXCEPT ![r] = new]
        BY <1>10, <2>3 DEF ReadKey, Read
    <3>2. /\ new.pc = "compare" /\ new.held = me.held /\ new.eq = me.eq /\ new.key = me.key
          /\ new.met = met
        BY <1>1 DEF ReaderType
    <3>3. ASSUME met \in Keys, me.eq # Generic PROVE TypeOf[met] = me.eq
      <4>1. KeysOfType(a, me.eq)
          BY <1>9, <2>1, <3>3 DEF Held
      <4>2. a # NoArray /\ IsArray(a) /\ me.dist \in Nat
          BY <1>1, <2>1 DEF IInv, BucketsOK, ReaderOK, ReaderType, Held, Dereference, WellFormed
      <4>3. Probe(a, me.key, me.dist) \in 0 .. a.length - 1
          BY <1>4, <2>1, <4>2, ProbeInRange
      <4>4. Probe(a, me.key, me.dist) \in LiveSlots(a)
          BY <3>3, <4>3 DEF LiveSlots, Met
      <4> QED
          BY <4>1, <4>4 DEF KeysOfType, Met
    <3> HIDE DEF new, met
    <3> QED
        BY <1>2, <1>4, <1>9, <2>1, <3>1, <3>2, <3>3, ReaderStepFits
  <2> QED
      BY <2>2, <2>3
<1>11. CASE ReadBucket(r)
  <2> DEFINE value == a.at[Probe(a, me.key, me.dist)].value
  <2>1. me.pc = "compare" /\ Advance(r)
      BY <1>11 DEF ReadBucket, Advance
  <2>2. CASE me.met = me.key
    <3> DEFINE new == [me EXCEPT !.pc = "found", !.result = value]
    <3>1. reader' = [reader EXCEPT ![r] = new]
        BY <1>11, <2>2 DEF ReadBucket, Read
    <3>2. new.pc = "found" /\ new.held = me.held
        BY <1>1 DEF ReaderType
    <3> HIDE DEF new
    <3> QED
        BY <1>2, <1>4, <2>1, <3>1, <3>2, ReaderStepFits
  <2>3. CASE me.met # me.key /\ me.dist + 1 = a.length
    <3>1. reader' = [reader EXCEPT ![r] = [me EXCEPT !.pc = "miss", !.dist = me.dist]]
        BY <1>11, <2>3 DEF ReadBucket, Read
    <3>2. [me EXCEPT !.pc = "miss", !.dist = me.dist] = [me EXCEPT !.pc = "miss"]
        BY <1>1 DEF ReaderType
    <3> QED
        BY <1>5, <2>1, <3>1, <3>2
  <2>4. CASE me.met # me.key /\ me.dist + 1 # a.length
    <3> DEFINE new == [me EXCEPT !.pc = "probe", !.dist = me.dist + 1]
    <3>1. reader' = [reader EXCEPT ![r] = new]
        BY <1>11, <2>4 DEF ReadBucket, Read
    <3>2. new.pc = "probe" /\ new.held = me.held /\ new.eq = me.eq /\ new.key = me.key
        BY <1>1 DEF ReaderType
    <3> HIDE DEF new
    <3> QED
        BY <1>2, <1>4, <1>9, <2>1, <3>1, <3>2, ReaderStepFits
  <2> QED
      BY <2>2, <2>3, <2>4
<1>12. CASE Return(r)
  <2>1. reader' = [reader EXCEPT ![r] = Idle] /\ Idle.pc = "idle"
      BY <1>12 DEF Return, Idle
  <2> QED
      BY <1>2, <2>1, ReaderStepFits
<1> QED
    BY <1>3, <1>6, <1>7, <1>8, <1>10, <1>11, <1>12 DEF Advance

\* The initial dictionary has no keys, and nobody looks anything up.
LEMMA InitSites == Init => SitesOK
<1> SUFFICES ASSUME Init PROVE SitesFit /\ ReadersFit
    BY DEF SitesOK
<1>1. \A r \in Readers : reader[r].pc = "idle"
    BY DEF Init, Idle
<1>2. LiveSlots(buckets) = {}
    BY LiveSlotsFinite DEF Init, IsArrayOrNull
<1>3. SitesFit
    BY <1>2, UnlockedFields, TypeMarkers DEF Init, SitesFit, KeysOfType
<1> QED
    BY <1>1, <1>3 DEF ReadersFit, ReaderFits, LookingUp

\* As long as nothing is copied, the delegates fit.
LEMMA StepKeepsSites == IInv /\ SitesOK /\ [Next]_vars => SitesOK'
<1> SUFFICES ASSUME IInv, SitesOK, [Next]_vars, ~copied' PROVE SitesFit' /\ ReadersFit'
    BY DEF SitesOK
<1>1. CASE Mutate
  <2>1. SitesFit /\ ReadersFit
      BY <1>1, BeginEffect DEF SitesOK
  <2> QED
      BY <1>1, <2>1, BeginsKeepSites, MutationsFit
<1>2. CASE Progress
  <2>1. copied' = copied
      BY <1>2 DEF Progress, Initialize, AssignSites, SetKeyType, CloneBuckets, Update, WriteHash,
             WriteValue, WriteKey, IncrementCount, RehashBucket, PublishGrown, RemoveKey,
             RemoveNothing, ClearBuckets, ForgetValue, DecrementCount, ZeroCount, AllocateForCopy,
             AdoptKeyType, AdoptDelegates, Goto, Grow, NextItem, Release, history
  <2>2. SitesFit /\ ReadersFit
      BY <2>1 DEF SitesOK
  <2> QED
      BY <1>2, <2>2, ProgressKeepsSites, MutationsFit
<1>3. ASSUME NEW r \in Readers,
             (\E k \in Keys : BeginLookup(r, k)) \/ Advance(r) \/ Return(r)
      PROVE  SitesFit' /\ ReadersFit'
  <2>1. UNCHANGED <<dict, op, copied>>
      BY <1>3 DEF BeginLookup, Advance, ReadCount, ReadKeyType, ReadEqFunc, ReadKey, ReadBucket,
             Return, Read, history
  <2>2. SitesFit /\ ReadersFit
      BY <2>1 DEF SitesOK
  <2>3. SitesFit'
      BY <2>1, <2>2 DEF SitesFit, dict
  <2> QED
      BY <1>3, <2>2, <2>3, LookupsFit
<1>4. CASE UNCHANGED vars
    BY <1>4 DEF vars, dict, history, SitesOK, SitesFit, ReadersFit, ReaderFits, LookingUp, Held,
           Dereference
<1> QED
    BY <1>1, <1>2, <1>3, <1>4 DEF Next

\* Until something is copied into the dictionary, _keyType, _eqFunc, the keys in
\* the array and what each lookup picked up of them agree.
THEOREM SitesInvariance == Spec => []SitesOK
BY InitSites, StepKeepsSites, Invariance, PTL DEF Spec

\* A delegate for one type compares keys of that type only, although readers take
\* the array, _keyType and _eqFunc at three different moments.
THEOREM DelegatesAlwaysFit == Spec => []DelegatesFitKeys
<1>1. SitesOK => DelegatesFitKeys
    BY DEF SitesOK, ReadersFit, ReaderFits, LookingUp, DelegatesFitKeys
<1> QED
    BY <1>1, SitesInvariance, PTL
=============================================================================
