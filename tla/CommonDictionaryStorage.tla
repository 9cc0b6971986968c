---------------------- MODULE CommonDictionaryStorage ----------------------
(***************************************************************************)
(* The storage of dict: mutations under lock(this), reads without a lock   *)
(* (IronPython2/Runtime/CommonDictionaryStorage.cs).                       *)
(*                                                                         *)
(* Mutations exclude each other, so one record, op, describes the mutation *)
(* in progress, if any.  Each write that a reader can see is a step of its *)
(* own, in the order of the code.  A reader picks up the array reference   *)
(* once; the mutators only ever write the current array, so a reader of a  *)
(* replaced array keeps its last content.                                  *)
(***************************************************************************)
EXTENDS BucketArray, Sequences

CONSTANTS
    Readers,
    Types, TypeOf,          \* the type of each key
    NoType, Heterogeneous,  \* _keyType before the first key, after two types
    Generic,                \* the equality that works for every key
    Absent,                 \* the outcome of looking up an unbound key
    InitialBucketSize, ClearedBucketSize, ResizeMultiplier,
    Sources                 \* dictionaries that may be copied into this one

Items == [key : Keys, value : Values]

ASSUME TypeAssumption ==
    /\ TypeOf \in [Keys -> Types]
    /\ NoType \notin Types /\ Heterogeneous \notin Types /\ Generic \notin Types
    /\ NoType # Heterogeneous /\ NoType # Generic
ASSUME SizeAssumption ==
    /\ InitialBucketSize \in Nat \ {0}
    /\ ClearedBucketSize \in Nat \ {0}
    /\ ResizeMultiplier \in Nat \ {0, 1}
\* A source that was emptied by removals is left out: copying it adds nothing,
\* but it too changes the delegates.
ASSUME SourcesAssumption ==
    \A source \in Sources :
        /\ source.items \in Seq(Items) /\ source.items # <<>>
        /\ source.keyType \in Types \cup {Heterogeneous}
        /\ source.length \in Nat /\ Len(source.items) < source.length
ASSUME AbsentAssumption == Absent \notin Values \cup {Null}

VARIABLES
    buckets,     \* _buckets: the current array or NoArray
    count,       \* _count
    keyType,     \* _keyType
    eqFunc,      \* what _eqFunc compares: a type, Generic, or NoType if null
    op,          \* the mutation that holds lock(this)
    reader,      \* the lock-free lookups
    before,      \* history: the mapping before the mutation in progress
    after,       \* history: the mapping that mutation has to leave
    admissible,  \* history: what a lookup may answer, over its duration
    copied       \* history: whether anything was ever copied into the dictionary

dict == <<buckets, count, keyType, eqFunc>>
history == <<before, after, admissible, copied>>
vars == <<dict, op, reader, history>>
-----------------------------------------------------------------------------
\* References that are not arrays: null, and "whatever _buckets refers to".
NoArray == [length |-> 0, at |-> <<>>]
Current == [length |-> -1, at |-> <<>>]

Unlocked == [pc |-> "free", mode |-> "add", type |-> NoType, key |-> NoKey,
             value |-> Null, rest |-> <<>>, next |-> NoArray, index |-> 0]
Idle == [pc |-> "idle", key |-> NoKey, held |-> NoArray, eq |-> NoType,
         dist |-> 0, met |-> NoKey, result |-> Absent]

LookingUp(r) == reader[r].pc # "idle"

\* A mutation with the effect m begins: from now on a lookup in progress may
\* answer as if it came before or after it.
Expect(m) ==
    /\ after' = m
    /\ admissible' = [r \in Readers |->
          IF LookingUp(r) THEN admissible[r] \cup {m[reader[r].key]} ELSE admissible[r]]

\* _buckets = a: readers that picked up the old array keep it as it is.
Replace(a) ==
    /\ buckets' = a
    /\ reader' = [r \in Readers |->
          IF reader[r].held = Current
          THEN [reader[r] EXCEPT !.held = buckets] ELSE reader[r]]

Init ==
    /\ buckets = NoArray
    /\ count = 0
    /\ keyType = NoType
    /\ eqFunc = NoType
    /\ op = Unlocked
    /\ reader = [r \in Readers |-> Idle]
    /\ before = [k \in Keys |-> Absent]
    /\ after = before
    /\ admissible = [r \in Readers |-> {}]
    /\ copied = FALSE
-----------------------------------------------------------------------------
(* Mutations.  op.mode is "add" for dict[key] = value and "copy" for items   *)
(* copied from another dictionary; op.type is the key type being added,      *)
(* op.rest the items to follow and op.next, op.index the progress of growth. *)

Goto(pc) == op' = [op EXCEPT !.pc = pc] /\ UNCHANGED history

\* The lock is released; what the mutation had to leave is what counts now.
Release ==
    /\ op' = Unlocked
    /\ before' = after
    /\ UNCHANGED <<after, admissible, copied>>

\* The bucket that the mutation writes next.
WriteBucket(i, b) ==
    /\ buckets' = Write(buckets, i, b)
    /\ UNCHANGED <<keyType, eqFunc, reader>>

Begin(record, effect) ==
    /\ op.pc = "free"
    /\ op' = record
    /\ Expect(effect)
    /\ copied' = (copied \/ record.mode = "copy")
    /\ UNCHANGED <<dict, reader, before>>

\* Whether the delegates in use can handle keys of the type being added.
SitesStep(type) ==
    IF keyType \in {type, Heterogeneous} THEN "search" ELSE "assign"

\* A copy into a dictionary without keys adopts the delegates of its source.
CopySites(type) == IF keyType = NoType THEN "adopt" ELSE SitesStep(type)

BeginAdd(k, v) ==
    Begin([Unlocked EXCEPT !.pc = IF buckets = NoArray THEN "initialize" ELSE SitesStep(TypeOf[k]),
                           !.type = TypeOf[k], !.key = k, !.value = v],
          [after EXCEPT ![k] = v])

Initialize ==
    /\ op.pc = "initialize"
    /\ Replace(NewArray(InitialBucketSize))
    /\ Goto(SitesStep(op.type))
    /\ UNCHANGED <<count, keyType, eqFunc>>

\* UpdateHelperFunctions: the delegates, then _keyType, then the clone that
\* leaves lock-free readers with the homogeneous buckets they picked up.
AssignSites ==
    /\ op.pc = "assign"
    /\ eqFunc' = IF keyType = NoType THEN op.type ELSE Generic
    /\ Goto("type")
    /\ UNCHANGED <<buckets, count, keyType, reader>>

SetKeyType ==
    /\ op.pc = "type"
    /\ keyType' = IF keyType = NoType THEN op.type ELSE Heterogeneous
    /\ Goto(IF keyType = NoType \/ op.mode = "copy" THEN "search" ELSE "clone")
    /\ UNCHANGED <<buckets, count, eqFunc, reader>>

\* Variant: the buckets are not cloned when a second type arrives.
CloneBucketsSkipped ==
    /\ op.pc = "clone"
    /\ Goto("search")
    /\ UNCHANGED <<dict, reader>>

CloneBuckets ==
    /\ op.pc = "clone"
    /\ Replace(buckets)
    /\ Goto("search")
    /\ UNCHANGED <<count, keyType, eqFunc>>

\* The next item of a copy, or the end of the mutation.
NextItem ==
    IF op.rest = <<>> THEN Release
    ELSE /\ op' = [op EXCEPT !.pc = "search", !.key = Head(op.rest).key,
                             !.value = Head(op.rest).value, !.rest = Tail(op.rest)]
         /\ before' = after
         /\ Expect([after EXCEPT ![Head(op.rest).key] = Head(op.rest).value])
         /\ UNCHANGED copied

\* Variant: the key is removed and added again.
UpdateByAddingAnew ==
    /\ op.pc = "search"
    /\ \E d \in Matches(buckets, op.key) :
          LET i == Probe(buckets, op.key, d)
          IN  /\ WriteBucket(i, [buckets.at[i] EXCEPT !.key = Removed, !.value = Null])
              /\ op' = [op EXCEPT !.pc = "value", !.index = i]
    /\ count' = count - 1
    /\ UNCHANGED history

\* AddWorker: the key is there, its value is replaced.
Update ==
    /\ op.pc = "search"
    /\ \E d \in Matches(buckets, op.key) :
          LET i == Probe(buckets, op.key, d)
          IN  WriteBucket(i, [buckets.at[i] EXCEPT !.value = op.value])
    /\ NextItem
    /\ UNCHANGED count

\* AddWorker: the key is not there, it takes the first usable bucket (that
\* there is one is part of CountIsExact).
WriteHash ==
    /\ op.pc = "search"
    /\ Matches(buckets, op.key) = {}
    /\ \E d \in Distances(buckets) :
          LET i == Probe(buckets, op.key, d)
          IN  /\ IsUsable(buckets, op.key, d)
              /\ WriteBucket(i, [buckets.at[i] EXCEPT !.hash = Hash[op.key]])
              /\ op' = [op EXCEPT !.pc = "value", !.index = i]
    /\ UNCHANGED <<count, history>>

WriteValue ==
    /\ op.pc = "value"
    /\ WriteBucket(op.index, [buckets.at[op.index] EXCEPT !.value = op.value])
    /\ Goto("key")
    /\ UNCHANGED count

WriteKey ==
    /\ op.pc = "key"
    /\ WriteBucket(op.index, [buckets.at[op.index] EXCEPT !.key = op.key])
    /\ Goto("count")
    /\ UNCHANGED count

Grow(size) ==
    /\ op' = [op EXCEPT !.pc = "grow", !.next = NewArray(size), !.index = 0]
    /\ UNCHANGED history

\* Adding checks the load after it counted; copying made room beforehand.
\* EnsureSize does nothing for an array that is long enough.
IncrementCount ==
    /\ op.pc = "count"
    /\ count' = count + 1
    /\ UNCHANGED <<buckets, keyType, eqFunc, reader>>
    /\ LET size == DividedByLoad(buckets.length) * ResizeMultiplier
       IN  IF op.mode = "add" /\ AtLoad(count', buckets.length) /\ size > buckets.length
           THEN Grow(size) ELSE NextItem

\* EnsureSize: rehash bucket by bucket into an array nobody sees yet ...
RehashBucket ==
    /\ op.pc = "grow"
    /\ op.index < buckets.length
    /\ LET b == buckets.at[op.index]
       IN  IF b.key \in Keys
           THEN \E d \in Distances(op.next) :
                   /\ IsUsable(op.next, b.key, d)
                   /\ op' = [op EXCEPT !.index = @ + 1,
                                       !.next = Write(@, Probe(@, b.key, d), b)]
           ELSE op' = [op EXCEPT !.index = @ + 1]
    /\ UNCHANGED <<dict, reader, history>>

\* ... and replace the buckets by it.
PublishGrown ==
    /\ op.pc = "grow"
    /\ op.index = buckets.length
    /\ Replace(op.next)
    /\ IF op.mode = "add" THEN Release
       ELSE /\ op' = [op EXCEPT !.pc = CopySites(op.type), !.next = NoArray, !.index = 0]
            /\ UNCHANGED history
    /\ UNCHANGED <<count, keyType, eqFunc>>

BeginRemove(k) ==
    Begin([Unlocked EXCEPT !.pc = "remove", !.key = k], [after EXCEPT ![k] = Absent])

\* Variant: a removed bucket becomes fresh again.
RemoveKeyFreshens ==
    /\ op.pc = "remove"
    /\ count > 0
    /\ \E d \in Matches(buckets, op.key) :
          LET i == Probe(buckets, op.key, d)
          IN  /\ WriteBucket(i, [buckets.at[i] EXCEPT !.key = NoKey])
              /\ op' = [op EXCEPT !.pc = "forget", !.index = i]
    /\ UNCHANGED <<count, history>>

\* TryRemoveNoLock: the marker, a memory barrier, the value, the count.
RemoveKey ==
    /\ op.pc = "remove"
    /\ count > 0
    /\ \E d \in Matches(buckets, op.key) :
          LET i == Probe(buckets, op.key, d)
          IN  /\ WriteBucket(i, [buckets.at[i] EXCEPT !.key = Removed])
              /\ op' = [op EXCEPT !.pc = "forget", !.index = i]
    /\ UNCHANGED <<count, history>>

\* There is nothing to remove.
RemoveNothing ==
    /\ op.pc = "remove"
    /\ count > 0 => Matches(buckets, op.key) = {}
    /\ Release
    /\ UNCHANGED <<dict, reader>>

ForgetValue ==
    /\ op.pc = "forget"
    /\ WriteBucket(op.index, [buckets.at[op.index] EXCEPT !.value = Null])
    /\ Goto("discount")
    /\ UNCHANGED count

DecrementCount ==
    /\ op.pc = "discount"
    /\ count' = count - 1
    /\ UNCHANGED <<buckets, keyType, eqFunc, reader>>
    /\ Release

\* Without buckets there is nothing to clear.
BeginClear ==
    /\ buckets # NoArray
    /\ Begin([Unlocked EXCEPT !.pc = "clear"], [k \in Keys |-> Absent])

ClearBuckets ==
    /\ op.pc = "clear"
    /\ Replace(NewArray(ClearedBucketSize))
    /\ Goto("zero")
    /\ UNCHANGED <<count, keyType, eqFunc>>

\* Variant: Clear leaves _count as it was.
ZeroCountForgotten ==
    /\ op.pc = "zero"
    /\ UNCHANGED <<dict, reader>>
    /\ Release

ZeroCount ==
    /\ op.pc = "zero"
    /\ count' = 0
    /\ UNCHANGED <<buckets, keyType, eqFunc, reader>>
    /\ Release
-----------------------------------------------------------------------------
(* CommonCopyTo with this dictionary as the target.                          *)

\* The first of length, length * ResizeMultiplier, ... that is long enough.
CopySizes(items) ==
    LET enough == DividedByLoad(Len(items) + count) + 2
        sizes == {n \in enough .. buckets.length + enough * ResizeMultiplier :
                     \E j \in 0 .. enough : n = buckets.length * ResizeMultiplier ^ j}
    IN  {n \in sizes : \A m \in sizes : n <= m}

\* The copy of a source's items, with the first of them about to be added.
CopyOf(source) ==
    [Unlocked EXCEPT !.mode = "copy", !.type = source.keyType,
                     !.key = Head(source.items).key, !.value = Head(source.items).value,
                     !.rest = Tail(source.items)]

FirstBound(source) ==
    [after EXCEPT ![Head(source.items).key] = Head(source.items).value]

BeginCopyIntoNull(source) ==
    /\ buckets = NoArray
    /\ Begin([CopyOf(source) EXCEPT !.pc = "allocate", !.index = source.length],
             FirstBound(source))

BeginCopy(source) ==
    /\ buckets # NoArray
    /\ \E size \in CopySizes(source.items) :
          Begin(IF size > buckets.length
                THEN [CopyOf(source) EXCEPT !.pc = "grow", !.next = NewArray(size)]
                ELSE [CopyOf(source) EXCEPT !.pc = CopySites(source.keyType)],
                FirstBound(source))

AllocateForCopy ==
    /\ op.pc = "allocate"
    /\ Replace(NewArray(op.index))
    /\ op' = [op EXCEPT !.pc = CopySites(op.type), !.index = 0]
    /\ UNCHANGED <<count, keyType, eqFunc, history>>

AdoptKeyType ==
    /\ op.pc = "adopt"
    /\ keyType' = op.type
    /\ Goto("delegates")
    /\ UNCHANGED <<buckets, count, eqFunc, reader>>

AdoptDelegates ==
    /\ op.pc = "delegates"
    /\ eqFunc' = IF op.type = Heterogeneous THEN Generic ELSE op.type
    /\ Goto("search")
    /\ UNCHANGED <<buckets, count, keyType, reader>>
-----------------------------------------------------------------------------
(* Lock-free lookups: TryGetValue.                                           *)

Dereference(held) == IF held = Current THEN buckets ELSE held
Held(r) == Dereference(reader[r].held)

Read(r, record) ==
    /\ reader' = [reader EXCEPT ![r] = record]
    /\ UNCHANGED <<dict, op, history>>

\* The local variable that holds the array for the rest of the call.
PickUp(key) ==
    [Idle EXCEPT !.pc = "count", !.key = key,
                 !.held = IF buckets = NoArray THEN NoArray ELSE Current]

\* The call picks up _buckets; from here on its answer is accountable.
BeginLookup(r, k) ==
    /\ reader[r].pc = "idle"
    /\ reader' = [reader EXCEPT ![r] = PickUp(k)]
    /\ admissible' = [admissible EXCEPT ![r] = {before[k], after[k]}]
    /\ UNCHANGED <<dict, op, before, after, copied>>

ReadCount(r) ==
    /\ reader[r].pc = "count"
    /\ Read(r, [reader[r] EXCEPT !.pc =
           IF count > 0 /\ reader[r].held # NoArray THEN "keyType" ELSE "miss"])

ReadKeyType(r) ==
    /\ reader[r].pc = "keyType"
    /\ IF keyType \in {TypeOf[reader[r].key], Heterogeneous}
       THEN Read(r, [reader[r] EXCEPT !.pc = "eqFunc"])
       ELSE Read(r, [reader[r] EXCEPT !.pc = "probe", !.eq = Generic])

ReadEqFunc(r) ==
    /\ reader[r].pc = "eqFunc"
    /\ Read(r, [reader[r] EXCEPT !.pc = "probe", !.eq = eqFunc])

\* Variant: a removed bucket ends the scan like one that was never used.
ReadKeyStopsAtRemoved(r) ==
    /\ reader[r].pc = "probe"
    /\ LET met == Met(Held(r), reader[r].key, reader[r].dist)
       IN  Read(r, [reader[r] EXCEPT !.pc = IF met \in {NoKey, Removed} THEN "miss" ELSE "compare",
                                     !.met = IF met \in {NoKey, Removed} THEN @ ELSE met])

\* Copying a bucket out of the array is not atomic: the key first ...
ReadKey(r) ==
    /\ reader[r].pc = "probe"
    /\ LET met == Met(Held(r), reader[r].key, reader[r].dist)
       IN  Read(r, [reader[r] EXCEPT !.pc = IF met = NoKey THEN "miss" ELSE "compare",
                                     !.met = IF met = NoKey THEN @ ELSE met])

\* Variant: the scan does not notice that it is back at its start.
ReadBucketUnbounded(r) ==
    /\ reader[r].pc = "compare"
    /\ LET me == reader[r]
       IN  IF me.met = me.key
           THEN Read(r, [me EXCEPT !.pc = "found",
                            !.result = Held(r).at[Probe(Held(r), me.key, me.dist)].value])
           ELSE Read(r, [me EXCEPT !.pc = "probe", !.dist = @ + 1])

\* ... then the value and the hash code, with which the bucket is compared.
ReadBucket(r) ==
    /\ reader[r].pc = "compare"
    /\ LET a == Held(r)
           me == reader[r]
           next == me.dist + 1
       IN  IF me.met = me.key
           THEN Read(r, [me EXCEPT !.pc = "found",
                                   !.result = a.at[Probe(a, me.key, me.dist)].value])
           ELSE Read(r, [me EXCEPT !.pc = IF next = a.length THEN "miss" ELSE "probe",
                                   !.dist = IF next = a.length THEN @ ELSE next])

Return(r) ==
    /\ reader[r].pc \in {"found", "miss"}
    /\ reader' = [reader EXCEPT ![r] = Idle]
    /\ admissible' = [admissible EXCEPT ![r] = {}]
    /\ UNCHANGED <<dict, op, before, after, copied>>
-----------------------------------------------------------------------------
Mutate ==
    \/ \E k \in Keys, v \in Values : BeginAdd(k, v)
    \/ \E k \in Keys : BeginRemove(k)
    \/ \E source \in Sources : BeginCopyIntoNull(source) \/ BeginCopy(source)
    \/ BeginClear

Progress ==
    \/ Initialize \/ AssignSites \/ SetKeyType \/ CloneBuckets
    \/ Update \/ WriteHash \/ WriteValue \/ WriteKey \/ IncrementCount
    \/ RehashBucket \/ PublishGrown
    \/ RemoveKey \/ RemoveNothing \/ ClearBuckets
    \/ ForgetValue \/ DecrementCount \/ ZeroCount
    \/ AllocateForCopy \/ AdoptKeyType \/ AdoptDelegates

Advance(r) ==
    \/ ReadCount(r) \/ ReadKeyType(r) \/ ReadEqFunc(r) \/ ReadKey(r) \/ ReadBucket(r)

Next ==
    \/ Mutate
    \/ Progress
    \/ \E r \in Readers :
          \/ \E k \in Keys : BeginLookup(r, k)
          \/ Advance(r)
          \/ Return(r)

Spec == Init /\ [][Next]_vars
-----------------------------------------------------------------------------
Steps == {"free", "initialize", "assign", "type", "clone", "search", "value", "key",
          "count", "grow", "remove", "forget", "clear", "discount", "zero", "allocate", "adopt", "delegates"}
ReaderSteps == {"idle", "count", "keyType", "eqFunc", "probe", "compare", "found", "miss"}

IsArrayOrNull(a) == a = NoArray \/ IsArray(a)

OpType(o) ==
    /\ o \in [pc : Steps, mode : {"add", "copy"}, type : Types \cup {NoType, Heterogeneous},
              key : Keys \cup {NoKey}, value : Values \cup {Null}, rest : Seq(Items),
              next : {o.next}, index : Nat]
    /\ IsArrayOrNull(o.next)

ReaderType(me) ==
    /\ me \in [pc : ReaderSteps, key : Keys \cup {NoKey}, held : {me.held},
               eq : Types \cup {NoType, Generic}, dist : Nat,
               met : Keys \cup {NoKey, Removed}, result : Values \cup {Null, Absent}]
    /\ me.held = Current \/ IsArrayOrNull(me.held)

\* The fields of the storage and of every call in progress keep their types,
\* and a lookup that probes stays inside an array that exists.
TypeOK ==
    /\ IsArrayOrNull(buckets)
    /\ count \in Nat
    /\ keyType \in Types \cup {NoType, Heterogeneous}
    /\ eqFunc \in Types \cup {NoType, Generic}
    /\ OpType(op)
    /\ \A r \in Readers :
          /\ ReaderType(reader[r])
          /\ reader[r].pc \in {"probe", "compare"} =>
                Held(r) # NoArray /\ reader[r].dist \in Distances(Held(r))

\* Whatever was added, removed and rehashed before, every key in the current
\* array, in one being filled and in those still read is reached by its probes.
ChainsUnbroken ==
    /\ buckets # NoArray => ChainUnbroken(buckets)
    /\ op.next # NoArray => ChainUnbroken(op.next)
    /\ \A r \in Readers :
          reader[r].held \notin {NoArray, Current} => ChainUnbroken(reader[r].held)

\* No key is in two buckets, although a removed bucket before the key's own
\* is recycled only after the scan has passed it.
KeysUnique ==
    /\ buckets # NoArray => NoDuplicates(buckets)
    /\ op.next # NoArray => NoDuplicates(op.next)

\* Between mutations _count is the number of keys, through every removal,
\* recycling, growth, clear and copy; and AddWorker always finds a bucket
\* (Debug.Assert(_count < buckets.Length)).
CountIsExact ==
    /\ op.pc = "free" => count = IF buckets = NoArray THEN 0 ELSE Cardinality(LiveSlots(buckets))
    /\ op.pc = "search" /\ Matches(buckets, op.key) = {} =>
          count < buckets.length /\ HasRoom(buckets, op.key)

\* Between mutations the array maps every key as a dictionary would, after any
\* sequence of adding, replacing, removing, growing, copying and clearing.
MappingIsExact ==
    op.pc = "free" =>
        \A k \in Keys :
            IF buckets # NoArray /\ Matches(buckets, k) # {}
            THEN \A d \in Matches(buckets, k) : before[k] = buckets.at[Probe(buckets, k, d)].value
            ELSE before[k] = Absent

\* A lookup that finds its key or misses it answers for a moment during the
\* call: what the class comment promises of lock-free readers, as to keys.
LookupsAreConsistent ==
    \A r \in Readers :
        /\ reader[r].pc = "found" => \E answer \in admissible[r] : answer # Absent
        /\ reader[r].pc = "miss" => Absent \in admissible[r]

\* A key that stays bound during the whole lookup is found with one of the
\* values it was bound to, whatever happens to the other keys.
StableKeysAreRead ==
    \A r \in Readers :
        reader[r].pc = "found" /\ Absent \notin admissible[r]
            => reader[r].result \in admissible[r]

\* "a consistent picture as if the read occured before or after the mutation":
\* the value found is one the key was bound to.
ValueWasBound ==
    \A r \in Readers : reader[r].pc = "found" => reader[r].result \in admissible[r]

\* "lock-free readers will only see the old buckets which are homogeneous": a
\* delegate made for one type is never given a key of another.  Copying does not clone
\* the buckets it adds to, so a dictionary that was copied into is let off.
DelegatesFitKeys ==
    ~copied => \A r \in Readers :
        LET me == reader[r]
        IN  (/\ me.pc = "compare"
             /\ me.met \in Keys \ {me.key}
             /\ Held(r).at[Probe(Held(r), me.key, me.dist)].hash = Hash[me.key])
            => me.eq = Generic \/ (me.eq = TypeOf[me.key] /\ me.eq = TypeOf[me.met])

-----------------------------------------------------------------------------
(* What makes ChainsUnbroken and KeysUnique inductive.                       *)

\* The first two are about one array, the last about the one being filled.
WellFormed(a) == IsArray(a) /\ ChainUnbroken(a) /\ NoDuplicates(a)

\* i is the bucket that the scan for the new key k settled on.
Settled(a, k, i) ==
    /\ \E d \in Distances(a) : Probe(a, k, d) = i /\ IsUsable(a, k, d)
    /\ \A j \in LiveSlots(a) : a.at[j].key # k

\* Only keys of a's first n buckets have been rehashed into b.
RehashedFrom(b, a, n) ==
    \A j \in LiveSlots(b) : \E i \in LiveSlots(a) : i < n /\ b.at[j].key = a.at[i].key

BucketsOK ==
    /\ buckets # NoArray => WellFormed(buckets)
    /\ buckets = NoArray => count = 0 /\ op.pc \in {"free", "initialize", "allocate", "remove"}

OpOK ==
    /\ OpType(op)
    /\ op.pc \notin {"free", "clear", "zero"} => op.key \in Keys
    /\ op.pc = "initialize" => op.type \in Types
    /\ op.pc = "assign" => op.type \in Types \/ keyType # NoType
    /\ op.pc = "allocate" => op.index > 0
    /\ op.pc \in {"value", "key"} => Settled(buckets, op.key, op.index)
    /\ op.pc \in {"forget", "discount"} => count > 0
    /\ op.pc = "forget" => op.index \in 0 .. buckets.length - 1 /\ buckets.at[op.index].key = Removed
    /\ op.pc = "grow" => /\ op.next # NoArray
                         /\ op.index <= buckets.length
                         /\ RehashedFrom(op.next, buckets, op.index)
    /\ op.next # NoArray => WellFormed(op.next)

ReaderOK(me) ==
    /\ ReaderType(me)
    /\ me.held = Current => buckets # NoArray
    /\ me.held \notin {NoArray, Current} => WellFormed(me.held)
    /\ me.pc # "idle" => me.key \in Keys
    /\ me.pc \in {"count", "keyType", "eqFunc"} => me.dist = 0
    /\ me.pc \in {"keyType", "eqFunc", "probe", "compare"} => me.held # NoArray
    /\ me.pc \in {"probe", "compare"} => me.dist \in Distances(Dereference(me.held))

IInv ==
    /\ count \in Nat
    /\ keyType \in Types \cup {NoType, Heterogeneous}
    /\ eqFunc \in Types \cup {NoType, Generic}
    /\ BucketsOK
    /\ OpOK
    /\ reader \in [Readers -> {reader[r] : r \in Readers}]
    /\ \A r \in Readers : ReaderOK(reader[r])
=============================================================================
