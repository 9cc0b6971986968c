\* Two keys of two types, two values, and a dictionary to copy from: updates, type
\* changes and recycled buckets under a lookup.
CONSTANTS
    k1 = k1  k2 = k2  k3 = k3  v1 = v1  v2 = v2  int = int  string = string
    Keys = {k1, k3}
    Values = {v1, v2}
    Readers = {r1}
    Types = {int, string}
    Hash <- MCHash
    TypeOf <- MCTypeOf
    Sources <- MCSources
    NoKey = NoKey  Removed = Removed  Null = Null
    NoType = NoType  Heterogeneous = Heterogeneous  Generic = Generic
    Absent = Absent
    InitialBucketSize = 2
    ClearedBucketSize = 2
    ResizeMultiplier = 2
SPECIFICATION Spec
INVARIANTS StableKeysAreRead DelegatesFitKeys
