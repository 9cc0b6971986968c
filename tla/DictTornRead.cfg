\* One key and one value are enough for a value that was never bound.
CONSTANTS
    k1 = k1  k2 = k2  k3 = k3  v1 = v1  v2 = v2  int = int  string = string
    Keys = {k1}
    Values = {v1}
    Readers = {r1}
    Types = {int, string}
    Hash <- MCHash
    TypeOf <- MCTypeOf
    Sources <- NoSources
    NoKey = NoKey  Removed = Removed  Null = Null
    NoType = NoType  Heterogeneous = Heterogeneous  Generic = Generic
    Absent = Absent
    InitialBucketSize = 3
    ClearedBucketSize = 3
    ResizeMultiplier = 2
SPECIFICATION Spec
INVARIANTS ValueWasBound
