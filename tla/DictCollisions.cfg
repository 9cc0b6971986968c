\* Three keys that collide, one value: removal, recycling, growth and clear under a lookup.
CONSTANTS
    k1 = k1  k2 = k2  k3 = k3  v1 = v1  v2 = v2  int = int  string = string
    Keys = {k1, k2, k3}
    Values = {v1}
    Readers = {r1}
    Types = {int, string}
    Hash <- MCHash
    TypeOf <- OneType
    Sources <- NoSources
    NoKey = NoKey  Removed = Removed  Null = Null
    NoType = NoType  Heterogeneous = Heterogeneous  Generic = Generic
    Absent = Absent
    InitialBucketSize = 3
    ClearedBucketSize = 3
    ResizeMultiplier = 2
SPECIFICATION Spec
SYMMETRY Symmetry
INVARIANTS TypeOK ChainsUnbroken KeysUnique CountIsExact MappingIsExact LookupsAreConsistent
