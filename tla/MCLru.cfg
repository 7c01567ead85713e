\* Three keys, room for two, three buckets of one time unit each.
CONSTANTS
    k1 = k1
    k2 = k2
    k3 = k3
    v1 = v1
    v2 = v2
    Keys = {k1, k2, k3}
    Values = {v1}
    Size = 2
    Sizes = {0, 1}
    TTL = 3
    NoEvictionTTL = 1000
    NumBuckets = 3
    Prompt = FALSE
    MaxTime = 6
    LastAdd = 5
SPECIFICATION Spec
SYMMETRY KeySymmetry
INVARIANTS TypeOK Structure
PROPERTIES CleanerNeverEarly EvictedExactly Implements
