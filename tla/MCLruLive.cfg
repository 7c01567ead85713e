\* Two keys in an unlimited cache, a cleaner that is never late, several rounds of
\* the three buckets.
CONSTANTS
    k1 = k1
    k2 = k2
    k3 = k3
    v1 = v1
    v2 = v2
    Keys = {k1, k2}
    Values = {v1}
    Size = 0
    Sizes = {}
    TTL = 3
    NoEvictionTTL = 1000
    NumBuckets = 3
    Prompt = TRUE
    MaxTime = 12
    LastAdd = 9
SPECIFICATION FairSpec
INVARIANT WithinTwoLifetimes
PROPERTY EventuallyExpired
