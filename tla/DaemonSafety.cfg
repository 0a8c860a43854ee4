CONSTANTS
    alice = alice
    bob = bob
    t1 = t1
    t2 = t2
    t3 = t3
    Null = Null
    Pubkeys = {alice, bob}
    Lists <- MCLists
    Anchor = alice
    BadKeys = {}
    Tasks = {t1, t2, t3}
    MaxAttempts = 1
    FallbackEnabled = TRUE
    MaxTime = 3
    BatchSize = 2
    Concurrency = 2
    Second = 2
    Skew = 1
    Ttl = 2
    ReclaimAge = 2
    Punctual = TRUE
    MaxStarts = 2
SYMMETRY TaskSymmetry
SPECIFICATION Spec
INVARIANTS TypeOK LeaseExclusive EdgesMirrorApplied CleanShutdown
PROPERTIES LastFetchedMonotone ImplementsFrontier
