CONSTANTS
    alice = alice
    bob = bob
    t1 = t1
    t2 = t2
    t3 = t3
    Null = Null
    Pubkeys = {alice, bob}
    Lists <- MCLists
    Anchor = alice
    BadKeys = {}
    Tasks = {t1, t2, t3}
    MaxAttempts = 2
    FallbackEnabled = FALSE
    MaxTime = 1
    BatchSize = 1
    Concurrency = 1
    Second = 1
    Skew = 0
    Ttl = 0
    ReclaimAge = 1
    Punctual = TRUE
    MaxStarts = 1
SPECIFICATION FairSpec
PROPERTY NewestListApplied
