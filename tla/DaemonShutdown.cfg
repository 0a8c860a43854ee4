CONSTANTS
    alice = alice
    bob = bob
    t1 = t1
    t2 = t2
    Null = Null
    Pubkeys = {alice, bob}
    Lists <- MCLists
    Anchor = alice
    BadKeys = {}
    Tasks = {t1, t2}
    MaxAttempts = 2
    FallbackEnabled = FALSE
    MaxTime = 1
    BatchSize = 1
    Concurrency = 1
    Second = 1
    Skew = 0
    Ttl = 0
    ReclaimAge = 0
    Punctual = TRUE
    MaxStarts = 1
    Configs <- MCConfigs
SPECIFICATION DaemonSpec
INVARIANTS ReadyIsRunning DiesEarly
PROPERTIES DrainCompletes ProcessExits
