CONSTANTS
    alice = alice
    bob = bob
    t1 = t1
    t2 = t2
    t3 = t3
    Null = Null
    Pubkeys = {alice, bob}
    Lists <- MCLists
    Anchor = alice
    BadKeys = {}
    Tasks = {t1, t2, t3}
    MaxAttempts = 2
    FallbackEnabled = FALSE
    MaxTime = 1
    BatchSize = 1
    Concurrency = 2
    MaxRestarts = 1
SPECIFICATION FairSpec
INVARIANTS TypeOK LeaseExclusive EdgesMirrorApplied TerminalStamped AttemptBudget DrainComplete
PROPERTIES NoRedo ImplementsFrontier Termination
