CONSTANTS
    alice = alice
    bob = bob
    carol = carol
    dave = dave
    r1 = r1
    r2 = r2
    Null = Null
    Pool = {r1}
    Limit <- EvenLimits
    Events <- MCEvents
    Chunks <- TwoChunks
    MaxLimit = 2
    MaxPages = 4
    Flood = 3
    MaxTime = 2
SPECIFICATION Spec
INVARIANTS TypeOK StoredThroughoutIsFetched PagedDownToUntil ChunkMemoryBounded BudgetSparesHonest
