CONSTANTS
    alice = alice
    bob = bob
    carol = carol
    dave = dave
    r1 = r1
    r2 = r2
    Null = Null
    Pool = {r1, r2}
    Limit <- EvenLimits
    Events <- FewEvents
    Chunks <- OneChunk
    MaxLimit = 2
    MaxPages = 6
    Flood = 0
    MaxTime = 3
SPECIFICATION Spec
INVARIANT StoredThroughoutIsFetched
