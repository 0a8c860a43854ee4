CONSTANTS
    alice = alice
    bob = bob
    xavier = xavier
    x1 = x1
    x2 = x2
    RelayList = 10002
    Author = alice
    Null = Null
    Events <- MCEvents
    WantKind = 3
    Requested = {alice, bob}
    Now = 3
    Clamps = {1, 14}
    FollowCap = 1
    Word = 16
    MaxDate = 6
    MaxStream = 4
SPECIFICATION Spec
INVARIANTS IngestIsReference EmittedTimeIsEventTime RelayListIsReference OneListStored RoutesToWriteRelays
PROPERTY ListsOnlyAdvance
