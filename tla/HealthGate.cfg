CONSTANTS
    w1 = w1
    w2 = w2
    w3 = w3
    r1 = r1
    x1 = x1
    Null = Null
    Workers = {w1, w2, w3}
    Curated <- OneRelay
    WriteRelays = {x1, r1}
    MaxWriteRelays = 1
    BatchSize = 1
    PerRelay = 2
    Alpha = 8
    Threshold = 250
    ProbeInterval = 1
    SuccessSamples = {1000}
    MaxTime = 1
    MaxBatches = 4
    MaxNotices = 1
SYMMETRY BatchSymmetry
SPECIFICATION Spec
INVARIANTS TypeOK SlotAccounting HardCeiling ProbeExclusive WaitsForAFetch
