CONSTANTS
    f1 = f1
    f2 = f2
    r1 = r1
    r2 = r2
    x1 = x1
    Null = Null
    Fetchers = {f1, f2}
    Curated = {r1, r2}
    WriteRelays = {x1}
    Noisy = {}
    Quota = 2
    Advertised <- MCAdvertised
    DefaultMaxLimit = 2
    MaxAdvertised = 3
    Base = 4
    Cap = 20
    Wide = 64
    Bits = 6
    SaturateAt = 3
    MaxU32 = 6
    MaxTime = 1
SYMMETRY FetcherSymmetry
SPECIFICATION Spec
INVARIANT RelayQuota
