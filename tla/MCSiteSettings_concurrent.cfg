SPECIFICATION FairSpec
CONSTANTS
    r1 = r1  r2 = r2  d1 = d1  d2 = d2
    Request = {r1, r2}
    Domain = {d1, d2}
    Asks <- OwnSites
    Value = {old, new}
    Default = old
    Faults = {"command", "commit", "read"}
    MaxFaults = 1
    MaxTime = 0
    MaxRunning = 2
    None = None
INVARIANTS RestIsValid
PROPERTIES WritesThrough LockIsFreed
