SPECIFICATION Spec
CONSTANTS
    r1 = r1  r2 = r2  d1 = d1  d2 = d2
    Request = {r1, r2}
    Domain = {d1, d2}
    Asks <- OneMayMeet
    Value = {old, new}
    Default = old
    Faults = {"crash", "restart", "command", "commit"}
    MaxFaults = 1
    MaxTime = 1
    MaxRunning = 1
    None = None
INVARIANTS TypeOK NoDrift
PROPERTIES KeepsOtherSettings
