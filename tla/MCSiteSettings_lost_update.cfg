SPECIFICATION Spec
CONSTANTS
    r1 = r1  r2 = r2  d1 = d1  d2 = d2
    Request = {r1, r2}
    Domain = {d1}
    Asks <- OneSite
    Value = {old, new}
    Default = old
    Faults = {}
    MaxFaults = 0
    MaxTime = 0
    MaxRunning = 2
    None = None
PROPERTIES KeepsOtherSettings
