SPECIFICATION Spec
CONSTANTS
    d1 = d1  d2 = d2  c1 = c1  c2 = c2
    old = old  good = good  fast = fast  bad = bad
    Connection = {c1}
    Domain = {d1}
    Vhost = {old, good, fast, bad}
    Initial <- AllOld
    Rejected = {bad}
    Speedy = {fast}
    Requests <- OneSpeedy
    Faults = {"write"}
    MaxFaults = 1
    None = None
INVARIANTS GlobalIsRestored
