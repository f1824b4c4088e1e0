SPECIFICATION Spec
CONSTANTS
    d1 = d1  d2 = d2  c1 = c1  c2 = c2
    old = old  good = good  fast = fast  bad = bad
    Connection = {c1, c2}
    Domain = {d1, d2}
    Vhost = {old, good, fast, bad}
    Initial <- AllOld
    Rejected = {bad}
    Speedy = {fast}
    Requests <- OwnDomains
    Faults = {"crash", "command", "write", "undo"}
    MaxFaults = 2
    None = None
INVARIANTS TypeOK CommittedStays RestIsValid LiveFollowsFiles
