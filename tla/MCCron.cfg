SPECIFICATION FairSpec
CONSTANTS
    s1 = s1  u1 = u1
    Request = {r1, r2}
    Site = {s1}
    User = {u1}
    UserOf <- OneSite
    JobId = {1, 2}
    Schedule = {daily}
    Command = {typed, raw}
    MaxJobs = 1
    Faults = {"crash", "deadline", "commit", "write", "restore", "metadata"}
    MaxFaults = 1
    Second = {0}
    None = None
INVARIANTS TypeOK FileMatchesDatabase JobLimit LabelsMatch
PROPERTIES WritesThrough RequestsAreAnswered
