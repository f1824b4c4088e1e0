SPECIFICATION Spec
CONSTANTS
    r1 = r1  r2 = r2  s1 = s1  s2 = s2  db = db
    b1 = b1  b2 = b2  b3 = b3  k1 = k1  k2 = k2  before = before  after = after
    Request = {r1, r2}
    Site = {s1, s2}
    Database = {db}
    Content = {before, after}
    Original = before
    Artifact = {after}
    Asks <- OneReplacesEach
    Backup = {b1, b2, b3}
    Key = {k1, k2}
    Sizes = {1, 3}
    Quota = 2
    Lifetime = 1
    Faults = {"crash", "command", "disk", "close", "rename", "database", "read"}
    MaxFaults = 1
    MaxTime = 1
    None = None
SYMMETRY Interchangeable
CHECK_DEADLOCK FALSE
INVARIANTS TypeOK ContentSurvives ReplacedIsSaved RecordedIsThere QuotaHolds
PROPERTIES RetentionOnly
