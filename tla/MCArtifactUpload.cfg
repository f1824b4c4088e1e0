SPECIFICATION Spec
CONSTANTS
    Handler = {h1, h2}
    Cleaner = {c}
    Id = {a, b}
    MaxChunks = 2
    TTL = 1
    Faults = {"crash", "write", "read", "database", "remove"}
    MaxFaults = 2
    MaxTime = 2
    Cut = Cut
    None = None
INVARIANTS TypeOK ArtifactsAreWhole Resumable NoOrphans
PROPERTY PublishesOnce
SYMMETRY Interchangeable
