SPECIFICATION Spec
CONSTANTS
    home = home
    docs = docs
    note = note
    m1 = m1
    m2 = m2
    None = None
    Path <- MCPath
    Anc <- MCAnc
    RootSets <- MCRootSets
    Meta = {m1, m2}
    Threads = 2
    CHANNEL_CAPACITY = 1
    BATCH_SIZE = 2
    MaxRuns = 2
    MaxFaults = 1
    MaxChanges = 1
CHECK_DEADLOCK FALSE
INVARIANTS SuccessReflectsDisk NoOrphans
PROPERTIES IndexIsScanned PruneIsJustified RunEnds
