SPECIFICATION Spec
CONSTANTS
    slash = slash
    kcore = kcore
    home = home
    docs = docs
    note = note
    u1 = u1
    u2 = u2
    g1 = g1
    None = None
    Slash <- slash
    Kcore <- kcore
    Path <- MCPath
    Anc <- MCAnc
    Row <- MCRow
    MaxSize = 4
    FirstIndexes <- MCFirstIndexes
    Request = {q1, q2}
    MaxRuns = 2
    MaxFaults = 1
    MaxChanges = 1
CHECK_DEADLOCK FALSE
INVARIANTS OutcomeIsHonest
PROPERTIES StatsAreTotals RunEnds RequestsAreServed
