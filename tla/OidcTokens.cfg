SPECIFICATION Spec
SYMMETRY RequestSymmetry
CONSTANTS
    g1 = g1
    g2 = g2
    s1 = s1
    q1 = q1
    q2 = q2
    None = None
    Groups = {g1, g2}
    Sid = {s1}
    Request = {q1, q2}
    Interval = 1
    Lifetime = 4
    MaxTime = 4
    MaxChanges = 0
    MaxFaults = 0
CHECK_DEADLOCK FALSE
INVARIANTS TokenSpentOnce
