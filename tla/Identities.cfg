CONSTANTS
    u1 = u1
    u2 = u2
    g1 = g1
    alice = alice
    bob = bob
    carol = carol
    eng = eng
    ops = ops
    None = None
    Uid = {u1, u2}
    Gid = {g1}
    Name = {alice, bob, carol}
    GroupName = {eng, ops}
    MaxChanges = 1
    MaxRenames = 1
    MaxFaults = 1
SPECIFICATION IdSpec
INVARIANTS NeverHalfEmpty RefreshedByRun
SYMMETRY Symmetry
