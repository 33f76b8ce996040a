CONSTANTS
    u1 = u1
    g1 = g1
    alice = alice
    dots = dots
    eng = eng
    adm = adm
    star = star
    aliceHome = aliceHome
    etc = etc
    srv = srv
    userHome = userHome
    r1 = r1
    None = None
    Uid = {u1}
    Gid = {g1}
    Name = {alice, dots}
    GroupName = {eng}
    MaxChanges = 1
    MaxRenames = 0
    MaxFaults = 0
    Request = {r1}
    IdpGroup = {eng, adm}
    AdminGroup = {adm}
    ViewerGroup = {}
    Everyone = star
    Suffix = {0, 5}
    DefaultName = alice
    Path = {aliceHome, etc, srv}
    Home <- MCHome
    Inside <- MCInside
    UserHome = userHome
    Entered <- Edits
    Unsafe = {dots}
    MaxEdits = 3
SPECIFICATION Spec
INVARIANTS ServedWithinGrants StandingGrantServes
