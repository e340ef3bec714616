SPECIFICATION Spec
CONSTANTS
    p1 = p1
    p2 = p2
    ase = ase
    leader = leader
    m1 = m1
    m2 = m2
    d1 = d1
    d2 = d2
    h1 = h1
    h2 = h2
    Process = {p1, p2}
    Request = {r1, r2}
    Role = {ase, leader}
    OneHqRole = {ase}
    Manager = {m1, m2}
    Depot = {d1, d2}
    Hq = {h1, h2}
    Payload <- MCPayload
    IndexLimit = 2
    MaxTokens = 3
    Mixes <- MCMixes
INVARIANTS
    TypeOK
    RevocationHolds
    InactiveIsNotRenewed
    OneTokenPerSignIn
    IndexIsComplete
    EditIsWhole
    OneHq
    ListIsFresh
PROPERTIES
    SessionSpec
    DeactivationReachesCaches
CHECK_DEADLOCK FALSE
