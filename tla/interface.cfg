CONSTANTS
    i1 = i1
    i2 = i2
    p1 = p1
    p2 = p2
    Ifp = {i1, i2}
    As = {a1, a2}
    Addr = {p1, p2}
    Net = {n1}
    Home <- OneEach
    Covers <- Wide
    Peer = {r1}
    Proto = {k1}
    StaticId = {s1}
    ZebraId = {z1}
    MaxRoutes = 2
    MaxParts = 3
    Unset = Unset
    NoObject = NoObject
    Freed = Freed
SYMMETRY Alike
SPECIFICATION Spec
INVARIANTS
    TypeOK
    ListedIsLive
    EnabledIsJustified
    CoveredIsTaken
    EnabledIsConnected
    RedistributeCounted
PROPERTY RouterIdSticky
