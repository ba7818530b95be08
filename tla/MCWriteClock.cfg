SPECIFICATION Spec
CONSTANTS
    Grants = {g1, g2}
    Calls = {c1}
    Screens = {u1}
    Servers = {s1, s2}
    OpIds = {o1}
    p1 = p1
    k1 = k1
    k2 = k2
    rows = rows
    insert = insert
    w1 = w1
    w2 = w2
    Profiles <- Profile1
    Conns <- Conn1
    Kinds <- Kind1
    Operations <- Insert1
    KindOf <- KindOf1
    ProfileOf <- Served1
    Writes <- Write1
    ConnOf <- ConnOf1
    OpsOf <- OpsOf1
    KindOfWrite <- KindOfW1
    Unfit = {}
    Grace = 0
    KeepSettled = 0
    Permits = 1
    Asks = {1}
    Ttls = {2}
    MaxNow = 3
INVARIANTS
    TypeOK
    CommittedWasCleared
    OneAccessPerConnection
    PendingIsWaitedFor
PROPERTIES
    WritesAreGuarded
SYMMETRY Symmetric
CHECK_DEADLOCK FALSE
