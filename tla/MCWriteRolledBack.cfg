SPECIFICATION Spec
CONSTANTS
    Grants = {g1}
    Calls = {c1}
    Screens = {u1}
    Servers = {s1}
    OpIds = {o1}
    p1 = p1
    k1 = k1
    k2 = k2
    rows = rows
    insert = insert
    w1 = w1
    w2 = w2
    Profiles <- Profile1
    Conns <- Conn1
    Kinds <- Kind1
    Operations <- Insert1
    KindOf <- KindOf1
    ProfileOf <- Served1
    Writes <- Write1
    ConnOf <- ConnOf1
    OpsOf <- OpsOf1
    KindOfWrite <- KindOfW1
    Unfit = {}
    Grace = 0
    KeepSettled = 0
    Permits = 1
    Asks = {1}
    Ttls = {9}
    MaxNow = 1
INVARIANTS
    RolledBackIsNotWritten
SYMMETRY Symmetric
CHECK_DEADLOCK FALSE
