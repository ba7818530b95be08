SPECIFICATION Spec
CONSTANTS
    Grants = {g1, g2}
    Calls = {c1, c2}
    Screens = {}
    Servers = {s1}
    OpIds = {o1, o2}
    p1 = p1
    k1 = k1
    k2 = k2
    rows = rows
    insert = insert
    w1 = w1
    w2 = w2
    Profiles <- Profile1
    Conns <- Conn2
    Kinds <- Kind1
    Operations <- Insert1
    KindOf <- KindOf1
    ProfileOf <- Served1
    Writes <- Write2
    ConnOf <- ConnOf2
    OpsOf <- OpsOf2
    KindOfWrite <- KindOfW2
    Unfit = {}
    Grace = 0
    KeepSettled = 0
    Permits = 2
    Asks = {1}
    Ttls = {9}
    MaxNow = 1
INVARIANTS
    OneWritePerOperation
    SlotsAccounted
SYMMETRY Symmetric2
CHECK_DEADLOCK FALSE
