SPECIFICATION Spec
CONSTANTS
    Grants = {g1}
    Calls = {c1, c2}
    Screens = {u1}
    Servers = {s1, s2}
    OpIds = {o1}
    p1 = p1
    k1 = k1
    k2 = k2
    rows = rows
    insert = insert
    w1 = w1
    w2 = w2
    Profiles <- Profile1
    Conns <- Conn1
    Kinds <- Kind1
    Operations = {}
    KindOf <- KindOf0
    ProfileOf <- Served1
    Writes <- Write1
    ConnOf <- ConnOf1
    OpsOf <- OpsOf0
    KindOfWrite <- KindOfW1
    Unfit = {}
    Grace = 0
    KeepSettled = 0
    Permits = 1
    Asks = {1}
    Ttls = {9}
    MaxNow = 1
INVARIANTS
    RetriedIsWrittenOnce
SYMMETRY Symmetric
CHECK_DEADLOCK FALSE
