SPECIFICATION ProgressSpec
CONSTANTS
    s1 = s1
    s2 = s2
    x1 = x1
    e1 = e1
    f1 = f1
    c1 = c1
    c2 = c2
    Parts = {"workbench"}
    Scripts = {s1, s2}
    Reruns = {}
    Explains = {x1}
    Statements <- Lengths
    Capacity = 2
    MaxLaunches = 2
    MaxElsewhere = 0
    Executes = {e1}
    Fetches = {f1}
    FetchOf <- ItsResult
    Connects = {c1, c2}
    MaxProcs = 2
    Restarts = 0
    Window = 1
    Idle = 1
INVARIANT LoopNeverWaitsForItself
CHECK_DEADLOCK FALSE
