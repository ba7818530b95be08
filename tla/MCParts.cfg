SPECIFICATION PartsSpec
CONSTANTS
    e1 = e1
    e2 = e2
    f1 = f1
    c1 = c1
    c2 = c2
    d1 = d1
    d2 = d2
    q1 = q1
    q2 = q2
    w1 = w1
    t1 = t1
    t2 = t2
    x1 = x1
    i1 = i1
    b1 = b1
    r1 = r1
    g1 = g1
    Executes = {e1, e2}
    Fetches = {f1}
    FetchOf <- FirstResult
    Connects = {c1, c2}
    MaxProcs = 2
    Restarts = 0
    Window = 1
    Idle = 1
    Dexos = {d1, d2}
    Orders = {"install", "remove", "enable", "disable", "other"}
    MaxAged = 1
    Queries = {q1, q2}
    Works = {w1}
    Length = 2
    Kept = 1
    Documents = {t1, t2}
    Files = {t2}
    MaxEdits = 2
    MaxStarts = 3
    MaxCommands = 2
    FileRows = 4
    BatchRows = 2
    ReadAhead = 2
    Exports = {x1}
    Imports = {i1}
    Backups = {b1}
    Restores = {}
    Portions = 1
    MaxTransfers = 2
    NoTransfer = NoTransfer
    Runs = {r1}
    Batches = {b1}
    Reads = {g1}
    MaxStatements = 2
    MaxPersonal = 2
VIEW PartsView
INVARIANTS
    PartsTypeOK
    NobodyLeftWaiting
    CursorsAccounted
    SessionsCounted
    EveryProcessKept
    FailedStartsBounded
    IdleSparesSessions
    LocksExclude
    EntryMatchesFolder
    StaysDisabled
    OnlyTheAskedAreStruck
    AskedBeginsNoFurther
    KeptIsNotLost
    SavedIsHeld
    CopiesAreOfTabs
    ImportSaysWhatWentIn
    StopIsHeeded
    AnswersReachTheirAsker
    DoneIsKept
    
CHECK_DEADLOCK FALSE
