CONSTANTS
    a1 = a1
    a2 = a2
    a3 = a3
    c1 = c1
    c2 = c2
    c3 = c3
    n1 = n1
    n2 = n2
    Addr = {a1, a2}
    Guardian = Guardian
    Setups <- AllSetups
    Wild <- Wildcards
    Limits = {6, 7}
    Full = 3
    Freed = Freed
    PerRun = 1
    MaxTimers = 2
    Nicks = {n1, n2}
    Cut <- ShortName
    Batch = 1
    MaxRules = 2
    MaxQueue = 2
    FloodChans = {"f1", "f2", "f3"}
    Kept <- CutName
    Dur = 2
    Most = 2
    Hold = 1
    Never = 99
    MaxFloods = 2
SPECIFICATION Spec
CHECK_DEADLOCK FALSE
INVARIANTS SessionsRight ExemptsRight ScanReaches WatchHolds FloodsRight
PROPERTIES LockedForCause LocksEnd
