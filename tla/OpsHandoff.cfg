SPECIFICATION Spec
CONSTANTS
    p1 = p1
    p2 = p2
    o1 = o1
    o2 = o2
    Procs <- TwoProcs
    Ops <- OneOp
    Requests <- TwoObserveRequests
    KindOf <- TwoObserves
    Wired <- WiredAsDeployed
    ClaimAt = {"idle", "write", "gate"}
    Tokenless = FALSE
    MaxEpoch = 3
    MaxPrep = 4
    MaxCrash = 1
    MaxFail = 1
INVARIANTS EntriesAuthorised
PROPERTIES NoStaleCommit GateCurrent
