SPECIFICATION FairSpec
CONSTANTS
    p1 = p1
    p2 = p2
    o1 = o1
    o2 = o2
    Procs <- OneProc
    Ops <- OneOp
    Requests <- TwoObserveRequests
    KindOf <- TwoObserves
    Wired <- WiredAsDeployed
    ClaimAt = {}
    Tokenless = TRUE
    MaxEpoch = 0
    MaxPrep = 4
    MaxCrash = 2
    MaxFail = 2
PROPERTIES PreparedObserveCommits OpenServes
