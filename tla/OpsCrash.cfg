SPECIFICATION Spec
CONSTANTS
    p1 = p1
    p2 = p2
    o1 = o1
    o2 = o2
    Procs <- OneProc
    Ops <- TwoOps
    Requests <- AllRequests
    KindOf <- AllKinds
    Wired <- WiredAsDeployed
    ClaimAt = {"idle"}
    Tokenless = TRUE
    MaxEpoch = 2
    MaxPrep = 4
    MaxCrash = 2
    MaxFail = 1
INVARIANTS CommitComplete IntentCoversArtifacts AuthorisedRecoverable
PROPERTIES AtomicCommit
