SPECIFICATION Spec
CONSTANTS
    Obs = {1}
    ForgetOps <- Forgets
    ReleaseOps <- Releases
    SweepOps <- Sweeps
    MaxSeq = 3
    RestoreMayCrash = FALSE
INVARIANTS NoGhost ReleaseNamesItsHold NoResurrection
PROPERTIES HeldKept
CHECK_DEADLOCK FALSE
