SPECIFICATION Spec
CONSTANTS
    a = a
    b = b
    c = c
    none = none
    me = me
    other = other
    work = work
    home = home
    pod = pod
    src = src
    k1 = k1
    k2 = k2
    None = none
    Pod = pod
    Me = me
    Payloads <- Three
    ScopeOf <- TwoScopes
    SourceOf <- SameSource
    KeyOf <- NoKeys
    Held <- JustC
    ForgetModes <- ReviewedModes
    ScopeVerbs = {"offboarding", "erasure"}
    Packages <- HighPackage
    Overlap = FALSE
    RestorePending = FALSE
    Resumed = FALSE
    MaxLines = 4
INVARIANTS ChainLinear RebuildEquivalent NeverServedAgain
