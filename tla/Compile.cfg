SPECIFICATION FairSpec
CONSTANTS
    o1 = o1
    o2 = o2
    o3 = o3
    o4 = o4
    f = f
    g = g
    work = work
    home = home
    none = none
    None = none
    Obs <- All
    FactOf <- FactsOf
    ScopeOf <- PlacesOf
    Limit = 2
    MaxClaims = 6
    MaxRetries = 1
    Hosts <- AsDeployed
INVARIANTS  OneClaimPerFact  FreshnessContract FailureMirrored
 
