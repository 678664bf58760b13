SPECIFICATION Spec
CONSTANTS
    a = a
    b = b
    c = c
    o1 = o1
    work = work
    home = home
    Claims = {a, b, c}
    Obs = {o1}
    Scopes = {work}
    ScopeOf <- OneScope
    EvidenceOf <- Shared
    MaxRelations = 3
    CheckedRevise = TRUE
    CrossScope = FALSE
    ReviveStale = FALSE
SYMMETRY Permuted
INVARIANTS SuppressionAcyclic NoneHiddenTogether LiveEqualsReopened
CHECK_DEADLOCK FALSE
