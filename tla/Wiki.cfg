SPECIFICATION Spec
CONSTANTS
    c1 = c1
    c2 = c2
    c3 = c3
    e1 = e1
    e2 = e2
    None = None
    Claims <- ThreeClaims
    Entities <- TwoEntities
    Subject <- SubjectOf
    Citable = {c1}
    People = {"ana", "bo"}
    PreviewIds = {"v1"}
    Ops = {"o1"}
    Limit = 3
    Uses <- BothUses
INVARIANTS  SharedAcknowledged RecallAsRebuilt
PROPERTIES VoiceKept
CHECK_DEADLOCK FALSE
