SPECIFICATION Spec
CONSTANTS
    ann = ann
    anyone = anyone
    owner = owner
    crm = crm
    desk = desk
    none = none
    i1 = i1
    i2 = i2
    i3 = i3
    note = note
    Owner = owner
    Clients <- OneClient
    Anyone = anyone
    Scopes <- TwoScopes
    Stream = crm
    GrantForms <- Forms
    Pages <- TwoPages
    Poison = {i2}
    Notes = {note}
    Calls = {1, 2}
    Ops = {1, 2}
    Declared = {"verified", "untrusted"}
    MaxNotes = 2
    MaxGrants = 2
    Traffic <- Both
    Overlap = FALSE
    None = none
INVARIANTS OneObservationPerItem 
PROPERTIES AdmittedUnderPolicy
