SPECIFICATION Spec
CONSTANTS
    Nodes = {1, 2}
    Jobs = {1}
    Window = 1
    MaxTime = 1
    MaxEvents = 2
CHECK_DEADLOCK FALSE
INVARIANTS
    ClaimsMatchMessages
    WithdrawnOfferIsCut
PROPERTIES
    ClaimUnderAuthority
    JobsAreServed
