SPECIFICATION Spec
CONSTANTS
    Exec = {1}
    MaxEpoch = 2
    MaxFaults = 3
CHECK_DEADLOCK FALSE
INVARIANTS
    ViewsAgree
PROPERTIES
    CommitsAreJustified
    UpdatesDrain
