SPECIFICATION FairSpec
CONSTANTS
    Commands <- MCCommands
    NoCommand = NoCommand
    MaxCrashes = 2
    MaxFaults = 1
INVARIANTS
    TablesAgree
PROPERTIES
    RecoverySettles
    RunningIsTornDown
