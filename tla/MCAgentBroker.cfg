SPECIFICATION Spec
CONSTANTS
    Callers = {1}
    Cmds = {1, 2}
    MaxGen = 2
    MaxEvents = 2
CHECK_DEADLOCK FALSE
INVARIANTS
    SessionsDoNotMix
PROPERTIES
    NewestWins
    SessionsEnd
