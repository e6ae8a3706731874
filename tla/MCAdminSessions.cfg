SPECIFICATION MCSpec
CONSTANTS
    Clis = {1, 2}
    Codes = {1}
    Sessions = {1, 2, 3, 4}
    Reqs = {1, 2}
    MaxEvents = 1
CHECK_DEADLOCK FALSE
INVARIANTS
    SessionsAreAccounted
PROPERTIES
    HandlersEnd
