SPECIFICATION MCSpec
CONSTANTS
    Admins = {1, 2}
    Agents = {1}
    Codes = {2}
    Reqs = {1, 2}
    Targets = {1}
    Repos = {}
    MaxEpoch = 2
    MaxRequests = 2
    MaxEvents = 1
CHECK_DEADLOCK FALSE
INVARIANTS
    NodesAreAuthorized
PROPERTIES
    CommitsAreCurrent
    
