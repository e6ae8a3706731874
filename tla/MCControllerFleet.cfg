SPECIFICATION FleetSpec
CONSTANTS
    Admins = {1}
    Agents = {}
    Codes = {1}
    Reqs = {}
    Targets = {1}
    Repos = {}
    MaxEpoch = 2
    MaxRequests = 3
    MaxEvents = 2
CHECK_DEADLOCK FALSE
INVARIANTS
    FleetIsAccounted
PROPERTIES
    ClaimsKeepTarget
    FleetSettles
