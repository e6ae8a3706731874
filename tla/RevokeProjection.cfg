SPECIFICATION Spec
CONSTANTS
    Admins = {1}
    Agents = {1}
    Codes = {1}
    Reqs = {1}
    Targets = {}
    Repos = {}
    MaxEpoch = 1
    MaxRequests = 1
    MaxEvents = 0
INVARIANTS HealthyMatchesStore
CHECK_DEADLOCK FALSE
