SPECIFICATION Spec
CONSTANTS
    e1 = e1
    e2 = e2
    Executions = {e1, e2}
    NoExecution = NoExecution
    NodeCount = 2
    TargetCount = 3
    MaxRunners <- MCMaxRunners
    FleetMaximum = 2
    Compatible <- MCCompatible
    MinMemory <- MCMinMemory
    MaxGrantID = 3
    Snapshots <- MCSnapshots
INVARIANTS
    Validate
    HoldersKeepGrants
    NoStarvation
PROPERTIES
    PlacementIsBounded
    BackedStaysBacked
