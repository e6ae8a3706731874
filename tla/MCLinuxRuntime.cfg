SPECIFICATION Spec
CONSTANTS
    Execs = {1}
    Ops = {1, 2}
    MaxEvents = 4
CHECK_DEADLOCK FALSE
INVARIANTS
    FenceIsTrue
PROPERTIES
    AgentLossKeepsRunner
    CallsReturn
