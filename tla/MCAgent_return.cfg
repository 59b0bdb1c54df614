SPECIFICATION Spec
CONSTANTS
    Inputs <- ShortInputs
    MaxTurns = 2
    Faults = {}
PROPERTIES
    AgentReturns
CHECK_DEADLOCK FALSE
