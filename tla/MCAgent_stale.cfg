SPECIFICATION Spec
CONSTANTS
    Inputs <- ShortInputs
    MaxTurns = 2
    Faults = {}
INVARIANTS
    OwnReply
CHECK_DEADLOCK FALSE
