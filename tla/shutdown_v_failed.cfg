SPECIFICATION Spec
CONSTANTS
    j1 = j1
    j2 = j2
    j3 = j3
    None = None
    Jobs = {j1}
    MAX_SIGNALS = 1
    Hazards = {}
CHECK_DEADLOCK FALSE
INVARIANT ShutdownIsNotAFailure
