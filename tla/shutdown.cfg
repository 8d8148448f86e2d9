SPECIFICATION FairSpec
CONSTANTS
    j1 = j1
    j2 = j2
    j3 = j3
    None = None
    Jobs = {j1, j2, j3}
    MAX_SIGNALS = 2
    Hazards = {"error"}
CHECK_DEADLOCK FALSE
INVARIANT ExecutedIsNotReleased
INVARIANT CleanExitLeavesNoLease
PROPERTY ShutdownEnds
