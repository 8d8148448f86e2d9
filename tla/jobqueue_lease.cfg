SPECIFICATION Spec
CONSTANTS
    w1 = w1
    w2 = w2
    w3 = w3
    i1 = i1
    None = None
    Workers = {w1, w2, w3}
    Imports = {i1}
    MAX_JOB_ATTEMPTS = 2
    Hazards = {"crash", "error", "cancel", "cancelrace"}
SYMMETRY Symmetry
INVARIANT ExclusiveProcessing
INVARIANT LeasedJobsCanBeReclaimed
INVARIANT EndedImportsAreStill
PROPERTY RequeuedOnlyByStaleSweep
PROPERTY OpenTransitionsAllowed
PROPERTY TerminalIsFinal
