SPECIFICATION FairSpec
CONSTANTS
    w1 = w1
    w2 = w2
    i1 = i1
    None = None
    Workers = {w1, w2}
    Imports = {i1}
    MAX_JOB_ATTEMPTS = 2
    Hazards = {"cancel"}
PROPERTY CancellationEnds
