SPECIFICATION ServiceSpec
CONSTANTS
    w1 = w1
    w2 = w2
    w3 = w3
    i1 = i1
    None = None
    Workers = {w1, w2, w3}
    Imports = {i1}
    MAX_JOB_ATTEMPTS = 2
    RECORDS = 2
    Hazards = {"crash", "slow", "sweeprace", "cancel"}
SYMMETRY Symmetry
INVARIANT CompletedMeansStored
INVARIANT CountedOncePerClaim
