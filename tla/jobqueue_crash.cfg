SPECIFICATION FairSpec
CONSTANTS
    w1 = w1
    w2 = w2
    w3 = w3
    i1 = i1
    i2 = i2
    None = None
    Workers = {w1, w2, w3}
    Imports = {i1, i2}
    MAX_JOB_ATTEMPTS = 2
    Hazards = {"crash"}
INVARIANT ImportFollowsJob
INVARIANT NoFailureBeforeLastAttempt
PROPERTY TransitionsAllowed
PROPERTY EveryJobEnds
