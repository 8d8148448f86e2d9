SPECIFICATION FairSpec
CONSTANTS
    w1 = w1
    w2 = w2
    i1 = i1
    i2 = i2
    k1 = k1
    k2 = k2
    k3 = k3
    s1 = s1
    None = None
    Imports = {i1, i2}
    Keys = {k1, k2, k3}
    Writers = {w1, w2}
    ImportOf <- MCImportOf
    Batches <- MCBatches
    Unstorable = {k3}
    Cancels = {i1}
    Sweeps = {s1}
    Expired = {i1}
    MAX_ATTEMPTS = 2
    Hazards = {"error", "reply"}
CHECK_DEADLOCK FALSE
INVARIANT OthersWaitForCommits
INVARIANT TransientFailuresAreRetried
PROPERTY EveryTransactionEnds
PROPERTY StoreSpec
