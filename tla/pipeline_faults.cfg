SPECIFICATION Spec
CONSTANTS
    i1 = i1
    i2 = i2
    r1 = r1
    r2 = r2
    k1 = k1
    k2 = k2
    k3 = k3
    Blank = Blank
    Bad = Bad
    None = None
    Imports = {i1, i2}
    Runs = {r1, r2}
    Keys = {k1, k2, k3}
    Files <- MixedFiles
    Unstorable = {k3}
    BATCH_SIZE = 2
    CANCELLATION_CHECK_INTERVAL = 2
    MAX_ATTEMPTS = 2
    Hazards = {"crash", "score", "rollback", "reply", "cancel", "overlap"}
CHECK_DEADLOCK FALSE
INVARIANT BatchBounded
INVARIANT NoRecordLost
INVARIANT CountersAgree
PROPERTY StoreSpec
