SPECIFICATION FairFileSpec
CONSTANTS
    i1 = i1
    r1 = r1
    p1 = p1
    p2 = p2
    t1 = t1
    LF = LF
    CR = CR
    Space = Space
    WideSpace = WideSpace
    LineSeparator = LineSeparator
    Garbage = Garbage
    Blank = Blank
    Bad = Bad
    None = None
    Imports = {i1}
    Runs = {r1}
    Keys <- AllKeys
    Objects <- MCObjects
    RawFiles <- OrdinaryFiles
    Files <- AllFiles
    Unstorable <- UnstorableKeys
    BATCH_SIZE = 2
    CANCELLATION_CHECK_INTERVAL = 2
    MAX_ATTEMPTS = 2
    Hazards = {"score", "rollback", "cancel"}
CHECK_DEADLOCK FALSE
INVARIANT ExactCounts
INVARIANT StoredIsNamed
PROPERTY EveryRunEnds
