SPECIFICATION FairFlushSpec
CONSTANTS
    None = None
    MAX_TASKS = 3
    MAX_THREADS = 4
    POOL_SIZE = 2
    MAX_CONCURRENT_PERSISTS = 1
CHECK_DEADLOCK FALSE
INVARIANT PoolStaysFull
INVARIANT NoIdleWhileQueued
INVARIANT TaskInOnePlace
INVARIANT PermitsAccounted
PROPERTY EveryFlushEnds
