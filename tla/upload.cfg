SPECIFICATION ApiSpec
CONSTANTS
    r1 = r1
    r2 = r2
    r3 = r3
    ka = ka
    kb = kb
    None = None
    Requests = {r1, r2, r3}
    IdempotencyKeys = {ka, kb}
    MAX_CONCURRENT_UPLOADS = 2
    MAX_SIGNALS = 2
    Hazards = {"abort", "error", "reply"}
SYMMETRY Symmetry
INVARIANT CounterIsActual
INVARIANT RegisteredFilesAreWhole
INVARIANT OneImportPerKey
INVARIANT AcceptedLeavesNoOrphan
PROPERTY UnforcedExitCutsNoClient
