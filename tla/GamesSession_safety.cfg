SPECIFICATION Spec
CONSTANTS
    Threads = {t1, t2}
    NoProcess = NoProcess
    Free = Free
    MaxGeneration = 2
    MaxBindings = 2
INVARIANT GameOwned
INVARIANT Retired
INVARIANT EmbeddedLatest
INVARIANT CleanupStopsOwn
INVARIANT Returns
CHECK_DEADLOCK FALSE
SYMMETRY Symmetry
