SPECIFICATION Spec
CONSTANTS
    Threads = {t1, t2}
    NoProcess = NoProcess
    Free = Free
    MaxGeneration = 2
    MaxBindings = 2
INVARIANT StopStopsOwn
CHECK_DEADLOCK FALSE
SYMMETRY Symmetry
