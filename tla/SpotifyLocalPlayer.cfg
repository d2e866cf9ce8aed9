SPECIFICATION FairSpec
CONSTANTS
    Threads = {t1, t2}
    MaxGeneration = 4
    MaxToggles = 2
INVARIANT Released
INVARIANT PlayerRuns
PROPERTY Settles
CHECK_DEADLOCK FALSE
