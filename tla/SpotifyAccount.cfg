SPECIFICATION Spec
CONSTANTS
    Slots = {s1, s2}
    MaxSeq = 1
    MaxToggles = 1
    MaxQueue = 1
    Features = {"dialog", "playback", "readErrors"}
INVARIANT TypeOK
INVARIANT ConnectedTruthful
INVARIANT BusyHasWork
PROPERTY SavedWhileShown
CHECK_DEADLOCK FALSE
SYMMETRY Symmetry
