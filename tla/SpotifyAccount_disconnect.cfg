SPECIFICATION Spec
CONSTANTS
    Slots = {s1, s2}
    MaxSeq = 2
    MaxToggles = 1
    MaxQueue = 2
    Features = {"playback"}
PROPERTY DisconnectHolds
CHECK_DEADLOCK FALSE
SYMMETRY Symmetry
