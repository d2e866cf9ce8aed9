SPECIFICATION FairSpec
CONSTANTS
    Sessions = {s1, s2}
    NoSession = NoSession
    MaxRequests = 4
INVARIANT Detached
INVARIANT OneReceiver
INVARIANT StaysClosed
INVARIANT ViewTruthful
PROPERTY LoadingEnds
CHECK_DEADLOCK FALSE
