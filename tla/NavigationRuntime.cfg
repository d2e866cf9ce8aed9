SPECIFICATION FairSpec
CONSTANTS
    Players = {p1, p2}
    Destinations = {d1, d2}
    NoRoute = NoRoute
    Live = Live
    NoPosition = NoPosition
    Free = Free
    NoSession = NoSession
    MaxRoutes = 2
    MaxCommands = 3
INVARIANT OneRoute
INVARIANT PlaybackRetired
PROPERTY DeliveredCurrent
PROPERTY DepartureAnswered
PROPERTY RunEnds
CHECK_DEADLOCK FALSE
