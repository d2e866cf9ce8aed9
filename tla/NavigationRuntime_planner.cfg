SPECIFICATION Spec
CONSTANTS
    Players = {p1, p2}
    Destinations = {d1, d2}
    NoRoute = NoRoute
    Live = Live
    NoPosition = NoPosition
    Free = Free
    NoSession = NoSession
    MaxRoutes = 2
    MaxCommands = 2
INVARIANT PlannerFailureHarmless
CHECK_DEADLOCK FALSE
