SPECIFICATION Spec
CONSTANTS
    weather = weather
    adsb = adsb
    earth = earth
    aux = aux
    NoGroup = NoGroup
    NoThread = NoThread
    Preloader = preloader
    Callers = {ui, worker}
    Apps = {weather, earth}
    Startup <- PersistentStartup
    Group <- OneGroup
    Faulty = {weather}
    Hideable = {earth}
    Windowed = {earth}
    Preloadable = {weather}
    Dashboard = {weather}
    Restartable = {earth}
INVARIANT LauncherSerialized
INVARIANT NoDeadlockedSet
INVARIANT VisibleTruthful
PROPERTY PersistentKept
SYMMETRY CallerSymmetry
CHECK_DEADLOCK FALSE
