SPECIFICATION FairSpec
CONSTANTS
    weather = weather
    adsb = adsb
    earth = earth
    aux = aux
    NoGroup = NoGroup
    NoThread = NoThread
    Preloader = preloader
    Callers = {ui}
    Apps = {weather, adsb, earth}
    Startup <- PreloadStartup
    Group <- OneGroup
    Faulty = {weather}
    Hideable = {}
    Windowed = {}
    Preloadable = {weather}
    Dashboard = {weather}
    Restartable = {}
INVARIANT ExclusiveShown
INVARIANT ShutdownStopsApps
PROPERTY ShutdownCompletes
CHECK_DEADLOCK FALSE
