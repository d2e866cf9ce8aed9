SPECIFICATION FairSpec
CONSTANTS
    ProbePeriod = 2
    MaxEvents = 4
    MaxRestarts = 1
INVARIANT OneProbe
INVARIANT SavedMode
INVARIANT BarsAgree
INVARIANT LossDisables
PROPERTY OutdatedIgnored
PROPERTY FollowsInternet
CHECK_DEADLOCK FALSE
