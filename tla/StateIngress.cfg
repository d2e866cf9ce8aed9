SPECIFICATION FairSpec
CONSTANTS
    Topics = {vehicle}
    Workers = {w1, w2}
    NoMessage = NoMessage
    MaxMessages = 3
INVARIANT NothingLeft
INVARIANT SubmitNeverRefused
PROPERTY ImplementsDelivery
PROPERTY CloseCompletes
PROPERTY Shown
CHECK_DEADLOCK FALSE
