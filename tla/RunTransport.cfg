SPECIFICATION FairSpec
CONSTANTS
    Runs = {1, 2}
    Convs = {c1, c2}
    Nobody = Nobody
    Resumed = {}
    CallIds = {}
    NoCallId = NoCallId
    MaxEvents = 4
    MaxDrops = 2
INVARIANTS
    CursorCovered
PROPERTIES
    ImplementsFeed
    EndReached
CHECK_DEADLOCK FALSE
