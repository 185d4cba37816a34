SPECIFICATION FairSpec
CONSTANTS
    Runs = {1, 2}
    Convs = {c1}
    Nobody = Nobody
    Resumed = {c1}
    CallIds = {}
    NoCallId = NoCallId
    MaxEvents = 3
    MaxDrops = 2
PROPERTIES
    NeverBack
CHECK_DEADLOCK FALSE
