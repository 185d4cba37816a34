\* The smallest instance in which a cancel meets the write of _persist.
CONSTANTS
    Runs = {r1}
    CallIds = {1}
    NoCallId = NoCallId
    Tools = {t1}
    Args = {a1}
    Exposed = {t1}
    Headless = {}
    NoCall = NoCall
    Policies <- MCPolicies
    NoRun = NoRun
    Threads = {w1, w2}
    Environments <- RaceEnvironments
    MaxEvents = 2
SPECIFICATION Spec
PROPERTIES
    CancelIsFinal
CHECK_DEADLOCK FALSE
