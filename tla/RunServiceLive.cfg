\* One run, two calls, fairness, no symmetry (temporal property).
CONSTANTS
    Runs = {r1}
    CallIds = {1, 2}
    NoCallId = NoCallId
    Tools = {t1}
    Args = {a1}
    Exposed = {t1}
    Headless = {}
    NoCall = NoCall
    Policies <- MCPolicies
    NoRun = NoRun
    Threads = {w1, w2}
    Environments <- LiveEnvironments
    MaxEvents = 2
SPECIFICATION FairSpec
PROPERTIES
    RunsEnd
CHECK_DEADLOCK FALSE
