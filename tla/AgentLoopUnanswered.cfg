\* A turn of two calls of which the first one waits for permission.
CONSTANTS
    Runs = {r1}
    CallIds = {1, 2}
    NoCallId = NoCallId
    Tools = {search, write}
    SearchTool = search
    ControlTools = {}
    Args = {a1}
    Exposed = {search, write}
    Headless = {}
    NoCall = NoCall
    Policies <- AskAll
    UserDecisions = {"allow_once", "deny", "expired"}
    MaxBatch = 2
    MaxTurns = 2
    MaxToolCalls = 2
    SearchLimit = 1
SPECIFICATION Spec
INVARIANTS
    EveryCallAnswered
CHECK_DEADLOCK FALSE
