\* A run with a user or one that nobody answers for, in four modes; call ids may
\* recur in a later turn.
CONSTANTS
    Runs = {r1, h1}
    CallIds = {1, 2, 3}
    NoCallId = NoCallId
    Tools = {search, write, report}
    SearchTool = search
    ControlTools = {report}
    Args = {a1}
    Exposed = {search, write, report}
    Headless = {h1}
    NoCall = NoCall
    Policies <- AnyMode
    UserDecisions = {"allow_once", "deny", "expired"}
    MaxBatch = 2
    MaxTurns = 2
    MaxToolCalls = 2
    SearchLimit = 1
SPECIFICATION FairSpec
INVARIANTS
    Paired
    
    BudgetKept
    ExecutedAsCalled
PROPERTIES
    LoopEnds
CHECK_DEADLOCK FALSE
