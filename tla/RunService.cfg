\* Two runs of one call each with patient clients and a crash, or one run of two
\* calls whose clients answer and cancel at any moment.  A journal of two events
\* admits no more progress events, so the races stay in reach.
CONSTANTS
    Runs = {r1, r2}
    CallIds = {c1, c2}
    NoCallId = NoCallId
    Tools = {t1}
    Args = {a1}
    Exposed = {t1}
    Headless = {}
    NoCall = NoCall
    Policies <- MCPolicies
    NoRun = NoRun
    Threads = {w1, w2}
    Environments <- SafetyEnvironments
    MaxEvents = 2
SPECIFICATION Spec
SYMMETRY Symmetry
INVARIANTS
    
    OneLateCallAtMost
    OneTerminal
    StatusMatchesJournal
    SingleFlight
    LiveSinkCovers
PROPERTIES
    TerminalStays
CHECK_DEADLOCK FALSE
