\* Three foreground callers against two memory workers; or one attended and one
\* headless run, two call ids, three tools of which one is not exposed and two
\* argument digests.  No symmetry: the run also checks temporal properties.
CONSTANTS
    Callers = {c1, c2, c3}
    Workers = {w1, w2}
    NoWorker = NoWorker
    Runs = {r1, h1}
    CallIds = {1, 2}
    Tools = {t1, t2, t3}
    Args = {a1, a2}
    Exposed = {t1, t2}
    Headless = {h1}
    NoCallId = NoCallId
    NoCall = NoCall
    Policies <- MCPolicies
SPECIFICATION MCSpec
INVARIANTS
    Exclusive
    HolderTold
    CountersExact
    ApprovalPassesOnce
    GrantsJustified
PROPERTIES
    NoEntryAfterClose
    WaitEnds
    DecisionFinal
    LateMeansExpired
