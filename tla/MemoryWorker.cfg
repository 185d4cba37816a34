\* Two processes, one conversation.
CONSTANTS
    n1 = n1
    n2 = n2
    Conversations = {c1}
    Workers = {w1, w2}
    Notes = {n1, n2}
    Refusals = {"rejected"}
    Switches = {"paused"}
    NoResult = NoResult
    Proposals <- SmallChanges
    MaxOperations = 2
    BatchTurns = 2
    MaxSegments = 2
    MaxTurns = 1
    MaxAttempts = 2
    MaxSize = 3
SPECIFICATION Spec
SYMMETRY AnyWorker
INVARIANTS
    
    EditsKept
    SectionOnce
    AppliedWhole
    ProgressJustified
    
CHECK_DEADLOCK FALSE
