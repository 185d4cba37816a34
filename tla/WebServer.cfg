\* Either the scheduler and the queue, or two conversations with up to two
\* messages of a text and an attachment and three requests at a time, or the
\* folders of two projects and a conversation, or two notes of up to three ids
\* that the user edits twice, at any moment, beside two writes of the brain.
SPECIFICATION FairSpec
CONSTANTS
    Schedules = {s1, s2}
    OneShots = {s1}
    NoSchedule = NoSchedule
    MaxToggles = 2
    Tasks = {t1}
    MaxCancels = 1
    MaxCrashes = 1
    Convs = {1, 2}
    Attachments = {11}
    Texts = {21}
    NoConv = NoConv
    NoItem = NoItem
    NoFile = NoFile
    NoRequest = NoRequest
    MaxRequests = 3
    Projects = {p1, p2}
    Chats = {c1}
    Folders = {f1, f2}
    NoEntry = NoEntry
    NoJob = NoJob
    Migrated = {p1}
    MaxSources = 1
    MaxAsks = 3
    Paths = {1, 2}
    NoteTexts = {1, 2}
    Ids = {1, 2, 3}
    Blank = Blank
    NoText = NoText
    NoId = NoId
    NoNote = NoNote
    Statuses = {"candidate"}
    Moments = {"idle", "mirror", "check", "record", "restate", "rerecord", "replace", "sync", "ack"}
    MaxEdits = 2
    MaxWrites = 2
INVARIANTS
    OneShotBounded
    ThreadsBounded
    ListedHasFile
    SavedAsShown
    NoLeftovers
    SourcesAsAsked
    Projected
PROPERTIES
    DueFires
    
CHECK_DEADLOCK FALSE
