\* Two notes and a user who edits twice while the brain is at rest.
CONSTANTS
    Paths = {1, 2}
    NoteTexts = {1, 2}
    Ids = {1, 2, 3}
    Blank = Blank
    NoText = NoText
    NoId = NoId
    NoNote = NoNote
    Statuses = {"candidate"}
    Moments = {"idle"}
    MaxEdits = 2
    MaxWrites = 1
SPECIFICATION VaultSpec
INVARIANTS
    Searched
CHECK_DEADLOCK FALSE
