\* A conversation of up to four runs, of whose turns the first two are looked at.
SPECIFICATION Spec
CONSTANTS
    LastRun = 4
    Recent = 2
PROPERTIES
    SecondIngestIsNoOp
CHECK_DEADLOCK FALSE
