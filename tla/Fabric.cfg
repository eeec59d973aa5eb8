\* Three nodes, two links (or one made twice) or an app, one use of a cutting operation.
CONSTANTS
    MaxNodes = 3
    MaxApps = 1
    MaxFaces = 4
    MaxCuts = 1
SPECIFICATION Spec
CONSTRAINT Bounded
INVARIANTS
    GraphSound
    NothingLeaks
CHECK_DEADLOCK FALSE
