\* At most three logs lag behind while a case takes its steps.  An element of two writers, one of
\* them with the lax rule, and a late reader; three versions.
CONSTANTS
    Lag = 3
    Writer = {1, 2}
    Late = {late}
    Lenient = {2}
    Settings = {"title"}
    Operations <- MCOperations
    MaxOps = 3
SPECIFICATION Spec
INVARIANTS
    NoCaseFails
    Converged
    AnswersHold
    ShownSound
PROPERTIES
    NoCaseHangs
CHECK_DEADLOCK FALSE
