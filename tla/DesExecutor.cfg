\* Two futures, a 2-bit clock, durations that saturate (2) and truncate (5 to 1); liveness under
\* the fairness of the driver loop.
CONSTANTS
    Task = {a, b}
    \* now, a wait, two that end together with a later one or saturate, and one the clock truncates to 1
    Durations = {0, 1, 2, 5}
    UMax = 3
    MaxOps = 4
SPECIFICATION FairSpec
INVARIANTS
    Housed
    NoLostWakeup
    Punctual
    DeadlockIsReal
PROPERTIES
    SleepersWake
