SPECIFICATION Spec
CONSTANTS
    Ids = {a1, a2}
    Honest = FALSE
    MaxLies = 1
    Times = {1}
    MaxSyncs = 2
    MaxFaults = 0
    MaxCrashes = 0
PROPERTIES NeverCleared
\* The bounds use up what may happen.
CHECK_DEADLOCK FALSE
