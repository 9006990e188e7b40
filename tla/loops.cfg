SPECIFICATION LoopsSpec
CONSTANTS
    eth = eth
    btc = btc
    Off = Off
    Members = {eth}
    Limit = 1
    Starts = {TRUE}
    MaxUnits = 1
    MaxFaults = 2
    MaxToggles = 1
INVARIANTS UnreconciledFillCloses
PROPERTIES CancelIsRetried Verified FreshAgain GridSettles
\* The engine of a pair ends.
CHECK_DEADLOCK FALSE
