SPECIFICATION SharedSpec
CONSTANTS
    eth = eth
    btc = btc
    Off = Off
    Members <- Pair
    Limit = 2
    Starts = {FALSE}
    MaxUnits = 2
    MaxFaults = 0
    MaxToggles = 1
SYMMETRY Interchangeable
INVARIANTS
    TypesOK
    NoPostDuringReconciliation
    TrippedMeansStopped
    SlotsHold
    PricesHold
    CriticalRoom
PROPERTIES NoSubmissionOverLimit GrantsFit
CHECK_DEADLOCK FALSE
