CONSTANTS
    eth = eth
    btc = btc
    Symbols <- Both
    Initial <- Both
    Kinds <- AllKinds
    MaxMembers = 3
    MaxRequests = 1
    MaxFaults = 0
    MaxEvents = 1
    Contended = TRUE
SPECIFICATION FairSpec
PROPERTIES
    SignalEndsAll
\* The process ends.
CHECK_DEADLOCK FALSE
