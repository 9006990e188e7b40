CONSTANTS
    eth = eth
    btc = btc
    Symbols <- Both
    Initial <- Both
    Kinds <- AllKinds
    MaxMembers = 3
    MaxRequests = 1
    MaxFaults = 1
    MaxEvents = 1
    Contended = FALSE
SPECIFICATION FairSpec
PROPERTIES
    SignalEndsAll
\* The process ends.
CHECK_DEADLOCK FALSE
