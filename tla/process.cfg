SPECIFICATION ProcessSpec
CONSTANTS
    Inputs <- RestartInputs
    MaxInputs = 3
    MaxFaults = 1
    MaxEvents = 3
    MaxBoots = 2
    eth = eth
    btc = btc
    sol = sol
    ada = ada
    Off = Off
SYMMETRY Interchangeable
INVARIANTS
    TypesOK
    OnlyGrantedRuns
    AbandonedModePaused
    RestartIsGranted
    ArmedWhileRunning
    PairsHold
PROPERTIES
    ClearedIsFinal
    DurableOrders
\* The process ends, and the bounds use up the inputs.
CHECK_DEADLOCK FALSE
