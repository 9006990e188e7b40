SPECIFICATION EndsSpec
CONSTANTS
    o1 = o1
    low = low
    eth = eth
    btc = btc
    Orders <- One
    Levels <- OneLevel
    Size = 2
    Limit = 3
    MaxFaults = 2
    MaxCrashes = 1
    MaxInputs = 2
INVARIANTS NothingForgotten BookedOnce
PROPERTIES ReleasedWhenSettled Settles CallsEnd
