SPECIFICATION TradingSpec
CONSTANTS
    Sources = {s1, s2}
    Targets = {t1}
    Grid = {g1}
    Pairs = {p1}
    Full = 2
    MaxPos = 3
    MaxEntries = 1
    MaxFaults = 1
    MaxCrashes = 1
    MaxPauses = 1
    low = low
    high = high
    eth = eth
    btc = btc
    Off = Off
SYMMETRY Interchangeable
INVARIANTS
    TypesOK
    OrdersWithinLimits
    ClosingHolds
    HistoryAgrees
    ShownIsCurrent
    WalletHolds
PROPERTIES
    EvidenceHolds
\* The bounds use up what may happen.
CHECK_DEADLOCK FALSE
