SPECIFICATION AnswersSpec
CONSTANTS
    eth = eth
    btc = btc
    t1 = t1
    t2 = t2
    s1 = s1
    a1 = a1
    a2 = a2
    c1 = c1
    c2 = c2
    c3 = c3
    Post = Post
    Off = Off
    Callers <- Pair
    MaxEntry = 4
    MaxEpoch = 2
    MaxVersion = 2
    MaxRetires = 1
SYMMETRY Interchangeable
INVARIANTS
    TypesOK
    ConsoleHolds
PROPERTIES
    ReadsAreFresh
    EndedIsSilent
\* A pair is removed, and the bounds use up the logins and requests.
CHECK_DEADLOCK FALSE
