SPECIFICATION Spec
CONSTANTS
    o1 = o1
    o2 = o2
    low = low
    high = high
    Orders <- Two
    Levels <- TwoLevels
    Size = 2
    Limit = 3
    MaxFaults = 2
    MaxCrashes = 1
    MaxInputs = 1
PROPERTIES PlacesOnlyRestored
