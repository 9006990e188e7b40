CONSTANTS
    Inputs <- AllInputs
    MaxInputs = 2
    MaxFaults = 1
    MaxEvents = 2
    MaxBoots = 1
SPECIFICATION FairSpec
PROPERTIES
    NoResumeUnderRisk
    ControlsEnd
\* The system stops when the inputs and boots of the bounds are used up.
CHECK_DEADLOCK FALSE
