CONSTANTS
    Inputs <- OverrideInputs
    MaxInputs = 2
    MaxFaults = 0
    MaxEvents = 2
    MaxBoots = 1
SPECIFICATION Spec
INVARIANTS
    PauseIsNotOverridden
\* The system stops when the inputs and boots of the bounds are used up.
CHECK_DEADLOCK FALSE
