CONSTANTS
    Sender <- Thread
    Scenario <- TwoConsoles
    Capacity = 16
SPECIFICATION Spec
CHECK_DEADLOCK FALSE
INVARIANT WellFramed
