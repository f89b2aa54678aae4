CONSTANTS
    Sessions <- MCSessions
    Length = 2
SPECIFICATION Spec
CHECK_DEADLOCK FALSE
INVARIANT KernelSurvives
