CONSTANTS
    Program <- MCPrograms
    Instances <- OneInstance
    NoProcess = NoProcess
    Console <- TwoConsoles
    Script <- RaceScript
    Algorithm = "PRIORITIES"
    Degree = 2
    MaxIrq = 1
SPECIFICATION Spec
CHECK_DEADLOCK FALSE
INVARIANTS
    AvailableNonNegative
