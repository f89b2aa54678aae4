CONSTANTS
    Program <- MCPrograms
    Instances <- TwoResources
    NoProcess = NoProcess
    Console <- OneConsole
    Script <- DeadlockScript
    Algorithm = "PRIORITIES"
    Degree = 3
    MaxIrq = 1
SPECIFICATION TimelySpec
CHECK_DEADLOCK FALSE
INVARIANTS
    ReadyTokens
    CycleReported
    FinishedIsGone
