CONSTANTS
    Program <- MCPrograms
    Instances <- OneInstance
    NoProcess = NoProcess
    Console <- OneConsole
    Script <- RoundRobinScript
    Algorithm = "ROUND_ROBIN"
    Degree = 1
    MaxIrq = 1
SPECIFICATION Spec
CHECK_DEADLOCK FALSE
INVARIANTS
    CpuExclusive
    ExecHeadIsSender
PROPERTIES
    RefinesLifecycle
    StopFreezes
