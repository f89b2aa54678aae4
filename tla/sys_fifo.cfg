CONSTANTS
    Program <- MCPrograms
    Instances <- OneInstance
    NoProcess = NoProcess
    Console <- OneConsole
    Script <- FifoScript
    Algorithm = "FIFO"
    Degree = 2
    MaxIrq = 1
SPECIFICATION FairTimelySpec
CHECK_DEADLOCK FALSE
INVARIANTS
    TypeOK
    CpuExclusive
    ReadyTokens
    OnePlace
    ExecHeadIsSender
    NoCrash
PROPERTIES
    RefinesLifecycle
    AllFinish
