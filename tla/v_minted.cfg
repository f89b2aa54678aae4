CONSTANTS
    Program <- MCPrograms
    Instances <- TwoResources
    NoProcess = NoProcess
    Console <- OneConsole
    Script <- MintScript
    Algorithm = "FIFO"
    Degree = 2
    MaxIrq = 1
SPECIFICATION TimelySpec
CHECK_DEADLOCK FALSE
INVARIANTS
    InstancesConserved
