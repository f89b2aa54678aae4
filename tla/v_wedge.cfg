CONSTANTS
    Program <- MCPrograms
    Instances <- OneInstance
    NoProcess = NoProcess
    Console <- OneConsole
    Script <- WedgeScript
    Algorithm = "ROUND_ROBIN"
    Degree = 2
    MaxIrq = 1
SPECIFICATION FairSpec
CHECK_DEADLOCK FALSE
PROPERTIES
    AllFinish
