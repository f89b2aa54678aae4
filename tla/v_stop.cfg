CONSTANTS
    Program <- MCPrograms
    Instances <- OneInstance
    NoProcess = NoProcess
    Console <- OneConsole
    Script <- StopScript
    Algorithm = "FIFO"
    Degree = 2
    MaxIrq = 1
SPECIFICATION FairSpec
CHECK_DEADLOCK FALSE
PROPERTIES
    ScriptDone
