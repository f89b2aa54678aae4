CONSTANTS
    Sessions <- MCSessions
    Length = 2
SPECIFICATION Spec
CHECK_DEADLOCK FALSE
INVARIANTS
    TypeOK
    RightHandler
    DiesOfAPeer
PROPERTY Served
