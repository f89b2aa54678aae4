CONSTANTS
    Programs <- MCPrograms
    Half = 4
SPECIFICATION Spec
CHECK_DEADLOCK FALSE
INVARIANTS
    TypeOK
    OneTraveller
PROPERTY RefinesMachine
