SPECIFICATION Spec
CONSTANTS
    Length = 5
    Word = 2
    MaxPacked = 3
CHECK_DEADLOCK FALSE
INVARIANTS
    NoFalseAlarm
    FaultsReported
    InStep
