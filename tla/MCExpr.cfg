SPECIFICATION Spec
CONSTANTS
    MaxTokens = 5
    Half = 8
    Memory <- MCMemory
CHECK_DEADLOCK FALSE
INVARIANTS
    ValueAsDocumented
