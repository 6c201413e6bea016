SPECIFICATION Spec
CONSTANTS
    Bits = 3
    Narrow = 2
    BitAnd <- MCAnd
    BitOr <- MCOr
    BitXor <- MCXor
    PageSize = 8
    NrPages = 5
    Layouts <- MCLayouts
    ProgramOps <- MCProgramOps
    HandlerOps <- MCHandlerOps
    MaxNesting = 2
    MaxPushed = 1
    MaxWords = 3
INVARIANTS
    FlagsMean
    MemoryExact
CHECK_DEADLOCK FALSE
