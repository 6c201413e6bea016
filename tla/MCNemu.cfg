SPECIFICATION FairSpec
CONSTANTS
    NR_WP = 3
    Limit = 2
    EXPR_LEN = 5
    Chars = {"a", "+"}
    Texts <- MCTexts
    Values = {0, 1}
    None = None
    KEY_QUEUE_LEN = 2
    NrKeys = 2
    Unmapped = {}
    DEBUG = TRUE
    Names = {"a"}
    Word = 2
    SiCounts = {1}
CHECK_DEADLOCK FALSE
INVARIANTS
    PoolInv
    KeysExact
    StopsAtChange
    StaleKeysDropped
PROPERTIES
    ImplementsWatchSet
    KeyHandled
