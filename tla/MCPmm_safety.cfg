SPECIFICATION Spec
CONSTANTS
    NCpu = 2
    NPages = 3
    Types = {"many", "few"}
    SentiType = "many"
    W = 2
    MaxWords = 2
    Words <- MCWords
    First <- MCFirst
    Word0 = {"few"}
    None = None
INVARIANTS
    NoDoubleAlloc
    NoLeak
    FullHoldsBackOne
    PagesApart
