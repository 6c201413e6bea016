SPECIFICATION FairSpec
CONSTANTS
    a = a
    b = b
    d = d
    Cos = {a, b, d}
    Main = Main
    MaxRound = 4
    None = None
INVARIANTS
    ListExact
    WaitersExact
    AllCanBePicked
PROPERTIES
    FreesOnlyDead
    WaitReturns
