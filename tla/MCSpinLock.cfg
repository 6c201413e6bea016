SPECIFICATION FairSpec
CONSTANTS
    c1 = c1
    c2 = c2
    t1 = t1
    t2 = t2
    qlk = qlk
    lk1 = lk1
    Cpus = {c1, c2}
    Threads = {t1}
    Locks = {qlk, lk1}
    QueueLk = qlk
    Below <- MCNested
    Idle = Idle
INVARIANTS
    MutualExclusion
    NoPanic
    HolderKeepsCpu
    InterruptsRestored
PROPERTIES
    SectionsEnd
