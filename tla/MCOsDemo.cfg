SPECIFICATION DemoFairSpec
CONSTANTS
    t1 = t1
    t2 = t2
    empty = empty
    fill = fill
    Cpus = {c1, c2}
    Tasks = {t1, t2}
    Sems = {empty, fill}
    SemInit <- MCSemInit
    Boot <- MCBoot2
    Victims = {}
    Producers = {t1}
    Depth = 2
    MaxValue = 2
    None = None
INVARIANTS
    WellNested
    Conserved
PROPERTIES
    KeepsPrinting
    RunnableRuns
    WakeDelivered
