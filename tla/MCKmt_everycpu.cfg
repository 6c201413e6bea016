CONSTANTS
    t1 = t1
    t2 = t2
    t3 = t3
    s1 = s1
    s2 = s2
    None = None
    Cpus = {c1, c2}
    Tasks = {t1}
    Sems = {}
    SemInit <- MCZero
    Boot <- MCOne
    Victims = {}
    MaxValue = 1
SPECIFICATION FairSpec
PROPERTIES
    EveryCpu
