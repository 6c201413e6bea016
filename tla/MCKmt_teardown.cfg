CONSTANTS
    t1 = t1
    t2 = t2
    t3 = t3
    s1 = s1
    s2 = s2
    None = None
    Cpus = {c1, c2}
    Tasks = {t1, t2, t3}
    Sems = {s1}
    SemInit <- MCZero
    Boot <- MCTwo
    Victims = {t2}
    MaxValue = 1
SPECIFICATION Spec
PROPERTIES
    NoResurrection
CHECK_DEADLOCK FALSE
