SPECIFICATION Spec
CONSTANTS
    ordinary = ordinary
    new = new
    continue = continue
    shell = shell
    auxiliary = auxiliary
    direct = direct
    resume = resume
    t1 = t1
    t2 = t2
    t3 = t3
    i1 = i1
    i2 = i2
    None = None
    Intent <- MCIntent
    Subs = {ordinary, new}
    Direct = {direct}
    TaskIds = {t1, t2, t3}
    Inputs = {i1}
    Capacity = 2
    Permits = 1
    Circumstances = {"overspent", "contended"}
    MaxCrashes = 1
INVARIANTS
    TypeOK
    OneTurn
    QueueConsistent
PROPERTIES
    RequestsOnce
CONSTRAINT TurnsRun
SYMMETRY Fresh
CHECK_DEADLOCK FALSE
