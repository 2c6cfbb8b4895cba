SPECIFICATION Spec
CONSTANTS
    ordinary = ordinary
    new = new
    continue = continue
    shell = shell
    auxiliary = auxiliary
    direct = direct
    resume = resume
    t1 = t1
    t2 = t2
    t3 = t3
    i1 = i1
    i2 = i2
    None = None
    Intent <- MCIntent
    Subs = {continue, shell}
    Direct = {direct, resume}
    TaskIds = {t1}
    Inputs = {i1, i2}
    Capacity = 2
    Permits = 2
    Circumstances = {"unreconciled", "oversized"}
    MaxCrashes = 1
INVARIANTS
    ReportsTrue
CONSTRAINT FollowUpRun
CHECK_DEADLOCK FALSE
