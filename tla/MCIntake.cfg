SPECIFICATION Spec
CONSTANTS
    hook = hook
    timer = timer
    k1 = k1
    None = None
    Webhooks = {hook}
    Schedules = {timer}
    Keys = {k1}
    FirstDue = 0
    Period = 2
    MaxTime = 3
    MaxSources = 2
    MaxPending = 2
    QueueRoom = 1
    Taken <- FirstDelivery
    Rebind = TRUE
    MaxCrashes = 1
INVARIANTS
    TypeOK
    SettledIsFinal
    SchedulesExact
PROPERTIES
    ForeignUntouched
    DeliveredAtMostOnce
    EventSettles
CONSTRAINT ForeignFirst
CHECK_DEADLOCK FALSE
