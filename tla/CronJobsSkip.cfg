SPECIFICATION Spec
CONSTANTS
    daily = daily
    weekly = weekly
    Fires = 2
    Schedules = {daily}
    Invocations <- Firings
    Of <- ScheduleOf
    Scans = 1
    CanPanic = TRUE
PROPERTIES SkipsOnlyOverlap
CHECK_DEADLOCK FALSE
