SPECIFICATION LiveSpec
CONSTANTS
    daily = daily
    weekly = weekly
    Fires = 3
    Schedules = {daily}
    Invocations <- Firings
    Of <- ScheduleOf
    Scans = 1
    CanPanic = TRUE
INVARIANTS OneInstance
PROPERTIES EveryRunReported TokenComesBack
CHECK_DEADLOCK FALSE
