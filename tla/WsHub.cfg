SPECIFICATION LiveSpec
CONSTANTS
    Clients = {c1, c2}
    Callers = {b1, b2}
    BroadcastCap = 1
    SendCap = 1
    MaxEvents = 6
INVARIANTS NeverCrashes NoGaps
PROPERTIES BroadcastReturns DeadClientsLeave
CHECK_DEADLOCK FALSE
