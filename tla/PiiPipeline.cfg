SPECIFICATION LiveSpec
CONSTANTS
    Last = 7
    Kind <- TwoTables
    Workers = {w1, w2}
    Detectors = 2
    InputCap = 1
INVARIANTS AllDelivered ErrorsSurface NoSendOnClosed
PROPERTIES ScanEnds
CHECK_DEADLOCK FALSE
