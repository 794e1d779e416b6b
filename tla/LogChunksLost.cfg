SPECIFICATION Spec
CONSTANTS
    MaxLen = 8
    Files <- SmallFiles
    ReadCap = 4
INVARIANTS EveryRecord
CHECK_DEADLOCK FALSE
