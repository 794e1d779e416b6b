SPECIFICATION Spec
CONSTANTS
    MaxLen = 8
    Files <- SmallFiles
    ReadCap = 4
INVARIANTS RecordsKept
CHECK_DEADLOCK FALSE
