\* A two-slot queue, a disk of one sector, a request past its end.
SPECIFICATION LiveSpec
CONSTANTS
    QUEUE_SIZE = 2
    IdxMod = 4
    Capacity = 1
    LastSector = 1
    Values <- Bits
    MaxRequests = 4
    MaxFaults = 1
INVARIANTS RequestsIntact ReadsLastWrite
PROPERTIES RequestsComplete
CHECK_DEADLOCK FALSE
