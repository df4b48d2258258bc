\* Three sources under every configuration; completions name what is held.
\* Three entries of physical memory protection under every configuration.
CONSTANTS
    NUM_SOURCES = 4
    PriorityWrites = {0, 1, 10}
    EnableWrites <- SomeMasks
    CompleteWrites = {32}
    ENTRIES = 3
    PerReg = 1
    Width = 5
    Modes <- AllModes
    Perms <- SomePerms
    AddrValues <- InRange
SPECIFICATION RegistersSpec
INVARIANTS ArbiterIsFair VerdictIsOfFirstRange
PROPERTIES DroppedOnlyInService AddressWritesKeepRanges
CHECK_DEADLOCK FALSE
