SPECIFICATION Spec
CONSTANTS
    Width = 4
    PAGE_SIZE = 4
    DRAM_SIZE = 12
    MaxRetired = 2
    Compressed <- Halfwords
    SingleJob <- Single
    Jobs <- Programs
    Registers <- Start
    Memory <- Contents
INVARIANTS RvcExpands HalvesOfProduct DivisionLaw CallReturns AmoExchanges
PROPERTIES FaultsAreClean
CHECK_DEADLOCK FALSE
