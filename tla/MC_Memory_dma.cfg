SPECIFICATION Spec
CONSTANTS
    DRAM_SIZE = 4
    PAGE_SIZE = 2
    NUM_PAGES = 2
    DECODE_CACHE_SIZE = 2
    EpochMod = 3
    Values <- Bits
    Long <- LongOnes
    Threads <- Cpu
    Stores <- AlignedWords
    Code <- Program
    Spaces <- BareAndOne
    DmaUnits <- AllUnits
    BootReserved <- SafeBoot
INVARIANTS InvalidatedOnWrites
