SPECIFICATION Spec
CONSTANTS
    DRAM_SIZE = 4
    PAGE_SIZE = 2
    NUM_PAGES = 1
    DECODE_CACHE_SIZE = 2
    EpochMod = 3
    Values <- Bits
    Long <- LongOnes
    Threads <- Cpu
    Stores <- AlignedWords
    Code <- Program
    Spaces <- BareAndOne
    DmaUnits <- LastUnit
    BootReserved <- SafeBoot
INVARIANTS IcacheCoherent DecodeCoherent ScIsPaired
