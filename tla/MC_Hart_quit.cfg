\* The quit key against a guest that waits for interrupts.
CONSTANTS
    Code <- Zero
    Align = 2
    TickPeriod = 2
    MaxTime = 1
    Sbi = FALSE
    BareMetal = FALSE
    MstatusWrites = {}
    IrqWrites <- Timers
    MedelegWrites = {}
    TvecWrites = {}
    EpcWrites = {}
    SyncCauses = {2}
    TimerWrites <- Deadlines
    MsipWrites = {}
    Lines = {}
SPECIFICATION FairSpec
PROPERTIES HaltSticks
CHECK_DEADLOCK FALSE
