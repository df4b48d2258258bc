\* Who gets the hart when the timer is due, under fairness.
CONSTANTS
    Code <- Zero
    Align = 2
    TickPeriod = 2
    MaxTime = 1
    Sbi = TRUE
    BareMetal = FALSE
    MstatusWrites = {}
    IrqWrites <- Timers
    MedelegWrites = {}
    TvecWrites = {}
    EpcWrites = {}
    SyncCauses = {2}
    TimerWrites <- Deadlines
    MsipWrites = {}
    Lines = {9}
SPECIFICATION FairSpec
PROPERTIES
    TimerPreempts WfiWakes
CHECK_DEADLOCK FALSE
