\* Privilege levels, trap frames, MPRV, delegation; no timer, no external lines.
CONSTANTS
    Code <- OneCode
    Align = 4
    TickPeriod = 1
    MaxTime = 0
    Sbi = FALSE
    BareMetal = FALSE
    MstatusWrites <- Reserving
    IrqWrites <- Mixed
    MedelegWrites <- IllegalOnly
    TvecWrites <- Reserved
    EpcWrites <- OddEpc
    SyncCauses = {2}
    TimerWrites = {}
    MsipWrites = {}
    Lines = {}
SPECIFICATION Spec
INVARIANTS
    TypeOK
    NoReservedPrivilege
    MprvOnlyInMachine
PROPERTIES
    MachineStateIsolated
    PrivilegeRisesOnlyByTrap
    SupervisorFrameSurvives
    MachineInterruptNotDeferred
CHECK_DEADLOCK FALSE
