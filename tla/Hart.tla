-------------------------------- MODULE Hart --------------------------------
(***************************************************************************)
(* The hart: privilege levels, traps and their delegation, the CSRs that   *)
(* govern them, the in-CPU SBI layer, WFI and the run loop that samples    *)
(* the interrupt sources (src/cpu/{cpu,trap,csr,execute}.cpp, clint).      *)
(*                                                                         *)
(* CPU::run is one thread.  One turn of its loop is two or three atomic    *)
(* steps, told apart by phase: the head of the loop (count, every          *)
(* TickPeriod-th turn sample the sources, decide about WFI), the wake-up   *)
(* store, and CPU::step (one interrupt, or one instruction).  Between them *)
(* the other threads act: they halt the CPU, and they move the interrupt   *)
(* lines and the wall clock.                                               *)
(*                                                                         *)
(* Which instruction the guest executes next is a free choice; integer     *)
(* registers, xcause, xtval and the counters are not modelled.             *)
(***************************************************************************)
EXTENDS Integers

CONSTANTS
    Code,           \* the addresses control can be at outside a vector table
    Align,          \* ADDRESS_MISALIGNMENT_MASK + 1
    TickPeriod,     \* turns of the run loop between two updateCycle (1024)
    MaxTime,        \* BOUND: the wall clock stops here
    Sbi,            \* an opensbi_path is configured: S-mode ECALL is served here
    BareMetal,      \* ExecutionMode::BARE_METAL: ECALL with a7 = 93 exits
    MstatusWrites,  \* the values guest software writes to mstatus and sstatus
    IrqWrites,      \* ... to mideleg, mie, mip, sie and sip
    MedelegWrites,  \* ... to medeleg
    TvecWrites,     \* ... to mtvec and stvec
    EpcWrites,      \* ... to mepc and sepc
    TimerWrites,    \* ... to mtimecmp
    MsipWrites,     \* ... to msip
    Lines,          \* the PLIC contexts with an enabled source
    SyncCauses      \* the synchronous causes the guest's instructions raise

U == 0
S == 1
M == 3
Levels == 0..3      \* two bits; 2 is reserved

Cause == 0..15

MSI == 3   SSI == 1   MTI == 7   STI == 5   MEI == 11   SEI == 9

Mstatus == [sie: BOOLEAN, mie: BOOLEAN, spie: BOOLEAN, mpie: BOOLEAN,
            spp: BOOLEAN, mpp: Levels, mprv: BOOLEAN, tw: BOOLEAN,
            tsr: BOOLEAN]

Tvec == [base: Nat, mode: 0..3]

ASSUME CodeAssumption == Code \subseteq Nat /\ Code # {}
ASSUME AlignAssumption == Align \in {2, 4}
ASSUME CodeAligned == \A a \in Code : a % Align = 0
ASSUME TickAssumption == TickPeriod \in Nat \ {0}
ASSUME TimeAssumption == MaxTime \in Nat
ASSUME ProfileAssumption == Sbi \in BOOLEAN /\ BareMetal \in BOOLEAN
ASSUME WritesAssumption ==
    /\ MstatusWrites \subseteq Mstatus
    /\ IrqWrites \subseteq SUBSET Cause
    /\ MedelegWrites \subseteq SUBSET Cause
    /\ TvecWrites \subseteq Tvec
    /\ EpcWrites \subseteq Nat
    /\ TimerWrites \subseteq 0..(MaxTime + 1)
    /\ MsipWrites \subseteq BOOLEAN
    /\ Lines \subseteq {MEI, SEI}
    /\ 2 \in SyncCauses /\ SyncCauses \subseteq Cause

VARIABLES
    phase,          \* where CPU::run is: "boot", "top", "wake", "step"
    state,          \* CPU::state_
    insn_counter,   \* the local of CPU::run, modulo TickPeriod
    priv,           \* privilege_level_
    pc,             \* pc_
    mstatus, mideleg, medeleg, mie, mip,
    mtvec, stvec, mepc, sepc,
    now,            \* what updateMtime would store into mtime
    mtimecmp, msip, \* CLINT
    lines           \* the PLIC outputs: MEI for context M, SEI for context S

loop   == <<phase, state, insn_counter>>
epcs   == <<mepc, sepc>>
tvecs  == <<mtvec, stvec>>
delegs == <<mideleg, medeleg>>
irqs   == <<mie, mip>>
clint  == <<now, mtimecmp, msip>>
vars   == <<loop, priv, pc, mstatus, delegs, irqs, tvecs, epcs, clint, lines>>

CPUState == {"IDLE", "WAITING_FOR_INTERRUPT", "ACTIVE", "HALTED"}

TypeOK ==
    /\ phase \in {"boot", "top", "wake", "step"}
    /\ state \in CPUState
    /\ insn_counter \in 0..(TickPeriod - 1)
    /\ priv \in Levels
    /\ pc \in Nat
    /\ mstatus \in Mstatus
    /\ mideleg \in SUBSET Cause
    /\ medeleg \in SUBSET Cause
    /\ mie \in SUBSET Cause
    /\ mip \in SUBSET Cause
    /\ mtvec \in Tvec /\ mtvec.mode \in {0, 1}
    /\ stvec \in Tvec
    /\ mepc \in Nat
    /\ sepc \in Nat
    /\ now \in 0..MaxTime
    /\ mtimecmp \in 0..(MaxTime + 1)
    /\ msip \in BOOLEAN
    /\ lines \in SUBSET Lines

-----------------------------------------------------------------------------
(* The constructor leaves state_ unset; CPU::run sets it.                  *)

Init ==
    /\ phase = "boot"
    /\ state \in CPUState
    /\ insn_counter = 0
    /\ priv = M
    /\ pc \in Code
    /\ mstatus = [sie |-> FALSE, mie |-> FALSE, spie |-> FALSE, mpie |-> FALSE,
                  spp |-> FALSE, mpp |-> M, mprv |-> FALSE, tw |-> FALSE,
                  tsr |-> FALSE]
    /\ mideleg = {} /\ medeleg = {} /\ mie = {} /\ mip = {}
    /\ mtvec = [base |-> 0, mode |-> 0]
    /\ stvec = [base |-> 0, mode |-> 0]
    /\ mepc = 0 /\ sepc = 0
    /\ now = 0 /\ mtimecmp = MaxTime + 1 /\ msip = FALSE
    /\ lines = {}

-----------------------------------------------------------------------------
(* updateCycle: what mip becomes when the run loop samples the sources.    *)

TimerDue == now >= mtimecmp

SampledMip_AlwaysForwards ==   \* as if the timer were always delegated
    (mip \ {MSI, MTI, MEI, SEI})
        \cup (IF msip THEN {MSI} ELSE {})
        \cup (IF TimerDue THEN {STI} ELSE {})
        \cup lines

SampledMip ==
    (mip \ {MSI, MTI, MEI, SEI})
        \cup (IF msip THEN {MSI} ELSE {})
        \cup (IF TimerDue THEN IF STI \in mideleg THEN {STI} ELSE {MTI} ELSE {})
        \cup lines

(* checkInterrupts: the fixed scan order, and when one is taken.           *)

ScanOrder == <<MEI, MSI, MTI, SEI, SSI, STI>>

Takeable(id) ==
    /\ id \in mip \cap mie
    /\ IF id \in mideleg /\ priv <= S
       THEN priv < S \/ mstatus.sie
       ELSE priv < M \/ mstatus.mie

(* A scan that gives up at the first pending interrupt, masked or not.     *)
FirstTakeable_StopsAtMasked(id) ==
    \E k \in 1..6 :
        /\ ScanOrder[k] = id
        /\ Takeable(id)
        /\ \A j \in 1..(k - 1) : ScanOrder[j] \notin mip \cap mie

FirstTakeable(id) ==
    \E k \in 1..6 :
        /\ ScanOrder[k] = id
        /\ Takeable(id)
        /\ \A j \in 1..(k - 1) : ~Takeable(ScanOrder[j])

(* getTrapTargetLevel *)
TargetLevel(cause, deleg) == IF priv # M /\ cause \in deleg THEN S ELSE M

Entry(tvec, cause, isInterrupt) ==
    tvec.base + (IF isInterrupt /\ tvec.mode = 1 THEN 4 * cause ELSE 0)

-----------------------------------------------------------------------------
(* CPU::trap: one operator per target level.  The phase goes back to the   *)
(* head of the loop because step returns as soon as trap_occurred_ is set. *)

EnterMachine_KeepsMpp(cause, isInterrupt) ==
    /\ mstatus' = [mstatus EXCEPT !.mpie = mstatus.mie, !.mie = FALSE]
    /\ mepc' = pc
    /\ pc' = Entry(mtvec, cause, isInterrupt)
    /\ priv' = M
    /\ UNCHANGED sepc

EnterMachine_ClobbersSpie(cause, isInterrupt) ==
    /\ mstatus' = [mstatus EXCEPT !.mpie = mstatus.mie, !.mie = FALSE,
                                  !.spie = mstatus.sie, !.sie = FALSE,
                                  !.mpp = priv]
    /\ mepc' = pc
    /\ pc' = Entry(mtvec, cause, isInterrupt)
    /\ priv' = M
    /\ UNCHANGED sepc

EnterMachine(cause, isInterrupt) ==
    /\ mstatus' = [mstatus EXCEPT !.mpie = mstatus.mie, !.mie = FALSE,
                                  !.mpp = priv]
    /\ mepc' = pc
    /\ pc' = Entry(mtvec, cause, isInterrupt)
    /\ priv' = M
    /\ UNCHANGED sepc

EnterSupervisor(cause, isInterrupt) ==
    /\ mstatus' = [mstatus EXCEPT !.spie = mstatus.sie, !.sie = FALSE,
                                  !.spp = (priv = S)]
    /\ sepc' = pc
    /\ pc' = Entry(stvec, cause, isInterrupt)
    /\ priv' = S
    /\ UNCHANGED mepc

Trap(cause, isInterrupt) ==
    /\ phase = "step"
    /\ phase' = "top"
    /\ IF TargetLevel(cause, IF isInterrupt THEN mideleg ELSE medeleg) = S
       THEN EnterSupervisor(cause, isInterrupt)
       ELSE EnterMachine(cause, isInterrupt)
    /\ UNCHANGED <<state, insn_counter, delegs, irqs, tvecs, clint, lines>>

-----------------------------------------------------------------------------
(* The run loop.                                                           *)

Run ==                     \* the first statement of CPU::run
    /\ phase = "boot"
    /\ phase' = "top"
    /\ state' = "ACTIVE"
    /\ UNCHANGED <<insn_counter, priv, pc, mstatus, delegs, irqs, tvecs, epcs,
                   clint, lines>>

LoopTop_CountsOnlyActive ==   \* a turn that sleeps in WFI does not count
    /\ phase = "top"
    /\ state # "HALTED"
    /\ insn_counter' = IF state = "WAITING_FOR_INTERRUPT" /\ mip \cap mie = {}
                       THEN insn_counter
                       ELSE (insn_counter + 1) % TickPeriod
    /\ mip' = IF insn_counter' = 0 /\ insn_counter # 0 THEN SampledMip ELSE mip
    /\ phase' = IF state # "WAITING_FOR_INTERRUPT" THEN "step"
                ELSE IF mip' \cap mie # {} THEN "wake" ELSE "top"
    /\ UNCHANGED <<state, priv, pc, mstatus, delegs, mie, tvecs, epcs, clint,
                   lines>>

LoopTop ==                 \* lines 60-80: count, sample, decide about WFI
    /\ phase = "top"
    /\ state # "HALTED"
    /\ insn_counter' = (insn_counter + 1) % TickPeriod
    /\ mip' = IF insn_counter' = 0 THEN SampledMip ELSE mip
    /\ phase' = IF state # "WAITING_FOR_INTERRUPT" THEN "step"
                ELSE IF mip' \cap mie # {} THEN "wake" ELSE "top"
    /\ UNCHANGED <<state, priv, pc, mstatus, delegs, mie, tvecs, epcs, clint,
                   lines>>

Wake ==                    \* line 75
    /\ phase = "wake"
    /\ state' = "ACTIVE"
    /\ phase' = "step"
    /\ UNCHANGED <<insn_counter, priv, pc, mstatus, delegs, irqs, tvecs, epcs,
                   clint, lines>>

Interrupt == \E id \in Cause : FirstTakeable(id) /\ Trap(id, TRUE)

-----------------------------------------------------------------------------
(* Instructions.  checkInterrupts comes first in CPU::step, so nothing is  *)
(* fetched while an interrupt can be taken.                                *)

AtFetch == phase = "step" /\ ~ \E id \in Cause : FirstTakeable(id)

FetchMisaligned == AtFetch /\ pc % Align # 0 /\ Trap(0, FALSE)

Executing == AtFetch /\ pc % Align = 0

(* Every exception an instruction can raise, a failed fetch, an illegal or *)
(* forbidden instruction and EBREAK included.                              *)
Exception == \E cause \in SyncCauses : Executing /\ Trap(cause, FALSE)

EcallCause == IF priv = U THEN 8 ELSE IF priv = S THEN 9 ELSE 11

Ecall ==
    /\ Executing
    /\ ~(priv = S /\ Sbi)
    /\ Trap(EcallCause, FALSE)

(* An instruction that completes: control goes on, or jumps, somewhere.    *)
Completes == Executing /\ phase' = "top" /\ pc' \in Code

(* ALU, branch, jump, load, store, fence, atomic, CSR read, and the SBI    *)
(* calls that only return a value.                                         *)
Retire ==
    /\ Completes
    /\ UNCHANGED <<state, insn_counter, priv, mstatus, delegs, irqs, tvecs,
                   epcs, clint, lines>>

Mret_KeepsMprv ==
    /\ Executing
    /\ priv = M
    /\ phase' = "top"
    /\ pc' = mepc
    /\ priv' = mstatus.mpp
    /\ mstatus' = [mstatus EXCEPT !.mie = mstatus.mpie, !.mpie = TRUE, !.mpp = U]
    /\ UNCHANGED <<state, insn_counter, delegs, irqs, tvecs, epcs, clint, lines>>

Mret ==
    /\ Executing
    /\ priv = M
    /\ phase' = "top"
    /\ pc' = mepc
    /\ priv' = mstatus.mpp
    /\ mstatus' = [mstatus EXCEPT !.mie = mstatus.mpie, !.mpie = TRUE, !.mpp = U,
                                  !.mprv = mstatus.mprv /\ mstatus.mpp = M]
    /\ UNCHANGED <<state, insn_counter, delegs, irqs, tvecs, epcs, clint, lines>>

Sret ==
    /\ Executing
    /\ priv # U
    /\ ~(priv = S /\ mstatus.tsr)
    /\ phase' = "top"
    /\ pc' = sepc
    /\ priv' = IF mstatus.spp THEN S ELSE U
    /\ mstatus' = [mstatus EXCEPT !.sie = mstatus.spie, !.spie = TRUE,
                                  !.spp = FALSE, !.mprv = FALSE]
    /\ UNCHANGED <<state, insn_counter, delegs, irqs, tvecs, epcs, clint, lines>>

Wfi ==
    /\ Completes
    /\ priv # U
    /\ ~(priv = S /\ mstatus.tw)
    /\ state' = "WAITING_FOR_INTERRUPT"
    /\ UNCHANGED <<insn_counter, priv, mstatus, delegs, irqs, tvecs, epcs,
                   clint, lines>>

(* ECALL exit of a bare-metal program; SBI shutdown, hart_stop and         *)
(* system_reset.                                                           *)
Exit ==
    /\ Completes
    /\ BareMetal \/ (Sbi /\ priv = S)
    /\ state' = "HALTED"
    /\ UNCHANGED <<insn_counter, priv, mstatus, delegs, irqs, tvecs, epcs,
                   clint, lines>>

-----------------------------------------------------------------------------
(* SBI calls that change state, and the devices' registers.                *)

SbiSetTimer(cleared) ==
    /\ Completes
    /\ Sbi /\ priv = S
    /\ mtimecmp' \in TimerWrites
    /\ mip' = mip \ cleared
    /\ UNCHANGED <<state, insn_counter, priv, mstatus, delegs, mie, tvecs, epcs,
                   now, msip, lines>>

LegacySetTimer == SbiSetTimer({MTI})
TimeSetTimer   == SbiSetTimer({MTI, STI})

SbiClearIpi ==
    /\ Completes
    /\ Sbi /\ priv = S
    /\ mip' = mip \ {SSI}
    /\ UNCHANGED <<state, insn_counter, priv, mstatus, delegs, mie, tvecs, epcs,
                   clint, lines>>

ClintWrite ==              \* a store to msip or mtimecmp
    /\ Completes
    /\ \/ mtimecmp' \in TimerWrites /\ UNCHANGED msip
       \/ msip' \in MsipWrites /\ UNCHANGED mtimecmp
    /\ UNCHANGED <<state, insn_counter, priv, mstatus, delegs, irqs, tvecs,
                   epcs, now, lines>>

PlicLower ==               \* a claim, or a store that disables the source
    /\ Completes
    /\ \E l \in lines : lines' = lines \ {l}
    /\ UNCHANGED <<state, insn_counter, priv, mstatus, delegs, irqs, tvecs,
                   epcs, clint>>

-----------------------------------------------------------------------------
(* writeCSR.  CSR instructions that set or clear bits write one of the     *)
(* same values.                                                            *)

WrittenMstatus_NoClamp(v) == v

WrittenMstatus(v) == [v EXCEPT !.mpp = IF v.mpp = 2 THEN S ELSE v.mpp]

WrittenSstatus_FullMask(v) == WrittenMstatus(v)

WrittenSstatus(v) == [mstatus EXCEPT !.sie = v.sie, !.spie = v.spie,
                                     !.spp = v.spp]

WrittenMtvec_NoClamp(v) == v

WrittenMtvec(v) == [v EXCEPT !.mode = IF v.mode > 1 THEN 0 ELSE v.mode]

Masked(old, new, mask) == (old \ mask) \cup (new \cap mask)

CsrWrite(level) == Completes /\ priv >= level

WriteMstatus ==
    /\ CsrWrite(M)
    /\ \E v \in MstatusWrites : mstatus' = WrittenMstatus(v)
    /\ UNCHANGED <<state, insn_counter, priv, delegs, irqs, tvecs, epcs, clint,
                   lines>>

WriteSstatus ==
    /\ CsrWrite(S)
    /\ \E v \in MstatusWrites : mstatus' = WrittenSstatus(v)
    /\ UNCHANGED <<state, insn_counter, priv, delegs, irqs, tvecs, epcs, clint,
                   lines>>

WriteDeleg ==              \* mideleg or medeleg
    /\ CsrWrite(M)
    /\ \/ mideleg' \in IrqWrites /\ UNCHANGED medeleg
       \/ medeleg' \in MedelegWrites /\ UNCHANGED mideleg
    /\ UNCHANGED <<state, insn_counter, priv, mstatus, irqs, tvecs, epcs, clint,
                   lines>>

WriteMieMip ==             \* stored as written
    /\ CsrWrite(M)
    /\ \/ mie' \in IrqWrites /\ UNCHANGED mip
       \/ mip' \in IrqWrites /\ UNCHANGED mie
    /\ UNCHANGED <<state, insn_counter, priv, mstatus, delegs, tvecs, epcs,
                   clint, lines>>

WriteSieSip ==             \* through mideleg; of sip only SSIP
    /\ CsrWrite(S)
    /\ \E v \in IrqWrites :
          \/ mie' = Masked(mie, v, mideleg) /\ UNCHANGED mip
          \/ mip' = Masked(mip, v, mideleg \cap {SSI}) /\ UNCHANGED mie
    /\ UNCHANGED <<state, insn_counter, priv, mstatus, delegs, tvecs, epcs,
                   clint, lines>>

WriteTvec ==
    /\ \E v \in TvecWrites :
          \/ CsrWrite(M) /\ mtvec' = WrittenMtvec(v) /\ UNCHANGED stvec
          \/ CsrWrite(S) /\ stvec' = v /\ UNCHANGED mtvec
    /\ UNCHANGED <<state, insn_counter, priv, mstatus, delegs, irqs, epcs, clint,
                   lines>>

WriteEpc ==                \* mepc loses its low bit, sepc does not
    /\ \E v \in EpcWrites :
          \/ CsrWrite(M) /\ mepc' = v - (v % 2) /\ UNCHANGED sepc
          \/ CsrWrite(S) /\ sepc' = v /\ UNCHANGED mepc
    /\ UNCHANGED <<state, insn_counter, priv, mstatus, delegs, irqs, tvecs,
                   clint, lines>>

-----------------------------------------------------------------------------
(* The other threads, and time.                                            *)

Halt ==                    \* CPU::halt, from the UART thread or SIGTERM
    /\ state' = "HALTED"
    /\ UNCHANGED <<phase, insn_counter, priv, pc, mstatus, delegs, irqs, tvecs,
                   epcs, clint, lines>>

DeviceRaise ==             \* PLIC::set_pending on an enabled source
    /\ \E l \in Lines \ lines : lines' = lines \cup {l}
    /\ UNCHANGED <<loop, priv, pc, mstatus, delegs, irqs, tvecs, epcs, clint>>

WallClock ==
    /\ now < MaxTime
    /\ now' = now + 1
    /\ UNCHANGED <<loop, priv, pc, mstatus, delegs, irqs, tvecs, epcs, mtimecmp,
                   msip, lines>>

-----------------------------------------------------------------------------
SbiCall == LegacySetTimer \/ TimeSetTimer \/ SbiClearIpi

CsrInstr == \/ WriteMstatus \/ WriteSstatus \/ WriteDeleg \/ WriteMieMip
            \/ WriteSieSip \/ WriteTvec \/ WriteEpc

Step == \/ Interrupt \/ FetchMisaligned \/ Exception \/ Ecall
        \/ Retire \/ Mret \/ Sret \/ Wfi \/ Exit
        \/ SbiCall \/ ClintWrite \/ PlicLower \/ CsrInstr

RunLoop == Run \/ LoopTop \/ Wake \/ Step

Environment == Halt \/ DeviceRaise \/ WallClock

Next == RunLoop \/ Environment

Spec == Init /\ [][Next]_vars

(* The run loop never blocks (a WFI turn sleeps 100 us and goes on), and   *)
(* the wall clock does not stop.  Nothing is assumed of what the guest     *)
(* executes, of the devices, or of the quit key.                           *)
FairSpec == Spec /\ WF_vars(RunLoop) /\ WF_vars(WallClock)

-----------------------------------------------------------------------------
(* Properties.                                                             *)

(* Privilege level 2 does not exist: neither the current level nor the one *)
(* MRET would restore is ever 2, whatever software writes to mstatus       *)
(* (writeCSR clamps MPP; trap and MRET copy it).                           *)
NoReservedPrivilege == priv # 2 /\ mstatus.mpp # 2

(* MPRV makes loads and stores use MPP's privilege, at any current level   *)
(* (MMU::translate does not look at the level), so it must be off whenever *)
(* the hart runs below machine mode: MRET and SRET clear it on the way     *)
(* out, and sstatus does not reach it.                                     *)
MprvOnlyInMachine == mstatus.mprv => priv = M

(* The part of mstatus only machine mode may change. *)
MachineFields == <<mstatus.mie, mstatus.mpie, mstatus.mpp, mstatus.mprv,
                   mstatus.tw, mstatus.tsr>>

(* No step that begins and ends below machine mode, whatever the guest     *)
(* executes and whatever trap it takes, changes a machine-level CSR or a   *)
(* bit of mie that is not delegated; entering machine mode changes only    *)
(* the trap frame.                                                         *)
IsolatedStep ==
    /\ priv # M /\ priv' # M =>
         UNCHANGED <<MachineFields, mepc, mideleg, medeleg, mtvec>>
    /\ priv # M =>
         /\ UNCHANGED <<mideleg, medeleg, mtvec, mstatus.tw, mstatus.tsr>>
         /\ mie' \ mideleg = mie \ mideleg

MachineStateIsolated == [][IsolatedStep]_vars

(* Privilege rises only by a trap: to the entry of that level's vector,    *)
(* with the interrupted pc, privilege and interrupt enable saved in that   *)
(* level's frame and its interrupts off.                                   *)
TrapFrameOf(level) ==
    \E c \in Cause, i \in BOOLEAN :
        IF level = M
        THEN /\ pc' = Entry(mtvec, c, i) /\ mepc' = pc
             /\ mstatus'.mpp = priv
             /\ mstatus'.mpie = mstatus.mie /\ mstatus'.mie = FALSE
        ELSE /\ pc' = Entry(stvec, c, i) /\ sepc' = pc
             /\ mstatus'.spp = (priv = S)
             /\ mstatus'.spie = mstatus.sie /\ mstatus'.sie = FALSE

PrivilegeRisesOnlyByTrap ==
    [][priv' > priv => priv' \in {S, M} /\ TrapFrameOf(priv')]_vars

(* A supervisor handler interrupted by machine mode finds its own frame    *)
(* and interrupt enable as it left them: no trap to machine mode, and no   *)
(* MRET, touches sepc, SPP, SPIE or SIE.                                   *)
SupervisorFrame == <<sepc, mstatus.spp, mstatus.spie, mstatus.sie>>

SupervisorFrameSurvives ==
    [][(priv # M /\ priv' = M) \/ Mret => UNCHANGED SupervisorFrame]_vars

(* Software below machine mode cannot defer an enabled interrupt that is   *)
(* not delegated: if one is pending when CPU::step begins, that step takes *)
(* an interrupt and executes no instruction -- also when an interrupt of   *)
(* higher priority is pending but masked.                                  *)
MachineInterruptNotDeferred ==
    [][/\ phase = "step" /\ phase' = "top" /\ priv # M
       /\ \E k \in 1..6 : ScanOrder[k] \in (mip \cap mie) \ mideleg
       => Interrupt]_vars

(* The level a timer interrupt goes to. *)
TimerEnabledFor(level) ==
    IF STI \in mideleg THEN level = S /\ STI \in mie
    ELSE level = M /\ MTI \in mie /\ MTI \notin mideleg

(* The timer preempts: once mtime has reached mtimecmp and the timer       *)
(* interrupt is enabled for a higher level, code that runs below it --     *)
(* it may spin, trap or sit in WFI -- loses the hart to that level, unless *)
(* mtimecmp is moved or the machine halts.                                 *)
TimerPreempts ==
    \A level \in {S, M} :
        (priv < level /\ TimerDue /\ TimerEnabledFor(level))
            ~> (priv >= level \/ ~TimerDue \/ state = "HALTED")

(* No lost wake-up: a hart in WFI whose timer is or becomes due, or whose  *)
(* external line is raised, with that interrupt enabled in mie, leaves WFI *)
(* even if interrupts are globally masked, although the sources are only   *)
(* sampled every TickPeriod turns.                                         *)
WfiWakes ==
    (/\ state = "WAITING_FOR_INTERRUPT" /\ phase = "top"
     /\ \/ mtimecmp <= MaxTime /\ \E l \in {S, M} : TimerEnabledFor(l)
        \/ lines \cap mie # {})
        ~> state # "WAITING_FOR_INTERRUPT"

(* The quit key works: once the running machine is halted -- by Ctrl+A Q   *)
(* on the UART's thread, SIGTERM or its own exit -- it stays halted.       *)
(* state_ is a plain variable the CPU thread stores too, when it executes  *)
(* WFI and when it wakes.  (cpu.cpp:75-87, execute.cpp:854,                *)
(* uart_posix.cpp:63-68)                                                   *)
HaltSticks == [][phase # "boot" /\ state = "HALTED" => state' = "HALTED"]_vars
=============================================================================
