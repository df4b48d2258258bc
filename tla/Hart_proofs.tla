---------------------------- MODULE Hart_proofs ----------------------------
(***************************************************************************)
(* Proofs about Hart, for every value of its constants: whatever programs  *)
(* run, whatever they write to the CSRs, however the devices and the other *)
(* threads interleave with the run loop.  And about Pmp, for any number of *)
(* entries and any width: the range of a locked entry stays where it is,   *)
(* and the verdict is that of the first range that holds the address.      *)
(***************************************************************************)
EXTENDS Hart, Pmp, Arithmetic, TLAPS

USE DEF U, S, M, Levels, Cause, MSI, SSI, MTI, STI, MEI, SEI

(* The arithmetic of a trap vector: an entry is an address. *)
LEMMA EntryIsAddress ==
    ASSUME NEW t \in Tvec, NEW c \in Cause, NEW i \in BOOLEAN
    PROVE  Entry(t, c, i) \in Nat
  BY DEF Entry, Tvec

(* Both trap frames keep the types of what they touch. *)
LEMMA TrapType ==
    ASSUME TypeOK, NEW c \in Cause, NEW i \in BOOLEAN, Trap(c, i)
    PROVE  TypeOK'
  <1>1. Entry(mtvec, c, i) \in Nat /\ Entry(stvec, c, i) \in Nat
    BY EntryIsAddress DEF TypeOK
  <1>2. CASE EnterSupervisor(c, i)
    <2>1. mstatus' \in Mstatus
      BY <1>2 DEF TypeOK, EnterSupervisor, Mstatus
    <2>2. priv' \in Levels /\ pc' \in Nat /\ mepc' \in Nat /\ sepc' \in Nat
      BY <1>1, <1>2 DEF TypeOK, EnterSupervisor
    <2> QED
      BY <2>1, <2>2 DEF TypeOK, Trap, delegs, irqs, tvecs, clint
  <1>3. CASE EnterMachine(c, i)
    <2>1. mstatus' \in Mstatus
      BY <1>3 DEF TypeOK, EnterMachine, Mstatus
    <2>2. priv' \in Levels /\ pc' \in Nat /\ mepc' \in Nat /\ sepc' \in Nat
      BY <1>1, <1>3 DEF TypeOK, EnterMachine
    <2> QED
      BY <2>1, <2>2 DEF TypeOK, Trap, delegs, irqs, tvecs, clint
  <1> QED
    BY <1>2, <1>3 DEF Trap

(* What updateCycle leaves in mip is a set of causes. *)
LEMMA SampledMipType ==
    ASSUME TypeOK
    PROVE  SampledMip \in SUBSET Cause
  BY WritesAssumption DEF TypeOK, SampledMip

(* The record MRET leaves in mstatus, whether or not it keeps MPRV.        *)
LEMMA MretRecord ==
    ASSUME NEW m \in Mstatus, NEW keep \in BOOLEAN
    PROVE  [m EXCEPT !.mie = m.mpie, !.mpie = TRUE, !.mpp = U, !.mprv = keep]
              \in Mstatus
  <1>1. m.mpie \in BOOLEAN /\ U \in Levels
    BY DEF Mstatus
  <1> QED
    BY <1>1, Zenon DEF Mstatus

(* Every step of the hart, of the other threads and of time keeps types.   *)
LEMMA TypeStep ==
    ASSUME TypeOK, [Next]_vars
    PROVE  TypeOK'
  <1> USE CodeAssumption, TickAssumption, WritesAssumption
  <1>1. CASE Run
    BY <1>1 DEF TypeOK, Run, CPUState, delegs, irqs, tvecs, epcs, clint
  <1>2. CASE LoopTop
    <2>1. insn_counter' \in 0..(TickPeriod - 1)
      BY <1>2 DEF TypeOK, LoopTop
    <2>2. mip' \in SUBSET Cause
      BY <1>2, SampledMipType DEF TypeOK, LoopTop
    <2>3. phase' \in {"boot", "top", "wake", "step"}
      BY <1>2 DEF LoopTop
    <2> QED
      BY <1>2, <2>1, <2>2, <2>3 DEF TypeOK, LoopTop, delegs, tvecs, epcs, clint
  <1>3. CASE Wake
    BY <1>3 DEF TypeOK, Wake, CPUState, delegs, irqs, tvecs, epcs, clint
  <1>4. CASE Interrupt
    BY <1>4, TrapType DEF Interrupt
  <1>5. CASE FetchMisaligned \/ Exception \/ Ecall
    <2>1. EcallCause \in Cause
      BY DEF EcallCause
    <2>2. CASE FetchMisaligned
      <3>1. Trap(0, FALSE)
        BY <2>2 DEF FetchMisaligned
      <3>2. 0 \in Cause
        OBVIOUS
      <3> QED
        BY <3>1, <3>2, TrapType, Zenon
    <2>3. CASE Exception
      BY <2>3, TrapType DEF Exception
    <2>4. CASE Ecall
      <3>1. Trap(EcallCause, FALSE)
        BY <2>4 DEF Ecall
      <3> QED
        BY <3>1, <2>1, TrapType
    <2> QED
      BY <1>5, <2>2, <2>3, <2>4
  <1>6. CASE Retire
    BY <1>6 DEF TypeOK, Retire, Completes, delegs, irqs, tvecs, epcs, clint
  <1>7. CASE Mret
    <2>a. mstatus.mpp \in Levels
      BY DEF TypeOK, Mstatus
    <2>b. mstatus.mprv /\ mstatus.mpp = M => mstatus' \in Mstatus
      <3> HAVE mstatus.mprv /\ mstatus.mpp = M
      <3>1. mstatus' = [mstatus EXCEPT !.mie = mstatus.mpie, !.mpie = TRUE,
                                       !.mpp = U, !.mprv = TRUE]
        BY <1>7 DEF Mret
      <3> QED
        BY <3>1, MretRecord DEF TypeOK
    <2>c. ~(mstatus.mprv /\ mstatus.mpp = M) => mstatus' \in Mstatus
      <3> HAVE ~(mstatus.mprv /\ mstatus.mpp = M)
      <3>1. mstatus' = [mstatus EXCEPT !.mie = mstatus.mpie, !.mpie = TRUE,
                                       !.mpp = U, !.mprv = FALSE]
        BY <1>7 DEF Mret
      <3> QED
        BY <3>1, MretRecord DEF TypeOK
    <2>1. mstatus' \in Mstatus /\ priv' \in Levels
      BY <1>7, <2>a, <2>b, <2>c DEF Mret
    <2> QED
      BY <1>7, <2>1 DEF TypeOK, Mret, delegs, irqs, tvecs, epcs, clint
  <1>8. CASE Sret
    <2>a. mstatus' \in Mstatus
      BY <1>8 DEF TypeOK, Sret, Mstatus
    <2>b. priv' \in {S, U}
      BY <1>8 DEF Sret
    <2>1. mstatus' \in Mstatus /\ priv' \in Levels
      BY <2>a, <2>b
    <2> QED
      BY <1>8, <2>1 DEF TypeOK, Sret, delegs, irqs, tvecs, epcs, clint
  <1>9. CASE Wfi \/ Exit
    BY <1>9 DEF TypeOK, Wfi, Exit, Completes, CPUState, delegs, irqs, tvecs,
                epcs, clint
  <1>10. CASE SbiCall
    BY <1>10 DEF TypeOK, SbiCall, LegacySetTimer, TimeSetTimer, SbiSetTimer,
                 SbiClearIpi, Completes, delegs, irqs, tvecs, epcs, clint
  <1>11. CASE ClintWrite
    BY <1>11 DEF TypeOK, ClintWrite, Completes, delegs, irqs, tvecs, epcs
  <1>12. CASE PlicLower
    BY <1>12 DEF TypeOK, PlicLower, Completes, delegs, irqs, tvecs, epcs, clint
  <1>13. CASE WriteMstatus
    <2>1. mstatus' \in Mstatus
      BY <1>13 DEF TypeOK, WriteMstatus, WrittenMstatus, Mstatus
    <2> QED
      BY <1>13, <2>1 DEF TypeOK, WriteMstatus, CsrWrite, Completes, delegs, irqs,
                         tvecs, epcs, clint
  <1>14. CASE WriteSstatus
    <2>1. mstatus' \in Mstatus
      <3>1. PICK v \in MstatusWrites : mstatus' = WrittenSstatus(v)
        BY <1>14 DEF WriteSstatus
      <3>2. v \in Mstatus /\ mstatus \in Mstatus
        BY WritesAssumption DEF TypeOK
      <3> QED
        BY ONLY <3>1, <3>2 DEF WrittenSstatus, Mstatus
    <2> QED
      BY <1>14, <2>1 DEF TypeOK, WriteSstatus, CsrWrite, Completes, delegs, irqs,
                         tvecs, epcs, clint
  <1>15. CASE WriteDeleg
    BY <1>15 DEF TypeOK, WriteDeleg, CsrWrite, Completes, irqs, tvecs, epcs,
                 clint
  <1>16. CASE WriteMieMip
    BY <1>16 DEF TypeOK, WriteMieMip, CsrWrite, Completes, delegs, tvecs, epcs,
                 clint
  <1>17. CASE WriteSieSip
    <2>1. mie' \in SUBSET Cause /\ mip' \in SUBSET Cause
      BY <1>17 DEF TypeOK, WriteSieSip, Masked
    <2> QED
      BY <1>17, <2>1 DEF TypeOK, WriteSieSip, CsrWrite, Completes, delegs, tvecs,
                         epcs, clint
  <1>18. CASE WriteTvec
    <2>1. /\ mtvec' \in Tvec /\ mtvec'.mode \in {0, 1}
          /\ stvec' \in Tvec
      BY <1>18 DEF TypeOK, WriteTvec, WrittenMtvec, Tvec
    <2> QED
      BY <1>18, <2>1 DEF TypeOK, WriteTvec, CsrWrite, Completes, delegs, irqs,
                         epcs, clint
  <1>19. CASE WriteEpc
    <2>1. \A v \in Nat : v - (v % 2) \in Nat
      OBVIOUS
    <2>2. mepc' \in Nat /\ sepc' \in Nat
      BY <1>19, <2>1 DEF TypeOK, WriteEpc
    <2> QED
      BY <1>19, <2>2 DEF TypeOK, WriteEpc, CsrWrite, Completes, delegs, irqs,
                         tvecs, clint
  <1>20. CASE Halt
    BY <1>20 DEF TypeOK, Halt, CPUState, delegs, irqs, tvecs, epcs, clint
  <1>21. CASE DeviceRaise
    BY <1>21 DEF TypeOK, DeviceRaise, loop, delegs, irqs, tvecs, epcs, clint
  <1>22. CASE WallClock
    BY <1>22, TimeAssumption
       DEF TypeOK, WallClock, loop, delegs, irqs, tvecs, epcs
  <1>23. CASE UNCHANGED vars
    BY <1>23 DEF TypeOK, vars, loop, delegs, irqs, tvecs, epcs, clint
  <1> QED
    BY <1>1, <1>2, <1>3, <1>4, <1>5, <1>6, <1>7, <1>8, <1>9, <1>10, <1>11,
       <1>12, <1>13, <1>14, <1>15, <1>16, <1>17, <1>18, <1>19, <1>20, <1>21,
       <1>22, <1>23
       DEF Next, RunLoop, Environment, Step, CsrInstr

(* The CSRs are in shape at reset (CPU's constructor).                     *)
LEMMA InitType == Init => TypeOK
  <1> SUFFICES ASSUME Init PROVE TypeOK
    OBVIOUS
  <1>1. mstatus \in Mstatus
    BY DEF Init, Mstatus
  <1>2. mtvec \in Tvec /\ mtvec.mode \in {0, 1} /\ stvec \in Tvec
    BY DEF Init, Tvec
  <1>3. now \in 0..MaxTime /\ mtimecmp \in 0..(MaxTime + 1)
    BY TimeAssumption DEF Init
  <1>4. insn_counter \in 0..(TickPeriod - 1)
    BY TickAssumption DEF Init
  <1>5. pc \in Nat /\ priv \in Levels
    BY CodeAssumption DEF Init
  <1> QED
    BY <1>1, <1>2, <1>3, <1>4, <1>5 DEF Init, TypeOK, CPUState

(* The hart starts, and stays, in states of the declared shape. *)
THEOREM TypeCorrect == Spec => []TypeOK
  <1>1. Init => TypeOK
    BY InitType
  <1> QED
    BY <1>1, TypeStep, PTL DEF Spec

-----------------------------------------------------------------------------
(* The inductive strengthening is the conjunction itself: MprvOnlyInMachine *)
(* needs the MPP that MRET is about to install to be a real level, and      *)
(* NoReservedPrivilege needs priv, which trap copies into MPP, to be one.   *)
PrivilegeInv == TypeOK /\ NoReservedPrivilege /\ MprvOnlyInMachine

(* Steps that leave the privilege level and all of mstatus alone.          *)
QuietStep ==
    \/ Run \/ LoopTop \/ Wake \/ Retire \/ Wfi \/ Exit \/ SbiCall \/ ClintWrite
    \/ PlicLower \/ WriteDeleg \/ WriteMieMip \/ WriteSieSip \/ WriteTvec
    \/ WriteEpc \/ Halt \/ DeviceRaise \/ WallClock \/ UNCHANGED vars

(* None of these steps assigns the privilege level or mstatus.             *)
LEMMA QuietStepIsQuiet ==
    ASSUME QuietStep
    PROVE  UNCHANGED <<priv, mstatus>>
  BY DEF QuietStep, Run, LoopTop, Wake, Retire, Wfi, Exit, SbiCall,
         LegacySetTimer, TimeSetTimer, SbiSetTimer, SbiClearIpi, ClintWrite,
         PlicLower, WriteDeleg, WriteMieMip, WriteSieSip, WriteTvec, WriteEpc,
         Halt, DeviceRaise, WallClock, vars

(* The steps that do change them. *)
LEMMA NextCases ==
    ASSUME [Next]_vars
    PROVE  \/ QuietStep
           \/ \E c \in Cause, i \in BOOLEAN : Trap(c, i)
           \/ Mret \/ Sret \/ WriteMstatus \/ WriteSstatus
  <1>1. CASE Interrupt
    BY <1>1 DEF Interrupt
  <1>2. CASE FetchMisaligned
    <2>1. 0 \in Cause /\ FALSE \in BOOLEAN
      OBVIOUS
    <2>2. Trap(0, FALSE)
      BY <1>2 DEF FetchMisaligned
    <2> QED
      BY <2>1, <2>2, Zenon
  <1>3. CASE Exception
    BY <1>3, WritesAssumption DEF Exception
  <1>4. CASE Ecall
    <2>1. EcallCause \in Cause
      BY DEF EcallCause
    <2> QED
      BY <1>4, <2>1 DEF Ecall
  <1> QED
    BY <1>1, <1>2, <1>3, <1>4
       DEF Next, RunLoop, Environment, Step, CsrInstr, QuietStep

(* Traps, xRET and CSR writes keep the level one the hart has, and MPRV    *)
(* off below machine mode (trap, execMRET, execSRET, writeCSR).            *)
LEMMA PrivilegeStep ==
    ASSUME PrivilegeInv, [Next]_vars
    PROVE  NoReservedPrivilege' /\ MprvOnlyInMachine'
  <1> USE DEF PrivilegeInv, NoReservedPrivilege, MprvOnlyInMachine
  <1>1. CASE QuietStep
    BY <1>1, QuietStepIsQuiet
  <1>2. ASSUME NEW c \in Cause, NEW i \in BOOLEAN, Trap(c, i)
        PROVE  NoReservedPrivilege' /\ MprvOnlyInMachine'
    <2>1. CASE EnterSupervisor(c, i)
      <3>1. priv # M
        BY <1>2, <2>1 DEF Trap, TargetLevel, EnterMachine, EnterSupervisor
      <3>2. mstatus'.mpp = mstatus.mpp /\ mstatus'.mprv = mstatus.mprv
        BY <2>1 DEF EnterSupervisor, TypeOK, Mstatus
      <3> QED
        BY <2>1, <3>1, <3>2 DEF EnterSupervisor
    <2>2. CASE EnterMachine(c, i)
      <3>1. mstatus'.mpp = priv
        BY <2>2 DEF EnterMachine, TypeOK, Mstatus
      <3> QED
        BY <2>2, <3>1 DEF EnterMachine
    <2> QED
      BY <1>2, <2>1, <2>2 DEF Trap
  <1>3. CASE Mret
    <2>1. mstatus'.mpp = U /\ (mstatus'.mprv => mstatus.mpp = M)
      BY <1>3 DEF Mret, TypeOK, Mstatus
    <2> QED
      BY <1>3, <2>1 DEF Mret
  <1>4. CASE Sret
    <2>1. mstatus'.mpp = mstatus.mpp /\ mstatus'.mprv = FALSE
      BY <1>4 DEF Sret, TypeOK, Mstatus
    <2>2. priv' # 2
      BY <1>4 DEF Sret
    <2> QED
      BY <2>1, <2>2
  <1>5. CASE WriteMstatus
    <2>1. mstatus'.mpp # 2
      BY <1>5, WritesAssumption DEF WriteMstatus, WrittenMstatus, Mstatus
    <2>2. priv' = priv /\ priv = M
      BY <1>5 DEF WriteMstatus, CsrWrite, TypeOK
    <2> QED
      BY <2>1, <2>2
  <1>6. CASE WriteSstatus
    <2>1. mstatus'.mpp = mstatus.mpp /\ mstatus'.mprv = mstatus.mprv
      BY <1>6 DEF WriteSstatus, WrittenSstatus, TypeOK, Mstatus
    <2>2. priv' = priv
      BY <1>6 DEF WriteSstatus
    <2> QED
      BY <2>1, <2>2
  <1> QED
    BY <1>1, <1>2, <1>3, <1>4, <1>5, <1>6, NextCases

(* The two together hold from reset on.                                    *)
LEMMA PrivilegeInvariant == Spec => []PrivilegeInv
  <1>1. Init => PrivilegeInv
    <2>1. Init => NoReservedPrivilege /\ MprvOnlyInMachine
      BY DEF Init, NoReservedPrivilege, MprvOnlyInMachine
    <2>2. Init => TypeOK
      BY InitType
    <2> QED
      BY <2>1, <2>2 DEF PrivilegeInv
  <1>2. PrivilegeInv /\ [Next]_vars => PrivilegeInv'
    BY PrivilegeStep, TypeStep DEF PrivilegeInv
  <1> QED
    BY <1>1, <1>2, PTL DEF Spec

(* No sequence of CSR writes, traps and returns ever puts the hart, or the *)
(* level MRET will install, at the reserved level 2.                       *)
THEOREM PrivilegeIsLegal == Spec => []NoReservedPrivilege
  BY PrivilegeInvariant, PTL DEF PrivilegeInv

(* Below machine mode MPRV is always off, so a load or store there is      *)
(* translated at the current privilege.                                    *)
THEOREM MprvConfined == Spec => []MprvOnlyInMachine
  BY PrivilegeInvariant, PTL DEF PrivilegeInv

-----------------------------------------------------------------------------
(* A trap below machine mode leaves the configuration alone, and a trap    *)
(* that stays below it the machine frame as well.                          *)
LEMMA TrapIsolates ==
    ASSUME PrivilegeInv, NEW c \in Cause, NEW i \in BOOLEAN, Trap(c, i)
    PROVE  IsolatedStep
  <1> USE DEF PrivilegeInv, TypeOK
  <1>1. UNCHANGED <<mideleg, medeleg, mtvec, mie>>
    BY DEF Trap, delegs, tvecs, irqs
  <1>2. CASE EnterSupervisor(c, i)
    <2>1. UNCHANGED <<MachineFields, mepc>>
      BY <1>2 DEF EnterSupervisor, MachineFields, Mstatus
    <2> QED
      BY <1>1, <2>1 DEF IsolatedStep, MachineFields
  <1>3. CASE EnterMachine(c, i)
    <2>1. priv' = M /\ UNCHANGED <<mstatus.tw, mstatus.tsr>>
      BY <1>3 DEF EnterMachine, Mstatus
    <2> QED
      BY <1>1, <2>1 DEF IsolatedStep
  <1> QED
    BY <1>2, <1>3 DEF Trap

(* A step that leaves the level alone leaves the machine's CSRs to machine *)
(* mode.                                                                   *)
LEMMA QuietStepIsolates ==
    ASSUME PrivilegeInv, QuietStep
    PROVE  IsolatedStep
  <1> SUFFICES ASSUME priv # M
               PROVE  /\ UNCHANGED <<mepc, mideleg, medeleg, mtvec>>
                      /\ mie' \ mideleg = mie \ mideleg
    BY QuietStepIsQuiet DEF IsolatedStep, MachineFields
  <1>1. priv \in {U, S}
    BY DEF PrivilegeInv, TypeOK, NoReservedPrivilege
  <1>2. ~ (WriteDeleg \/ WriteMieMip)
    BY <1>1 DEF WriteDeleg, WriteMieMip, CsrWrite
  <1>3. CASE WriteTvec
    BY <1>1, <1>3 DEF WriteTvec, CsrWrite, epcs, delegs, irqs
  <1>4. CASE WriteEpc
    BY <1>1, <1>4 DEF WriteEpc, CsrWrite, tvecs, delegs, irqs
  <1>5. CASE WriteSieSip
    <2>1. mie' \ mideleg = mie \ mideleg
      BY <1>5 DEF WriteSieSip, Masked
    <2> QED
      BY <1>5, <2>1 DEF WriteSieSip, tvecs, delegs, epcs
  <1> QED
    BY <1>2, <1>3, <1>4, <1>5
       DEF QuietStep, Run, LoopTop, Wake, Retire, Wfi, Exit, SbiCall,
           LegacySetTimer, TimeSetTimer, SbiSetTimer, SbiClearIpi, ClintWrite,
           PlicLower, Halt, DeviceRaise, WallClock, vars, tvecs, delegs, epcs,
           irqs

(* So does every other step, at the level it is taken from.                *)
LEMMA IsolationStep ==
    ASSUME PrivilegeInv, [Next]_vars
    PROVE  IsolatedStep
  <1>1. CASE Mret \/ WriteMstatus
    <2>1. priv = M
      BY <1>1 DEF Mret, WriteMstatus, CsrWrite, PrivilegeInv, TypeOK
    <2> QED
      BY <2>1 DEF IsolatedStep
  <1>2. CASE Sret
    <2>1. priv # M => mstatus.mprv = FALSE
      BY DEF PrivilegeInv, MprvOnlyInMachine, TypeOK, Mstatus
    <2>2. priv # M => UNCHANGED MachineFields
      BY <1>2, <2>1 DEF Sret, MachineFields, PrivilegeInv, TypeOK, Mstatus
    <2> QED
      BY <1>2, <2>2 DEF Sret, IsolatedStep, MachineFields, delegs, irqs, tvecs,
                        epcs
  <1>3. CASE WriteSstatus
    <2>1. UNCHANGED MachineFields
      BY <1>3 DEF WriteSstatus, WrittenSstatus, MachineFields, PrivilegeInv,
                  TypeOK, Mstatus
    <2> QED
      BY <1>3, <2>1 DEF WriteSstatus, IsolatedStep, MachineFields, delegs, irqs,
                        tvecs, epcs
  <1> QED
    BY <1>1, <1>2, <1>3, TrapIsolates, QuietStepIsolates, NextCases

(* Supervisor and user software cannot touch machine-level state, whatever *)
(* it writes and whatever traps it takes.                                  *)
THEOREM MachineIsolation == Spec => MachineStateIsolated
  <1>1. PrivilegeInv /\ [Next]_vars => [IsolatedStep]_vars
    BY IsolationStep
  <1> QED
    BY <1>1, PrivilegeInvariant, PTL DEF Spec, MachineStateIsolated

-----------------------------------------------------------------------------
(* trap fills in the frame of the level it enters, and of that level only. *)
LEMMA TrapBuildsFrame ==
    ASSUME PrivilegeInv, NEW c \in Cause, NEW i \in BOOLEAN, Trap(c, i)
    PROVE  /\ priv' \in {S, M}
           /\ TrapFrameOf(priv')
           /\ priv' = M => UNCHANGED SupervisorFrame
  <1> USE DEF PrivilegeInv, TypeOK
  <1>1. CASE EnterSupervisor(c, i)
    <2>1. /\ mstatus'.spp = (priv = S)
          /\ mstatus'.spie = mstatus.sie /\ mstatus'.sie = FALSE
      BY <1>1 DEF EnterSupervisor, Mstatus
    <2> QED
      BY <1>1, <2>1 DEF EnterSupervisor, TrapFrameOf
  <1>2. CASE EnterMachine(c, i)
    <2>1. /\ mstatus'.mpp = priv
          /\ mstatus'.mpie = mstatus.mie /\ mstatus'.mie = FALSE
          /\ UNCHANGED <<mstatus.spp, mstatus.spie, mstatus.sie>>
      BY <1>2 DEF EnterMachine, Mstatus
    <2> QED
      BY <1>2, <2>1 DEF EnterMachine, TrapFrameOf, SupervisorFrame
  <1> QED
    BY <1>1, <1>2 DEF Trap

(* Without a trap no step raises the level.                                *)
LEMMA OnlyTrapsRaise ==
    ASSUME PrivilegeInv, [Next]_vars,
           \A c \in Cause, i \in BOOLEAN : ~Trap(c, i)
    PROVE  priv' <= priv
  <1> USE DEF PrivilegeInv, TypeOK
  <1>1. CASE QuietStep \/ WriteMstatus \/ WriteSstatus
    BY <1>1, QuietStepIsQuiet DEF WriteMstatus, WriteSstatus
  <1>2. CASE Mret
    BY <1>2 DEF Mret, Mstatus
  <1>3. CASE Sret
    BY <1>3 DEF Sret
  <1> QED
    BY <1>1, <1>2, <1>3, NextCases

(* Nothing but a trap raises the privilege level, and the trap leaves a    *)
(* complete frame of what it interrupted.                                  *)
THEOREM PrivilegeRises == Spec => PrivilegeRisesOnlyByTrap
  <1>1. ASSUME PrivilegeInv, [Next]_vars, priv' > priv
        PROVE  priv' \in {S, M} /\ TrapFrameOf(priv')
    <2>1. ~ priv' <= priv
      BY <1>1, TypeStep DEF PrivilegeInv, TypeOK
    <2>2. PICK c \in Cause, i \in BOOLEAN : Trap(c, i)
      BY <1>1, <2>1, OnlyTrapsRaise
    <2> QED
      BY <1>1, <2>2, TrapBuildsFrame
  <1>2. PrivilegeInv /\ [Next]_vars
          => [priv' > priv => priv' \in {S, M} /\ TrapFrameOf(priv')]_vars
    BY <1>1
  <1> QED
    BY <1>2, PrivilegeInvariant, PTL DEF Spec, PrivilegeRisesOnlyByTrap

(* Machine-mode traps and returns preserve the supervisor's trap frame.    *)
THEOREM SupervisorFrameIsSafe == Spec => SupervisorFrameSurvives
  <1>1. ASSUME PrivilegeInv, [Next]_vars, priv # M, priv' = M
        PROVE  UNCHANGED SupervisorFrame
    <2>1. ~ priv' <= priv
      BY <1>1 DEF PrivilegeInv, TypeOK
    <2>2. PICK c \in Cause, i \in BOOLEAN : Trap(c, i)
      BY <1>1, <2>1, OnlyTrapsRaise
    <2> QED
      BY <1>1, <2>2, TrapBuildsFrame
  <1>2. ASSUME PrivilegeInv, Mret
        PROVE  UNCHANGED SupervisorFrame
    BY <1>2 DEF Mret, SupervisorFrame, PrivilegeInv, TypeOK, Mstatus, epcs
  <1>3. PrivilegeInv /\ [Next]_vars
          => [(priv # M /\ priv' = M) \/ Mret => UNCHANGED SupervisorFrame]_vars
    BY <1>1, <1>2
  <1> QED
    BY <1>3, PrivilegeInvariant, PTL DEF Spec, SupervisorFrameSurvives


(* An interrupt machine mode keeps for itself can be taken below it.       *)
LEMMA UndelegatedIsTakeable ==
    ASSUME TypeOK, priv # M, NEW id \in (mip \cap mie) \ mideleg
    PROVE  Takeable(id)
  BY DEF TypeOK, Takeable

(* Some interrupt is the first of the scan that can be taken, if any can.  *)
LEMMA ScanFindsOne ==
    ASSUME TypeOK, NEW k \in 1..6, Takeable(ScanOrder[k])
    PROVE  \E id \in Cause : FirstTakeable(id)
  <1> DEFINE T == {j \in 1..6 : Takeable(ScanOrder[j])}
  <1>1. \E j \in T : \A i \in T : j <= i
    <2>1. T \subseteq {1, 2, 3, 4, 5, 6} /\ k \in T
      OBVIOUS
    <2> HIDE DEF T
    <2>2. CASE 1 \in T
      BY <2>1, <2>2
    <2>3. CASE 1 \notin T /\ 2 \in T
      BY <2>1, <2>3
    <2>4. CASE 1 \notin T /\ 2 \notin T /\ 3 \in T
      BY <2>1, <2>4
    <2>5. CASE 1 \notin T /\ 2 \notin T /\ 3 \notin T /\ 4 \in T
      BY <2>1, <2>5
    <2>6. CASE 1 \notin T /\ 2 \notin T /\ 3 \notin T /\ 4 \notin T /\ 5 \in T
      BY <2>1, <2>6
    <2>7. CASE 1 \notin T /\ 2 \notin T /\ 3 \notin T /\ 4 \notin T /\ 5 \notin T
      <3>1. T \subseteq {6}
        BY <2>1, <2>7
      <3>2. T = {6}
        BY <2>1, <3>1
      <3> QED
        BY <3>2
    <2> QED
      BY <2>2, <2>3, <2>4, <2>5, <2>6, <2>7
  <1>2. PICK j \in T : \A i \in T : j <= i
    BY <1>1
  <1>3. ScanOrder[j] \in Cause
    BY DEF TypeOK, Takeable
  <1>4. \A i \in 1..(j - 1) : ~Takeable(ScanOrder[i])
    BY <1>2
  <1> QED
    BY <1>3, <1>4 DEF FirstTakeable

(* Only CPU::step goes from there to the head of the loop, and it looks    *)
(* for an interrupt before it fetches.                                     *)
LEMMA StepsAreInterruptsOrFetches ==
    ASSUME Next, phase = "step", phase' = "top"
    PROVE  Interrupt \/ AtFetch
  BY DEF Next, RunLoop, Environment, Step, Run, LoopTop, Wake, FetchMisaligned, Exception,
         Ecall, Retire, Mret, Sret, Wfi, Exit, SbiCall, LegacySetTimer, TimeSetTimer,
         SbiSetTimer, SbiClearIpi, ClintWrite, PlicLower, CsrInstr, WriteMstatus,
         WriteSstatus, WriteDeleg, WriteMieMip, WriteSieSip, WriteTvec, WriteEpc,
         CsrWrite, Completes, Executing, Halt, DeviceRaise, WallClock, loop

(* Software below machine mode cannot put off an interrupt of machine      *)
(* mode's: the step that could takes an interrupt instead.                 *)
THEOREM MachineInterruptIsTaken == Spec => MachineInterruptNotDeferred
  <1>1. ASSUME TypeOK, [Next]_vars
        PROVE  [/\ phase = "step" /\ phase' = "top" /\ priv # M
                /\ \E k \in 1..6 : ScanOrder[k] \in (mip \cap mie) \ mideleg
                => Interrupt]_vars
    <2> SUFFICES ASSUME Next, phase = "step", phase' = "top", priv # M,
                        NEW k \in 1..6, ScanOrder[k] \in (mip \cap mie) \ mideleg
                 PROVE  Interrupt
      BY <1>1
    <2>1. Takeable(ScanOrder[k])
      BY <1>1, UndelegatedIsTakeable
    <2>2. ~AtFetch
      BY <1>1, <2>1, ScanFindsOne DEF AtFetch
    <2> QED
      BY <2>2, StepsAreInterruptsOrFetches
  <1> QED
    BY <1>1, TypeCorrect, PTL DEF Spec, MachineInterruptNotDeferred

-----------------------------------------------------------------------------
(* What the sample of updateCycle is good for.                             *)

\* CPU::step, when it comes to it, will take an interrupt.
InterruptDue == \E id \in Cause : FirstTakeable(id)

\* The turn is past its head, and CPU::step is to come.
InStep == phase \in {"wake", "step"}

\* A turn that samples the sources sees a timer that is due and enabled for a
\* level above the hart's, asleep or not: the turn goes on to CPU::step with
\* an interrupt it can take.
SampleSeesTimer ==
    [][/\ LoopTop /\ insn_counter' = 0 /\ TimerDue
       /\ \E level \in {S, M} : priv < level /\ TimerEnabledFor(level)
       => phase' # "top" /\ InterruptDue']_vars

\* ... and neither the wake-up store nor another thread takes it away before
\* CPU::step takes it.
DueIsTaken ==
    [][InStep /\ InterruptDue => Interrupt \/ (InStep /\ InterruptDue)']_vars

\* A turn that samples them ends the sleep of a hart whose timer or whose
\* external line is up and enabled, whatever mstatus masks.
SampleWakes ==
    [][/\ LoopTop /\ insn_counter' = 0 /\ state = "WAITING_FOR_INTERRUPT"
       /\ \/ TimerDue /\ \E level \in {S, M} : TimerEnabledFor(level)
          \/ lines \cap mie # {}
       => phase' = "wake"]_vars

(* The forwarding of MTIP to STIP picks the bit the level looks at.        *)
LEMMA SampleHasTimer ==
    ASSUME TimerDue, NEW level \in {S, M}, TimerEnabledFor(level)
    PROVE  \E k \in {3, 6} : /\ ScanOrder[k] \in SampledMip \cap mie
                             /\ priv < level => ScanOrder[k] \notin mideleg \/ priv < S
  <1>1. CASE STI \in mideleg
    BY <1>1 DEF TimerEnabledFor, SampledMip, ScanOrder
  <1>2. CASE STI \notin mideleg
    BY <1>2 DEF TimerEnabledFor, SampledMip, ScanOrder
  <1> QED
    BY <1>1, <1>2

(* The timer preempts at the latest TickPeriod turns after it is due: the  *)
(* safety half of TimerPreempts (updateCycle, checkInterrupts).            *)
THEOREM TimerIsSeen == Spec => SampleSeesTimer
  <1> DEFINE A == /\ LoopTop /\ insn_counter' = 0 /\ TimerDue
                  /\ \E level \in {S, M} : priv < level /\ TimerEnabledFor(level)
                  => phase' # "top" /\ InterruptDue'
  <1>1. TypeOK /\ (\E k \in 1..6 : Takeable(ScanOrder[k])) => InterruptDue
    BY ScanFindsOne DEF InterruptDue
  <1>2. (TypeOK /\ (\E k \in 1..6 : Takeable(ScanOrder[k])) => InterruptDue)'
    BY <1>1, PTL
  <1>3. ASSUME TypeOK, TypeOK' PROVE A
    <2> SUFFICES ASSUME LoopTop, insn_counter' = 0, TimerDue, NEW level \in {S, M},
                        priv < level, TimerEnabledFor(level)
                 PROVE  phase' # "top" /\ InterruptDue'
      OBVIOUS
    <2>1. PICK k \in {3, 6} : /\ ScanOrder[k] \in SampledMip \cap mie
                              /\ ScanOrder[k] \notin mideleg \/ priv < S
      BY SampleHasTimer
    <2>2. mip' = SampledMip /\ UNCHANGED <<mie, mideleg, priv, mstatus>>
      BY DEF LoopTop, delegs
    <2>3. phase' # "top"
      BY <2>1, <2>2 DEF LoopTop
    <2>4. ScanOrder[k]' = ScanOrder[k]
      BY DEF ScanOrder
    <2>5. priv \in Levels /\ priv < M
      BY <1>3 DEF TypeOK
    <2>6. Takeable(ScanOrder[k])'
      BY <2>1, <2>2, <2>4, <2>5 DEF Takeable
    <2> QED
      BY <1>2, <1>3, <2>3, <2>6
  <1> HIDE DEF A
  <1>4. TypeOK /\ TypeOK' => [A]_vars
    BY <1>3
  <1>5. Spec => [][A]_vars
    BY <1>4, TypeCorrect, PTL DEF Spec
  <1> QED
    BY <1>5 DEF SampleSeesTimer, A

(* Once one is seen, an instruction is executed only after it is taken.    *)
THEOREM SeenIsTaken == Spec => DueIsTaken
  <1> DEFINE A == InStep /\ InterruptDue => Interrupt \/ (InStep /\ InterruptDue)'
  <1>1. ASSUME [Next]_vars PROVE A
    <2> SUFFICES ASSUME InStep, InterruptDue, ~Interrupt PROVE (InStep /\ InterruptDue)'
      OBVIOUS
    <2>1. ~AtFetch
      BY DEF AtFetch, InterruptDue
    <2>2. Wake \/ Environment \/ UNCHANGED vars
      BY <1>1, <2>1
         DEF InStep, Next, RunLoop, Step, Run, LoopTop, FetchMisaligned, Exception, Ecall,
             Retire, Mret, Sret, Wfi, Exit, SbiCall, LegacySetTimer, TimeSetTimer,
             SbiSetTimer, SbiClearIpi, ClintWrite, PlicLower, CsrInstr, WriteMstatus,
             WriteSstatus, WriteDeleg, WriteMieMip, WriteSieSip, WriteTvec, WriteEpc,
             CsrWrite, Completes, Executing
    <2>3. InStep' /\ UNCHANGED <<mip, mie, mideleg, priv, mstatus>>
      BY <2>2 DEF InStep, Wake, Environment, Halt, DeviceRaise, WallClock, vars, loop, irqs,
                  delegs
    <2>4. \A id : FirstTakeable(id)' = FirstTakeable(id)
      BY <2>3 DEF FirstTakeable, Takeable, ScanOrder
    <2> QED
      BY <2>3, <2>4 DEF InterruptDue
  <1> HIDE DEF A
  <1>2. Spec => [][A]_vars
    BY <1>1, PTL DEF Spec
  <1> QED
    BY <1>2 DEF DueIsTaken, A

(* No lost wake-up: the turn that samples a reason to wake wakes the hart, *)
(* the safety half of WfiWakes (cpu.cpp:60-80).                            *)
THEOREM SamplesWake == Spec => SampleWakes
  <1>1. ASSUME LoopTop, insn_counter' = 0, state = "WAITING_FOR_INTERRUPT",
               \/ TimerDue /\ \E level \in {S, M} : TimerEnabledFor(level)
               \/ lines \cap mie # {}
        PROVE  phase' = "wake"
    <2>1. mip' = SampledMip
      BY <1>1 DEF LoopTop
    <2>2. SampledMip \cap mie # {}
      <3>1. CASE lines \cap mie # {}
        BY <3>1 DEF SampledMip
      <3> QED
        BY <1>1, <3>1, SampleHasTimer
    <2> QED
      BY <1>1, <2>1, <2>2 DEF LoopTop
  <1> QED
    BY <1>1, PTL DEF Spec, SampleWakes

-----------------------------------------------------------------------------
(* The registers of physical memory protection.                            *)

\* The registers hold what the guest wrote, or what they held at power-on.
WrittenAddrs == AddrValues \cup {0}

PmpTyped ==
    /\ pmpcfg \in [Entries -> Configs \cup {Off}]
    /\ pmpaddr \in [Entries -> WrittenAddrs]

(* Writes keep to what the guest writes (write_pmpcfg, write_pmpaddr).     *)
LEMMA PmpStep == ASSUME PmpTyped, [PmpNext]_pmpVars PROVE PmpTyped'
  <1>1. ASSUME NEW r, write_pmpcfg(r) PROVE PmpTyped'
    <2>1. PICK new \in [RegEntries(r) -> Configs] :
             pmpcfg' = [i \in Entries |-> IF i \in RegEntries(r) THEN new[i] ELSE pmpcfg[i]]
      BY <1>1 DEF write_pmpcfg
    <2>2. pmpaddr' = pmpaddr
      BY <1>1 DEF write_pmpcfg
    <2> QED
      BY <2>1, <2>2 DEF PmpTyped
  <1>2. ASSUME NEW i \in Entries, write_pmpaddr(i) PROVE PmpTyped'
    BY <1>2 DEF write_pmpaddr, PmpTyped, WrittenAddrs
  <1>3. CASE UNCHANGED pmpVars
    BY <1>3 DEF pmpVars, PmpTyped
  <1> QED
    BY <1>1, <1>2, <1>3 DEF PmpNext

(* ... and so the registers hold it always.                                *)
LEMMA PmpInvariant == PmpSpec => []PmpTyped
  <1>1. PmpInit => PmpTyped
    BY DEF PmpInit, PmpTyped, WrittenAddrs
  <1> QED
    BY <1>1, PmpStep, PTL DEF PmpSpec

-----------------------------------------------------------------------------
(* The address registers an entry's range depends on are its own and, for  *)
(* a TOR entry, the one before it; a lock on the entry covers both, so no  *)
(* write of an address register moves a locked range.                      *)
THEOREM LockedRangesIgnoreAddresses == PmpSpec => AddressWritesKeepRanges
  <1> DEFINE A == \A j \in Entries : write_pmpaddr(j) =>
                      \A i \in Entries : pmpcfg[i].lock => Covers(i)' = Covers(i)
  <1>1. ASSUME PmpTyped PROVE A
    <2> SUFFICES ASSUME NEW j \in Entries, write_pmpaddr(j),
                        NEW i \in Entries, pmpcfg[i].lock
                 PROVE  Covers(i)' = Covers(i)
      OBVIOUS
    <2>1. i \in Int /\ j \in Int
      BY DEF Entries
    <2>2. pmpcfg' = pmpcfg /\ j # i /\ ~(j + 1 = i /\ pmpcfg[i].mode = "TOR")
      BY DEF write_pmpaddr, AddrLocked, Entries
    <2>3. \A k \in Entries \ {j} : pmpaddr'[k] = pmpaddr[k]
      BY <1>1 DEF write_pmpaddr, PmpTyped
    <2>4. pmpaddr'[i] = pmpaddr[i]
      BY <2>2, <2>3
    <2>5. ASSUME pmpcfg[i].mode = "TOR", i # 0 PROVE pmpaddr'[i - 1] = pmpaddr[i - 1]
      <3>1. i - 1 \in Entries /\ i - 1 # j
        BY <2>1, <2>2, <2>5, PmpAssumption DEF Entries
      <3> QED
        BY <2>3, <3>1
    <2> QED
      BY <2>2, <2>4, <2>5 DEF Covers
  <1>2. PmpTyped => [A]_pmpVars
    BY <1>1
  <1> QED
    BY <1>2, PmpInvariant, PTL DEF PmpSpec, AddressWritesKeepRanges

-----------------------------------------------------------------------------
\* No range the guest writes reaches the top of the address space, where the
\* code's 32-bit bounds wrap (csr.cpp:293-298).
BelowTop == \A v \in WrittenAddrs : v * 4 + 4 < 2^Width

(* Without wrapping, an entry matches the addresses of its range.          *)
LEMMA MatchIsRange ==
    ASSUME BelowTop, PmpTyped, NEW i \in Entries, pmpcfg[i].mode # "NAPOT", NEW pa \in Addresses
    PROVE  Match(i, pa) <=> pa \in Covers(i)
  <1> DEFINE top == 2^Width
  <1>1. top \in Int /\ 4 < top
    <2>1. 0 \in WrittenAddrs
      BY DEF WrittenAddrs
    <2> QED
      BY <2>1, PmpAssumption DEF BelowTop
  <1>2. \A v \in WrittenAddrs : v \in Nat /\ v * 4 \in 0..(top - 1) /\ v * 4 + 4 \in 0..(top - 1)
    <2> SUFFICES ASSUME NEW v \in WrittenAddrs
                 PROVE  v \in Nat /\ v * 4 \in 0..(top - 1) /\ v * 4 + 4 \in 0..(top - 1)
      OBVIOUS
    <2>1. v \in Nat
      BY PmpAssumption DEF WrittenAddrs
    <2>2. v * 4 + 4 < top
      BY DEF BelowTop
    <2> HIDE DEF top
    <2> QED
      BY <1>1, <2>1, <2>2
  <1>3. \A x \in 0..(top - 1) : Word(x) = x
    <2>1. top \in Nat \ {0}
      BY <1>1
    <2> HIDE DEF top
    <2>2. \A x \in 0..(top - 1) : x % top = x
      BY <2>1, RemainderOfSmall
    <2> QED
      BY <2>2 DEF Word, top
  <1>4. pmpcfg[i].mode \in {"OFF", "TOR", "NA4"}
    <2>1. pmpcfg[i] \in Configs \/ pmpcfg[i] = Off
      BY DEF PmpTyped
    <2>2. pmpcfg[i].mode \in Modes \/ pmpcfg[i].mode = "OFF"
      BY <2>1 DEF Configs, Off
    <2> QED
      BY <2>2, PmpAssumption
  <1>5. pmpaddr[i] \in WrittenAddrs /\ i \in Int /\ pa \in Int /\ 0 <= pa
    BY DEF PmpTyped, Entries, Addresses
  <1>6. i # 0 => pmpaddr[i - 1] \in WrittenAddrs
    <2>1. i # 0 => i - 1 \in Entries
      BY <1>5, PmpAssumption DEF Entries
    <2> QED
      BY <2>1 DEF PmpTyped
  <1> HIDE DEF top
  <1>7. CASE pmpcfg[i].mode = "OFF"
    BY <1>7 DEF Match, Covers
  <1>8. CASE pmpcfg[i].mode = "TOR"
    <2> DEFINE lo == IF i = 0 THEN 0 ELSE pmpaddr[i - 1] * 4
               hi == pmpaddr[i] * 4
    <2>1. lo \in Int /\ hi \in Int
      BY <1>2, <1>5, <1>6
    <2>2. Bounds(i).lo = lo /\ Bounds(i).hi = hi
      BY <1>2, <1>3, <1>5, <1>6 DEF Bounds
    <2>3. Covers(i) = lo..(hi - 1)
      BY <1>8 DEF Covers
    <2>4. Match(i, pa) <=> lo <= pa /\ pa < hi
      BY <1>8, <2>2 DEF Match
    <2> HIDE DEF lo, hi
    <2> QED
      BY <1>5, <2>1, <2>3, <2>4
  <1>9. CASE pmpcfg[i].mode = "NA4"
    <2> DEFINE base == pmpaddr[i] * 4
    <2>1. base \in Int /\ Word(base) = base /\ Word(base + 4) = base + 4
      BY <1>2, <1>3, <1>5
    <2>2. Covers(i) = base..(base + 3)
      BY <1>9 DEF Covers
    <2>3. Match(i, pa) <=> base <= pa /\ pa < base + 4
      BY <1>9, <2>1 DEF Match
    <2> HIDE DEF base
    <2> QED
      BY <1>5, <2>1, <2>2, <2>3
  <1> QED
    BY <1>4, <1>7, <1>8, <1>9

(* A non-empty set of entries has a first one.                             *)
LEMMA FirstEntry ==
    ASSUME NEW H \in SUBSET Entries, H # {}
    PROVE  Min(H) \in H /\ \A j \in H : Min(H) <= j
  <1> DEFINE R == {p \in Nat \X Nat : p[1] < p[2]}
  <1>1. IsWellFoundedOn(R, Nat)
    BY NatLessThanWellFounded, Zenon DEF OpToRel
  <1>2. H \subseteq Nat
    BY DEF Entries
  <1>3. \A i, j \in Nat : i < j => <<i, j>> \in R
    OBVIOUS
  <1> HIDE DEF R
  <1>4. PICK m \in H : \A j \in H : <<j, m>> \notin R
    BY <1>1, <1>2, WFMin
  <1>5. \A j \in H : m <= j
    <2> SUFFICES ASSUME NEW j \in H PROVE m <= j
      OBVIOUS
    <2>1. j \in Nat /\ m \in Nat
      BY <1>2
    <2>2. ~(j < m)
      BY <1>3, <1>4, <2>1
    <2> QED
      BY <2>1, <2>2
  <1> QED
    BY <1>5 DEF Min

(* The verdict is that of the first entry whose range holds the address.   *)
THEOREM FirstRangeDecides == ASSUME BelowTop PROVE PmpSpec => []VerdictIsOfFirstRange
  <1>1. ASSUME PmpTyped, \A i \in Entries : pmpcfg[i].mode # "NAPOT",
               NEW pa \in Addresses, NEW type \in {"R", "W", "X"}, NEW machine \in BOOLEAN
        PROVE  pmp_check(pa, type, machine) <=>
                   IF \E i \in Entries : pa \in Covers(i)
                   THEN \E i \in Entries :
                           /\ pa \in Covers(i) /\ \A j \in Entries : j < i => pa \notin Covers(j)
                           /\ type \in pmpcfg[i].perm \/ (machine /\ ~pmpcfg[i].lock)
                   ELSE machine
    <2> DEFINE hits == {i \in Entries : Match(i, pa)}
               first == Min(hits)
    <2>1. \A i \in Entries : i \in hits <=> pa \in Covers(i)
      BY <1>1, MatchIsRange
    <2>2. CASE hits = {}
      BY <2>1, <2>2 DEF pmp_check
    <2>3. CASE hits # {}
      <3>1. hits \subseteq Entries
        OBVIOUS
      <3>2. first \in hits /\ \A j \in hits : first <= j
        <4> HIDE DEF hits
        <4> QED
          BY <2>3, <3>1, FirstEntry
      <3>3. pmp_check(pa, type, machine) <=>
               (machine /\ ~pmpcfg[first].lock) \/ type \in pmpcfg[first].perm
        BY <2>3 DEF pmp_check
      <3>4. \A i, j \in Entries : i \in Int /\ j \in Int
        BY DEF Entries
      <3> HIDE DEF hits, first
      <3>5. \A i \in Entries :
               (pa \in Covers(i) /\ \A j \in Entries : j < i => pa \notin Covers(j)) <=> i = first
        BY <2>1, <3>1, <3>2, <3>4
      <3>6. \E i \in Entries : pa \in Covers(i)
        BY <2>1, <3>1, <3>2
      <3> QED
        BY <3>1, <3>2, <3>3, <3>5, <3>6
    <2> QED
      BY <2>2, <2>3
  <1>2. PmpTyped => VerdictIsOfFirstRange
    BY <1>1 DEF VerdictIsOfFirstRange
  <1> QED
    BY <1>2, PmpInvariant, PTL
=============================================================================
