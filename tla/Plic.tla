-------------------------------- MODULE Plic --------------------------------
(***************************************************************************)
(* The platform interrupt controller (src/plic/plic.cpp): 32 sources, two  *)
(* contexts, an atomic word of pending bits.                               *)
(*                                                                         *)
(* Every register is written by the CPU thread only, except the pending    *)
(* word: the device threads set bits in it at any moment.  A claim is a    *)
(* load (which source wins) and, later, an atomic AND that drops it, so it *)
(* is two steps here; the guest can do nothing else in between.            *)
(***************************************************************************)
EXTENDS Integers

CONSTANTS
    NUM_SOURCES,      \* sources are 1..NUM_SOURCES - 1; 0 means none
    PriorityWrites,   \* the values the guest writes to priorities, thresholds
    EnableWrites,     \* ... to the enable masks
    CompleteWrites    \* ... to the completion register, besides what it holds

CTX_MACHINE == 0
CTX_SUPERVISOR == 1
Contexts == {CTX_MACHINE, CTX_SUPERVISOR}
Sources == 1..(NUM_SOURCES - 1)
Priorities == 0..7

ASSUME SourcesAssumption == NUM_SOURCES \in 2..32
ASSUME PlicWritesAssumption ==
    /\ PriorityWrites \subseteq Nat
    /\ EnableWrites \subseteq SUBSET (0..31)
    /\ CompleteWrites \subseteq Nat

VARIABLES
    priority, enable, threshold, claimed,
    pending,    \* the bits set in pending_
    claim       \* the CPU inside read32: [ctx, src], or NoClaim

plicVars == <<priority, enable, threshold, claimed, pending, claim>>

NoClaim == [ctx |-> CTX_MACHINE, src |-> 0]

PlicInit ==
    /\ priority = [s \in Sources |-> 0]
    /\ enable = [c \in Contexts |-> {}]
    /\ threshold = [c \in Contexts |-> 0]
    /\ claimed = [c \in Contexts |-> 0]
    /\ pending = {}
    /\ claim = NoClaim

-----------------------------------------------------------------------------
(* The arbiter. *)

Active(c) == pending \cap enable[c]

Challenge_TiesToLast(best, s, c) ==
    IF s \in Active(c) /\ priority[s] >= best.pri
    THEN [src |-> s, pri |-> priority[s]]
    ELSE best

\* One turn of the loop of best_pending: the source and priority to beat.
Challenge(best, s, c) ==
    IF s \in Active(c) /\ priority[s] > best.pri
    THEN [src |-> s, pri |-> priority[s]]
    ELSE best

best_pending(c) ==
    LET best[s \in 0..(NUM_SOURCES - 1)] ==
            IF s = 0 THEN [src |-> 0, pri |-> threshold[c]]
            ELSE Challenge(best[s - 1], s, c)
    IN  best[NUM_SOURCES - 1].src

interrupt_pending(c) == best_pending(c) # 0

\* What the specification of the PLIC asks of the arbiter, without the loop.
Eligible(c) == {s \in Active(c) : priority[s] > threshold[c]}

Wins(s, c) ==
    /\ s \in Eligible(c)
    /\ \A t \in Eligible(c) : \/ priority[t] < priority[s]
                              \/ priority[t] = priority[s] /\ s <= t

-----------------------------------------------------------------------------
(* The CPU thread. *)

WritePriority(s, v) ==
    /\ claim = NoClaim
    /\ priority' = [priority EXCEPT ![s] = v % 8]
    /\ UNCHANGED <<enable, threshold, claimed, pending, claim>>

\* Bit 0 names no source.
EnableMask(bits) == (bits \ {0}) \cap Sources

WriteEnable(c, bits) ==
    /\ claim = NoClaim
    /\ enable' = [enable EXCEPT ![c] = EnableMask(bits)]
    /\ UNCHANGED <<priority, threshold, claimed, pending, claim>>

WriteThreshold(c, v) ==
    /\ claim = NoClaim
    /\ threshold' = [threshold EXCEPT ![c] = v % 8]
    /\ UNCHANGED <<priority, enable, claimed, pending, claim>>

\* A read of the claim register picks a source; with none it returns 0.
ClaimLoad(c) ==
    /\ claim = NoClaim
    /\ interrupt_pending(c)
    /\ claim' = [ctx |-> c, src |-> best_pending(c)]
    /\ claimed' = [claimed EXCEPT ![c] = best_pending(c)]
    /\ UNCHANGED <<priority, enable, threshold, pending>>

Dropped_LooksAgain == {best_pending(claim.ctx)}

\* The bits the claim drops: the one it returns, even if another has since
\* overtaken it.
Dropped == {claim.src}

ClaimClear ==
    /\ claim # NoClaim
    /\ pending' = pending \ Dropped
    /\ claim' = NoClaim
    /\ UNCHANGED <<priority, enable, threshold, claimed>>

\* A write of the completion register.  1u << val with val >= 32 is undefined;
\* the shift instructions of the hosts take it modulo 32.
Complete(c, val) ==
    /\ claim = NoClaim
    /\ pending' = pending \ {val % 32}
    /\ claimed' = [claimed EXCEPT ![c] = 0]
    /\ UNCHANGED <<priority, enable, threshold, claim>>

\* A handler completes what it claimed.
CompleteClaimed(c) == claimed[c] # 0 /\ Complete(c, claimed[c])

-----------------------------------------------------------------------------
(* Any thread. *)

set_pending(s) ==
    /\ s \in Sources
    /\ pending' = pending \cup {s}
    /\ UNCHANGED <<priority, enable, threshold, claimed, claim>>

PlicConfigure ==
    \/ \E s \in Sources, v \in PriorityWrites : WritePriority(s, v)
    \/ \E c \in Contexts, bits \in EnableWrites : WriteEnable(c, bits)
    \/ \E c \in Contexts, v \in PriorityWrites : WriteThreshold(c, v)

PlicNext ==
    \/ PlicConfigure
    \/ \E c \in Contexts : ClaimLoad(c) \/ CompleteClaimed(c)
    \/ ClaimClear
    \/ \E c \in Contexts, v \in CompleteWrites : Complete(c, v)
    \/ \E s \in Sources : set_pending(s)

PlicSpec == PlicInit /\ [][PlicNext]_plicVars

-----------------------------------------------------------------------------
(* The loop of best_pending returns the eligible source of the highest     *)
(* priority, the lowest-numbered of equals, and 0 exactly when none is     *)
(* eligible: the interrupt lines m_/s_interrupt_pending follow from it.    *)
ArbiterIsFair ==
    \A c \in Contexts :
        IF best_pending(c) = 0 THEN Eligible(c) = {}
                               ELSE Wins(best_pending(c), c)

(* While the guest completes only what it claimed, a source stops pending  *)
(* only on behalf of a context that is serving it: bits other threads set  *)
(* around a claim are not swept away with it (read32, lines 28-37).        *)
DroppedOnlyInService ==
    [][\A s \in pending \ pending' : \E c \in Contexts : claimed[c] = s]_plicVars
=============================================================================
