----------------------------- MODULE MC_Registers -----------------------------
(***************************************************************************)
(* The two register files whose answer is a priority scan, for TLC: the    *)
(* interrupt controller's and physical memory protection's.  They share    *)
(* nothing, so a behaviour of the run is a behaviour of one of them.       *)
(***************************************************************************)
EXTENDS Plic, Pmp

\* All of the sources, some of them, and the bit of source 0 the code masks.
SomeMasks == {{0, 1, 2, 3}, {1, 3}}

AllModes == {"OFF", "TOR", "NA4", "NAPOT"}
SomePerms == {{}, {"R"}}

\* Ranges that end below the top of the address space.
InRange == {0, 1, 3}

RegistersInit == PlicInit /\ PmpInit

RegistersNext ==
    \/ PlicNext /\ PmpInit /\ UNCHANGED pmpVars
    \/ PmpNext /\ PlicInit /\ UNCHANGED plicVars

RegistersSpec == RegistersInit /\ [][RegistersNext]_<<plicVars, pmpVars>>
=============================================================================
