------------------------------ MODULE MC_Memory ------------------------------
(* The memory for TLC: one thread that stores aligned words. *)
EXTENDS Memory

Cpu == {"cpu"}
Bits == {0, 1}
LongOnes == {1}
AllUnits == Units
LastUnit == {DRAM_SIZE - 1}
SafeBoot == {FALSE}
AlignedWords == [t \in Threads |-> {<<u, 2>> : u \in Words}]

\* Three pcs: two share a slot, and one may begin an instruction that ends on
\* the next page.
Program == {0, 1, 2}

\* Bare mode, and a space that maps one page only and elsewhere.
BareAndOne == {[p \in {0, 1} |-> p], [p \in {0} |-> 1]}
=============================================================================
