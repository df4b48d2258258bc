----------------------------- MODULE Translation -----------------------------
(***************************************************************************)
(* What address translation promises the guest, whatever caches it.        *)
(*                                                                         *)
(* A page of the current address space is mapped by its page tables.  A    *)
(* cache may keep mappings the tables no longer hold: may[v] are the       *)
(* mappings page v can still be answered by.  Writing a page table adds to *)
(* may and removes nothing; a fence removes the mappings it covers; a      *)
(* write of satp removes every mapping but the tables'.  A cache can       *)
(* forget at any time, and never remembers anything of its own.            *)
(*                                                                         *)
(* A mapping says what every request is answered, whether it is global,    *)
(* and the pages its page-table entry maps (all of a superpage).           *)
(***************************************************************************)
CONSTANT Every        \* the x0 operand of a fence: every page, every asid

VARIABLES
    space,    \* the current address space
    now,      \* now[v]: what the tables of that space map page v to
    may,      \* the mappings page v may be answered by
    last      \* the last operation with its operands and, when it was an
              \* access, its answer

vars == <<last, space, now, may>>

Init ==
    /\ may = [v \in DOMAIN now |-> {now[v]}]
    /\ last = <<"none">>

\* After a step, page v is answered by its tables or by one of kept[v].
Keeps(kept) ==
    \E before \in {kept}, after \in {may'}, map \in {now'} :
        \A v \in DOMAIN map : /\ map[v] \in after[v]
                              /\ after[v] \subseteq before[v] \union {map[v]}

Access(v, q, res) ==
    /\ \E m \in may[v] : m.result[q] = res
    /\ Keeps(may)
    /\ UNCHANGED <<space, now>>

WriteTables ==
    /\ Keeps(may)
    /\ UNCHANGED space

Covered(p, a, m) ==
    /\ p = Every \/ p \in m.extent
    /\ a = Every \/ (a = space /\ ~m.global)

Fence(p, a) ==
    /\ Keeps([v \in DOMAIN may |-> {m \in may[v] : ~Covered(p, a, m)}])
    /\ UNCHANGED <<space, now>>

WriteSpace(a) ==
    /\ space' = a
    /\ Keeps([v \in DOMAIN may |-> {}])

Does(op) == last'[1] = op

Next ==
    \/ Does("access") /\ Access(last'[2], last'[3], last'[4])
    \/ Does("write")  /\ WriteTables
    \/ Does("fence")  /\ Fence(last'[2], last'[3])
    \/ Does("satp")   /\ WriteSpace(last'[2])

Spec == Init /\ [][Next]_vars
=============================================================================
