--------------------------------- MODULE Pmp ---------------------------------
(***************************************************************************)
(* Physical memory protection: the pmpcfg and pmpaddr registers and the    *)
(* verdict on an access (src/cpu/csr.cpp:243-338).  pmpcfg register r      *)
(* holds entries 4r to 4r+3 in the code, PerReg * r onwards here.  An      *)
(* entry's configuration is [lock, mode, perm]; the reserved bits, which   *)
(* every write clears, are left out.  Registers are Width bits wide.       *)
(***************************************************************************)
EXTENDS Integers, FiniteSets, FiniteSetsExt

CONSTANTS
    ENTRIES, PerReg, Width,
    Modes,        \* the modes the guest uses, of "OFF", "TOR", "NA4", "NAPOT"
    Perms,        \* the sets of permissions it grants, of "R", "W", "X"
    AddrValues    \* the pmpaddr values it writes

ASSUME PmpAssumption ==
    /\ {ENTRIES, PerReg, Width} \subseteq Nat \ {0} /\ ENTRIES % PerReg = 0
    /\ Modes \subseteq {"OFF", "TOR", "NA4", "NAPOT"}
    /\ Perms \subseteq SUBSET {"R", "W", "X"}
    /\ AddrValues \subseteq 0..(2^Width - 1)

Entries == 0..(ENTRIES - 1)
Addresses == 0..(2^Width - 1)
Word(n) == n % 2^Width
Configs == [lock : BOOLEAN, mode : Modes, perm : Perms]

VARIABLES pmpcfg, pmpaddr

pmpVars == <<pmpcfg, pmpaddr>>

Off == [lock |-> FALSE, mode |-> "OFF", perm |-> {}]

PmpInit ==
    /\ pmpcfg = [i \in Entries |-> Off]
    /\ pmpaddr = [i \in Entries |-> 0]

RegEntries(r) == {i \in Entries : i \div PerReg = r}

\* The bytes of the register's NUMBER decide which entries are locked, and a
\* number below 4 has no lock bit set: every entry of it takes its new value.
write_pmpcfg(r) ==
    /\ \E new \in [RegEntries(r) -> Configs] :
          pmpcfg' = [i \in Entries |-> IF i \in RegEntries(r) THEN new[i] ELSE pmpcfg[i]]
    /\ UNCHANGED pmpaddr

AddrLocked_OwnOnly(i) == pmpcfg[i].lock

\* The entry itself is locked, or is the lower bound of a locked TOR entry.
AddrLocked(i) ==
    \/ pmpcfg[i].lock
    \/ i + 1 \in Entries /\ pmpcfg[i + 1].lock /\ pmpcfg[i + 1].mode = "TOR"

write_pmpaddr(i) ==
    /\ ~AddrLocked(i)
    /\ \E v \in AddrValues : pmpaddr' = [pmpaddr EXCEPT ![i] = v]
    /\ UNCHANGED pmpcfg

PmpNext ==
    \/ \E r \in 0..(ENTRIES \div PerReg - 1) : write_pmpcfg(r)
    \/ \E i \in Entries : write_pmpaddr(i)

PmpSpec == PmpInit /\ [][PmpNext]_pmpVars

-----------------------------------------------------------------------------
(* pmp_check, as the code computes it. *)

Bounds_FromZero(i) == [lo |-> 0, hi |-> Word(pmpaddr[i] * 4)]

Bounds(i) ==
    [lo |-> IF i = 0 THEN 0 ELSE Word(pmpaddr[i - 1] * 4), hi |-> Word(pmpaddr[i] * 4)]

Bit(a, k) == (a \div 2^k) % 2

LowestZeroBit(a) == Min({k \in 0..Width : Bit(a, k) = 0})

Match(i, pa) ==
    CASE pmpcfg[i].mode = "OFF" -> FALSE
      [] pmpcfg[i].mode = "TOR" -> Bounds(i).lo <= pa /\ pa < Bounds(i).hi
      [] pmpcfg[i].mode = "NA4" ->
            LET base == Word(pmpaddr[i] * 4) IN base <= pa /\ pa < Word(base + 4)
      [] OTHER ->
            LET a == pmpaddr[i]
                k == LowestZeroBit(a)
                \* size_minus1 is 2^k, and napot_mask clears bits k + 1 and 0.
                base == Word((a - Bit(a, k + 1) * 2^(k + 1) - Bit(a, 0)) * 4)
            IN  IF a = 2^Width - 1 THEN TRUE
                ELSE base <= pa /\ pa < Word(base + Word((2^k + 1) * 8))

\* The scan stops at the first entry that matches.  Machine mode passes an
\* entry that is not locked, and an address that none matches.
pmp_check(pa, type, machine) ==
    LET hits == {i \in Entries : Match(i, pa)}
        cfg == pmpcfg[Min(hits)]
    IN  IF hits = {} THEN machine
        ELSE (machine /\ ~cfg.lock) \/ type \in cfg.perm

-----------------------------------------------------------------------------
(* The rule of the privileged specification. *)

Covers(i) ==
    LET a == pmpaddr[i]
        size == 2^(LowestZeroBit(a) + 3)
        base == ((a * 4) \div size) * size
    IN  CASE pmpcfg[i].mode = "OFF" -> {}
          [] pmpcfg[i].mode = "TOR" -> (IF i = 0 THEN 0 ELSE pmpaddr[i - 1] * 4)..(a * 4 - 1)
          [] pmpcfg[i].mode = "NA4" -> (a * 4)..(a * 4 + 3)
          [] OTHER -> base..(base + size - 1)

\* With no entry in NAPOT mode, whose ranges the code gets wrong, the verdict is
\* that of the lowest-numbered entry whose range holds the address; locked
\* entries bind machine mode too.  (csr.cpp:278-338)
VerdictIsOfFirstRange ==
    (\A i \in Entries : pmpcfg[i].mode # "NAPOT") =>
        \A pa \in Addresses, type \in {"R", "W", "X"}, machine \in BOOLEAN :
            pmp_check(pa, type, machine) <=>
                IF \E i \in Entries : pa \in Covers(i)
                THEN \E i \in Entries :
                        /\ pa \in Covers(i) /\ \A j \in Entries : j < i => pa \notin Covers(j)
                        /\ type \in pmpcfg[i].perm \/ (machine /\ ~pmpcfg[i].lock)
                ELSE machine

\* No write of an address register moves the range of a locked entry, its own
\* or the lower bound it takes from the entry before it, also after the entry
\* has been locked, unlocked and locked in other modes: a write of its
\* configuration does that, locked or not.  (csr.cpp:244, 260-275)
AddressWritesKeepRanges ==
    [][\A j \in Entries : write_pmpaddr(j) =>
          \A i \in Entries : pmpcfg[i].lock => Covers(i)' = Covers(i)]_pmpVars
=============================================================================
