--------------------------------- MODULE Mmu ---------------------------------
(***************************************************************************)
(* Sv32 address translation: the page-table walker (src/mmu/mmu.cpp) and   *)
(* the set-associative TLB in front of it (src/mmu/tlb.cpp).               *)
(*                                                                         *)
(* A virtual page number is vpn1 * N0 + vpn0, and the TLB set of a page is *)
(* vpn % TLB_SETS, as in the code (N0 = 1024, TLB_SETS = 16).  Memory is   *)
(* the page tables of each address space, one level-0 table under every    *)
(* level-1 entry, and the guest writes any entry at any time.  ppn counts  *)
(* 4 KB pages.  What an access is made with (its type, the privilege and   *)
(* the mstatus bits it reads) is a request.  A guest is what the software  *)
(* may do: the pages it touches, the entries it writes, the fences it uses. *)
(***************************************************************************)
EXTENDS Integers, Sequences, FiniteSets, FiniteSetsExt

CONSTANTS
    N1, N0,       \* entries of a level-1 and of a level-0 table
    TLB_SETS,
    Asids,
    Guests,       \* each [asids, pages, fences: the operands <<page, asid>>,
                  \* requests: [type, level, mprv, mpp, sum, mxr],
                  \* leaves1, leaves0: what it writes at level 1, at level 0]
    MaxWrites     \* BOUND: the page-table entries the guest rewrites

Every == -1       \* register x0 as a fence's operand
Bare == -2        \* satp.MODE = 0
PageFault == -3   \* an access is answered a physical page or this
TLB_WAYS == 4
Ways == 0..(TLB_WAYS - 1)
Sets == 0..(TLB_SETS - 1)
Pages == 0..(N1 * N0 - 1)
Slots1 == 0..(N1 - 1)

\* A page-table entry; a pointer to a level-0 table has no permission, and
\* ppn 0 when it points outside of memory.
Ptes == [v : BOOLEAN, perm : SUBSET {"R", "W", "X"}, u : BOOLEAN, g : BOOLEAN,
         a : BOOLEAN, d : BOOLEAN, ppn : Nat]

ASSUME MmuAssumption ==
    /\ {N1, N0, TLB_SETS} \subseteq Nat \ {0} /\ MaxWrites \in Nat
    /\ Asids \subseteq Nat
    /\ \A g \in Guests :
          /\ g.asids \subseteq Asids /\ g.pages \subseteq Pages
          /\ g.fences \subseteq (Pages \union {Every}) \X (Asids \union {Every})
          /\ g.leaves1 \subseteq Ptes /\ g.leaves0 \subseteq Ptes

VARIABLES
    guest,        \* never changed
    satp,         \* the current asid, or Bare
    pt1, pt0,     \* the page tables in memory: pt1[a][vpn1], pt0[a][vpn]
    entries,      \* entries[set][way]
    plru,         \* plru[set]: the 3 bits, as [root, left, right]
    recent,       \* history: the last two ways of a set touched, newest first
    last,         \* history: the last operation and its answer
    writes

memory == <<pt1, pt0>>
tlb == <<entries, plru, recent>>
vars == <<guest, satp, memory, tlb, last, writes>>

set_of(vpn) == vpn % TLB_SETS
Vpn1(vpn) == vpn \div N0
Vpn0(vpn) == vpn % N0

-----------------------------------------------------------------------------
(* The TLB. *)

Empty == [valid |-> FALSE, vpn |-> 0, asid |-> 0, ppn |-> 0, perm |-> {},
          user |-> FALSE, global |-> FALSE, superpage |-> FALSE]

ZeroPlru == [root |-> 0, left |-> 0, right |-> 0]

\* root = 1: the right pair was used last.  left, right: which of the pair was.
plru_update_Forgets(s, way) ==
    IF way < 2 THEN [s EXCEPT !.root = 0] ELSE [s EXCEPT !.root = 1]

plru_update(s, way) ==
    IF way < 2 THEN [s EXCEPT !.root = 0, !.left = way]
               ELSE [s EXCEPT !.root = 1, !.right = way - 2]

plru_victim(s) == IF s.root = 1 THEN 1 - s.left ELSE 3 - s.right

\* A way becomes the most recently used of its set.
Touch(set, way) ==
    /\ plru' = [plru EXCEPT ![set] = plru_update(@, way)]
    /\ recent' = [recent EXCEPT ![set] =
           IF @ # <<>> /\ @[1] = way THEN @
           ELSE <<way>> \o SubSeq(@, 1, Min({Len(@), 1}))]

MatchesPage(e, vpn) ==
    IF e.superpage THEN Vpn1(e.vpn) = Vpn1(vpn) ELSE e.vpn = vpn

Hit(e, vpn, asid) == e.valid /\ MatchesPage(e, vpn) /\ (e.global \/ e.asid = asid)

HitWays(vpn, asid) == {w \in Ways : Hit(entries[set_of(vpn)][w], vpn, asid)}

\* The way a fill takes: an entry of this very page, an empty one, the victim.
FillWay(set, vpn, asid) ==
    LET same == {w \in Ways : LET e == entries[set][w]
                              IN e.valid /\ e.vpn = vpn /\ (e.global \/ e.asid = asid)}
        free == {w \in Ways : ~entries[set][w].valid}
    IN  IF same # {} THEN Min(same)
        ELSE IF free # {} THEN Min(free) ELSE plru_victim(plru[set])

Filled_NoUser(vpn, asid, pte, superpage) ==
    [valid |-> TRUE, vpn |-> vpn, asid |-> asid,
     ppn |-> IF superpage THEN pte.ppn \div N0 ELSE pte.ppn,
     perm |-> pte.perm, user |-> FALSE, global |-> pte.g, superpage |-> superpage]

Filled(vpn, asid, pte, superpage) ==
    [valid |-> TRUE, vpn |-> vpn, asid |-> asid,
     ppn |-> IF superpage THEN pte.ppn \div N0 ELSE pte.ppn,
     perm |-> pte.perm, user |-> pte.u, global |-> pte.g, superpage |-> superpage]

tlb_fill(vpn, asid, pte, superpage) ==
    LET set == set_of(vpn)
        way == FillWay(set, vpn, asid)
    IN  /\ entries' = [entries EXCEPT ![set][way] = Filled(vpn, asid, pte, superpage)]
        /\ Touch(set, way)

EntriesOf(set) == {<<set, w>> : w \in Ways}
At(x) == entries[x[1]][x[2]]

\* Nothing reads the other fields of an entry that is not valid.
Flush(gone) ==
    entries' = [s \in Sets |-> [w \in Ways |->
        IF <<s, w>> \in gone THEN Empty ELSE entries[s][w]]]

tlb_flush_all ==
    /\ entries' = [s \in Sets |-> [w \in Ways |-> Empty]]
    /\ plru' = [s \in Sets |-> ZeroPlru]
    /\ recent' = [s \in Sets |-> <<>>]

tlb_flush_asid(asid) ==
    /\ Flush({x \in Sets \X Ways : At(x).valid /\ ~At(x).global /\ At(x).asid = asid})
    /\ UNCHANGED <<plru, recent>>

tlb_flush_va_Unshifted(vpn) ==
    /\ Flush({x \in EntriesOf(0) : At(x).valid /\ MatchesPage(At(x), vpn)})
    /\ UNCHANGED <<plru, recent>>

tlb_flush_va(vpn) ==
    /\ Flush({x \in EntriesOf(set_of(vpn)) : At(x).valid /\ MatchesPage(At(x), vpn)})
    /\ UNCHANGED <<plru, recent>>

tlb_flush_va_asid(vpn, asid) ==
    /\ Flush({x \in EntriesOf(set_of(vpn)) : Hit(At(x), vpn, asid)})
    /\ UNCHANGED <<plru, recent>>

-----------------------------------------------------------------------------
(* The walk. *)

EffectiveLevel(q) == IF q.mprv /\ q.type # "X" THEN q.mpp ELSE q.level

Malformed(pte) == ~pte.v \/ ("R" \notin pte.perm /\ "W" \in pte.perm)
IsLeaf(pte) == pte.perm # {}

\* The level the walk ends at, and its entry; level -1 is a page fault.
Leaf(a, vpn) ==
    LET top == pt1[a][Vpn1(vpn)]
        low == pt0[a][vpn]
    IN  IF Malformed(top) \/ (~IsLeaf(top) /\ top.ppn = 0) THEN [level |-> -1, pte |-> top]
        ELSE IF IsLeaf(top) THEN [level |-> 1, pte |-> top]
        ELSE IF Malformed(low) \/ ~IsLeaf(low) THEN [level |-> -1, pte |-> low]
        ELSE [level |-> 0, pte |-> low]

UserAllows(user, q) ==
    CASE EffectiveLevel(q) = "U" -> user
      [] EffectiveLevel(q) = "S" -> ~user \/ q.sum
      [] OTHER -> TRUE

\* The leaf's own checks: those of the walk, and those of a hit.
WalkAllows(pte, q) ==
    /\ UserAllows(pte.u, q)
    /\ \/ q.type \in pte.perm
       \/ q.type = "R" /\ q.mxr /\ "X" \in pte.perm

check_tlb_permissions(e, q) == UserAllows(e.user, q) /\ q.type \in e.perm

Misaligned(leaf) == leaf.level = 1 /\ leaf.pte.ppn % N0 # 0

HitPpn_NoOffset(e, vpn) == IF e.superpage THEN e.ppn * N0 + Vpn0(e.vpn) ELSE e.ppn

HitPpn(e, vpn) == IF e.superpage THEN e.ppn * N0 + Vpn0(vpn) ELSE e.ppn

WalkPpn(leaf, vpn) ==
    IF leaf.level = 1 THEN (leaf.pte.ppn \div N0) * N0 + Vpn0(vpn) ELSE leaf.pte.ppn

HitAnswer(e, vpn, q) == IF check_tlb_permissions(e, q) THEN HitPpn(e, vpn) ELSE PageFault

WalkAnswer(leaf, vpn, q) ==
    IF leaf.level >= 0 /\ WalkAllows(leaf.pte, q) /\ ~Misaligned(leaf)
    THEN WalkPpn(leaf, vpn) ELSE PageFault

\* The walk sets A, and D for a store, once the permissions hold.
Mark(pte, q) == [pte EXCEPT !.a = TRUE, !.d = @ \/ q.type = "W"]

UpdateLeaf(a, vpn, leaf, q) ==
    /\ pt1' = IF leaf.level = 1 THEN [pt1 EXCEPT ![a][Vpn1(vpn)] = Mark(@, q)] ELSE pt1
    /\ pt0' = IF leaf.level = 0 THEN [pt0 EXCEPT ![a][vpn] = Mark(@, q)] ELSE pt0

-----------------------------------------------------------------------------

Init ==
    /\ guest \in Guests
    /\ satp \in guest.asids \union {Bare}
    /\ pt1 \in [guest.asids -> [Slots1 -> guest.leaves1]]
    /\ pt0 \in [guest.asids -> [guest.pages -> guest.leaves0]]
    /\ entries = [s \in Sets |-> [w \in Ways |-> Empty]]
    /\ plru = [s \in Sets |-> ZeroPlru] /\ recent = [s \in Sets |-> <<>>]
    /\ last = <<"none">> /\ writes = 0

AccessBare(vpn, q) ==
    /\ satp = Bare
    /\ last' = <<"access", vpn, q, vpn>>
    /\ UNCHANGED <<satp, memory, tlb, writes>>

AccessHit(vpn, q) ==
    /\ satp # Bare /\ HitWays(vpn, satp) # {}
    /\ LET set == set_of(vpn)
           way == Min(HitWays(vpn, satp))
       IN  /\ Touch(set, way)
           /\ last' = <<"access", vpn, q, HitAnswer(entries[set][way], vpn, q)>>
    /\ UNCHANGED <<satp, memory, entries, writes>>

\* A refused walk changes nothing; a misaligned superpage faults after the
\* walk has marked it; any other leaf fills the TLB with the flags read.
translate_walk(vpn, q) ==
    /\ satp # Bare /\ HitWays(vpn, satp) = {}
    /\ LET leaf == Leaf(satp, vpn)
       IN  /\ last' = <<"access", vpn, q, WalkAnswer(leaf, vpn, q)>>
           /\ IF leaf.level >= 0 /\ WalkAllows(leaf.pte, q)
              THEN /\ UpdateLeaf(satp, vpn, leaf, q)
                   /\ IF Misaligned(leaf) THEN UNCHANGED tlb
                      ELSE tlb_fill(vpn, satp, leaf.pte, leaf.level = 1)
              ELSE UNCHANGED <<memory, tlb>>
    /\ UNCHANGED <<satp, writes>>

SFenceVma(p, a) ==
    /\ CASE p = Every /\ a = Every -> tlb_flush_all
         [] p = Every /\ a # Every -> tlb_flush_asid(a)
         [] p # Every /\ a = Every -> tlb_flush_va(p)
         [] OTHER -> tlb_flush_va_asid(p, a)
    /\ last' = <<"fence", p, a>>
    /\ UNCHANGED <<satp, memory, writes>>

WriteSatp_KeepsTlb(s) ==
    /\ satp' = s
    /\ last' = <<"satp", s>>
    /\ UNCHANGED <<memory, tlb, writes>>

WriteSatp(s) ==
    /\ satp' = s
    /\ tlb_flush_all
    /\ last' = <<"satp", s>>
    /\ UNCHANGED <<memory, writes>>

\* The guest's stores to its page tables.
WriteTable ==
    /\ writes < MaxWrites
    /\ writes' = writes + 1
    /\ \E a \in guest.asids :
          \/ /\ \E i \in Slots1, pte \in guest.leaves1 : pt1' = [pt1 EXCEPT ![a][i] = pte]
             /\ UNCHANGED pt0
          \/ /\ \E v \in guest.pages, pte \in guest.leaves0 : pt0' = [pt0 EXCEPT ![a][v] = pte]
             /\ UNCHANGED pt1
    /\ last' = <<"write">>
    /\ UNCHANGED <<satp, tlb>>

Next ==
    /\ \/ \E v \in guest.pages, q \in guest.requests :
             AccessBare(v, q) \/ AccessHit(v, q) \/ translate_walk(v, q)
       \/ \E f \in guest.fences : SFenceVma(f[1], f[2])
       \/ \E s \in guest.asids \union {Bare} : WriteSatp(s)
       \/ WriteTable
    /\ UNCHANGED guest

Spec == Init /\ [][Next]_vars

-----------------------------------------------------------------------------
(* What translation promises, and how this module keeps it. *)

SlotPages == [i \in Slots1 |-> {v \in Pages : Vpn1(v) = i}]

TableMapping(a, v) ==
    IF a = Bare THEN [result |-> [q \in guest.requests |-> v], global |-> FALSE, extent |-> {v}]
    ELSE LET leaf == Leaf(a, v)
         IN  [result |-> [q \in guest.requests |-> WalkAnswer(leaf, v, q)],
              global |-> leaf.pte.g,
              extent |-> IF leaf.level = 1 THEN SlotPages[Vpn1(v)] ELSE {v}]

EntryMapping(e, v) ==
    [result |-> [q \in guest.requests |-> HitAnswer(e, v, q)],
     global |-> e.global,
     extent |-> IF e.superpage THEN SlotPages[Vpn1(v)] ELSE {v}]

CachedMappings(v) ==
    IF satp = Bare THEN {}
    ELSE {EntryMapping(entries[set_of(v)][w], v) : w \in HitWays(v, satp)}

Abstract == INSTANCE Translation WITH
    space <- satp,
    now <- [v \in guest.pages |-> TableMapping(satp, v)],
    may <- [v \in guest.pages |-> {TableMapping(satp, v)} \union CachedMappings(v)]

\* The MMU implements Translation: an access is answered as the tables say or
\* by a mapping no fence has covered since, every fence removes all it covers,
\* and eviction, refill and the A and D updates change no answer.
\* (mmu.cpp:48-157, tlb.cpp)
Refines == Abstract!Spec

\* Replacement never evicts one of the two ways of the set used last.
\* (tlb.cpp:9-43)
VictimNotRecent ==
    \A s \in Sets : \A i \in DOMAIN recent[s] : plru_victim(plru[s]) # recent[s][i]
=============================================================================
