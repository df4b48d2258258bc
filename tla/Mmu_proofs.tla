----------------------------- MODULE Mmu_proofs -----------------------------
(***************************************************************************)
(* Proofs about Mmu, for tables, TLBs and guests of every size: which way  *)
(* of a set a fill evicts, and that the MMU implements Translation.        *)
(***************************************************************************)
EXTENDS Mmu, Arithmetic, SequenceTheorems, TLAPS

-----------------------------------------------------------------------------
(* The parts of a page number, and the least way of several.               *)

(* A page has an entry in a level-1 table, an offset and a set of the TLB. *)
LEMMA PageParts ==
    ASSUME NEW v \in Pages
    PROVE  Vpn1(v) \in Slots1 /\ Vpn0(v) \in Nat /\ set_of(v) \in Sets
  <1>1. N1 \in Nat \ {0} /\ N0 \in Nat \ {0} /\ TLB_SETS \in Nat \ {0}
    BY MmuAssumption
  <1>2. v \in Nat
    BY <1>1 DEF Pages
  <1>3. Vpn0(v) \in Nat /\ set_of(v) \in Sets
    BY <1>1, <1>2, DivisionWithRemainder DEF Vpn0, set_of, Sets
  <1>4. Vpn1(v) \in Slots1
    BY <1>1 DEF Pages, Vpn1, Slots1
  <1> QED
    BY <1>3, <1>4

(* The four ways of a set, one by one.                                     *)
LEMMA FourWays == Ways = {0, 1, 2, 3}
  BY DEF Ways, TLB_WAYS

(* lookup and fill stop at the first way that answers (tlb.cpp:49-62).     *)
LEMMA LeastWay ==
    ASSUME NEW W \in SUBSET Ways, W # {}
    PROVE  Min(W) \in W
  <1>1. \E x \in W : \A y \in W : x <= y
    <2>1. W \subseteq {0, 1, 2, 3}
      BY FourWays
    <2>2. CASE 0 \in W
      BY <2>1, <2>2
    <2>3. CASE 0 \notin W /\ 1 \in W
      BY <2>1, <2>3
    <2>4. CASE 0 \notin W /\ 1 \notin W /\ 2 \in W
      BY <2>1, <2>4
    <2>5. CASE 0 \notin W /\ 1 \notin W /\ 2 \notin W
      <3>1. W \subseteq {3} /\ 3 <= 3
        BY <2>1, <2>5
      <3>2. W = {3}
        BY <3>1
      <3> QED
        BY <3>1, <3>2
    <2> QED
      BY <2>2, <2>3, <2>4, <2>5
  <1> QED
    BY <1>1 DEF Min

-----------------------------------------------------------------------------
(* Replacement.  The three bits of a set name the pair used last and, of   *)
(* each pair, the way used last: they agree with the last two ways.        *)

Bits == [root : 0..1, left : 0..1, right : 0..1]

Names(b, way) == IF way < 2 THEN b.left = way ELSE b.right = way - 2
InPair(b, way) == IF way < 2 THEN b.root = 0 ELSE b.root = 1

Agree(b, used) ==
    /\ used \in Seq(Ways) /\ Len(used) <= 2
    /\ Len(used) >= 1 => InPair(b, used[1]) /\ Names(b, used[1])
    /\ Len(used) = 2 => /\ used[2] # used[1]
                        /\ InPair(b, used[2]) \/ Names(b, used[2])

Newest(used, way) ==
    IF used # <<>> /\ used[1] = way THEN used
    ELSE <<way>> \o SubSeq(used, 1, Min({Len(used), 1}))

(* The victim is a way, and none of the two used last.                     *)
LEMMA VictimSpares ==
    ASSUME NEW b \in Bits, NEW used, Agree(b, used)
    PROVE  plru_victim(b) \in Ways /\ \A i \in DOMAIN used : plru_victim(b) # used[i]
  <1>1. b.root \in {0, 1} /\ b.left \in {0, 1} /\ b.right \in {0, 1}
    BY DEF Bits
  <1>2. plru_victim(b) \in Ways
    BY <1>1, FourWays DEF plru_victim
  <1>3. \A w \in Ways : InPair(b, w) \/ Names(b, w) => plru_victim(b) # w
    BY <1>1, FourWays DEF plru_victim, InPair, Names
  <1>4. DOMAIN used \subseteq {1, 2} /\ \A i \in DOMAIN used : used[i] \in Ways
    BY DEF Agree
  <1>5. \A i \in DOMAIN used : InPair(b, used[i]) \/ Names(b, used[i])
    <2>1. ASSUME 1 \in DOMAIN used PROVE InPair(b, used[1])
      BY <2>1 DEF Agree
    <2>2. ASSUME 2 \in DOMAIN used PROVE InPair(b, used[2]) \/ Names(b, used[2])
      BY <2>2 DEF Agree
    <2> QED
      BY <1>4, <2>1, <2>2
  <1> QED
    BY <1>2, <1>3, <1>4, <1>5

(* A use pushes the way before it to second place, or repeats it.          *)
LEMMA NewestTwo ==
    ASSUME NEW used \in Seq(Ways), Len(used) \in {0, 1, 2}, NEW way \in Ways
    PROVE  Newest(used, way) = IF Len(used) = 0 THEN <<way>>
                               ELSE IF used[1] = way THEN used ELSE <<way, used[1]>>
  <1>1. CASE Len(used) = 0
    <2>1. used = <<>>
      BY <1>1
    <2>2. Min({Len(used), 1}) = 0
      BY <1>1 DEF Min
    <2>3. SubSeq(used, 1, 0) = <<>>
      BY SubSeqEmpty
    <2>4. <<way>> \o <<>> = <<way>>
      BY ConcatEmptySeq
    <2> QED
      BY <1>1, <2>1, <2>2, <2>3, <2>4 DEF Newest
  <1>2. CASE Len(used) # 0
    <2>1. used # <<>> /\ used[1] \in Ways
      BY <1>2
    <2>2. Min({Len(used), 1}) = 1
      BY <1>2 DEF Min
    <2> DEFINE older == SubSeq(used, 1, 1)
    <2>3. older \in Seq(Ways) /\ Len(older) = 1 /\ older[1] = used[1]
      BY <1>2, SubSeqProperties
    <2> HIDE DEF older
    <2>4. <<way>> \o older = <<way, used[1]>>
      <3> DEFINE both == <<way>> \o older
      <3>1. <<way>> \in Seq(Ways) /\ Len(<<way>>) = 1
        OBVIOUS
      <3>2. /\ both \in Seq(Ways) /\ Len(both) = 1 + 1
            /\ \A i \in 1..2 : both[i] = IF i <= 1 THEN <<way>>[i] ELSE older[i - 1]
        BY <2>3, <3>1, ConcatProperties
      <3>3. <<way, used[1]>> \in Seq(Ways)
        BY <2>1
      <3> HIDE DEF both
      <3>4. both = <<way, used[1]>>
        BY <2>3, <3>2, <3>3, SeqEqual
      <3> QED
        BY <3>4 DEF both
    <2> QED
      BY <1>2, <2>1, <2>2, <2>4 DEF Newest, older
  <1> QED
    BY <1>1, <1>2

(* A use sets its pair and the way of it; the other pair's bit stays.      *)
LEMMA UseSetsBits ==
    ASSUME NEW b \in Bits, NEW way \in Ways
    PROVE  /\ plru_update(b, way) \in Bits
           /\ InPair(plru_update(b, way), way) /\ Names(plru_update(b, way), way)
           /\ \A w \in Ways : \/ InPair(plru_update(b, way), w)
                              \/ Names(plru_update(b, way), w) <=> Names(b, w)
  <1>1. b.root \in {0, 1} /\ b.left \in {0, 1} /\ b.right \in {0, 1}
    BY DEF Bits
  <1>0. 0 \in 0..1 /\ 1 \in 0..1
    OBVIOUS
  <1>2. CASE way < 2
    <2> DEFINE c == [b EXCEPT !.root = 0, !.left = way]
    <2>1. plru_update(b, way) = c
      BY <1>2 DEF plru_update
    <2>2. way \in {0, 1}
      BY <1>2, FourWays
    <2>3. c.root = 0 /\ c.left = way /\ c.right = b.right
      BY DEF Bits
    <2>4. c \in Bits
      <3>1. way \in 0..1
        BY <2>2
      <3> QED
        BY <3>1, <1>0, Zenon DEF Bits
    <2> HIDE DEF c
    <2> QED
      BY <1>1, <1>2, <2>1, <2>2, <2>3, <2>4, FourWays DEF InPair, Names
  <1>3. CASE ~(way < 2)
    <2> DEFINE c == [b EXCEPT !.root = 1, !.right = way - 2]
    <2>1. plru_update(b, way) = c
      BY <1>3 DEF plru_update
    <2>2. way \in {2, 3}
      BY <1>3, FourWays
    <2>3. c.root = 1 /\ c.right = way - 2 /\ c.left = b.left
      BY DEF Bits
    <2>4. c \in Bits
      <3>1. way - 2 \in 0..1
        BY <2>2
      <3> QED
        BY <3>1, <1>0, Zenon DEF Bits
    <2> HIDE DEF c
    <2> QED
      BY <1>1, <1>3, <2>1, <2>2, <2>3, <2>4, FourWays DEF InPair, Names
  <1> QED
    BY <1>2, <1>3

(* A use of a way, recorded, keeps the bits and the history in agreement.  *)
LEMMA UseKeepsAgree ==
    ASSUME NEW b \in Bits, NEW used, Agree(b, used), NEW way \in Ways
    PROVE  /\ plru_update(b, way) \in Bits
           /\ Agree(plru_update(b, way), Newest(used, way))
  <1> DEFINE c == plru_update(b, way)
  <1>1. /\ c \in Bits /\ InPair(c, way) /\ Names(c, way)
        /\ \A w \in Ways : InPair(c, w) \/ (Names(c, w) <=> Names(b, w))
    BY UseSetsBits
  <1> HIDE DEF c
  <1>2. used \in Seq(Ways) /\ Len(used) \in {0, 1, 2}
    <2>1. used \in Seq(Ways) /\ Len(used) <= 2
      BY DEF Agree
    <2>2. Len(used) \in Nat
      BY <2>1, LenProperties
    <2>3. \A n \in Nat : n <= 2 => n \in {0, 1, 2}
      OBVIOUS
    <2> QED
      BY <2>1, <2>2, <2>3
  <1>3. CASE Len(used) = 0
    <2>1. Newest(used, way) = <<way>>
      BY <1>2, <1>3, NewestTwo
    <2> QED
      BY <1>1, <2>1 DEF Agree, c
  <1>4. CASE Len(used) # 0 /\ used[1] = way
    <2>1. Newest(used, way) = used
      BY <1>2, <1>4, NewestTwo
    <2>2. ASSUME Len(used) = 2
          PROVE  used[2] # used[1] /\ (InPair(c, used[2]) \/ Names(c, used[2]))
      <3>1. /\ used[2] \in Ways /\ used[2] # used[1]
            /\ InPair(b, used[2]) \/ Names(b, used[2])
            /\ InPair(b, way)
        BY <1>2, <1>4, <2>2 DEF Agree
      <3>2. InPair(b, used[2]) => InPair(c, used[2])
        BY <1>1, <3>1, FourWays DEF InPair
      <3> QED
        BY <1>1, <3>1, <3>2
    <2> QED
      BY <1>1, <1>2, <1>4, <2>1, <2>2 DEF Agree, c
  <1>5. CASE Len(used) # 0 /\ used[1] # way
    <2>1. used[1] \in Ways /\ Names(b, used[1])
      BY <1>2, <1>5 DEF Agree
    <2>2. Newest(used, way) = <<way, used[1]>>
      BY <1>2, <1>5, NewestTwo
    <2> QED
      BY <1>1, <1>5, <2>1, <2>2 DEF Agree, c
  <1> QED
    BY <1>2, <1>3, <1>4, <1>5

-----------------------------------------------------------------------------
(* The inductive invariant.  The tables hold what the guest wrote, but for *)
(* the A and D bits of the walks.                                          *)

Alike(x, y) == x.v = y.v /\ x.perm = y.perm /\ x.u = y.u /\ x.g = y.g /\ x.ppn = y.ppn

Marked(leaves) == {pte \in Ptes : \E x \in leaves : Alike(pte, x)}

TablesOK ==
    /\ guest \in Guests /\ satp \in guest.asids \union {Bare}
    /\ pt1 \in [guest.asids -> [Slots1 -> Marked(guest.leaves1)]]
    /\ pt0 \in [guest.asids -> [guest.pages -> Marked(guest.leaves0)]]

EntriesInPlace == entries = [s \in Sets |-> [w \in Ways |-> entries[s][w]]]

\* A guest whose level-1 entries are all pointers has no superpage cached.
SuperpagesWritten ==
    (\A pte \in guest.leaves1 : ~IsLeaf(pte)) =>
        \A s \in Sets, w \in Ways : entries[s][w].valid => ~entries[s][w].superpage

ReplacementOK ==
    /\ plru \in [Sets -> Bits]
    /\ recent = [s \in Sets |-> recent[s]]
    /\ \A s \in Sets : Agree(plru[s], recent[s])

MmuInv == TablesOK /\ EntriesInPlace /\ SuperpagesWritten /\ ReplacementOK

(* The parts of a page number index the tables and the TLB.                *)
LEMMA GuestPages ==
    ASSUME TablesOK, NEW v \in guest.pages
    PROVE  v \in Pages /\ Vpn1(v) \in Slots1 /\ set_of(v) \in Sets
  BY PageParts, MmuAssumption DEF TablesOK

(* With translation off satp names no address space.                       *)
LEMMA BareIsNoAsid ==
    ASSUME TablesOK
    PROVE  Bare \notin guest.asids /\ (satp # Bare => satp \in guest.asids)
  BY MmuAssumption DEF TablesOK, Bare

(* Marking an entry changes its A and D bits only.                         *)
LEMMA MarkIsAlike ==
    ASSUME NEW pte \in Ptes, NEW q
    PROVE  Mark(pte, q) \in Ptes /\ Alike(Mark(pte, q), pte)
  BY DEF Ptes, Mark, Alike

(* Setting A or D again gives an entry of the same leaf (translate_walk's  *)
(* pte |= PTE_A).                                                          *)
LEMMA MarkStaysMarked ==
    ASSUME NEW leaves, NEW pte \in Marked(leaves), NEW q
    PROVE  Mark(pte, q) \in Marked(leaves) /\ Alike(Mark(pte, q), pte)
  BY MarkIsAlike DEF Marked, Alike

(* A leaf as written is one of its own marked forms.                       *)
LEMMA WrittenIsMarked ==
    ASSUME NEW leaves, leaves \subseteq Ptes
    PROVE  leaves \subseteq Marked(leaves)
  BY DEF Marked, Alike

(* Where the walk ends, and what it finds there, does not depend on A, D.  *)
AlikeTables ==
    \A a \in guest.asids :
        /\ \A i \in Slots1 : Alike(pt1'[a][i], pt1[a][i])
        /\ \A v \in guest.pages : Alike(pt0'[a][v], pt0[a][v])

(* Writing A and D back keeps the tables in shape and every entry the same *)
(* mapping (translate_walk's store to the PTE).                            *)
LEMMA UpdateLeafKeeps ==
    ASSUME TablesOK, NEW vpn \in guest.pages, satp # Bare, NEW leaf, NEW q,
           UpdateLeaf(satp, vpn, leaf, q), UNCHANGED <<guest, satp>>
    PROVE  TablesOK' /\ AlikeTables
  <1> DEFINE i == Vpn1(vpn)
             L1 == Marked(guest.leaves1)
             L0 == Marked(guest.leaves0)
  <1>1. satp \in guest.asids /\ i \in Slots1
    BY BareIsNoAsid, GuestPages
  <1>2. /\ pt1 \in [guest.asids -> [Slots1 -> L1]]
        /\ pt0 \in [guest.asids -> [guest.pages -> L0]]
    BY DEF TablesOK
  <1>a. \A x : Alike(x, x)
    BY DEF Alike
  <1>3. /\ pt1' \in [guest.asids -> [Slots1 -> L1]]
        /\ \A a \in guest.asids : \A k \in Slots1 : Alike(pt1'[a][k], pt1[a][k])
    <2>1. CASE leaf.level = 1
      <3>1. pt1' = [pt1 EXCEPT ![satp][i] = Mark(@, q)]
        BY <2>1 DEF UpdateLeaf
      <3>2. Mark(pt1[satp][i], q) \in L1 /\ Alike(Mark(pt1[satp][i], q), pt1[satp][i])
        BY <1>1, <1>2, MarkStaysMarked
      <3> HIDE DEF i, L1
      <3> QED
        BY <1>1, <1>2, <1>a, <3>1, <3>2
    <2>2. CASE leaf.level # 1
      BY <1>2, <1>a, <2>2 DEF UpdateLeaf
    <2> QED
      BY <2>1, <2>2
  <1>4. /\ pt0' \in [guest.asids -> [guest.pages -> L0]]
        /\ \A a \in guest.asids : \A v \in guest.pages : Alike(pt0'[a][v], pt0[a][v])
    <2>1. CASE leaf.level = 0
      <3>1. pt0' = [pt0 EXCEPT ![satp][vpn] = Mark(@, q)]
        BY <2>1 DEF UpdateLeaf
      <3>2. Mark(pt0[satp][vpn], q) \in L0 /\ Alike(Mark(pt0[satp][vpn], q), pt0[satp][vpn])
        BY <1>1, <1>2, MarkStaysMarked
      <3> HIDE DEF L0
      <3> QED
        BY <1>1, <1>2, <1>a, <3>1, <3>2
    <2>2. CASE leaf.level # 0
      BY <1>2, <1>a, <2>2 DEF UpdateLeaf
    <2> QED
      BY <2>1, <2>2
  <1> QED
    BY <1>3, <1>4 DEF TablesOK, AlikeTables

(* A walk after it ends at the same level.                                 *)
LEMMA LeafAlike ==
    ASSUME TablesOK, AlikeTables, satp # Bare, UNCHANGED satp, NEW v \in guest.pages
    PROVE  /\ Leaf(satp, v)'.level = Leaf(satp, v).level
           /\ Alike(Leaf(satp, v)'.pte, Leaf(satp, v).pte)
  <1>1. Alike(pt1'[satp][Vpn1(v)], pt1[satp][Vpn1(v)]) /\ Alike(pt0'[satp][v], pt0[satp][v])
    BY GuestPages, BareIsNoAsid DEF AlikeTables
  <1> QED
    BY <1>1 DEF Leaf, Malformed, IsLeaf, Alike

(* ... and maps the page to the same place.                                *)
LEMMA MappingAlike ==
    ASSUME TablesOK, AlikeTables, satp # Bare, UNCHANGED <<guest, satp>>,
           NEW v \in guest.pages
    PROVE  TableMapping(satp, v)' = TableMapping(satp, v)
  <1>1. /\ Leaf(satp, v)'.level = Leaf(satp, v).level
        /\ Alike(Leaf(satp, v)'.pte, Leaf(satp, v).pte)
    BY LeafAlike
  <1>2. \A q : WalkAllows(Leaf(satp, v)'.pte, q) <=> WalkAllows(Leaf(satp, v).pte, q)
    BY <1>1 DEF WalkAllows, Alike
  <1>3. \A q : WalkAnswer(Leaf(satp, v)', v, q) = WalkAnswer(Leaf(satp, v), v, q)
    BY <1>1, <1>2 DEF WalkAnswer, Misaligned, WalkPpn, Alike
  <1> QED
    BY <1>1, <1>3 DEF TableMapping, Alike

-----------------------------------------------------------------------------
(* The invariant is inductive. *)

(* The way a fill takes is a way of its set (tlb.cpp:66-110).              *)
LEMMA FillWayIsWay ==
    ASSUME ReplacementOK, NEW set \in Sets, NEW vpn, NEW asid
    PROVE  FillWay(set, vpn, asid) \in Ways
  <1> DEFINE same == {w \in Ways : LET e == entries[set][w]
                                 IN e.valid /\ e.vpn = vpn /\ (e.global \/ e.asid = asid)}
             free == {w \in Ways : ~entries[set][w].valid}
  <1>1. same # {} => Min(same) \in Ways
    <2> HIDE DEF same
    <2>1. same \in SUBSET Ways
      BY DEF same
    <2> QED
      BY <2>1, LeastWay
  <1>2. free # {} => Min(free) \in Ways
    <2> HIDE DEF free
    <2>1. free \in SUBSET Ways
      BY DEF free
    <2> QED
      BY <2>1, LeastWay
  <1>3. plru_victim(plru[set]) \in Ways
    BY VictimSpares DEF ReplacementOK
  <1>4. FillWay(set, vpn, asid) = IF same # {} THEN Min(same)
                                  ELSE IF free # {} THEN Min(free) ELSE plru_victim(plru[set])
    BY DEF FillWay
  <1> HIDE DEF same, free
  <1> QED
    BY <1>1, <1>2, <1>3, <1>4

(* Using a way keeps the tree and the recent ways in agreement             *)
(* (plru_update).                                                          *)
LEMMA TouchKeeps ==
    ASSUME ReplacementOK, NEW set \in Sets, NEW way \in Ways, Touch(set, way)
    PROVE  ReplacementOK'
  <1>1. /\ plru' = [plru EXCEPT ![set] = plru_update(@, way)]
        /\ recent' = [recent EXCEPT ![set] = Newest(@, way)]
    BY DEF Touch, Newest
  <1>2. /\ plru_update(plru[set], way) \in Bits
        /\ Agree(plru_update(plru[set], way), Newest(recent[set], way))
    BY UseKeepsAgree DEF ReplacementOK
  <1> QED
    BY <1>1, <1>2 DEF ReplacementOK

(* A full flush empties every way and resets every tree (tlb_flush_all).   *)
LEMMA FlushAllKeeps ==
    ASSUME tlb_flush_all
    PROVE  EntriesInPlace' /\ ReplacementOK' /\ \A s \in Sets, w \in Ways : ~entries'[s][w].valid
  <1>1. EntriesInPlace' /\ \A s \in Sets, w \in Ways : ~entries'[s][w].valid
    BY DEF tlb_flush_all, EntriesInPlace, Empty
  <1>2. ZeroPlru \in Bits
    BY DEF ZeroPlru, Bits
  <1>3. Agree(ZeroPlru, <<>>)
    BY DEF Agree
  <1> QED
    BY <1>1, <1>2, <1>3 DEF tlb_flush_all, ReplacementOK

(* A flush leaves the entries it does not remove as they are.              *)
LEMMA FlushKeeps ==
    ASSUME NEW gone, Flush(gone)
    PROVE  /\ EntriesInPlace'
           /\ \A s \in Sets, w \in Ways : entries'[s][w].valid =>
                  <<s, w>> \notin gone /\ entries'[s][w] = entries[s][w]
  BY DEF Flush, EntriesInPlace, Empty

(* What a fill writes, and where.                                          *)
LEMMA FillPuts ==
    ASSUME EntriesInPlace, ReplacementOK, NEW vpn, set_of(vpn) \in Sets, NEW asid, NEW pte,
           NEW superpage, tlb_fill(vpn, asid, pte, superpage)
    PROVE  /\ EntriesInPlace' /\ ReplacementOK'
           /\ \A s \in Sets, w \in Ways :
                 \/ entries'[s][w] = entries[s][w]
                 \/ s = set_of(vpn) /\ entries'[s][w] = Filled(vpn, asid, pte, superpage)
  <1> DEFINE way == FillWay(set_of(vpn), vpn, asid)
             new == Filled(vpn, asid, pte, superpage)
  <1>1. way \in Ways
    BY FillWayIsWay
  <1>2. entries' = [entries EXCEPT ![set_of(vpn)][way] = new] /\ Touch(set_of(vpn), way)
    BY DEF tlb_fill
  <1> HIDE DEF way, new
  <1>3. ReplacementOK'
    BY <1>1, <1>2, TouchKeeps
  <1>4. entries' = [s \in Sets |-> [w \in Ways |->
                      IF s = set_of(vpn) /\ w = way THEN new ELSE entries[s][w]]]
    BY <1>1, <1>2 DEF EntriesInPlace
  <1> QED
    BY <1>3, <1>4 DEF EntriesInPlace, new

(* The TLB is empty at first.                                              *)
LEMMA MmuInit == ASSUME Init PROVE MmuInv
  <1>1. guest.leaves1 \subseteq Marked(guest.leaves1) /\ guest.leaves0 \subseteq Marked(guest.leaves0)
    BY WrittenIsMarked, MmuAssumption DEF Init
  <1>2. TablesOK
    BY <1>1 DEF Init, TablesOK
  <1>3. EntriesInPlace /\ SuperpagesWritten
    BY DEF Init, EntriesInPlace, SuperpagesWritten, Empty
  <1>4. ReplacementOK
    <2>1. ZeroPlru \in Bits
      BY DEF ZeroPlru, Bits
    <2>2. Agree(ZeroPlru, <<>>)
      BY DEF Agree
    <2> QED
      BY <2>1, <2>2 DEF Init, ReplacementOK
  <1> QED
    BY <1>2, <1>3, <1>4 DEF MmuInv

(* A hit moves its way up and changes no entry (translate, plru_update).   *)
LEMMA HitKeeps ==
    ASSUME MmuInv, UNCHANGED guest, NEW vpn \in guest.pages, NEW q, AccessHit(vpn, q)
    PROVE  MmuInv'
  <1>1. UNCHANGED <<satp, pt1, pt0, entries>>
    BY DEF AccessHit, memory
  <1>2. set_of(vpn) \in Sets
    BY GuestPages DEF MmuInv
  <1> DEFINE hits == HitWays(vpn, satp)
  <1>3. hits \in SUBSET Ways /\ hits # {} /\ Touch(set_of(vpn), Min(hits))
    BY DEF AccessHit, HitWays
  <1> HIDE DEF hits
  <1>4. ReplacementOK'
    BY <1>2, <1>3, LeastWay, TouchKeeps DEF MmuInv
  <1> QED
    BY <1>1, <1>4 DEF MmuInv, TablesOK, EntriesInPlace, SuperpagesWritten

(* The levels a walk ends at, and what it finds there.                     *)
LEMMA LeafIs ==
    ASSUME TablesOK, NEW a \in guest.asids, NEW v \in guest.pages
    PROVE  /\ Leaf(a, v).level \in {-1, 0, 1}
           /\ Leaf(a, v).level = 1 => /\ Leaf(a, v).pte = pt1[a][Vpn1(v)]
                                      /\ IsLeaf(Leaf(a, v).pte)
           /\ Leaf(a, v).level = 0 => Leaf(a, v).pte = pt0[a][v]
  BY DEF Leaf

(* The fields tlb_fill writes.                                             *)
LEMMA FilledFields ==
    ASSUME NEW vpn, NEW asid, NEW pte, NEW superpage
    PROVE  LET e == Filled(vpn, asid, pte, superpage)
           IN  /\ e.vpn = vpn /\ e.asid = asid /\ e.perm = pte.perm /\ e.user = pte.u
               /\ e.global = pte.g /\ e.superpage = superpage
               /\ e.ppn = IF superpage THEN pte.ppn \div N0 ELSE pte.ppn
  BY DEF Filled

(* A walk fills an entry only once its leaf allows the access.             *)
LEMMA WalkKeeps ==
    ASSUME MmuInv, UNCHANGED guest, NEW vpn \in guest.pages, NEW q, translate_walk(vpn, q)
    PROVE  MmuInv' /\ AlikeTables
  <1> DEFINE leaf == Leaf(satp, vpn)
  <1>0. satp \in guest.asids /\ set_of(vpn) \in Sets /\ UNCHANGED satp
    BY BareIsNoAsid, GuestPages DEF MmuInv, translate_walk
  <1>1. CASE ~(leaf.level >= 0 /\ WalkAllows(leaf.pte, q))
    <2>1. UNCHANGED <<satp, pt1, pt0, entries, plru, recent>>
      BY <1>1 DEF translate_walk, memory, tlb
    <2> QED
      BY <2>1 DEF MmuInv, TablesOK, EntriesInPlace, SuperpagesWritten, ReplacementOK,
                  AlikeTables, Alike
  <1>2. CASE leaf.level >= 0 /\ WalkAllows(leaf.pte, q)
    <2>1. UpdateLeaf(satp, vpn, leaf, q) /\ satp # Bare
      BY <1>2 DEF translate_walk
    <2>2. TablesOK' /\ AlikeTables
      <3> HIDE DEF leaf
      <3> QED
        BY <1>0, <2>1, UpdateLeafKeeps DEF MmuInv
    <2>3. CASE Misaligned(leaf)
      <3>1. UNCHANGED <<entries, plru, recent>>
        BY <1>2, <2>3 DEF translate_walk, tlb
      <3> QED
        BY <2>2, <3>1 DEF MmuInv, EntriesInPlace, SuperpagesWritten, ReplacementOK
    <2>4. CASE ~Misaligned(leaf)
      <3>1. tlb_fill(vpn, satp, leaf.pte, leaf.level = 1)
        BY <1>2, <2>4 DEF translate_walk
      <3>2. /\ EntriesInPlace' /\ ReplacementOK'
            /\ \A s \in Sets, w \in Ways :
                 \/ entries'[s][w] = entries[s][w]
                 \/ s = set_of(vpn) /\ entries'[s][w] = Filled(vpn, satp, leaf.pte, leaf.level = 1)
        BY <1>0, <3>1, FillPuts DEF MmuInv
      <3>3. SuperpagesWritten'
        <4> SUFFICES ASSUME \A pte \in guest.leaves1 : ~IsLeaf(pte),
                            NEW s \in Sets, NEW w \in Ways, entries'[s][w].valid
                     PROVE  ~entries'[s][w].superpage
          BY DEF SuperpagesWritten
        <4>1. leaf.level # 1
          <5>1. pt1[satp][Vpn1(vpn)] \in Marked(guest.leaves1)
            BY <1>0, GuestPages DEF MmuInv, TablesOK
          <5>2. ~IsLeaf(pt1[satp][Vpn1(vpn)])
            BY <5>1 DEF Marked, Alike, IsLeaf
          <5> QED
            BY <1>0, <5>2, LeafIs DEF MmuInv
        <4>2. CASE entries'[s][w] = entries[s][w]
          BY <4>2 DEF MmuInv, SuperpagesWritten
        <4>3. CASE entries'[s][w] = Filled(vpn, satp, leaf.pte, leaf.level = 1)
          <5> HIDE DEF leaf
          <5>1. \A b : Filled(vpn, satp, leaf.pte, b).superpage = b
            BY FilledFields
          <5>2. entries'[s][w].superpage = (leaf.level = 1)
            BY <4>3, <5>1, Zenon
          <5> QED
            BY <4>1, <5>2, Zenon
        <4> QED
          BY <3>2, <4>2, <4>3
      <3> QED
        BY <2>2, <3>2, <3>3 DEF MmuInv
    <2> QED
      BY <2>3, <2>4
  <1> QED
    BY <1>1, <1>2

(* A fence invalidates entries and nothing else (tlb_flush_va,             *)
(* tlb_flush_asid).                                                        *)
LEMMA FenceKeeps ==
    ASSUME MmuInv, UNCHANGED guest, NEW p, NEW a, SFenceVma(p, a)
    PROVE  MmuInv'
  <1>1. UNCHANGED <<satp, pt1, pt0>>
    BY DEF SFenceVma, memory
  <1>2. TablesOK'
    BY <1>1 DEF MmuInv, TablesOK
  <1>3. CASE tlb_flush_all
    BY <1>2, <1>3, FlushAllKeeps DEF MmuInv, SuperpagesWritten
  <1>4. ASSUME NEW gone, Flush(gone), UNCHANGED <<plru, recent>>
        PROVE  MmuInv'
    <2>1. EntriesInPlace' /\ SuperpagesWritten'
      BY <1>4, FlushKeeps DEF MmuInv, SuperpagesWritten
    <2> QED
      BY <1>2, <1>4, <2>1 DEF MmuInv, ReplacementOK
  <1>5. \/ tlb_flush_all \/ tlb_flush_asid(a) \/ tlb_flush_va(p) \/ tlb_flush_va_asid(p, a)
    BY DEF SFenceVma
  <1> QED
    BY <1>3, <1>4, <1>5 DEF tlb_flush_asid, tlb_flush_va, tlb_flush_va_asid

(* Writing satp empties the TLB (writeCSR).                                *)
LEMMA WriteSatpKeeps ==
    ASSUME MmuInv, UNCHANGED guest, NEW s \in guest.asids \union {Bare}, WriteSatp(s)
    PROVE  MmuInv'
  <1>1. TablesOK'
    BY DEF MmuInv, TablesOK, WriteSatp, memory
  <1> QED
    BY <1>1, FlushAllKeeps DEF MmuInv, SuperpagesWritten, WriteSatp

(* The guest writes its tables.                                            *)
LEMMA WriteTableKeeps ==
    ASSUME MmuInv, UNCHANGED guest, WriteTable
    PROVE  MmuInv'
  <1>1. guest.leaves1 \subseteq Marked(guest.leaves1) /\ guest.leaves0 \subseteq Marked(guest.leaves0)
    BY WrittenIsMarked, MmuAssumption DEF MmuInv, TablesOK
  <1>2. UNCHANGED <<satp, entries, plru, recent>>
    BY DEF WriteTable, tlb
  <1>3. TablesOK'
    <2>1. PICK a \in guest.asids :
             \/ /\ \E i \in Slots1, pte \in guest.leaves1 : pt1' = [pt1 EXCEPT ![a][i] = pte]
                /\ UNCHANGED pt0
             \/ /\ \E v \in guest.pages, pte \in guest.leaves0 : pt0' = [pt0 EXCEPT ![a][v] = pte]
                /\ UNCHANGED pt1
      BY DEF WriteTable
    <2>2. /\ pt1 \in [guest.asids -> [Slots1 -> Marked(guest.leaves1)]]
          /\ pt0 \in [guest.asids -> [guest.pages -> Marked(guest.leaves0)]]
      BY DEF MmuInv, TablesOK
    <2> DEFINE L1 == Marked(guest.leaves1)
               L0 == Marked(guest.leaves0)
    <2>3. pt1' \in [guest.asids -> [Slots1 -> L1]]
      <3>1. ASSUME NEW i \in Slots1, NEW pte \in L1, pt1' = [pt1 EXCEPT ![a][i] = pte]
            PROVE  pt1' \in [guest.asids -> [Slots1 -> L1]]
        <4> HIDE DEF L1
        <4> QED
          BY <2>2, <3>1 DEF L1
      <3> QED
        BY <1>1, <2>1, <2>2, <3>1
    <2>4. pt0' \in [guest.asids -> [guest.pages -> L0]]
      <3>1. ASSUME NEW v \in guest.pages, NEW pte \in L0, pt0' = [pt0 EXCEPT ![a][v] = pte]
            PROVE  pt0' \in [guest.asids -> [guest.pages -> L0]]
        <4> HIDE DEF L0
        <4> QED
          BY <2>2, <3>1 DEF L0
      <3> QED
        BY <1>1, <2>1, <2>2, <3>1
    <2> QED
      BY <1>2, <2>3, <2>4 DEF MmuInv, TablesOK
  <1> QED
    BY <1>2, <1>3 DEF MmuInv, EntriesInPlace, SuperpagesWritten, ReplacementOK

(* Every step keeps the TLB and the tables in order.                       *)
LEMMA MmuStep == ASSUME MmuInv, [Next]_vars PROVE MmuInv'
  <1>1. ASSUME UNCHANGED <<guest, satp, pt1, pt0, entries, plru, recent>> PROVE MmuInv'
    BY <1>1 DEF MmuInv, TablesOK, EntriesInPlace, SuperpagesWritten, ReplacementOK
  <1>2. CASE UNCHANGED vars
    BY <1>1, <1>2 DEF vars, memory, tlb
  <1>3. CASE Next
    <2>1. UNCHANGED guest
      BY <1>3 DEF Next
    <2>2. ASSUME NEW v \in guest.pages, NEW q \in guest.requests,
                 AccessBare(v, q) \/ AccessHit(v, q) \/ translate_walk(v, q)
          PROVE  MmuInv'
      <3>1. CASE AccessBare(v, q)
        BY <1>1, <2>1, <3>1 DEF AccessBare, memory, tlb
      <3> QED
        BY <2>1, <2>2, <3>1, HitKeeps, WalkKeeps
    <2>3. ASSUME NEW f \in guest.fences, SFenceVma(f[1], f[2]) PROVE MmuInv'
      BY <2>1, <2>3, FenceKeeps
    <2> QED
      BY <1>3, <2>1, <2>2, <2>3, WriteSatpKeeps, WriteTableKeeps DEF Next
  <1> QED
    BY <1>2, <1>3

(* Replacement spares the two ways of the set that were used last.         *)
THEOREM VictimIsNotRecent == Spec => []VictimNotRecent
  <1>1. MmuInv => VictimNotRecent
    BY VictimSpares DEF MmuInv, ReplacementOK, VictimNotRecent
  <1> QED
    BY <1>1, MmuInit, MmuStep, PTL DEF Spec

-----------------------------------------------------------------------------
(* The MMU implements Translation, for the guests the code serves: a hit   *)
(* does not look at MXR (mmu.cpp:22-34), so MXR must make no difference to *)
(* them, and a fence of one page reaches one set of the TLB                *)
(* (tlb.cpp:127-159), so a superpage they fence by one of its pages must   *)
(* have its pages in that set.                                             *)

MxrMakesNoDifference ==
    \A g \in Guests : \A q \in g.requests, pte \in g.leaves1 \union g.leaves0 :
        q.type = "R" /\ q.mxr /\ "X" \in pte.perm => "R" \in pte.perm

PageFencesReach ==
    \A g \in Guests : \A f \in g.fences :
        f[1] # Every => \/ \A pte \in g.leaves1 : ~IsLeaf(pte)
                        \/ \A v \in g.pages :
                              Vpn1(v) = Vpn1(f[1]) => set_of(v) = set_of(f[1])

(* With MXR out of play, the checks of a hit are those of the walk.        *)
LEMMA ChecksAgree ==
    ASSUME MmuInv, MxrMakesNoDifference, NEW q \in guest.requests,
           NEW pte \in Marked(guest.leaves1) \union Marked(guest.leaves0)
    PROVE  WalkAllows(pte, q) <=> UserAllows(pte.u, q) /\ q.type \in pte.perm
  <1>1. q.type = "R" /\ q.mxr /\ "X" \in pte.perm => "R" \in pte.perm
    <2>1. PICK x \in guest.leaves1 \union guest.leaves0 : Alike(pte, x)
      BY DEF Marked
    <2> QED
      BY <2>1 DEF MxrMakesNoDifference, Alike, MmuInv, TablesOK
  <1> QED
    BY <1>1 DEF WalkAllows

(* An entry just filled answers as the tables do, for every page it hits.  *)
LEMMA FilledAnswersAsTables ==
    ASSUME MmuInv, MxrMakesNoDifference, satp # Bare,
           NEW vpn \in guest.pages, NEW v \in guest.pages,
           Leaf(satp, vpn).level >= 0, ~Misaligned(Leaf(satp, vpn)),
           MatchesPage(Filled(vpn, satp, Leaf(satp, vpn).pte, Leaf(satp, vpn).level = 1), v)
    PROVE  EntryMapping(Filled(vpn, satp, Leaf(satp, vpn).pte, Leaf(satp, vpn).level = 1), v)
              = TableMapping(satp, v)
  <1> DEFINE leaf == Leaf(satp, vpn)
             super == leaf.level = 1
             e == Filled(vpn, satp, leaf.pte, super)
  <1>0. satp \in guest.asids /\ TablesOK
    BY BareIsNoAsid DEF MmuInv
  <1>1. /\ e.vpn = vpn /\ e.asid = satp /\ e.perm = leaf.pte.perm /\ e.user = leaf.pte.u
        /\ e.global = leaf.pte.g
        /\ e.ppn = IF super THEN leaf.pte.ppn \div N0 ELSE leaf.pte.ppn
    <2> HIDE DEF leaf, super
    <2> QED
      BY FilledFields DEF e
  <1>2. e.superpage = super
    <2> HIDE DEF leaf, super
    <2> QED
      BY FilledFields DEF e
  <1>3. leaf.level \in {0, 1} /\ leaf.pte \in Marked(guest.leaves1) \union Marked(guest.leaves0)
    <2>1. /\ pt1[satp][Vpn1(vpn)] \in Marked(guest.leaves1)
          /\ pt0[satp][vpn] \in Marked(guest.leaves0)
      BY <1>0, GuestPages DEF TablesOK
    <2>2. leaf.level \in {0, 1}
      BY <1>0, LeafIs
    <2> QED
      BY <1>0, <2>1, <2>2, LeafIs
  <1> HIDE DEF e
  <1>4. Leaf(satp, v) = leaf /\ (super => Vpn1(v) = Vpn1(vpn)) /\ (~super => v = vpn)
    <2>1. CASE super
      <3>1. Vpn1(v) = Vpn1(vpn)
        BY <1>1, <1>2, <2>1 DEF MatchesPage, e
      <3> QED
        BY <2>1, <3>1 DEF Leaf
    <2>2. CASE ~super
      <3>1. v = vpn
        BY <1>1, <1>2, <2>2 DEF MatchesPage, e
      <3> QED
        BY <2>2, <3>1
    <2> QED
      BY <2>1, <2>2
  <1>5. ASSUME NEW q \in guest.requests
        PROVE  HitAnswer(e, v, q) = WalkAnswer(Leaf(satp, v), v, q)
    <2> HIDE DEF leaf
    <2>1. WalkAllows(leaf.pte, q) <=> check_tlb_permissions(e, q)
      BY <1>1, <1>3, ChecksAgree DEF check_tlb_permissions
    <2>2. HitPpn(e, v) = WalkPpn(leaf, v)
      BY <1>1, <1>2 DEF HitPpn, WalkPpn
    <2> QED
      BY <1>3, <1>4, <2>1, <2>2 DEF HitAnswer, WalkAnswer, leaf
  <1>6. satp # Bare /\ TableMapping(satp, v) =
           [result |-> [q \in guest.requests |-> WalkAnswer(Leaf(satp, v), v, q)],
            global |-> leaf.pte.g,
            extent |-> IF super THEN SlotPages[Vpn1(v)] ELSE {v}]
    BY <1>4 DEF TableMapping
  <1>7. EntryMapping(e, v) =
           [result |-> [q \in guest.requests |-> HitAnswer(e, v, q)],
            global |-> leaf.pte.g,
            extent |-> IF super THEN SlotPages[Vpn1(v)] ELSE {v}]
    BY <1>1, <1>2 DEF EntryMapping
  <1> HIDE DEF leaf, super
  <1>8. EntryMapping(e, v) = TableMapping(satp, v)
    BY <1>5, <1>6, <1>7
  <1> QED
    BY <1>8 DEF e, super, leaf

(* What a page may be answered by after a step: its tables, or an entry    *)
(* that hits it.                                                           *)
LEMMA KeepsIf ==
    ASSUME UNCHANGED guest, NEW kept,
           \A v \in guest.pages :
              CachedMappings(v)' \subseteq kept[v] \union {TableMapping(satp, v)'}
    PROVE  Abstract!Keeps(kept)
  BY DEF Abstract!Keeps

AbsNow == [v \in guest.pages |-> TableMapping(satp, v)]
AbsMay == [v \in guest.pages |-> {TableMapping(satp, v)} \union CachedMappings(v)]

(* An access answered from page v's mappings, that adds none but the       *)
(* tables', is an Access.                                                  *)
LEMMA AccessRefines ==
    ASSUME UNCHANGED <<guest, satp>>, NEW v \in guest.pages, NEW q \in guest.requests, NEW res,
           last' = <<"access", v, q, res>>,
           \E m \in AbsMay[v] : m.result[q] = res,
           \A u \in guest.pages : TableMapping(satp, u)' = TableMapping(satp, u),
           \A u \in guest.pages : CachedMappings(u)' \subseteq AbsMay[u]
    PROVE  Abstract!Next
  <1>1. Abstract!Keeps(AbsMay)
    BY KeepsIf
  <1>2. UNCHANGED AbsNow
    BY DEF AbsNow
  <1> QED
    BY <1>1, <1>2 DEF Abstract!Next, Abstract!Does, Abstract!Access, AbsNow, AbsMay

(* With translation off an access maps to itself.                          *)
LEMMA BareRefines ==
    ASSUME MmuInv, UNCHANGED guest, NEW v \in guest.pages, NEW q \in guest.requests,
           AccessBare(v, q)
    PROVE  Abstract!Next
  <1>1. /\ UNCHANGED <<satp, pt1, pt0, entries>> /\ satp = Bare
        /\ last' = <<"access", v, q, v>>
    BY DEF AccessBare, memory, tlb
  <1>2. \A u \in guest.pages : TableMapping(satp, u)' = TableMapping(satp, u)
    BY <1>1 DEF TableMapping
  <1>3. \A u \in guest.pages : CachedMappings(u)' = {}
    BY <1>1 DEF CachedMappings
  <1>4. TableMapping(satp, v) \in AbsMay[v] /\ TableMapping(satp, v).result[q] = v
    BY <1>1 DEF AbsMay, TableMapping
  <1> QED
    BY <1>1, <1>2, <1>3, <1>4, AccessRefines

(* A hit answers with a mapping that may still be used.                    *)
LEMMA HitRefines ==
    ASSUME MmuInv, UNCHANGED guest, NEW v \in guest.pages, NEW q \in guest.requests,
           AccessHit(v, q)
    PROVE  Abstract!Next
  <1> DEFINE hits == HitWays(v, satp)
             e == entries[set_of(v)][Min(hits)]
  <1>1. /\ UNCHANGED <<satp, pt1, pt0, entries>> /\ satp # Bare /\ hits # {}
        /\ last' = <<"access", v, q, HitAnswer(e, v, q)>>
    BY DEF AccessHit, memory
  <1>2. Min(hits) \in hits
    <2>1. hits \in SUBSET Ways
      BY DEF HitWays
    <2> HIDE DEF hits
    <2> QED
      BY <1>1, <2>1, LeastWay
  <1>3. \A u \in guest.pages : TableMapping(satp, u)' = TableMapping(satp, u)
    BY <1>1 DEF TableMapping, Leaf
  <1>4. \A u \in guest.pages : CachedMappings(u)' = CachedMappings(u)
    BY <1>1 DEF CachedMappings, HitWays, EntryMapping
  <1>5. \A u \in guest.pages : CachedMappings(u)' \subseteq AbsMay[u]
    BY <1>4 DEF AbsMay
  <1>6. EntryMapping(e, v) \in AbsMay[v]
    <2> HIDE DEF hits
    <2>1. EntryMapping(e, v) \in CachedMappings(v)
      BY <1>1, <1>2 DEF CachedMappings, hits
    <2> QED
      BY <2>1 DEF AbsMay
  <1>7. EntryMapping(e, v).result[q] = HitAnswer(e, v, q)
    BY DEF EntryMapping
  <1> HIDE DEF e
  <1> QED
    BY <1>1, <1>3, <1>5, <1>6, <1>7, AccessRefines

(* A walk answers from the tables and caches what it found.                *)
LEMMA WalkRefines ==
    ASSUME MmuInv, MxrMakesNoDifference, UNCHANGED guest,
           NEW vpn \in guest.pages, NEW q \in guest.requests, translate_walk(vpn, q)
    PROVE  Abstract!Next
  <1> DEFINE leaf == Leaf(satp, vpn)
             new == Filled(vpn, satp, leaf.pte, leaf.level = 1)
  <1>1. /\ UNCHANGED satp /\ satp # Bare /\ satp \in guest.asids
        /\ last' = <<"access", vpn, q, WalkAnswer(leaf, vpn, q)>>
    BY BareIsNoAsid DEF translate_walk, MmuInv
  <1>2. \A u \in guest.pages : TableMapping(satp, u)' = TableMapping(satp, u)
    <2>1. AlikeTables
      BY WalkKeeps
    <2> QED
      BY <1>1, <2>1, MappingAlike DEF MmuInv
  <1>3. \A s \in Sets, w \in Ways :
           \/ entries'[s][w] = entries[s][w]
           \/ /\ s = set_of(vpn) /\ entries'[s][w] = new
              /\ leaf.level >= 0 /\ ~Misaligned(leaf)
    <2>1. CASE leaf.level >= 0 /\ WalkAllows(leaf.pte, q) /\ ~Misaligned(leaf)
      <3>1. tlb_fill(vpn, satp, leaf.pte, leaf.level = 1) /\ set_of(vpn) \in Sets
        BY <2>1, GuestPages DEF translate_walk, MmuInv
      <3> HIDE DEF leaf
      <3> QED
        BY <2>1, <3>1, FillPuts DEF MmuInv, new
    <2>2. CASE ~(leaf.level >= 0 /\ WalkAllows(leaf.pte, q) /\ ~Misaligned(leaf))
      BY <2>2 DEF translate_walk, tlb
    <2> QED
      BY <2>1, <2>2
  <1> HIDE DEF new
  <1>4. ASSUME NEW u \in guest.pages
        PROVE  CachedMappings(u)' \subseteq AbsMay[u]
    <2> SUFFICES ASSUME NEW w \in HitWays(u, satp)'
                 PROVE  EntryMapping(entries'[set_of(u)][w], u) \in AbsMay[u]
      BY <1>1 DEF CachedMappings, EntryMapping
    <2>1. w \in Ways /\ Hit(entries'[set_of(u)][w], u, satp) /\ set_of(u) \in Sets
      BY <1>1, GuestPages DEF HitWays, MmuInv
    <2>2. CASE entries'[set_of(u)][w] = entries[set_of(u)][w]
      <3>1. w \in HitWays(u, satp)
        BY <2>1, <2>2 DEF HitWays
      <3> QED
        BY <1>1, <2>2, <3>1 DEF CachedMappings, AbsMay
    <2>3. CASE /\ entries'[set_of(u)][w] = new
               /\ leaf.level >= 0 /\ ~Misaligned(leaf)
      <3>1. MatchesPage(new, u)
        BY <2>1, <2>3 DEF Hit
      <3>2. EntryMapping(new, u) = TableMapping(satp, u)
        BY <1>1, <2>3, <3>1, FilledAnswersAsTables DEF new
      <3> QED
        BY <2>3, <3>2 DEF AbsMay
    <2> QED
      BY <1>3, <2>1, <2>2, <2>3
  <1>5. TableMapping(satp, vpn) \in AbsMay[vpn]
    BY DEF AbsMay
  <1>6. TableMapping(satp, vpn).result[q] = WalkAnswer(leaf, vpn, q)
    BY <1>1 DEF TableMapping
  <1> HIDE DEF leaf
  <1> QED
    BY <1>1, <1>2, <1>4, <1>5, <1>6, AccessRefines

(* An entry still there after a fence is none the fence covers.            *)
LEMMA FenceSpares ==
    ASSUME MmuInv, PageFencesReach, UNCHANGED guest, NEW f \in guest.fences,
           SFenceVma(f[1], f[2]), satp # Bare,
           NEW v \in guest.pages, NEW w \in Ways, Hit(entries'[set_of(v)][w], v, satp)
    PROVE  /\ entries'[set_of(v)][w] = entries[set_of(v)][w]
           /\ ~Abstract!Covered(f[1], f[2], EntryMapping(entries[set_of(v)][w], v))
  <1> DEFINE p == f[1]
             a == f[2]
             s == set_of(v)
             e == entries[s][w]
             m == EntryMapping(e, v)
  <1>0. /\ s \in Sets /\ v \in Pages /\ guest \in Guests /\ entries'[s][w].valid
        /\ p \in Pages \union {Every} /\ a \in Asids \union {Every}
    BY GuestPages, MmuAssumption DEF MmuInv, TablesOK, Hit
  <1>1. ~tlb_flush_all
    BY <1>0, FlushAllKeeps
  <1>2. \A gone : Flush(gone) => entries'[s][w] = e /\ <<s, w>> \notin gone
    BY <1>0, FlushKeeps
  <1>3. /\ m.global = e.global
        /\ m.extent = IF e.superpage THEN SlotPages[Vpn1(v)] ELSE {v}
    BY DEF EntryMapping
  <1>4. ASSUME e.superpage, p # Every, p \in m.extent
        PROVE  Vpn1(p) = Vpn1(v)
    BY <1>0, <1>3, <1>4, PageParts DEF SlotPages
  <1>5. ASSUME p # Every, p \in m.extent, e.valid, MatchesPage(e, v)
        PROVE  s = set_of(p) /\ MatchesPage(e, p)
    <2>1. CASE e.superpage
      <3>1. Vpn1(p) = Vpn1(v)
        BY <1>4, <1>5, <2>1
      <3>2. ~ \A pte \in guest.leaves1 : ~IsLeaf(pte)
        BY <1>0, <1>5, <2>1 DEF MmuInv, SuperpagesWritten
      <3>3. set_of(v) = set_of(p)
        BY <1>0, <1>5, <3>1, <3>2 DEF PageFencesReach
      <3> QED
        BY <1>5, <2>1, <3>1, <3>3 DEF MatchesPage
    <2>2. CASE ~e.superpage
      BY <1>3, <1>5, <2>2
    <2> QED
      BY <2>1, <2>2
  <1> HIDE DEF p, a, s, e, m
  <1>6. SFenceVma(p, a) /\ Hit(entries'[s][w], v, satp)
    BY DEF p, a, s
  <1>7. CASE p = Every /\ a # Every
    <2>1. tlb_flush_asid(a)
      BY <1>6, <1>7 DEF SFenceVma
    <2>2. entries'[s][w] = e /\ ~(e.valid /\ ~e.global /\ e.asid = a)
      BY <1>0, <1>2, <2>1 DEF tlb_flush_asid, At, e
    <2>3. ~(a = satp /\ ~m.global)
      BY <1>3, <1>6, <2>2 DEF Hit
    <2> QED
      BY <1>7, <2>2, <2>3 DEF Abstract!Covered, p, a, s, e, m
  <1>8. CASE p # Every /\ a = Every
    <2>1. tlb_flush_va(p)
      BY <1>6, <1>8 DEF SFenceVma
    <2>2. entries'[s][w] = e /\ ~(s = set_of(p) /\ e.valid /\ MatchesPage(e, p))
      BY <1>0, <1>2, <2>1 DEF tlb_flush_va, At, e, EntriesOf
    <2>3. p \notin m.extent
      BY <1>5, <1>6, <1>8, <2>2 DEF Hit
    <2> QED
      BY <1>8, <2>2, <2>3 DEF Abstract!Covered, p, a, s, e, m
  <1>9. CASE p # Every /\ a # Every
    <2>1. tlb_flush_va_asid(p, a)
      BY <1>6, <1>9 DEF SFenceVma
    <2>2. entries'[s][w] = e /\ ~(s = set_of(p) /\ Hit(e, p, a))
      BY <1>0, <1>2, <2>1 DEF tlb_flush_va_asid, At, e, EntriesOf
    <2>3. ~(p \in m.extent /\ a = satp /\ ~m.global)
      BY <1>3, <1>5, <1>6, <1>9, <2>2 DEF Hit
    <2> QED
      BY <1>9, <2>2, <2>3 DEF Abstract!Covered, p, a, s, e, m
  <1>10. CASE p = Every /\ a = Every
    BY <1>1, <1>6, <1>10 DEF SFenceVma
  <1> QED
    BY <1>7, <1>8, <1>9, <1>10

(* A fence drops the mappings it names, so none of them may be used after  *)
(* it.                                                                     *)
LEMMA FenceRefines ==
    ASSUME MmuInv, PageFencesReach, UNCHANGED guest, NEW f \in guest.fences,
           SFenceVma(f[1], f[2])
    PROVE  Abstract!Next
  <1> DEFINE kept == [v \in DOMAIN AbsMay |->
                        {m \in AbsMay[v] : ~Abstract!Covered(f[1], f[2], m)}]
  <1>1. UNCHANGED <<satp, pt1, pt0>> /\ last' = <<"fence", f[1], f[2]>>
    BY DEF SFenceVma, memory
  <1>2. \A v \in guest.pages : TableMapping(satp, v)' = TableMapping(satp, v)
    BY <1>1 DEF TableMapping, Leaf
  <1>3. ASSUME NEW v \in guest.pages
        PROVE  CachedMappings(v)' \subseteq kept[v]
    <2> SUFFICES ASSUME satp # Bare, NEW w \in HitWays(v, satp)'
                 PROVE  EntryMapping(entries'[set_of(v)][w], v) \in kept[v]
      BY <1>1 DEF CachedMappings, EntryMapping
    <2>1. w \in Ways /\ Hit(entries'[set_of(v)][w], v, satp)
      BY <1>1 DEF HitWays
    <2>2. /\ entries'[set_of(v)][w] = entries[set_of(v)][w]
          /\ ~Abstract!Covered(f[1], f[2], EntryMapping(entries[set_of(v)][w], v))
      BY <2>1, FenceSpares
    <2>3. EntryMapping(entries[set_of(v)][w], v) \in AbsMay[v]
      BY <2>1, <2>2 DEF AbsMay, CachedMappings, HitWays
    <2> QED
      BY <2>2, <2>3 DEF AbsMay
  <1>4. Abstract!Keeps(kept)
    <2> HIDE DEF kept
    <2> QED
      BY <1>3, KeepsIf
  <1>5. UNCHANGED AbsNow
    BY <1>2 DEF AbsNow
  <1> QED
    BY <1>1, <1>4, <1>5 DEF Abstract!Next, Abstract!Does, Abstract!Fence, AbsNow, AbsMay

(* Writing satp moves to the other space and drops every mapping.          *)
LEMMA SatpRefines ==
    ASSUME MmuInv, UNCHANGED guest, NEW s \in guest.asids \union {Bare}, WriteSatp(s)
    PROVE  Abstract!Next
  <1> DEFINE kept == [v \in DOMAIN AbsMay |-> {}]
  <1>1. satp' = s /\ last' = <<"satp", s>>
    BY DEF WriteSatp
  <1>2. \A v \in guest.pages : CachedMappings(v)' = {}
    <2> SUFFICES ASSUME NEW v \in guest.pages PROVE HitWays(v, satp)' = {}
      BY DEF CachedMappings
    <2>1. set_of(v) \in Sets
      BY GuestPages DEF MmuInv
    <2> QED
      BY <2>1, FlushAllKeeps DEF WriteSatp, HitWays, Hit
  <1>3. Abstract!Keeps(kept)
    BY <1>2, KeepsIf
  <1> QED
    BY <1>1, <1>3 DEF Abstract!Next, Abstract!Does, Abstract!WriteSpace, AbsMay

(* Writing a table leaves the old mappings usable until a fence.           *)
LEMMA TableRefines ==
    ASSUME MmuInv, UNCHANGED guest, WriteTable
    PROVE  Abstract!Next
  <1>1. UNCHANGED <<satp, entries>> /\ last' = <<"write">>
    BY DEF WriteTable, tlb
  <1>2. \A v \in guest.pages : CachedMappings(v)' = CachedMappings(v)
    BY <1>1 DEF CachedMappings, HitWays, EntryMapping
  <1>3. \A v \in guest.pages : CachedMappings(v)' \subseteq AbsMay[v]
    BY <1>2 DEF AbsMay
  <1>4. Abstract!Keeps(AbsMay)
    BY <1>3, KeepsIf
  <1> QED
    BY <1>1, <1>4 DEF Abstract!Next, Abstract!Does, Abstract!WriteTables, AbsMay

(* Every access is answered as the tables say, or by a mapping that no     *)
(* fence has covered since the tables held it.                             *)
THEOREM MmuImplementsTranslation ==
    ASSUME MxrMakesNoDifference, PageFencesReach
    PROVE  Spec => Refines
  <1>1. Init => Abstract!Init
    <2> SUFFICES ASSUME Init PROVE Abstract!Init
      OBVIOUS
    <2>1. \A v \in guest.pages : CachedMappings(v) = {}
      <3> SUFFICES ASSUME NEW v \in guest.pages PROVE HitWays(v, satp) = {}
        BY DEF CachedMappings
      <3>1. set_of(v) \in Sets
        BY GuestPages, MmuInit DEF MmuInv
      <3> QED
        BY <3>1 DEF Init, HitWays, Hit, Empty
    <2> QED
      BY <2>1 DEF Init, Abstract!Init
  <1>2. ASSUME MmuInv, [Next]_vars PROVE [Abstract!Next]_(Abstract!vars)
    <2>1. CASE UNCHANGED vars
      <3>1. UNCHANGED <<guest, satp, pt1, pt0, entries, last>>
        BY <2>1 DEF vars, memory, tlb
      <3>2. UNCHANGED <<last, satp, AbsNow, AbsMay>>
        BY <3>1 DEF AbsNow, AbsMay, TableMapping, CachedMappings, Leaf, HitWays, EntryMapping
      <3> QED
        BY <3>2 DEF Abstract!vars, AbsNow, AbsMay
    <2>2. CASE Next
      <3>1. UNCHANGED guest
        BY <2>2 DEF Next
      <3> QED
        BY <1>2, <2>2, <3>1, BareRefines, HitRefines, WalkRefines, FenceRefines,
           SatpRefines, TableRefines DEF Next
    <2> QED
      BY <1>2, <2>1, <2>2
  <1> QED
    BY <1>1, <1>2, MmuInit, MmuStep, PTL DEF Spec, Refines, Abstract!Spec
=============================================================================
