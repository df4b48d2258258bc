---------------------------- MODULE Memory_proofs ----------------------------
(***************************************************************************)
(* Proofs about Memory, for every size of memory, page, cache and epoch,   *)
(* and every program and disk, while the CPU thread is the only one that   *)
(* stores.  (With the poll thread storing too the caches do go stale: see  *)
(* the README.)                                                            *)
(***************************************************************************)
EXTENDS Memory, Arithmetic, TLAPS

\* One thread, whose stores each stay on the page of their first unit.
OneWriter ==
    /\ Threads = {"cpu"}
    /\ \A s \in Stores["cpu"] : \A u \in Span(s[1], s[2]) : Page(u) = Page(s[1])

\* A store that touches a word names its address, and nothing is reserved
\* before the first LR.
WholeWords ==
    /\ \A s \in Stores["cpu"], w \in Words :
          Span(s[1], s[2]) \cap Span(w, 2) # {} => s[1] = w
    /\ BootReserved = {FALSE}

IcacheSlots == 0..(NUM_PAGES - 1)
Entries == 0..(DECODE_CACHE_SIZE - 1)

-----------------------------------------------------------------------------
(* Pages and words. *)

(* The sizes the constructors are given.                                   *)
LEMMA Sizes ==
    /\ DRAM_SIZE \in Nat \ {0} /\ PAGE_SIZE \in Nat \ {0}
    /\ NUM_PAGES \in Nat \ {0} /\ DECODE_CACHE_SIZE \in Nat \ {0}
    /\ EpochMod \in Nat /\ EpochMod > 1
  BY MemoryAssumption

(* Both units of a word are on one page. *)
LEMMA WordOnPage ==
    ASSUME NEW a \in Words
    PROVE  \A u \in Span(a, 2) : u \in Units /\ Page(u) = Page(a)
  <1>1. a \in Nat /\ a % 2 = 0 /\ a + 1 \in Units /\ a \in Units
    BY DEF Words, Units
  <1>2. PAGE_SIZE \in Nat \ {0} /\ PAGE_SIZE % 2 = 0
    BY Sizes, MemoryAssumption
  <1>3. (a % PAGE_SIZE) % 2 = 0 /\ a % PAGE_SIZE \in 0..(PAGE_SIZE - 1)
    BY <1>1, <1>2, RemainderOfEven, DivisionWithRemainder
  <1>4. (a % PAGE_SIZE) + 1 < PAGE_SIZE
    <2> DEFINE r == a % PAGE_SIZE
    <2> HIDE DEF r
    <2> QED BY <1>2, <1>3 DEF r
  <1>5. (a + 1) \div PAGE_SIZE = a \div PAGE_SIZE
    BY <1>1, <1>2, <1>4, QuotientOfNext
  <1> QED
    BY <1>1, <1>5 DEF Span, Page

(* Memory ends with a page. *)
LEMMA PageInMemory ==
    ASSUME NEW u \in Units, Page(u + 1) = Page(u)
    PROVE  u + 1 \in Units
  <1>1. u \in Nat /\ u < DRAM_SIZE /\ (u + 1) \div PAGE_SIZE = u \div PAGE_SIZE
    BY Sizes DEF Units, Page
  <1>2. u + 1 < DRAM_SIZE
    BY <1>1, Sizes, MemoryAssumption, LastBelowMultiple
  <1> QED
    BY <1>1, <1>2, Sizes DEF Units

(* The next address is on the same page, at the next remainder.            *)
LEMMA RemainderOfNext ==
    ASSUME NEW v \in Nat, Page(v + 1) = Page(v)
    PROVE  (v + 1) % PAGE_SIZE = (v % PAGE_SIZE) + 1 /\ (v % PAGE_SIZE) + 1 < PAGE_SIZE
  <1> DEFINE base == PAGE_SIZE * Page(v)
             r == v % PAGE_SIZE
             n == (v + 1) % PAGE_SIZE
  <1>1. Page(v) \in Nat /\ r \in 0..(PAGE_SIZE - 1) /\ v = base + r
    BY Sizes, DivisionWithRemainder DEF Page
  <1>2. n \in 0..(PAGE_SIZE - 1) /\ v + 1 = PAGE_SIZE * Page(v + 1) + n
    BY Sizes, DivisionWithRemainder DEF Page
  <1>3. v + 1 = base + n /\ base \in Nat
    BY <1>1, <1>2, Sizes
  <1> HIDE DEF base, r, n
  <1>4. n = r + 1 /\ r + 1 < PAGE_SIZE
    BY <1>1, <1>2, <1>3, Sizes
  <1> QED
    BY <1>4 DEF n, r

(* A space takes a page to a page (translate, cpu.cpp's inst_ptr + 2).     *)
LEMMA NextOnPage ==
    ASSUME NEW s \in Spaces, NEW v \in Nat, Maps(s, v), Phys(s, v) \in Units,
           Page(v + 1) = Page(v)
    PROVE  /\ Maps(s, v + 1) /\ Phys(s, v + 1) \in Units
           /\ Page(Phys(s, v + 1)) = Page(Phys(s, v))
  <1> DEFINE q == s[Page(v)]
             r == v % PAGE_SIZE
             base == q * PAGE_SIZE
  <1>1. q \in Nat
    BY MemoryAssumption DEF Maps
  <1>2. r \in 0..(PAGE_SIZE - 1) /\ r + 1 < PAGE_SIZE /\ (v + 1) % PAGE_SIZE = r + 1
    BY RemainderOfNext, Sizes, DivisionWithRemainder
  <1>3. Phys(s, v) = base + r /\ Phys(s, v + 1) = base + (r + 1)
    BY <1>2 DEF Phys
  <1>4. base \in Nat /\ base = PAGE_SIZE * q /\ PAGE_SIZE * (q + 1) = base + PAGE_SIZE
    BY <1>1, Sizes
  <1> HIDE DEF q, r, base
  <1>5. \A x \in Nat : base <= x /\ x < base + PAGE_SIZE => x \div PAGE_SIZE = q
    BY <1>1, <1>4, Sizes, QuotientIs
  <1>6. base + r \in Nat /\ base + (r + 1) \in Nat
        /\ base + r < base + PAGE_SIZE /\ base + (r + 1) < base + PAGE_SIZE
        /\ base <= base + r /\ base <= base + (r + 1)
        /\ base + (r + 1) = (base + r) + 1
    BY <1>2, <1>4, Sizes
  <1>7. Page(base + r) = q /\ Page(base + (r + 1)) = q
    BY <1>5, <1>6 DEF Page
  <1>8. (base + r) + 1 \in Units
    BY <1>3, <1>6, <1>7, PageInMemory
  <1>9. Maps(s, v + 1)
    BY DEF Maps
  <1> QED
    BY <1>3, <1>6, <1>7, <1>8, <1>9

(* The page of an address has a slot in the instruction cache              *)
(* (index_from_page).                                                      *)
LEMMA SlotInCache ==
    ASSUME NEW u \in Units
    PROVE  Page(u) \in Nat /\ Slot(Page(u)) \in IcacheSlots
  <1>1. Page(u) \in Nat
    BY Sizes, DivisionWithRemainder DEF Units, Page
  <1> QED
    BY <1>1, Sizes, DivisionWithRemainder DEF Slot, IcacheSlots

(* An address has an entry in the decode cache (fetch_and_decode's index). *)
LEMMA IndexInCache ==
    ASSUME NEW pc \in Nat
    PROVE  Index(pc) \in Entries
  BY Sizes, DivisionWithRemainder DEF Index, Entries

-----------------------------------------------------------------------------
(* The inductive invariant.  A line of the instruction cache may differ    *)
(* from memory only on the page a store is writing, until it has been      *)
(* invalidated, or while its line is being filled; a decoded instruction   *)
(* only while a store is under way, and the end of that store leaves no    *)
(* entry alive: no entry is of an epoch still to come.                     *)

Storing == store["cpu"].at
Stale(u) == Storing \in {"reserve", "invalidate"} /\ Page(u) = Page(store["cpu"].a)
Filling(s) == fetch.at = "publish" /\ s = Slot(Page(Target))

Line(p) == [PageUnits(p) -> Values]
Lines == {<<>>} \cup UNION {Line(Page(u)) : u \in Units}
CacheLine == [valid : BOOLEAN, phys_page : Nat, data : Lines]

ShapesOK ==
    /\ dram \in [Units -> Values]
    /\ icache \in [IcacheSlots -> CacheLine]
    /\ decoded \in [Entries -> [epoch : 0..(EpochMod - 1), pc : Code \cup {NoPc},
                                raw : Seq(Values)]]
    /\ epoch \in 0..(EpochMod - 1)
    /\ reservation \in [valid : BOOLEAN, addr : Units]
    /\ fetch \in [at : {"none", "page", "publish", "read", "fill"},
                  pc : Code \cup {NoPc}, got : Seq(Values)]
    /\ store \in [{"cpu"} -> [at : {"none", "reserve", "invalidate", "epoch", "bump"},
                              a : Units, epoch : 0..(EpochMod - 1)]]
    /\ amo = <<>> \/ \E a \in Words : amo = <<a>>
    /\ space \in Spaces /\ space \in spaces

\* One thing at a time on the CPU thread.
OneActivity ==
    /\ fetch.at = "none" <=> fetch = NoFetch
    /\ Storing = "none" <=> store["cpu"] = NoStore
    /\ fetch # NoFetch => store["cpu"] = NoStore /\ amo = <<>> /\ fetch.pc \in Code
    /\ amo # <<>> => store["cpu"] = NoStore

LinesInPlace ==
    \A s \in IcacheSlots : icache[s].valid => Slot(icache[s].phys_page) = s

LinesCurrent ==
    \A s \in IcacheSlots : icache[s].valid =>
        \/ Filling(s)
        \/ /\ icache[s].data \in Line(icache[s].phys_page)
           /\ \A u \in PageUnits(icache[s].phys_page) \ dma :
                  Stale(u) \/ icache[s].data[u] = dram[u]

FetchCurrent ==
    /\ fetch.at \in {"publish", "read"} => Maps(space, Wanted) /\ Target \in Units
    /\ fetch.at = "publish" =>
          icache[Slot(Page(Target))].data = [u \in PageUnits(Page(Target)) |-> dram[u]]
    /\ fetch.at = "read" => Cached(Page(Target))
    /\ \A k \in 1..Len(fetch.got) : Holds(space, fetch.pc + k - 1, fetch.got[k])

EntriesCurrent ==
    Storing = "none" => \A i \in Entries : Live(i) =>
        \E s \in spaces : \A k \in 1..Len(decoded[i].raw) :
            Holds(s, decoded[i].pc + k - 1, decoded[i].raw[k])

NoFutureEpoch ==
    /\ \A i \in Entries : decoded[i].pc # NoPc => decoded[i].epoch <= epoch
    /\ Storing = "bump" => store["cpu"].epoch = epoch

CoherenceInv ==
    /\ ShapesOK /\ OneActivity /\ LinesInPlace /\ LinesCurrent
    /\ FetchCurrent /\ EntriesCurrent /\ NoFutureEpoch

(* Empty caches are coherent.                                              *)
LEMMA InitCoherent == ASSUME OneWriter, Init PROVE CoherenceInv
  <1> USE Sizes, MemoryAssumption DEF OneWriter
  <1>0. 0 \in Units /\ 0 \in 0..(EpochMod - 1)
    BY DEF Units
  <1>1. ShapesOK
    <2>1. reservation \in [valid : BOOLEAN, addr : Units]
      BY DEF Init
    <2>2. fetch = NoFetch /\ NoFetch \in [at : {"none", "page", "publish", "read", "fill"},
                                          pc : Code \cup {NoPc}, got : Seq(Values)]
      BY DEF Init, NoFetch
    <2>3. store \in [{"cpu"} -> [at : {"none", "reserve", "invalidate", "epoch", "bump"},
                              a : Units, epoch : 0..(EpochMod - 1)]]
      BY <1>0 DEF Init, NoStore
    <2>4. decoded \in [Entries -> [epoch : 0..(EpochMod - 1), pc : Code \cup {NoPc},
                                raw : Seq(Values)]]
      BY <1>0 DEF Init, Entries
    <2>5. icache \in [IcacheSlots -> CacheLine]
      BY DEF Init, IcacheSlots, CacheLine, Lines
    <2> QED
      BY <1>0, <2>1, <2>2, <2>3, <2>4, <2>5 DEF Init, ShapesOK
  <1>2. OneActivity
    BY DEF Init, OneActivity, NoFetch, NoStore, Storing
  <1>3. LinesInPlace /\ LinesCurrent
    BY DEF Init, LinesInPlace, LinesCurrent, IcacheSlots
  <1>4. FetchCurrent
    BY DEF Init, FetchCurrent, NoFetch, Holds
  <1>5. EntriesCurrent /\ NoFutureEpoch
    BY DEF Init, EntriesCurrent, NoFutureEpoch, Live, Entries, Storing, NoStore, Holds
  <1> QED
    BY <1>1, <1>2, <1>3, <1>4, <1>5 DEF CoherenceInv

(* The fetch on the CPU thread. *)
LEMMA FetchMissCoherent ==
    ASSUME CoherenceInv, NEW pc \in Code, FetchMiss(pc)
    PROVE  CoherenceInv'
  <1> USE DEF CoherenceInv, FetchMiss, CpuIdle, caches, translation
  <1>1. ShapesOK'
    BY DEF ShapesOK
  <1>2. OneActivity'
    BY DEF OneActivity, NoFetch, NoStore, Storing
  <1>3. LinesInPlace' /\ LinesCurrent'
    BY DEF LinesInPlace, LinesCurrent, Stale, Filling, Storing, NoFetch
  <1>4. FetchCurrent'
    BY DEF FetchCurrent, Holds
  <1>5. EntriesCurrent' /\ NoFutureEpoch'
    BY DEF EntriesCurrent, NoFutureEpoch, Live, Storing, Holds
  <1> QED
    BY <1>1, <1>2, <1>3, <1>4, <1>5

(* A miss starts to copy a page (ICache::fetch_page).                      *)
LEMMA FetchPageCoherent ==
    ASSUME CoherenceInv, fetch_page
    PROVE  CoherenceInv'
  <1> USE DEF CoherenceInv, fetch_page, translation
  <1>0. /\ store["cpu"] = NoStore /\ amo = <<>> /\ fetch.pc \in Code
        /\ Storing = "none" /\ fetch.at = "page"
    BY DEF OneActivity, NoFetch, NoStore, Storing
  <1>1. CASE ~Maps(space, Wanted) \/ Target \notin Units
    <2>1. fetch' = NoFetch /\ UNCHANGED icache
      BY <1>1
    <2>2. ShapesOK'
      BY <2>1 DEF ShapesOK, NoFetch
    <2>3. OneActivity'
      BY <1>0, <2>1 DEF OneActivity, NoFetch, NoStore, Storing
    <2>4. LinesInPlace' /\ LinesCurrent'
      BY <1>0, <2>1 DEF LinesInPlace, LinesCurrent, Stale, Filling, Storing, NoFetch
    <2>5. FetchCurrent'
      BY <2>1 DEF FetchCurrent, NoFetch, Holds
    <2>6. EntriesCurrent' /\ NoFutureEpoch'
      BY <2>1 DEF EntriesCurrent, NoFutureEpoch, Live, Storing, Holds
    <2> QED
      BY <2>2, <2>3, <2>4, <2>5, <2>6
  <1>2. CASE Maps(space, Wanted) /\ Target \in Units /\ Cached(Page(Target))
    <2>1. fetch' = [fetch EXCEPT !.at = "read"] /\ UNCHANGED icache
      BY <1>2
    <2>a. /\ fetch'.at = "read" /\ fetch'.pc = fetch.pc /\ fetch'.got = fetch.got
          /\ Wanted' = Wanted /\ Target' = Target
      BY <2>1 DEF ShapesOK, Wanted, Target
    <2>2. ShapesOK'
      BY <2>1 DEF ShapesOK
    <2>3. OneActivity'
      BY <1>0, <2>a DEF OneActivity, NoFetch, NoStore, Storing
    <2>4. LinesInPlace' /\ LinesCurrent'
      BY <1>0, <2>1, <2>a DEF LinesInPlace, LinesCurrent, Stale, Filling, Storing
    <2>5. FetchCurrent'
      BY <1>2, <2>1, <2>a DEF FetchCurrent, Cached, Holds
    <2>6. EntriesCurrent' /\ NoFutureEpoch'
      BY <2>1 DEF EntriesCurrent, NoFutureEpoch, Live, Storing, Holds
    <2> QED
      BY <2>2, <2>3, <2>4, <2>5, <2>6
  <1>3. CASE Maps(space, Wanted) /\ Target \in Units /\ ~Cached(Page(Target))
    <2> DEFINE s == Slot(Page(Target))
               line == [u \in PageUnits(Page(Target)) |-> dram[u]]
    <2>1. /\ icache' = [icache EXCEPT ![s].data = line]
          /\ fetch' = [fetch EXCEPT !.at = "publish"]
      BY <1>3
    <2>a. /\ fetch'.at = "publish" /\ fetch'.pc = fetch.pc /\ fetch'.got = fetch.got
          /\ Wanted' = Wanted /\ Target' = Target
      BY <2>1 DEF ShapesOK, Wanted, Target
    <2>b. s \in IcacheSlots
      BY <1>3, SlotInCache
    <2>d. line \in Line(Page(Target)) /\ line \in Lines
      BY <1>3 DEF ShapesOK, Line, Lines, PageUnits
    <2>c. /\ icache' \in [IcacheSlots -> CacheLine]
          /\ icache'[s].valid = icache[s].valid /\ icache'[s].phys_page = icache[s].phys_page
          /\ icache'[s].data = line
          /\ \A r \in IcacheSlots \ {s} : icache'[r] = icache[r]
      <3>1. icache \in [IcacheSlots -> CacheLine]
        BY DEF ShapesOK
      <3> HIDE DEF s, line, CoherenceInv, fetch_page
      <3> QED
        BY <2>1, <2>b, <2>d, <3>1 DEF CacheLine
    <2> HIDE DEF line
    <2>2. ShapesOK'
      <3>1. fetch' \in [at : {"none", "page", "publish", "read", "fill"},
                        pc : Code \cup {NoPc}, got : Seq(Values)]
        BY <2>1 DEF ShapesOK
      <3> QED
        BY <3>1, <2>b, <2>c DEF ShapesOK
    <2>3. OneActivity'
      BY <1>0, <2>a DEF OneActivity, NoFetch, NoStore, Storing
    <2>4. LinesInPlace'
      BY <2>b, <2>c DEF LinesInPlace
    <2>7. LinesCurrent'
      BY <1>0, <2>a, <2>b, <2>c DEF LinesCurrent, Stale, Filling, Storing
    <2>5. FetchCurrent'
      BY <1>3, <2>a, <2>b, <2>c DEF FetchCurrent, line, Holds
    <2>6. EntriesCurrent' /\ NoFutureEpoch'
      BY DEF EntriesCurrent, NoFutureEpoch, Live, Storing, Holds
    <2> QED
      BY <2>2, <2>3, <2>4, <2>5, <2>6, <2>7
  <1> QED
    BY <1>1, <1>2, <1>3

(* The copy becomes the page's line when it is whole.                      *)
LEMMA PublishCoherent ==
    ASSUME CoherenceInv, Publish
    PROVE  CoherenceInv'
  <1> DEFINE s == Slot(Page(Target))
  <1> USE DEF CoherenceInv, Publish, translation
  <1>0. /\ store["cpu"] = NoStore /\ amo = <<>> /\ fetch.pc \in Code
        /\ Storing = "none" /\ Target \in Units /\ Maps(space, Wanted)
    BY DEF OneActivity, NoFetch, NoStore, Storing, FetchCurrent, Holds
  <1>1. /\ fetch'.at = "read" /\ fetch'.pc = fetch.pc /\ fetch'.got = fetch.got
        /\ Wanted' = Wanted /\ Target' = Target
    BY DEF ShapesOK, Wanted, Target
  <1>2. s \in IcacheSlots /\ Page(Target) \in Nat
    BY <1>0, SlotInCache
  <1>3. /\ icache' \in [IcacheSlots -> CacheLine]
        /\ icache'[s].valid = TRUE /\ icache'[s].phys_page = Page(Target)
        /\ icache'[s].data = icache[s].data
        /\ \A r \in IcacheSlots \ {s} : icache'[r] = icache[r]
    <2>1. icache \in [IcacheSlots -> CacheLine]
      BY DEF ShapesOK
    <2>2. icache' = [icache EXCEPT ![s].phys_page = Page(Target), ![s].valid = TRUE]
      OBVIOUS
    <2> HIDE DEF s, CoherenceInv, Publish
    <2> QED
      BY <1>2, <2>1, <2>2 DEF CacheLine
  <1>4. ShapesOK'
    <2>1. fetch' \in [at : {"none", "page", "publish", "read", "fill"},
                      pc : Code \cup {NoPc}, got : Seq(Values)]
      BY DEF ShapesOK
    <2> QED
      BY <2>1, <1>2, <1>3 DEF ShapesOK
  <1>5. OneActivity'
    BY <1>0, <1>1 DEF OneActivity, NoFetch, NoStore, Storing
  <1>6. LinesInPlace'
    BY <1>2, <1>3 DEF LinesInPlace
  <1>7. LinesCurrent'
    <2>1. /\ icache'[s].data = [u \in PageUnits(Page(Target)) |-> dram[u]]
          /\ icache'[s].data \in Line(Page(Target))
      BY <1>3 DEF FetchCurrent, ShapesOK, Line, PageUnits, Holds
    <2> QED
      BY <1>0, <1>1, <1>2, <1>3, <2>1
         DEF LinesCurrent, Stale, Filling, Storing
  <1>8. FetchCurrent'
    <2>1. Cached(Page(Target))' /\ Maps(space, Wanted)' /\ Target' \in Units
      BY <1>0, <1>1, <1>2, <1>3 DEF Cached, Maps
    <2>2. \A k \in 1..Len(fetch'.got) : Holds(space, fetch.pc + k - 1, fetch.got[k])'
      BY <1>1 DEF FetchCurrent, Holds
    <2> QED
      BY <1>1, <2>1, <2>2 DEF FetchCurrent, Holds
  <1>9. EntriesCurrent' /\ NoFutureEpoch'
    BY DEF EntriesCurrent, NoFutureEpoch, Live, Storing, Holds
  <1> QED
    BY <1>4, <1>5, <1>6, <1>7, <1>8, <1>9

(* The copy proceeds one unit at a time, as memory has it.                 *)
LEMMA ReadUnitCoherent ==
    ASSUME CoherenceInv, ReadUnit
    PROVE  CoherenceInv'
  <1> DEFINE s == Slot(Page(Target))
             unit == icache[s].data[Target]
             got == Append(fetch.got, unit)
             next == IF Len(got) = 1 /\ got[1] \in Long
                     THEN IF Page(Wanted + 1) = Page(Wanted) THEN "read" ELSE "page"
                     ELSE "fill"
  <1> USE DEF CoherenceInv
  <1>0. /\ store["cpu"] = NoStore /\ amo = <<>> /\ fetch.pc \in Code
        /\ Storing = "none" /\ Target \in Units /\ fetch.at = "read"
        /\ Maps(space, Wanted) /\ fetch.pc \in Nat /\ Wanted \in Nat /\ space \in Spaces
        /\ fetch.got \in Seq(Values) /\ Cached(Page(Target))
    <2>1. /\ store["cpu"] = NoStore /\ amo = <<>> /\ fetch.pc \in Code
          /\ Storing = "none" /\ Target \in Units /\ fetch.at = "read"
          /\ Maps(space, Wanted) /\ space \in Spaces
          /\ fetch.got \in Seq(Values) /\ Cached(Page(Target))
      BY DEF ReadUnit, OneActivity, NoFetch, NoStore, Storing, FetchCurrent, ShapesOK
    <2>2. fetch.pc \in Nat /\ Len(fetch.got) \in Nat
      BY <2>1, MemoryAssumption
    <2> QED
      BY <2>1, <2>2 DEF Wanted
  <1>1. s \in IcacheSlots /\ icache[s].valid /\ icache[s].phys_page = Page(Target)
    BY <1>0, SlotInCache DEF Cached
  <1>2. unit \in Values /\ Holds(space, Wanted, unit)
    <2>1. /\ icache[s].data \in Line(Page(Target))
          /\ \A u \in PageUnits(Page(Target)) \ dma : icache[s].data[u] = dram[u]
      BY <1>0, <1>1 DEF LinesCurrent, Stale, Filling
    <2>2. Target \in PageUnits(Page(Target))
      BY <1>0 DEF PageUnits
    <2> HIDE DEF s
    <2> QED
      BY <1>0, <2>1, <2>2 DEF Line, Holds, Target
  <1>3. /\ got \in Seq(Values) /\ Len(got) = Len(fetch.got) + 1
        /\ got[Len(got)] = unit
        /\ \A k \in 1..Len(fetch.got) : got[k] = fetch.got[k]
    <2> HIDE DEF unit
    <2> QED
      BY <1>0, <1>2
  <1>4. /\ UNCHANGED <<dram, icache, decoded, epoch, reservation, store, amo, dma,
                       space, spaces>>
        /\ fetch' = [fetch EXCEPT !.at = next, !.got = got]
    BY DEF ReadUnit, caches, translation
  <1> HIDE DEF got, unit, s
  <1>5. next \in {"read", "page", "fill"}
    OBVIOUS
  <1>6. /\ fetch' \in [at : {"none", "page", "publish", "read", "fill"},
                       pc : Code \cup {NoPc}, got : Seq(Values)]
        /\ fetch'.at = next /\ fetch'.pc = fetch.pc /\ fetch'.got = got
    <2>1. fetch \in [at : {"none", "page", "publish", "read", "fill"},
                     pc : Code \cup {NoPc}, got : Seq(Values)]
      BY DEF ShapesOK
    <2>2. fetch' = [fetch EXCEPT !.at = next, !.got = got]
      BY <1>4
    <2> HIDE DEF next, CoherenceInv
    <2> QED
      BY <1>3, <1>5, <2>1, <2>2
  <1>7. Wanted' = Wanted + 1
    <2>1. fetch.pc \in Int /\ Len(fetch.got) \in Nat
      BY <1>0
    <2>2. Wanted' = fetch.pc + (Len(fetch.got) + 1)
      BY <1>3, <1>6 DEF Wanted
    <2> HIDE DEF CoherenceInv, next
    <2> QED
      BY <2>1, <2>2 DEF Wanted
  <1>8. ShapesOK'
    BY <1>4, <1>6 DEF ShapesOK
  <1>9. OneActivity'
    <2>1. fetch'.at # "none"
      BY <1>5, <1>6
    <2> QED
      BY <1>0, <1>4, <1>6, <2>1 DEF OneActivity, NoFetch, NoStore, Storing
  <1>10. LinesInPlace' /\ LinesCurrent'
    <2>1. fetch'.at # "publish"
      BY <1>5, <1>6
    <2> QED
      BY <1>0, <1>4, <2>1 DEF LinesInPlace, LinesCurrent, Stale, Filling, Storing
  <1>11. FetchCurrent'
    <2>1. ASSUME next = "read"
          PROVE  /\ Maps(space, Wanted + 1) /\ Phys(space, Wanted + 1) \in Units
                 /\ Page(Phys(space, Wanted + 1)) = Page(Target)
      <3>1. Page(Wanted + 1) = Page(Wanted)
        BY <2>1
      <3> QED
        BY <1>0, <3>1, NextOnPage DEF Target
    <2>a. Target' = Phys(space, Wanted + 1) /\ space' = space
      BY <1>4, <1>7 DEF Target
    <2>2. \A k \in 1..Len(got) : Holds(space, fetch.pc + k - 1, got[k])
      <3> SUFFICES ASSUME NEW k \in 1..Len(got)
                   PROVE  Holds(space, fetch.pc + k - 1, got[k])
        OBVIOUS
      <3>1. CASE k = Len(got)
        <4>1. fetch.pc + k - 1 = Wanted
          BY <1>0, <1>3, <3>1 DEF Wanted
        <4> QED
          BY <1>2, <1>3, <3>1, <4>1
      <3>2. CASE k # Len(got)
        <4>1. k \in 1..Len(fetch.got)
          BY <1>0, <1>3, <3>2
        <4>2. Holds(space, fetch.pc + k - 1, fetch.got[k])
          BY <4>1 DEF FetchCurrent
        <4> QED
          BY <1>3, <4>1, <4>2
      <3> QED
        BY <3>1, <3>2
    <2>3. fetch'.at = "read" => Maps(space, Wanted)' /\ Target' \in Units
      BY <1>6, <1>7, <2>1, <2>a DEF Maps
    <2>4. fetch'.at = "read" => Cached(Page(Target))'
      BY <1>0, <1>4, <1>6, <2>1, <2>a DEF Cached
    <2>5. fetch'.at # "publish"
      BY <1>5, <1>6
    <2>6. \A k \in 1..Len(fetch'.got) : Holds(space, fetch.pc + k - 1, fetch.got[k])'
      BY <1>4, <1>6, <2>2, <2>a DEF Holds
    <2> QED
      BY <1>6, <2>3, <2>4, <2>5, <2>6 DEF FetchCurrent, Holds
  <1>12. EntriesCurrent' /\ NoFutureEpoch'
    BY <1>4 DEF EntriesCurrent, NoFutureEpoch, Live, Storing, Holds
  <1> QED
    BY <1>8, <1>9, <1>10, <1>11, <1>12

(* What was fetched is decoded and kept under the epoch read before.       *)
LEMMA FillDecodedCoherent ==
    ASSUME CoherenceInv, FillDecoded
    PROVE  CoherenceInv'
  <1> DEFINE i == Index(fetch.pc)
             entry == [epoch |-> epoch, pc |-> fetch.pc, raw |-> fetch.got]
  <1> USE DEF CoherenceInv
  <1>0. /\ store["cpu"] = NoStore /\ amo = <<>> /\ fetch.pc \in Code
        /\ Storing = "none" /\ fetch.got \in Seq(Values) /\ i \in Entries
    BY IndexInCache, MemoryAssumption
       DEF FillDecoded, OneActivity, NoFetch, NoStore, Storing, ShapesOK
  <1>1. /\ UNCHANGED <<dram, icache, epoch, reservation, store, amo, dma, space, spaces>>
        /\ fetch' = NoFetch /\ decoded' = [decoded EXCEPT ![i] = entry]
    BY DEF FillDecoded, translation
  <1>2. entry \in [epoch : 0..(EpochMod - 1), pc : Code \cup {NoPc}, raw : Seq(Values)]
    BY <1>0 DEF ShapesOK
  <1>3. /\ decoded' \in [Entries -> [epoch : 0..(EpochMod - 1), pc : Code \cup {NoPc},
                                     raw : Seq(Values)]]
        /\ decoded'[i] = entry
        /\ \A j \in Entries \ {i} : decoded'[j] = decoded[j]
    <2> HIDE DEF i, entry
    <2> QED
      BY <1>0, <1>1, <1>2 DEF ShapesOK
  <1>4. ShapesOK'
    BY <1>1, <1>3 DEF ShapesOK, NoFetch
  <1>5. OneActivity'
    BY <1>0, <1>1 DEF OneActivity, NoFetch, NoStore, Storing
  <1>6. LinesInPlace' /\ LinesCurrent'
    BY <1>0, <1>1 DEF FillDecoded, LinesInPlace, LinesCurrent, Stale, Filling, Storing, NoFetch
  <1>7. FetchCurrent'
    BY <1>1 DEF FetchCurrent, NoFetch, Holds
  <1>8. EntriesCurrent'
    <2> DEFINE Held(sp, e) == \A k \in 1..Len(e.raw) : Holds(sp, e.pc + k - 1, e.raw[k])
    <2>1. Held(space, entry)
      BY DEF FetchCurrent
    <2>2. \A j \in Entries \ {i} : Live(j)' => Live(j)
      BY <1>1, <1>3 DEF Live
    <2>3. \A j \in Entries : Live(j)' => \E sp \in spaces : Held(sp, decoded'[j])
      <3> HIDE DEF Held, entry, i
      <3>1. \A j \in Entries : Live(j) => \E sp \in spaces : Held(sp, decoded[j])
        BY <1>0 DEF EntriesCurrent, Held
      <3>2. space \in spaces
        BY DEF ShapesOK
      <3> QED
        BY <1>3, <2>1, <2>2, <3>1, <3>2
    <2> QED
      BY <1>1, <2>3 DEF EntriesCurrent, Holds
  <1>9. NoFutureEpoch'
    BY <1>0, <1>1, <1>3 DEF NoFutureEpoch, Storing, ShapesOK
  <1> QED
    BY <1>4, <1>5, <1>6, <1>7, <1>8, <1>9

(* A write makes lines stale on one page only, and starts a store. *)
LEMMA WriteCoherent ==
    ASSUME CoherenceInv, fetch = NoFetch, store["cpu"] = NoStore,
           NEW a \in Units, NEW n, NEW v \in Values,
           \A u \in Span(a, n) : Page(u) = Page(a),
           WriteDram("cpu", a, n, v),
           UNCHANGED <<icache, decoded, epoch, reservation, fetch, dma,
                       space, spaces>>, amo' = <<>>
    PROVE  CoherenceInv'
  <1> DEFINE new == [at |-> "reserve", a |-> a, epoch |-> 0]
  <1> USE DEF CoherenceInv
  <1>0. fetch.at = "none" /\ Storing = "none"
    BY DEF NoFetch, NoStore, Storing
  <1>1. /\ store' = [store EXCEPT !["cpu"] = new]
        /\ dram' = [u \in Units |-> IF u \in Span(a, n) THEN v ELSE dram[u]]
    BY DEF WriteDram
  <1>2. /\ store'["cpu"] = new /\ Storing' = "reserve"
        /\ store' \in [{"cpu"} -> [at : {"none", "reserve", "invalidate", "epoch", "bump"},
                                   a : Units, epoch : 0..(EpochMod - 1)]]
    BY <1>1, Sizes DEF ShapesOK, Storing
  <1>3. dram' \in [Units -> Values]
    BY <1>1 DEF ShapesOK
  <1>4. ShapesOK'
    BY <1>2, <1>3 DEF ShapesOK
  <1>5. OneActivity'
    BY <1>2 DEF OneActivity, NoFetch, NoStore, Storing
  <1>6. LinesInPlace'
    BY DEF LinesInPlace
  <1>7. LinesCurrent'
    <2> SUFFICES ASSUME NEW s \in IcacheSlots, icache[s].valid
                 PROVE  /\ icache[s].data \in Line(icache[s].phys_page)
                        /\ \A u \in PageUnits(icache[s].phys_page) \ dma :
                              Stale(u)' \/ icache[s].data[u] = dram'[u]
      BY DEF LinesCurrent
    <2>1. /\ icache[s].data \in Line(icache[s].phys_page)
          /\ \A u \in PageUnits(icache[s].phys_page) \ dma : icache[s].data[u] = dram[u]
      BY <1>0 DEF LinesCurrent, Filling, Stale
    <2>2. ASSUME NEW u \in PageUnits(icache[s].phys_page) \ dma
          PROVE  Stale(u)' \/ icache[s].data[u] = dram'[u]
      <3>1. u \in Units
        BY DEF PageUnits
      <3>2. CASE u \in Span(a, n)
        BY <1>2, <3>2 DEF Stale, Storing
      <3>3. CASE u \notin Span(a, n)
        BY <1>1, <2>1, <3>1, <3>3
      <3> QED
        BY <3>2, <3>3
    <2> QED
      BY <2>1, <2>2
  <1>8. FetchCurrent'
    BY <1>0 DEF FetchCurrent, NoFetch, Holds
  <1>9. EntriesCurrent' /\ NoFutureEpoch'
    BY <1>2 DEF EntriesCurrent, NoFutureEpoch, Live, Holds
  <1> QED
    BY <1>4, <1>5, <1>6, <1>7, <1>8, <1>9

(* The steps of a store after the write: the reservation, the page's line,  *)
(* the epoch.                                                              *)
StoreState == [at : {"none", "reserve", "invalidate", "epoch", "bump"},
               a : Units, epoch : 0..(EpochMod - 1)]

(* A store gives up the reservation it hits (invalidateReservation).       *)
LEMMA ReservationCoherent ==
    ASSUME OneWriter, CoherenceInv, invalidateReservation("cpu")
    PROVE  CoherenceInv'
  <1> USE DEF CoherenceInv
  <1>0. /\ fetch = NoFetch /\ amo = <<>> /\ fetch.at = "none" /\ Storing = "reserve"
        /\ store \in [{"cpu"} -> StoreState]
    BY DEF invalidateReservation, OneActivity, NoFetch, NoStore, Storing, ShapesOK, StoreState
  <1>1. /\ UNCHANGED <<dram, icache, decoded, epoch, fetch, amo, dma, space, spaces>>
        /\ store' = [store EXCEPT !["cpu"].at = "invalidate"]
    BY DEF invalidateReservation, caches, translation
  <1>2. /\ store' \in [{"cpu"} -> StoreState] /\ Storing' = "invalidate"
        /\ store'["cpu"].a = store["cpu"].a
    <2> HIDE DEF CoherenceInv
    <2> QED BY <1>0, <1>1 DEF StoreState, Storing
  <1>3. reservation' \in [valid : BOOLEAN, addr : Units]
    BY DEF invalidateReservation, ShapesOK
  <1>4. ShapesOK'
    BY <1>1, <1>2, <1>3 DEF ShapesOK, StoreState
  <1>5. OneActivity'
    BY <1>0, <1>1, <1>2 DEF OneActivity, NoFetch, NoStore, Storing
  <1>6. LinesInPlace' /\ LinesCurrent'
    BY <1>0, <1>1, <1>2 DEF LinesInPlace, LinesCurrent, Stale, Filling
  <1>7. FetchCurrent'
    BY <1>1 DEF FetchCurrent, Cached, Wanted, Target, Holds
  <1>8. EntriesCurrent' /\ NoFutureEpoch'
    BY <1>1, <1>2 DEF EntriesCurrent, NoFutureEpoch, Holds
  <1> QED
    BY <1>4, <1>5, <1>6, <1>7, <1>8

(* The one line that may hold the written page is dropped: a valid line is *)
(* in the slot of its page, so no other slot can.                          *)
LEMMA InvalidateCoherent ==
    ASSUME OneWriter, CoherenceInv, invalidate_page("cpu")
    PROVE  CoherenceInv'
  <1> DEFINE p == Page(store["cpu"].a)
             s == Slot(p)
  <1> USE DEF CoherenceInv
  <1>0. /\ fetch = NoFetch /\ amo = <<>> /\ fetch.at = "none" /\ Storing = "invalidate"
        /\ store \in [{"cpu"} -> StoreState] /\ store["cpu"].a \in Units
    BY DEF invalidate_page, OneActivity, NoFetch, NoStore, Storing, ShapesOK, StoreState
  <1>1. /\ UNCHANGED <<dram, decoded, epoch, reservation, fetch, amo, dma, space, spaces>>
        /\ store' = [store EXCEPT !["cpu"].at = "epoch"]
        /\ icache' = IF Cached(p) THEN [icache EXCEPT ![s].valid = FALSE] ELSE icache
    BY DEF invalidate_page, translation
  <1>2. /\ store' \in [{"cpu"} -> StoreState] /\ Storing' = "epoch"
    <2> HIDE DEF CoherenceInv, p, s
    <2> QED BY <1>0, <1>1 DEF StoreState, Storing
  <1>3. s \in IcacheSlots /\ icache \in [IcacheSlots -> CacheLine]
    BY <1>0, SlotInCache DEF ShapesOK
  <1>4. /\ icache' \in [IcacheSlots -> CacheLine]
        /\ \A r \in IcacheSlots : icache'[r].valid => icache'[r] = icache[r]
        /\ Cached(p) => ~icache'[s].valid
    <2> HIDE DEF CoherenceInv, p, s
    <2> QED BY <1>1, <1>3 DEF CacheLine
  <1>5. \A r \in IcacheSlots : icache'[r].valid => icache[r].phys_page # p
    BY <1>3, <1>4 DEF Cached, LinesInPlace
  <1>6. ShapesOK'
    BY <1>1, <1>2, <1>4 DEF ShapesOK, StoreState
  <1>7. OneActivity'
    BY <1>0, <1>1, <1>2 DEF OneActivity, NoFetch, NoStore, Storing
  <1>8. LinesInPlace'
    BY <1>4 DEF LinesInPlace
  <1>9. LinesCurrent'
    <2> SUFFICES ASSUME NEW r \in IcacheSlots, icache'[r].valid
                 PROVE  /\ icache'[r].data \in Line(icache'[r].phys_page)
                        /\ \A u \in PageUnits(icache'[r].phys_page) \ dma :
                              icache'[r].data[u] = dram[u]
      BY <1>1 DEF LinesCurrent
    <2>1. /\ icache'[r] = icache[r] /\ icache[r].valid /\ icache[r].phys_page # p
      BY <1>4, <1>5
    <2>2. \A u \in PageUnits(icache[r].phys_page) : ~Stale(u)
      BY <2>1 DEF Stale, PageUnits
    <2> QED
      BY <1>0, <2>1, <2>2 DEF LinesCurrent, Filling
  <1>10. FetchCurrent'
    BY <1>0, <1>1 DEF FetchCurrent, NoFetch, Holds
  <1>11. EntriesCurrent' /\ NoFutureEpoch'
    BY <1>1, <1>2 DEF EntriesCurrent, NoFutureEpoch, Holds
  <1> QED
    BY <1>6, <1>7, <1>8, <1>9, <1>10, <1>11

(* A store reads the epoch it is about to move on.                         *)
LEMMA ReadEpochCoherent ==
    ASSUME OneWriter, CoherenceInv, ReadEpoch("cpu")
    PROVE  CoherenceInv'
  <1> USE DEF CoherenceInv
  <1>0. /\ fetch = NoFetch /\ amo = <<>> /\ fetch.at = "none" /\ Storing = "epoch"
        /\ store \in [{"cpu"} -> StoreState] /\ epoch \in 0..(EpochMod - 1)
    BY DEF ReadEpoch, OneActivity, NoFetch, NoStore, Storing, ShapesOK, StoreState
  <1>1. /\ UNCHANGED <<dram, icache, decoded, epoch, reservation, fetch, amo, dma,
                       space, spaces>>
        /\ store' = [store EXCEPT !["cpu"].at = "bump", !["cpu"].epoch = epoch]
    BY DEF ReadEpoch, caches, translation
  <1>2. /\ store' \in [{"cpu"} -> StoreState] /\ Storing' = "bump"
        /\ store'["cpu"].epoch = epoch
    <2> HIDE DEF CoherenceInv
    <2> QED BY <1>0, <1>1 DEF StoreState, Storing
  <1>4. ShapesOK'
    BY <1>1, <1>2 DEF ShapesOK, StoreState
  <1>5. OneActivity'
    <2> HIDE DEF CoherenceInv
    <2>1. store'["cpu"] # NoStore
      BY <1>2 DEF NoStore, Storing
    <2>2. UNCHANGED <<fetch, amo>>
      BY <1>1
    <2> QED
      BY ONLY <1>0, <1>2, <2>1, <2>2 DEF OneActivity
  <1>6. LinesInPlace' /\ LinesCurrent'
    BY <1>0, <1>1, <1>2 DEF LinesInPlace, LinesCurrent, Stale, Filling
  <1>7. FetchCurrent'
    BY <1>1 DEF FetchCurrent, Cached, Wanted, Target, Holds
  <1>8. EntriesCurrent' /\ NoFutureEpoch'
    BY <1>1, <1>2 DEF EntriesCurrent, NoFutureEpoch, Holds
  <1> QED
    BY <1>4, <1>5, <1>6, <1>7, <1>8

(* The new epoch is past that of every entry, or every entry is emptied.   *)
LEMMA BumpCoherent ==
    ASSUME OneWriter, CoherenceInv, clearDecodeCache("cpu")
    PROVE  CoherenceInv'
  <1> DEFINE Entry == [epoch : 0..(EpochMod - 1), pc : Code \cup {NoPc}, raw : Seq(Values)]
  <1> USE DEF CoherenceInv
  <1>0. /\ fetch = NoFetch /\ amo = <<>> /\ fetch.at = "none" /\ Storing = "bump"
        /\ store \in [{"cpu"} -> StoreState] /\ epoch \in 0..(EpochMod - 1)
        /\ store["cpu"].epoch = epoch /\ decoded \in [Entries -> Entry]
    BY DEF clearDecodeCache, OneActivity, NoFetch, NoStore, Storing, ShapesOK, StoreState,
           NoFutureEpoch
  <1>1. /\ UNCHANGED <<dram, icache, reservation, fetch, amo, dma, space>>
        /\ store' = [store EXCEPT !["cpu"] = NoStore] /\ Bump(epoch) /\ spaces' = {space}
    BY <1>0 DEF clearDecodeCache
  <1>2. /\ store' \in [{"cpu"} -> StoreState] /\ Storing' = "none"
        /\ store'["cpu"] = NoStore
    <2>1. 0 \in Units /\ 0 \in 0..(EpochMod - 1)
      BY Sizes DEF Units
    <2> HIDE DEF CoherenceInv
    <2> QED BY <1>0, <1>1, <2>1 DEF StoreState, Storing, NoStore
  <1>3. /\ epoch' \in 0..(EpochMod - 1) /\ decoded' \in [Entries -> Entry]
        /\ \A i \in Entries : decoded'[i].pc # NoPc => decoded'[i].epoch < epoch'
    <2>1. CASE (epoch + 1) % EpochMod = 0
      <3>1. epoch' = 1 /\ decoded' = [i \in Entries |-> [decoded[i] EXCEPT !.pc = NoPc, !.epoch = 0]]
        BY <1>0, <1>1, <2>1 DEF Bump
      <3>2. 0 \in 0..(EpochMod - 1) /\ 1 \in 0..(EpochMod - 1)
        BY Sizes
      <3>3. \A i \in Entries : /\ [decoded[i] EXCEPT !.pc = NoPc, !.epoch = 0] \in Entry
                               /\ [decoded[i] EXCEPT !.pc = NoPc, !.epoch = 0].pc = NoPc
        <4> HIDE DEF CoherenceInv
        <4> QED BY <1>0, <3>2
      <3> HIDE DEF CoherenceInv, Entry
      <3> QED BY <3>1, <3>2, <3>3
    <2>2. CASE (epoch + 1) % EpochMod # 0
      <3>1. epoch' = epoch + 1 /\ decoded' = decoded
        BY <1>1, <2>2 DEF Bump
      <3>2. epoch + 1 < EpochMod
        <4>1. epoch + 1 # EpochMod
          BY <2>2, Sizes, RemainderOfSelf
        <4> HIDE DEF CoherenceInv
        <4> QED BY <1>0, <4>1, Sizes
      <3>3. \A i \in Entries : decoded[i].pc # NoPc => decoded[i].epoch <= epoch
        BY DEF NoFutureEpoch
      <3> HIDE DEF CoherenceInv
      <3> QED BY <1>0, <3>1, <3>2, <3>3, Sizes
    <2> QED
      BY <2>1, <2>2
  <1>4. ShapesOK'
    BY <1>1, <1>2, <1>3 DEF ShapesOK, StoreState
  <1>5. OneActivity'
    BY <1>0, <1>1, <1>2 DEF OneActivity, NoFetch, NoStore, Storing
  <1>6. LinesInPlace' /\ LinesCurrent'
    BY <1>0, <1>1, <1>2 DEF LinesInPlace, LinesCurrent, Stale, Filling
  <1>7. FetchCurrent'
    BY <1>1 DEF FetchCurrent, Cached, Wanted, Target, Holds
  <1>8. EntriesCurrent'
    <2>1. \A i \in Entries : ~Live(i)'
      BY <1>3 DEF Live
    <2> QED
      BY <2>1 DEF EntriesCurrent, Holds
  <1>9. NoFutureEpoch'
    BY <1>2, <1>3 DEF NoFutureEpoch
  <1> QED
    BY <1>4, <1>5, <1>6, <1>7, <1>8, <1>9

(* SFENCE.VMA empties the caches (clearDecodeCache).                       *)
LEMMA SfenceCoherent ==
    ASSUME OneWriter, CoherenceInv, SfenceVma
    PROVE  CoherenceInv'
  <1> USE DEF CoherenceInv
  <1>0. /\ fetch = NoFetch /\ amo = <<>> /\ fetch.at = "none"
        /\ icache \in [IcacheSlots -> CacheLine] /\ store \in [{"cpu"} -> StoreState]
    BY DEF SfenceVma, CpuIdle, NoFetch, ShapesOK, StoreState
  <1>1. /\ UNCHANGED <<dram, decoded, epoch, reservation, fetch, amo, dma>>
        /\ space' \in Spaces /\ space' \in spaces'
        /\ store' = [store EXCEPT !["cpu"] = [NoStore EXCEPT !.at = "epoch"]]
        /\ icache' = [s \in IcacheSlots |-> [icache[s] EXCEPT !.valid = FALSE]]
    BY <1>0 DEF SfenceVma
  <1>2. /\ icache' \in [IcacheSlots -> CacheLine]
        /\ \A s \in IcacheSlots : ~icache'[s].valid
    <2> HIDE DEF CoherenceInv
    <2> QED BY <1>0, <1>1 DEF CacheLine
  <1>3. store' \in [{"cpu"} -> StoreState] /\ Storing' = "epoch"
    <2>1. 0 \in Units /\ 0 \in 0..(EpochMod - 1)
      BY Sizes DEF Units
    <2>2. [NoStore EXCEPT !.at = "epoch"] = [at |-> "epoch", a |-> 0, epoch |-> 0]
      BY DEF NoStore
    <2> HIDE DEF CoherenceInv
    <2> QED BY <1>0, <1>1, <2>1, <2>2 DEF StoreState, Storing
  <1>4. ShapesOK'
    BY <1>1, <1>2, <1>3 DEF ShapesOK, StoreState
  <1>5. OneActivity'
    BY <1>0, <1>1, <1>3 DEF OneActivity, NoFetch, NoStore, Storing
  <1>6. LinesInPlace' /\ LinesCurrent'
    BY <1>2 DEF LinesInPlace, LinesCurrent
  <1>7. FetchCurrent'
    BY <1>0, <1>1 DEF FetchCurrent, NoFetch, Holds
  <1>8. EntriesCurrent' /\ NoFutureEpoch'
    BY <1>1, <1>3 DEF EntriesCurrent, NoFutureEpoch, Holds
  <1> QED
    BY <1>4, <1>5, <1>6, <1>7, <1>8

(* What leaves memory, the caches and the write under way alone.           *)
LEMMA QuietCoherent ==
    ASSUME CoherenceInv, UNCHANGED <<dram, icache, decoded, epoch, fetch, store, dma,
                                     space, spaces>>,
           reservation' \in [valid : BOOLEAN, addr : Units],
           amo' = <<>> \/ \E a \in Words : amo' = <<a>>,
           amo' # <<>> => fetch = NoFetch /\ store["cpu"] = NoStore
    PROVE  CoherenceInv'
  <1> USE DEF CoherenceInv
  <1>1. ShapesOK'
    BY DEF ShapesOK
  <1>2. OneActivity'
    BY DEF OneActivity, Storing
  <1>3. LinesInPlace' /\ LinesCurrent'
    BY DEF LinesInPlace, LinesCurrent, Stale, Filling, Storing, Wanted, Target
  <1>4. FetchCurrent'
    BY DEF FetchCurrent, Wanted, Target, Cached, Holds
  <1>5. EntriesCurrent' /\ NoFutureEpoch'
    BY DEF EntriesCurrent, NoFutureEpoch, Live, Storing, Holds
  <1> QED
    BY <1>1, <1>2, <1>3, <1>4, <1>5

(* The disk writes between instructions, and its units are exempt.         *)
LEMMA DiskCoherent ==
    ASSUME CoherenceInv, DiskRead
    PROVE  CoherenceInv'
  <1> USE DEF CoherenceInv
  <1>0. fetch = NoFetch /\ amo = <<>> /\ fetch.at = "none" /\ Storing = "none"
    BY DEF DiskRead, CpuIdle, NoFetch, NoStore, Storing
  <1>1. PICK u \in DmaUnits, v \in Values :
           dram' = [dram EXCEPT ![u] = v] /\ dma' = dma \union {u}
    BY DEF DiskRead
  <1>2. UNCHANGED <<icache, decoded, epoch, reservation, fetch, store, amo,
                    space, spaces>>
    BY DEF DiskRead, caches, translation
  <1>3. u \in Units /\ dram' \in [Units -> Values]
        /\ \A w \in Units : w \notin dma' => dram'[w] = dram[w]
    BY <1>1, MemoryAssumption DEF ShapesOK
  <1>4. ShapesOK'
    BY <1>2, <1>3 DEF ShapesOK
  <1>5. OneActivity'
    BY <1>2 DEF OneActivity, Storing
  <1>6. LinesInPlace'
    BY <1>2 DEF LinesInPlace
  <1>7. LinesCurrent'
    BY <1>0, <1>1, <1>2, <1>3 DEF LinesCurrent, Filling, Stale, Storing, PageUnits
  <1>8. FetchCurrent'
    BY <1>0, <1>2 DEF FetchCurrent, NoFetch, Holds
  <1>9. EntriesCurrent'
    <2>1. dma \subseteq dma' /\ \A w \in Units : w \notin dma' => dram'[w] = dram[w]
      BY <1>1, <1>3
    <2> QED
      BY <1>0, <1>2, <2>1 DEF EntriesCurrent, Live, Holds
  <1>10. NoFutureEpoch'
    BY <1>2 DEF NoFutureEpoch, Storing
  <1> QED
    BY <1>4, <1>5, <1>6, <1>7, <1>8, <1>9, <1>10

(* After a switch the entries are those of a translation in force before.  *)
LEMMA SwitchCoherent ==
    ASSUME CoherenceInv, NEW s \in Spaces, SwitchSpace(s)
    PROVE  CoherenceInv'
  <1> USE DEF CoherenceInv
  <1>0. fetch = NoFetch /\ fetch.at = "none" /\ Storing = "none"
    BY DEF SwitchSpace, CpuIdle, NoFetch, NoStore, Storing
  <1>1. /\ UNCHANGED <<dram, icache, decoded, epoch, reservation, fetch, store, amo, dma>>
        /\ space' = s /\ spaces' = spaces \cup {s}
    BY DEF SwitchSpace, caches
  <1>2. ShapesOK' /\ OneActivity'
    BY <1>1 DEF ShapesOK, OneActivity, Storing
  <1>3. LinesInPlace' /\ LinesCurrent'
    BY <1>0, <1>1 DEF LinesInPlace, LinesCurrent, Stale, Filling, Storing
  <1>4. FetchCurrent'
    BY <1>0, <1>1 DEF FetchCurrent, NoFetch
  <1>5. EntriesCurrent'
    BY <1>0, <1>1 DEF EntriesCurrent, Live, Holds
  <1>6. NoFutureEpoch'
    BY <1>1 DEF NoFutureEpoch, Storing
  <1> QED
    BY <1>2, <1>3, <1>4, <1>5, <1>6

-----------------------------------------------------------------------------
(* A store within a page writes the units and leaves the rest to be told.  *)
LEMMA StoreDramCoherent ==
    ASSUME OneWriter, CoherenceInv, StoreDram("cpu")
    PROVE  CoherenceInv'
  <1>1. PICK s \in Stores["cpu"], v \in Values : WriteDram("cpu", s[1], s[2], v)
    BY DEF StoreDram
  <1>2. /\ UNCHANGED <<icache, decoded, epoch, reservation, fetch, dma,
                       space, spaces>> /\ amo' = <<>>
        /\ fetch = NoFetch /\ store["cpu"] = NoStore
    BY DEF StoreDram, CpuIdle, caches, translation
  <1>3. s[1] \in Units /\ \A u \in Span(s[1], s[2]) : Page(u) = Page(s[1])
    BY MemoryAssumption DEF OneWriter
  <1> QED
    BY <1>1, <1>2, <1>3, WriteCoherent

(* A word is within a page, so SC and AMO writes are too.                  *)
LEMMA WordWriteCoherent ==
    ASSUME CoherenceInv, NEW a \in Words, NEW v \in Values, WriteDram("cpu", a, 2, v),
           fetch = NoFetch, store["cpu"] = NoStore, amo' = <<>>,
           UNCHANGED <<icache, decoded, epoch, reservation, fetch, dma, space, spaces>>
    PROVE  CoherenceInv'
  <1>1. a \in Units /\ \A u \in Span(a, 2) : Page(u) = Page(a)
    BY WordOnPage DEF Words
  <1> QED
    BY <1>1, WriteCoherent

(* The atomics write through the same path as stores (execSC_W,            *)
(* atomic_rmw_w).                                                          *)
LEMMA AtomicsCoherent ==
    ASSUME CoherenceInv, \/ \E a \in Words : LR(a) \/ SC(a) \/ AmoRead(a)
                         \/ AmoWrite
    PROVE  CoherenceInv'
  <1>0. /\ reservation \in [valid : BOOLEAN, addr : Units]
        /\ amo = <<>> \/ \E a \in Words : amo = <<a>>
    BY DEF CoherenceInv, ShapesOK
  <1>1. ASSUME NEW a \in Words, LR(a) PROVE CoherenceInv'
    <2>1. /\ UNCHANGED <<dram, icache, decoded, epoch, fetch, store, amo, dma,
                         space, spaces>> /\ amo = <<>>
          /\ reservation' = [valid |-> TRUE, addr |-> a]
      BY <1>1 DEF LR, caches, translation, CpuIdle
    <2>2. reservation' \in [valid : BOOLEAN, addr : Units]
      BY <2>1 DEF Words
    <2> QED
      BY <2>1, <2>2, QuietCoherent
  <1>2. ASSUME NEW a \in Words, SC(a) PROVE CoherenceInv'
    <2>1. /\ UNCHANGED <<icache, decoded, epoch, fetch, amo, dma,
                         space, spaces>> /\ amo = <<>>
          /\ fetch = NoFetch /\ store["cpu"] = NoStore
      BY <1>2 DEF SC, caches, translation, CpuIdle
    <2>2. CASE reservation.valid /\ reservation.addr = a
      <3>1. (\E v \in Values : WriteDram("cpu", a, 2, v)) /\ UNCHANGED reservation
        BY <1>2, <2>2 DEF SC
      <3> QED
        BY <2>1, <3>1, WordWriteCoherent
    <2>3. CASE ~(reservation.valid /\ reservation.addr = a)
      <3>1. /\ UNCHANGED <<dram, store>>
            /\ reservation' = [reservation EXCEPT !.valid = FALSE]
        BY <1>2, <2>3 DEF SC
      <3>2. reservation' \in [valid : BOOLEAN, addr : Units]
        BY <1>0, <3>1
      <3> QED
        BY <2>1, <3>1, <3>2, QuietCoherent
    <2> QED
      BY <2>2, <2>3
  <1>3. ASSUME NEW a \in Words, AmoRead(a) PROVE CoherenceInv'
    <2>1. /\ UNCHANGED <<dram, icache, decoded, epoch, reservation, fetch, store, dma,
                         space, spaces>>
          /\ amo' = <<a>> /\ fetch = NoFetch /\ store["cpu"] = NoStore
      BY <1>3 DEF AmoRead, caches, translation, CpuIdle
    <2> QED
      BY <1>0, <2>1, QuietCoherent
  <1>4. ASSUME AmoWrite PROVE CoherenceInv'
    <2>1. /\ UNCHANGED <<icache, decoded, epoch, reservation, fetch, dma,
                         space, spaces>> /\ amo' = <<>>
          /\ amo # <<>>
      BY <1>4 DEF AmoWrite, caches, translation
    <2>2. fetch = NoFetch /\ store["cpu"] = NoStore
      BY <2>1 DEF CoherenceInv, OneActivity
    <2>3. PICK a \in Words : amo = <<a>>
      BY <1>0, <2>1
    <2>4. \E v \in Values : WriteDram("cpu", a, 2, v)
      BY <1>4, <2>3 DEF AmoWrite
    <2> QED
      BY <2>1, <2>2, <2>4, WordWriteCoherent
  <1> QED
    BY <1>1, <1>2, <1>3, <1>4

(* Every step of the one writer keeps the caches coherent.                 *)
LEMMA CoherenceStep ==
    ASSUME OneWriter, CoherenceInv, [Next]_vars
    PROVE  CoherenceInv'
  <1>1. CASE Fetch
    BY <1>1, FetchMissCoherent, FetchPageCoherent, PublishCoherent, ReadUnitCoherent,
       FillDecodedCoherent DEF Fetch
  <1>2. CASE \E t \in Threads : BusWrite(t)
    <2>1. BusWrite("cpu")
      BY <1>2 DEF OneWriter
    <2> QED
      BY <2>1, StoreDramCoherent, ReservationCoherent, InvalidateCoherent,
         ReadEpochCoherent, BumpCoherent DEF BusWrite
  <1>3. CASE SfenceVma \/ \E s \in Spaces : SwitchSpace(s)
    BY <1>3, SfenceCoherent, SwitchCoherent
  <1>4. CASE (\E a \in Words : LR(a) \/ SC(a) \/ AmoRead(a)) \/ AmoWrite
    BY <1>4, AtomicsCoherent
  <1>5. CASE DiskRead
    BY <1>5, DiskCoherent
  <1>6. CASE UNCHANGED vars
    <2>1. UNCHANGED <<dram, icache, decoded, epoch, fetch, store, dma, reservation, amo,
                      space, spaces>>
      BY <1>6 DEF vars, caches, translation
    <2>2. /\ reservation \in [valid : BOOLEAN, addr : Units]
          /\ amo = <<>> \/ \E a \in Words : amo = <<a>>
          /\ amo # <<>> => fetch = NoFetch /\ store["cpu"] = NoStore
      BY DEF CoherenceInv, ShapesOK, OneActivity
    <2> QED
      BY <2>1, <2>2, QuietCoherent
  <1> QED
    BY <1>1, <1>2, <1>3, <1>4, <1>5, <1>6 DEF Next

(* Between instructions no line is being filled and no page is stale.      *)
THEOREM IcacheStaysCoherent == ASSUME OneWriter PROVE Spec => []IcacheCoherent
  <1>1. CoherenceInv => IcacheCoherent
    <2> SUFFICES ASSUME CoherenceInv, Quiet, NEW s \in DOMAIN icache, icache[s].valid,
                        NEW u \in PageUnits(icache[s].phys_page) \ dma
                 PROVE  icache[s].data[u] = dram[u]
      BY DEF IcacheCoherent
    <2>1. s \in IcacheSlots
      BY DEF CoherenceInv, ShapesOK
    <2>2. fetch.at = "none" /\ Storing = "none"
      BY DEF Quiet, CpuIdle, NoFetch, NoStore, Storing
    <2> QED
      BY <2>1, <2>2 DEF CoherenceInv, LinesCurrent, Filling, Stale
  <1> QED
    BY <1>1, InitCoherent, CoherenceStep, PTL DEF Spec

(* ... and what the decode cache would execute is what memory holds under  *)
(* a translation in force since the last store or fence.                   *)
THEOREM DecodeStaysCoherent == ASSUME OneWriter PROVE Spec => []DecodeCoherent
  <1>1. CoherenceInv => DecodeCoherent
    <2> SUFFICES ASSUME CoherenceInv, Quiet, NEW i \in DOMAIN decoded, Live(i)
                 PROVE  \E s \in spaces : InstructionHolds(s, decoded[i])
      BY DEF DecodeCoherent
    <2>1. i \in Entries /\ decoded[i].raw \in Seq(Values)
      BY DEF CoherenceInv, ShapesOK
    <2>2. DOMAIN decoded[i].raw = 1..Len(decoded[i].raw) /\ Storing = "none"
      BY <2>1 DEF Quiet, CpuIdle, NoStore, Storing
    <2>3. PICK s \in spaces : \A k \in 1..Len(decoded[i].raw) :
             Holds(s, decoded[i].pc + k - 1, decoded[i].raw[k])
      BY <2>1, <2>2 DEF CoherenceInv, EntriesCurrent
    <2> QED
      BY <2>2, <2>3 DEF InstructionHolds
  <1> QED
    BY <1>1, InitCoherent, CoherenceStep, PTL DEF Spec

-----------------------------------------------------------------------------
(* LR and SC.  While a reservation is valid the bus has not written its    *)
(* word since the LR, but for the write whose store is about to drop it.   *)

Reserved ==
    /\ reservation.valid =>
          /\ reservation.addr \in Words
          /\ \/ lr = <<reservation.addr>>
             \/ Storing = "reserve" /\ store["cpu"].a = reservation.addr
    /\ lr = <<>> \/ \E a \in Words : lr = <<a>>
    /\ sc # "unsound"

(* Two words that share a unit are the same word.                          *)
LEMMA WordsApart ==
    ASSUME NEW a \in Words, NEW b \in Words, Span(a, 2) \cap Span(b, 2) # {}
    PROVE  a = b
  BY DEF Words, Span, Units

(* A write that loses the LR's word is one of that very address.           *)
LEMMA WriteReserved ==
    ASSUME Reserved, CoherenceInv, NEW a \in Units, NEW n, NEW v,
           store["cpu"] = NoStore,
           \A w \in Words : Span(a, n) \cap Span(w, 2) # {} => a = w,
           WriteDram("cpu", a, n, v), UNCHANGED reservation, sc' # "unsound"
    PROVE  Reserved'
  <1>1. store'["cpu"].a = a /\ Storing' = "reserve"
    BY DEF WriteDram, CoherenceInv, ShapesOK, Storing
  <1>2. lr' = <<>> \/ lr' = lr
    BY DEF WriteDram
  <1>3. ASSUME reservation.valid, lr' # lr
        PROVE  a = reservation.addr
    <2>1. reservation.addr \in Words /\ lr = <<reservation.addr>>
      BY <1>3 DEF Reserved, Storing, NoStore
    <2>2. Overlaps(a, n)
      BY <1>3 DEF WriteDram
    <2>3. lr[1] = reservation.addr
      BY <2>1
    <2> QED
      BY <2>1, <2>2, <2>3 DEF Overlaps
  <1>4. reservation.valid => lr = <<reservation.addr>>
    BY DEF Reserved, Storing, NoStore
  <1> QED
    BY <1>1, <1>2, <1>3, <1>4 DEF Reserved

(* Every step keeps the reservation paired with the LR that made it        *)
(* (reservation_valid_, reservation_addr_).                                *)
LEMMA ReservedStep ==
    ASSUME OneWriter, WholeWords, CoherenceInv, Reserved, [Next]_vars
    PROVE  Reserved'
  <1>1. ASSUME UNCHANGED <<reservation, store, lr, sc>> PROVE Reserved'
    BY <1>1 DEF Reserved, Storing
  <1>2. CASE Fetch
    BY <1>1, <1>2 DEF Fetch, FetchMiss, fetch_page, Publish, ReadUnit, FillDecoded
  <1>3. CASE \E t \in Threads : BusWrite(t)
    <2>1. BusWrite("cpu")
      BY <1>3 DEF OneWriter
    <2>2. CASE StoreDram("cpu")
      <3>1. PICK s \in Stores["cpu"], v \in Values : WriteDram("cpu", s[1], s[2], v)
        BY <2>2 DEF StoreDram
      <3>2. store["cpu"] = NoStore /\ UNCHANGED <<reservation, sc>>
        BY <2>2 DEF StoreDram, CpuIdle
      <3>3. /\ s[1] \in Units
            /\ \A w \in Words : Span(s[1], s[2]) \cap Span(w, 2) # {} => s[1] = w
        BY MemoryAssumption DEF OneWriter, WholeWords
      <3> QED
        BY <3>1, <3>2, <3>3, WriteReserved DEF Reserved
    <2>3. CASE invalidateReservation("cpu")
      <3>1. UNCHANGED <<lr, sc>>
        BY <2>3 DEF invalidateReservation
      <3>2. /\ reservation' = [reservation EXCEPT
                                 !.valid = @ /\ reservation.addr # store["cpu"].a]
            /\ reservation \in [valid : BOOLEAN, addr : Units]
        BY <2>3 DEF invalidateReservation, CoherenceInv, ShapesOK
      <3>3. /\ reservation'.addr = reservation.addr
            /\ reservation'.valid => reservation.valid /\ reservation.addr # store["cpu"].a
        BY <3>2
      <3> QED
        BY <3>1, <3>3 DEF Reserved
    <2>4. CASE invalidate_page("cpu") \/ ReadEpoch("cpu") \/ clearDecodeCache("cpu")
      <3>1. UNCHANGED <<reservation, lr, sc>> /\ Storing # "reserve"
        BY <2>4 DEF invalidate_page, ReadEpoch, clearDecodeCache, Storing
      <3> QED
        BY <3>1 DEF Reserved
    <2> QED
      BY <2>1, <2>2, <2>3, <2>4 DEF BusWrite
  <1>4. CASE SfenceVma \/ \E s \in Spaces : SwitchSpace(s)
    BY <1>4 DEF SfenceVma, SwitchSpace, CpuIdle, NoStore, Reserved, Storing
  <1>5. ASSUME NEW a \in Words, LR(a) PROVE Reserved'
    BY <1>5 DEF LR, Reserved
  <1>6. ASSUME NEW a \in Words, SC(a) PROVE Reserved'
    <2>1. CASE reservation.valid /\ reservation.addr = a
      <3>1. PICK v \in Values : WriteDram("cpu", a, 2, v)
        BY <1>6, <2>1 DEF SC
      <3>2. store["cpu"] = NoStore /\ UNCHANGED reservation
            /\ sc' = IF lr = <<a>> THEN "sound" ELSE "unsound"
        BY <1>6, <2>1 DEF SC, CpuIdle
      <3>3. lr = <<a>>
        BY <2>1, <3>2 DEF Reserved, Storing, NoStore
      <3> QED
        BY <3>1, <3>2, <3>3, WriteReserved, WordsApart DEF Words
    <2>2. CASE ~(reservation.valid /\ reservation.addr = a)
      <3>1. lr' = <<>> /\ sc' = "failed" /\ reservation' = [reservation EXCEPT !.valid = FALSE]
        BY <1>6, <2>2 DEF SC
      <3>2. ~reservation'.valid
        BY <3>1 DEF CoherenceInv, ShapesOK
      <3> QED
        BY <3>1, <3>2 DEF Reserved
    <2> QED
      BY <2>1, <2>2
  <1>7. ASSUME NEW a \in Words, AmoRead(a) PROVE Reserved'
    BY <1>1, <1>7 DEF AmoRead
  <1>8. CASE AmoWrite
    <2>1. PICK a \in Words : amo = <<a>>
      BY <1>8 DEF AmoWrite, CoherenceInv, ShapesOK
    <2>2. PICK v \in Values : WriteDram("cpu", a, 2, v)
      BY <1>8, <2>1 DEF AmoWrite
    <2>3. store["cpu"] = NoStore /\ UNCHANGED <<reservation, sc>>
      BY <1>8 DEF AmoWrite, CoherenceInv, OneActivity
    <2> QED
      BY <2>2, <2>3, WriteReserved, WordsApart DEF Reserved, Words
  <1>9. CASE DiskRead
    BY <1>1, <1>9 DEF DiskRead
  <1>10. CASE UNCHANGED vars
    BY <1>1, <1>10 DEF vars
  <1> QED
    BY <1>2, <1>3, <1>4, <1>5, <1>6, <1>7, <1>8, <1>9, <1>10 DEF Next

(* An SC that succeeds follows an LR of its word, unwritten since.         *)
THEOREM ScStaysPaired == ASSUME OneWriter, WholeWords PROVE Spec => []ScIsPaired
  <1>1. Init => Reserved
    BY DEF Init, Reserved, WholeWords
  <1>2. Reserved => ScIsPaired
    BY DEF Reserved, ScIsPaired
  <1> QED
    BY <1>1, <1>2, InitCoherent, CoherenceStep, ReservedStep, PTL DEF Spec
=============================================================================
