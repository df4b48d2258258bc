-------------------------------- MODULE Memory --------------------------------
(***************************************************************************)
(* Guest memory and everything that remembers what it held: the            *)
(* instruction cache (src/cache/icache.cpp, copies of whole pages), the    *)
(* decode cache (cpu.cpp, one entry per slot, live while its epoch is the  *)
(* current one) and the LR/SC reservation.                                 *)
(*                                                                         *)
(* Every Bus write updates memory and then, in this order, the             *)
(* reservation, the instruction cache and the epoch, with no lock: the     *)
(* CPU thread's stores and the network poll thread's (rx_inject) may       *)
(* interleave at each of these.  The disk copies a sector into memory and  *)
(* does none of them.                                                      *)
(*                                                                         *)
(* Memory is a row of 2-byte units.  An instruction is one unit, or two    *)
(* when its first unit is Long.  The pc is virtual and so is the key of    *)
(* the decode cache, whose hit asks the MMU nothing; the instruction cache *)
(* and all stores are physical.  What the MMU answers a fetch (bare mode,  *)
(* the TLB's entries, the tables and the permissions at this level: see    *)
(* Mmu) is one of Spaces, and only the guest's own steps change it.        *)
(* DECODE_CACHE_SIZE is 4096, NUM_PAGES 64, PAGE_SIZE 2048 units and       *)
(* EpochMod 2^32 in the code.                                              *)
(***************************************************************************)
EXTENDS Integers, Sequences

CONSTANTS
    DRAM_SIZE, PAGE_SIZE, NUM_PAGES, DECODE_CACHE_SIZE, EpochMod,
    Values, Long,     \* what a unit holds; the values that start a long one
    Threads,          \* the threads that store: {"cpu"}, or with "poll"
    Stores,           \* Stores[t]: thread t's stores, <<unit, length>>
    Code,             \* the virtual units the CPU executes
    Spaces,           \* what fetches are translated by: each a function from
                      \* the virtual pages it maps to pages of the bus
    DmaUnits,         \* the units the disk reads into
    BootReserved      \* what the uninitialised reservation_valid_ may hold

Units == 0..(DRAM_SIZE - 1)
Page(u) == u \div PAGE_SIZE
PageUnits(p) == {u \in Units : Page(u) = p}
Slot(p) == p % NUM_PAGES
Index(pc) == pc % DECODE_CACHE_SIZE
Span(a, n) == a..(a + n - 1)
NoPc == -1

Maps(s, v) == Page(v) \in DOMAIN s
Phys(s, v) == s[Page(v)] * PAGE_SIZE + (v % PAGE_SIZE)

ASSUME MemoryAssumption ==
    /\ {DRAM_SIZE, PAGE_SIZE, NUM_PAGES, DECODE_CACHE_SIZE} \subseteq Nat \ {0}
    /\ EpochMod \in Nat /\ EpochMod > 1
    /\ Long \subseteq Values /\ "cpu" \in Threads
    /\ PAGE_SIZE % 2 = 0 /\ DRAM_SIZE % PAGE_SIZE = 0
    /\ \A t \in Threads : \A s \in Stores[t] :
          s \in Units \X (Nat \ {0}) /\ Span(s[1], s[2]) \subseteq Units
    /\ Code \subseteq Nat /\ DmaUnits \subseteq Units
    /\ Spaces # {} /\ \A s \in Spaces : s \in [DOMAIN s -> Nat]
    /\ BootReserved \subseteq BOOLEAN

VARIABLES
    dram,
    icache,       \* icache[slot]: [valid, phys_page, data], data by offset
    decoded,      \* decoded_cache_: [epoch, pc, raw]
    epoch,        \* current_epoch_
    reservation,  \* [valid, addr]
    fetch,        \* the fetch under way: [at, pc, got], got the units read
    store,        \* store[t], the bus write under way: [at, a, epoch]
    amo,          \* the word an AMO has read and not yet written
    lr,           \* history: the last LR's word, <<>> once the bus writes to it
    sc,           \* history: the last SC succeeded after an LR of its word
    dma,          \* history: the units the disk has written
    space,        \* the translation fetches get now
    spaces        \* history: those in force since the epoch last moved

caches == <<icache, decoded, epoch>>
translation == <<space, spaces>>
vars == <<dram, caches, reservation, fetch, store, amo, lr, sc, dma, translation>>

NoFetch == [at |-> "none", pc |-> NoPc, got |-> <<>>]
NoStore == [at |-> "none", a |-> 0, epoch |-> 0]

Init ==
    /\ dram \in [Units -> Values]
    /\ icache = [s \in 0..(NUM_PAGES - 1) |->
                    [valid |-> FALSE, phys_page |-> 0, data |-> <<>>]]
    /\ decoded = [i \in 0..(DECODE_CACHE_SIZE - 1) |->
                    [epoch |-> 0, pc |-> NoPc, raw |-> <<>>]]
    /\ epoch = 0
    \* The address of no reservation is never read.
    /\ reservation \in {r \in [valid : BootReserved, addr : Units] : r.valid \/ r.addr = 0}
    /\ fetch = NoFetch /\ store = [t \in Threads |-> NoStore]
    /\ amo = <<>> /\ lr = <<>> /\ sc = "none" /\ dma = {}
    /\ space \in Spaces /\ spaces = {space}

CpuIdle == fetch = NoFetch /\ store["cpu"] = NoStore /\ amo = <<>>

-----------------------------------------------------------------------------
(* Fetch and decode, on the CPU thread. *)

Live(i) == decoded[i].epoch = epoch /\ decoded[i].pc # NoPc

\* A live entry of this pc is executed as it is, with no translation and no
\* look at the level; otherwise the instruction is fetched.
FetchMiss(pc) ==
    /\ CpuIdle /\ pc \in Code
    /\ ~(Live(Index(pc)) /\ decoded[Index(pc)].pc = pc)
    /\ fetch' = [at |-> "page", pc |-> pc, got |-> <<>>]
    /\ UNCHANGED <<dram, caches, reservation, store, amo, lr, sc, dma, translation>>

Wanted == fetch.pc + Len(fetch.got)
Target == Phys(space, Wanted)
Cached(p) == icache[Slot(p)].valid /\ icache[Slot(p)].phys_page = p

\* The translation, a page fault if there is none, and fetch_page: a hit, or a
\* copy of the page that is published afterwards.  A page outside of memory is
\* an access fault.
fetch_page ==
    /\ fetch.at = "page"
    /\ IF ~Maps(space, Wanted) \/ Target \notin Units
       THEN fetch' = NoFetch /\ UNCHANGED icache
       ELSE IF Cached(Page(Target))
       THEN fetch' = [fetch EXCEPT !.at = "read"] /\ UNCHANGED icache
       ELSE /\ icache' = [icache EXCEPT ![Slot(Page(Target))].data =
                             [u \in PageUnits(Page(Target)) |-> dram[u]]]
            /\ fetch' = [fetch EXCEPT !.at = "publish"]
    /\ UNCHANGED <<dram, decoded, epoch, reservation, store, amo, lr, sc, dma, translation>>

Publish ==
    /\ fetch.at = "publish"
    /\ icache' = [icache EXCEPT ![Slot(Page(Target))].phys_page = Page(Target),
                                ![Slot(Page(Target))].valid = TRUE]
    /\ fetch' = [fetch EXCEPT !.at = "read"]
    /\ UNCHANGED <<dram, decoded, epoch, reservation, store, amo, lr, sc, dma, translation>>

\* The second unit of a long instruction may be on the next virtual page,
\* which is translated and fetched in its turn.
ReadUnit ==
    /\ fetch.at = "read"
    /\ LET got  == Append(fetch.got, icache[Slot(Page(Target))].data[Target])
           next == IF Len(got) = 1 /\ got[1] \in Long
                   THEN IF Page(Wanted + 1) = Page(Wanted) THEN "read" ELSE "page"
                   ELSE "fill"
       IN  fetch' = [fetch EXCEPT !.at = next, !.got = got]
    /\ UNCHANGED <<dram, caches, reservation, store, amo, lr, sc, dma, translation>>

\* The entry takes the epoch of now, not that of the lookup.
FillDecoded ==
    /\ fetch.at = "fill"
    /\ decoded' = [decoded EXCEPT ![Index(fetch.pc)] =
                      [epoch |-> epoch, pc |-> fetch.pc, raw |-> fetch.got]]
    /\ fetch' = NoFetch
    /\ UNCHANGED <<dram, icache, epoch, reservation, store, amo, lr, sc, dma, translation>>

-----------------------------------------------------------------------------
(* A bus write, by either thread. *)

Overlaps(a, n) == lr # <<>> /\ Span(a, n) \cap Span(lr[1], 2) # {}

WriteDram(t, a, n, v) ==
    /\ dram' = [u \in Units |-> IF u \in Span(a, n) THEN v ELSE dram[u]]
    /\ store' = [store EXCEPT ![t] = [at |-> "reserve", a |-> a, epoch |-> 0]]
    /\ lr' = IF Overlaps(a, n) THEN <<>> ELSE lr

StoreDram(t) ==
    /\ IF t = "cpu" THEN CpuIdle ELSE store[t] = NoStore
    /\ \E s \in Stores[t], v \in Values : WriteDram(t, s[1], s[2], v)
    /\ UNCHANGED <<caches, reservation, fetch, amo, sc, dma, translation>>

\* The reservation is dropped by a write to its very address.
invalidateReservation(t) ==
    /\ store[t].at = "reserve"
    /\ reservation' = [reservation EXCEPT !.valid = @ /\ reservation.addr # store[t].a]
    /\ store' = [store EXCEPT ![t].at = "invalidate"]
    /\ UNCHANGED <<dram, caches, fetch, amo, lr, sc, dma, translation>>

invalidate_page_Missing(t) ==
    /\ store[t].at = "invalidate"
    /\ store' = [store EXCEPT ![t].at = "epoch"]
    /\ UNCHANGED <<dram, caches, reservation, fetch, amo, lr, sc, dma, translation>>

\* The page of the first unit written.
invalidate_page(t) ==
    /\ store[t].at = "invalidate"
    /\ LET p == Page(store[t].a)
       IN  icache' = IF Cached(p) THEN [icache EXCEPT ![Slot(p)].valid = FALSE] ELSE icache
    /\ store' = [store EXCEPT ![t].at = "epoch"]
    /\ UNCHANGED <<dram, decoded, epoch, reservation, fetch, amo, lr, sc, dma, translation>>

\* current_epoch_++ reads, then writes: it is not atomic.
ReadEpoch(t) ==
    /\ store[t].at = "epoch"
    /\ store' = [store EXCEPT ![t].at = "bump", ![t].epoch = epoch]
    /\ UNCHANGED <<dram, caches, reservation, fetch, amo, lr, sc, dma, translation>>

Bump_NoClear(e) ==
    /\ epoch' = (e + 1) % EpochMod
    /\ decoded' = decoded

\* At the wrap every entry is emptied, and epoch 0 is skipped.
Bump(e) ==
    IF (e + 1) % EpochMod = 0
    THEN /\ epoch' = 1
         /\ decoded' = [i \in DOMAIN decoded |->
                           [decoded[i] EXCEPT !.pc = NoPc, !.epoch = 0]]
    ELSE epoch' = e + 1 /\ decoded' = decoded

clearDecodeCache(t) ==
    /\ store[t].at = "bump"
    /\ Bump(store[t].epoch)
    /\ spaces' = {space}
    /\ store' = [store EXCEPT ![t] = NoStore]
    /\ UNCHANGED <<dram, icache, reservation, fetch, amo, lr, sc, dma, space>>

-----------------------------------------------------------------------------
(* The other instructions of the CPU thread. *)

\* A write of satp (which empties the TLB), a trap or a return to a level that
\* may execute other pages, an access that replaces a TLB entry: the MMU
\* answers fetches by s from now on, and the caches hear nothing of it.
SwitchSpace(s) ==
    /\ CpuIdle
    /\ space' = s /\ spaces' = spaces \cup {s}
    /\ UNCHANGED <<dram, caches, reservation, fetch, store, amo, lr, sc, dma>>

\* The TLB entries it drops may uncover another translation.
SfenceVma ==
    /\ CpuIdle
    /\ space' \in Spaces /\ spaces' = spaces \cup {space'}
    /\ icache' = [s \in DOMAIN icache |-> [icache[s] EXCEPT !.valid = FALSE]]
    /\ store' = [store EXCEPT !["cpu"] = [NoStore EXCEPT !.at = "epoch"]]
    /\ UNCHANGED <<dram, decoded, epoch, reservation, fetch, amo, lr, sc, dma>>

Words == {u \in Units : u + 1 \in Units /\ u % 2 = 0}

LR(a) ==
    /\ CpuIdle
    /\ reservation' = [valid |-> TRUE, addr |-> a]
    /\ lr' = <<a>>
    /\ UNCHANGED <<dram, caches, fetch, store, amo, sc, dma, translation>>

SC_KeepsReservation(a) ==
    /\ CpuIdle
    /\ IF reservation.valid /\ reservation.addr = a
       THEN /\ \E v \in Values : WriteDram("cpu", a, 2, v)
            /\ sc' = IF lr = <<a>> THEN "sound" ELSE "unsound"
            /\ UNCHANGED reservation
       ELSE lr' = <<>> /\ sc' = "failed" /\ UNCHANGED <<dram, store, reservation>>
    /\ UNCHANGED <<caches, fetch, amo, dma, translation>>

\* A successful SC drops the reservation with its own write.
SC(a) ==
    /\ CpuIdle
    /\ IF reservation.valid /\ reservation.addr = a
       THEN /\ \E v \in Values : WriteDram("cpu", a, 2, v)
            /\ sc' = IF lr = <<a>> THEN "sound" ELSE "unsound"
            /\ UNCHANGED reservation
       ELSE /\ reservation' = [reservation EXCEPT !.valid = FALSE]
            /\ lr' = <<>> /\ sc' = "failed"
            /\ UNCHANGED <<dram, store>>
    /\ UNCHANGED <<caches, fetch, amo, dma, translation>>

\* atomic_rmw_w takes mem_mutex_, which no other write takes.
AmoRead(a) ==
    /\ CpuIdle
    /\ amo' = <<a>>
    /\ UNCHANGED <<dram, caches, reservation, fetch, store, lr, sc, dma, translation>>

AmoWrite ==
    /\ amo # <<>>
    /\ \E v \in Values : WriteDram("cpu", amo[1], 2, v)
    /\ amo' = <<>>
    /\ UNCHANGED <<caches, reservation, fetch, sc, dma, translation>>

\* A virtio-blk read request, on the CPU thread: only memory changes.
DiskRead ==
    /\ CpuIdle
    /\ \E u \in DmaUnits, v \in Values :
          /\ dram' = [dram EXCEPT ![u] = v]
          /\ dma' = dma \union {u}
    /\ UNCHANGED <<caches, reservation, fetch, store, amo, lr, sc, translation>>

-----------------------------------------------------------------------------
Fetch == (\E pc \in Code : FetchMiss(pc)) \/ fetch_page \/ Publish \/ ReadUnit
         \/ FillDecoded

BusWrite(t) ==
    \/ StoreDram(t) \/ invalidateReservation(t) \/ invalidate_page(t)
    \/ ReadEpoch(t) \/ clearDecodeCache(t)

Next ==
    \/ Fetch
    \/ \E t \in Threads : BusWrite(t)
    \/ SfenceVma \/ \E s \in Spaces : SwitchSpace(s)
    \/ \E a \in Words : LR(a) \/ SC(a) \/ AmoRead(a)
    \/ AmoWrite
    \/ DiskRead

Spec == Init /\ [][Next]_vars

-----------------------------------------------------------------------------
Quiet == CpuIdle /\ \A t \in Threads : store[t] = NoStore

\* Between instructions, with no write under way, every unit the instruction
\* cache would answer with is the one in memory, but where the disk wrote.
\* (README.md:14)
IcacheCoherent ==
    Quiet => \A s \in DOMAIN icache : icache[s].valid =>
                \A u \in PageUnits(icache[s].phys_page) \ dma :
                    icache[s].data[u] = dram[u]

\* Under space s, address v maps to x in memory, or to what the disk wrote.
Holds(s, v, x) ==
    /\ Maps(s, v) /\ Phys(s, v) \in Units
    /\ Phys(s, v) \in dma \/ dram[Phys(s, v)] = x

InstructionHolds(s, entry) ==
    \A k \in DOMAIN entry.raw : Holds(s, entry.pc + k - 1, entry.raw[k])

\* ... and every instruction the decode cache would execute is what memory
\* holds at its address under one translation in force since the last store or
\* fence, both of its units, across wraps of the epoch and entries that share a
\* slot: a guest that fences when it switches executes what is mapped and what
\* is in memory; one that does not may go on executing what another space maps.
\* (cpu.cpp:91-97)
DecodeCoherent ==
    Quiet => \A i \in DOMAIN decoded : Live(i) =>
                \E s \in spaces : InstructionHolds(s, decoded[i])

\* "Invalidated on DRAM writes and SFENCE.VMA" (README.md:14): a page the
\* instruction cache answers with was not written, by the disk either.
InvalidatedOnWrites ==
    Quiet => \A s \in DOMAIN icache : icache[s].valid =>
                \A u \in PageUnits(icache[s].phys_page) : icache[s].data[u] = dram[u]

\* An SC only succeeds after an LR of its word, and never when the bus
\* wrote the word, or another SC was tried, since.  (execute.cpp:885-929, cpu.hpp:95)
ScIsPaired == sc # "unsound"
=============================================================================
