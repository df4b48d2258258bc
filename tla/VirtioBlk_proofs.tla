-------------------------- MODULE VirtioBlk_proofs --------------------------
(***************************************************************************)
(* Proofs about VirtioBlk, for a queue, a disk and a guest of any size:    *)
(* that requests are answered once and in the order they were posted, and  *)
(* that a read returns what the last write before it left.                 *)
(***************************************************************************)
EXTENDS VirtioBlk, Arithmetic, SequenceTheorems, FiniteSetTheorems, TLAPS

-----------------------------------------------------------------------------
(* Ring indices.                                                           *)

Indices == 0..(IdxMod - 1)

\* The index k requests after i, and the entry of the ring it stands for.
Index(i, k) == (i + k) % IdxMod
At(i, k) == Slot(i + k)

(* The indices wrap at 2^16, a multiple of the queue size.                 *)
LEMMA RingSizes ==
    /\ QUEUE_SIZE \in Nat \ {0} /\ IdxMod \in Nat \ {0} /\ IdxMod > QUEUE_SIZE
    /\ IdxMod % QUEUE_SIZE = 0 /\ Indices \subseteq Nat /\ 0 \in Indices
    /\ 0 \in Heads /\ \A i \in Nat : Slot(i) \in Heads
  <1>1. QUEUE_SIZE \in Nat \ {0} /\ IdxMod \in Nat \ {0} /\ IdxMod > QUEUE_SIZE
    BY BlkAssumption
  <1>2. IdxMod % QUEUE_SIZE = 0
    BY BlkAssumption
  <1>3. \A i \in Nat : i % QUEUE_SIZE \in 0..(QUEUE_SIZE - 1)
    BY <1>1, DivisionWithRemainder
  <1> QED
    BY <1>1, <1>2, <1>3 DEF Indices, Slot, Heads

(* An index a ring's length on or less, without the remainder.             *)
LEMMA IndexIs ==
    ASSUME NEW i \in Indices, NEW k \in 0..QUEUE_SIZE
    PROVE  /\ Index(i, k) \in Indices
           /\ Index(i, k) = IF i + k < IdxMod THEN i + k ELSE i + k - IdxMod
  <1>1. i \in Nat /\ k \in Nat /\ i < IdxMod /\ k < IdxMod
    BY RingSizes DEF Indices
  <1>2. CASE i + k < IdxMod
    <2> DEFINE x == i + k
    <2>1. x \in 0..(IdxMod - 1)
      BY <1>1, <1>2, RingSizes
    <2> HIDE DEF x
    <2>2. x % IdxMod = x
      BY <2>1, RingSizes, RemainderOfSmall
    <2> QED
      BY <1>2, <2>1, <2>2 DEF Index, Indices, x
  <1>3. CASE ~(i + k < IdxMod)
    <2> DEFINE x == i + k - IdxMod
    <2>1. x \in 0..(IdxMod - 1) /\ x \in Nat /\ x + IdxMod = i + k
      BY <1>1, <1>3, RingSizes
    <2> HIDE DEF x
    <2>2. x % IdxMod = x
      BY <2>1, RingSizes, RemainderOfSmall
    <2>3. (x + IdxMod) % IdxMod = x % IdxMod
      BY <2>1, RingSizes, RemainderOfSelf, RemainderOfSum
    <2>4. Index(i, k) = x /\ x \in Indices
      BY <2>1, <2>2, <2>3 DEF Index, Indices
    <2> QED
      BY <1>3, <2>4 DEF x
  <1> QED
    BY <1>2, <1>3

(* The uint16_t increment, without the remainder.                          *)
LEMMA Next16Is ==
    ASSUME NEW i \in Indices
    PROVE  /\ Next16(i) \in Indices
           /\ Next16(i) = IF i + 1 = IdxMod THEN 0 ELSE i + 1
  <1>1. 1 \in 0..QUEUE_SIZE /\ i \in 0..(IdxMod - 1)
    BY RingSizes DEF Indices
  <1>2. /\ Index(i, 1) \in Indices
        /\ Index(i, 1) = IF i + 1 < IdxMod THEN i + 1 ELSE i + 1 - IdxMod
    BY <1>1, IndexIs
  <1>3. Next16(i) = Index(i, 1)
    BY DEF Next16, Index
  <1> QED
    BY <1>1, <1>2, <1>3, RingSizes

(* The indices of the requests from one on: each is the next of the one    *)
(* before it, and they differ as long as the ring has room.                *)
LEMMA Indexing ==
    ASSUME NEW i \in Indices
    PROVE  /\ Index(i, 0) = i
           /\ \A k \in 0..(QUEUE_SIZE - 1) : /\ Next16(Index(i, k)) = Index(i, k + 1)
                                             /\ Index(Next16(i), k) = Index(i, k + 1)
           /\ \A j, k \in 0..QUEUE_SIZE : Index(i, j) = Index(i, k) => j = k
  <1>1. i \in Nat /\ i < IdxMod
    BY RingSizes DEF Indices
  <1>2. Index(i, 0) = i
    BY <1>1, RingSizes, IndexIs
  <1>3. ASSUME NEW k \in 0..(QUEUE_SIZE - 1)
        PROVE  Next16(Index(i, k)) = Index(i, k + 1) /\ Index(Next16(i), k) = Index(i, k + 1)
    <2>1. k \in 0..QUEUE_SIZE /\ k + 1 \in 0..QUEUE_SIZE /\ k \in Nat
      BY RingSizes
    <2>2. /\ Index(i, k) \in Indices /\ Next16(i) \in Indices
          /\ Index(i, k) = IF i + k < IdxMod THEN i + k ELSE i + k - IdxMod
          /\ Index(i, k + 1) = IF i + (k + 1) < IdxMod THEN i + (k + 1)
                               ELSE i + (k + 1) - IdxMod
          /\ Next16(i) = IF i + 1 = IdxMod THEN 0 ELSE i + 1
      BY <2>1, IndexIs, Next16Is
    <2>3. /\ Next16(Index(i, k)) = IF Index(i, k) + 1 = IdxMod THEN 0 ELSE Index(i, k) + 1
          /\ Index(Next16(i), k) = IF Next16(i) + k < IdxMod THEN Next16(i) + k
                                   ELSE Next16(i) + k - IdxMod
      BY <2>1, <2>2, IndexIs, Next16Is
    <2>4. Next16(Index(i, k)) = Index(i, k + 1)
      BY <1>1, <2>1, <2>2, <2>3, RingSizes
    <2>5. Index(Next16(i), k) = Index(i, k + 1)
      BY <1>1, <2>1, <2>2, <2>3, RingSizes
    <2> QED
      BY <2>4, <2>5
  <1>4. ASSUME NEW j \in 0..QUEUE_SIZE, NEW k \in 0..QUEUE_SIZE, Index(i, j) = Index(i, k)
        PROVE  j = k
    <2>1. /\ Index(i, j) = IF i + j < IdxMod THEN i + j ELSE i + j - IdxMod
          /\ Index(i, k) = IF i + k < IdxMod THEN i + k ELSE i + k - IdxMod
      BY IndexIs
    <2>2. (IF i + j < IdxMod THEN i + j ELSE i + j - IdxMod)
             = IF i + k < IdxMod THEN i + k ELSE i + k - IdxMod
      BY <1>4, <2>1
    <2>3. j \in Int /\ k \in Int /\ 0 <= j /\ 0 <= k /\ j < IdxMod /\ k < IdxMod
      BY RingSizes
    <2> QED
      BY <1>1, <2>2, <2>3, RingSizes
  <1> QED
    BY <1>2, <1>3, <1>4

(* Their entries: the ring does not notice that an index wraps.            *)
LEMMA Places ==
    ASSUME NEW i \in Indices
    PROVE  /\ At(i, 0) = Slot(i)
           /\ \A k \in 0..QUEUE_SIZE : Slot(Index(i, k)) = At(i, k) /\ At(i, k) \in Heads
           /\ \A k \in 0..(QUEUE_SIZE - 1) : At(Next16(i), k) = At(i, k + 1)
           /\ \A j, k \in 0..(QUEUE_SIZE - 1) : At(i, j) = At(i, k) => j = k
  <1>1. i \in Nat /\ i + 0 = i
    BY RingSizes
  <1>2. ASSUME NEW x \in Nat PROVE Slot(x + IdxMod) = Slot(x)
    BY RingSizes, RemainderOfSum DEF Slot
  <1>3. ASSUME NEW k \in 0..QUEUE_SIZE PROVE Slot(Index(i, k)) = At(i, k) /\ At(i, k) \in Heads
    <2>1. i + k \in Nat /\ Index(i, k) \in Nat
      BY <1>1, IndexIs, RingSizes
    <2>2. Index(i, k) = i + k \/ i + k = Index(i, k) + IdxMod
      BY <1>1, <2>1, IndexIs, RingSizes
    <2>3. Slot(Index(i, k)) = Slot(i + k)
      BY <1>2, <2>1, <2>2
    <2> QED
      BY <2>1, <2>3, RingSizes DEF At
  <1>4. ASSUME NEW k \in 0..(QUEUE_SIZE - 1) PROVE At(Next16(i), k) = At(i, k + 1)
    <2>1. k \in 0..QUEUE_SIZE /\ k + 1 \in 0..QUEUE_SIZE
      BY RingSizes
    <2>2. Slot(Index(Next16(i), k)) = At(Next16(i), k) /\ Slot(Index(i, k + 1)) = At(i, k + 1)
      <3>1. ASSUME NEW a \in Indices, NEW b \in 0..QUEUE_SIZE PROVE Slot(Index(a, b)) = At(a, b)
        <4>1. a \in Nat /\ a + b \in Nat /\ Index(a, b) \in Nat
          BY IndexIs, RingSizes
        <4>2. Index(a, b) = a + b \/ a + b = Index(a, b) + IdxMod
          BY <4>1, IndexIs, RingSizes
        <4> QED
          BY <1>2, <4>1, <4>2 DEF At
      <3> QED
        BY <2>1, <3>1, Next16Is
    <2> QED
      BY <2>2, Indexing
  <1>5. ASSUME NEW j \in 0..(QUEUE_SIZE - 1), NEW k \in 0..(QUEUE_SIZE - 1), At(i, j) = At(i, k)
        PROVE  j = k
    BY <1>1, <1>5, RingSizes, RemaindersApart DEF At, Slot
  <1> QED
    BY <1>1, <1>3, <1>4, <1>5 DEF At

-----------------------------------------------------------------------------
(* The inductive invariant.                                                *)

Rings == [idx : Indices, ring : [Heads -> Heads]]

BlkTyped ==
    /\ cpu \in {"guest", "process", "isr", "reap", "down"}
    /\ last_avail_idx \in Indices /\ seen \in Indices
    /\ avail \in Rings /\ used \in Rings
    /\ request \in [Heads -> [type : Types, sector : Sectors]]
    /\ data \in [Heads -> Values] /\ status \in [Heads -> {OK, IOERR, Untouched}]
    /\ image \in [Sectors -> Values] /\ written \in [Sectors -> Values]
    /\ inflight \in Seq(Heads) /\ resets \in Nat

\* The avail ring, from what the driver has seen on, is what it has in flight.
Posted ==
    /\ Len(inflight) \in 0..QUEUE_SIZE
    /\ \A i, j \in 1..Len(inflight) : inflight[i] = inflight[j] => i = j
    /\ \A i \in 1..Len(inflight) : avail.ring[At(seen, i - 1)] = inflight[i]
    /\ avail.idx = Index(seen, Len(inflight))
    /\ last_avail_idx = used.idx

\* The first d requests in flight are answered, in the order they were posted.
Answered(d) ==
    /\ d \in 0..Len(inflight)
    /\ used.idx = Index(seen, d)
    /\ \A i \in 1..d : /\ used.ring[At(seen, i - 1)] = inflight[i]
                       /\ status[inflight[i]] # Untouched

\* The request i in flight is of this type for sector s, and succeeded.
Did(type, i, s) ==
    /\ request[inflight[i]] = [type |-> type, sector |-> s]
    /\ status[inflight[i]] = OK

\* What sector s holds after the first k requests in flight is v.
Holds(k, s, v) ==
    \/ v = written[s] /\ \A i \in 1..k : ~Did("OUT", i, s)
    \/ \E j \in 1..k : /\ Did("OUT", j, s) /\ v = data[inflight[j]]
                       /\ \A i \in (j + 1)..k : ~Did("OUT", i, s)

\* The image is what the writes answered made of it, and each read answered
\* returned what the writes before it made of its sector.
Consistent(d) ==
    /\ \A s \in Sectors : Holds(d, s, image[s])
    /\ \A i \in 1..d, s \in Sectors : Did("IN", i, s) => Holds(i - 1, s, data[inflight[i]])
    /\ reads[1] = reads[2]

BlkInv ==
    /\ BlkTyped /\ Posted /\ ~wrong
    /\ \E d \in 0..QUEUE_SIZE : Answered(d) /\ (resets = 0 => Consistent(d))

(* The disk's first request finds everything empty.                        *)
LEMMA BlkInit == ASSUME Init PROVE BlkInv
  <1>1. BlkTyped
    <2>1. NoRing \in Rings
      BY RingSizes DEF NoRing, Rings
    <2>2. 0 \in Sectors /\ NoRequest \in [type : Types, sector : Sectors]
      BY BlkAssumption DEF Sectors, NoRequest, Types
    <2>3. 0 \in Values
      BY BlkAssumption
    <2> QED
      BY <2>1, <2>2, <2>3, RingSizes DEF Init, BlkTyped
  <1>2. inflight = <<>> /\ Len(inflight) = 0 /\ 0 \in 0..QUEUE_SIZE
    BY RingSizes DEF Init
  <1>3. Index(0, 0) = 0
    BY RingSizes, Indexing
  <1>4. Posted /\ Answered(0)
    BY <1>2, <1>3 DEF Posted, Answered, Init, NoRing
  <1>5. Consistent(0)
    <2>1. \A s \in Sectors : image[s] = written[s]
      BY DEF Init
    <2>2. reads[1] = reads[2]
      BY DEF Init
    <2> QED
      BY <2>1, <2>2 DEF Consistent, Holds
  <1> QED
    BY <1>1, <1>2, <1>4, <1>5 DEF BlkInv, Init

-----------------------------------------------------------------------------
(* Steps that touch no request.                                            *)

quiet == <<last_avail_idx, disk, rings, request, data, status, seen, history, resets>>

(* Registers, interrupts and where the CPU thread is decide nothing here.  *)
LEMMA QuietKeeps ==
    ASSUME BlkInv, UNCHANGED quiet, cpu' \in {"guest", "process", "isr", "reap", "down"}
    PROVE  BlkInv'
  <1>1. BlkTyped' /\ Posted' /\ ~wrong'
    BY DEF BlkInv, quiet, disk, rings, history, BlkTyped, Posted
  <1>2. PICK d \in 0..QUEUE_SIZE : Answered(d) /\ (resets = 0 => Consistent(d))
    BY DEF BlkInv
  <1>3. Answered(d)'
    BY <1>2 DEF Answered, quiet, rings, history
  <1>4. resets' = 0 => Consistent(d)'
    BY <1>2 DEF Consistent, Holds, Did, quiet, disk, history
  <1> QED
    BY <1>1, <1>3, <1>4 DEF BlkInv

(* A reset empties the rings: nothing is in flight any more.               *)
LEMMA ResetKeeps == ASSUME BlkInv, Reset PROVE BlkInv'
  <1>1. NoRing \in Rings
    BY RingSizes DEF NoRing, Rings
  <1>2. BlkTyped'
    BY <1>1, RingSizes DEF BlkInv, BlkTyped, Reset, ResetIndex, disk
  <1>3. inflight' = <<>> /\ Len(inflight') = 0 /\ 0 \in 0..QUEUE_SIZE
    BY RingSizes DEF Reset
  <1>4. Index(0, 0) = 0
    BY RingSizes, Indexing
  <1>5. Posted' /\ Answered(0)'
    BY <1>3, <1>4 DEF Posted, Answered, Reset, NoRing, ResetIndex
  <1>6. resets' # 0 /\ ~wrong'
    BY DEF Reset, BlkInv, BlkTyped
  <1> QED
    BY <1>2, <1>3, <1>5, <1>6 DEF BlkInv

-----------------------------------------------------------------------------
(* The device answers the first request it has not answered.               *)

\* What is left of a request, for whoever looks at the sectors.
Effect(h) ==
    LET r == request[h]
    IN  \/ /\ r.type = "IN" /\ status'[h] = OK
           /\ image' = image /\ data'[h] = image[r.sector]
        \/ /\ r.type = "OUT" /\ status'[h] = OK /\ data'[h] = data[h]
           /\ image' = [image EXCEPT ![r.sector] = data[h]]
        \/ /\ r.type = "other" \/ status'[h] # OK
           /\ image' = image

(* A request succeeds and does what its type says, or changes no sector;   *)
(* other requests' buffers and status bytes are left alone.                *)
LEMMA RequestEffect ==
    ASSUME BlkTyped, NEW h \in Heads,
           CASE request[h].type = "IN" -> ReadSector(h)
             [] request[h].type = "OUT" -> WriteSector(h)
             [] OTHER -> Ignore(h)
    PROVE  /\ Effect(h)
           /\ \A g \in Heads \ {h} : status'[g] = status[g] /\ data'[g] = data[g]
           /\ status'[h] \in {OK, IOERR}
           /\ data' \in [Heads -> Values] /\ image' \in [Sectors -> Values]
           /\ status' \in [Heads -> {OK, IOERR, Untouched}]
  <1>1. /\ request[h].type \in Types /\ request[h].sector \in Sectors
        /\ data \in [Heads -> Values] /\ image \in [Sectors -> Values]
        /\ status \in [Heads -> {OK, IOERR, Untouched}]
    BY DEF BlkTyped
  <1>2. OK # IOERR
    BY DEF OK, IOERR
  <1>3. CASE Fails(h)
    BY <1>1, <1>2, <1>3 DEF Fails, Effect
  <1>4. CASE request[h].type = "IN" /\ ReadSector(h) /\ ~Fails(h)
    BY <1>1, <1>4 DEF ReadSector, ReadFails, Effect, disk
  <1>5. CASE request[h].type = "OUT" /\ WriteSector(h) /\ ~Fails(h)
    BY <1>1, <1>5 DEF WriteSector, Effect
  <1>6. CASE request[h].type = "other" /\ Ignore(h)
    BY <1>1, <1>6 DEF Ignore, Effect, disk
  <1>7. /\ request[h].type = "IN" => ReadSector(h)
        /\ request[h].type = "OUT" => WriteSector(h)
        /\ request[h].type = "other" => Ignore(h)
    OBVIOUS
  <1> QED
    BY <1>1, <1>3, <1>4, <1>5, <1>6, <1>7 DEF Types

\* The same, after a step.
DidAfter(type, i, s) ==
    /\ request'[inflight'[i]] = [type |-> type, sector |-> s]
    /\ status'[inflight'[i]] = OK

HoldsAfter(k, s, v) ==
    \/ v = written'[s] /\ \A i \in 1..k : ~DidAfter("OUT", i, s)
    \/ \E j \in 1..k : /\ DidAfter("OUT", j, s) /\ v = data'[inflight'[j]]
                       /\ \A i \in (j + 1)..k : ~DidAfter("OUT", i, s)

(* Consistent, after a step, in those words.                               *)
LEMMA ConsistentAfter ==
    ASSUME NEW d
    PROVE  Consistent(d)' <=>
              /\ \A s \in Sectors : HoldsAfter(d, s, image'[s])
              /\ \A i \in 1..d, s \in Sectors :
                     DidAfter("IN", i, s) => HoldsAfter(i - 1, s, data'[inflight'[i]])
              /\ reads'[1] = reads'[2]
  BY DEF Consistent, Holds, HoldsAfter, Did, DidAfter

\* Nothing changes about the first k requests in flight.
SameUpTo(k) ==
    /\ written' = written
    /\ \A i \in 1..k : /\ inflight'[i] = inflight[i]
                       /\ request'[inflight[i]] = request[inflight[i]]
                       /\ status'[inflight[i]] = status[inflight[i]]
                       /\ data'[inflight[i]] = data[inflight[i]]

(* What the first k requests left in a sector is theirs alone.             *)
LEMMA HoldsKept ==
    ASSUME NEW k \in Nat, SameUpTo(k), NEW s, NEW v, Holds(k, s, v)
    PROVE  HoldsAfter(k, s, v)
  <1>1. ASSUME NEW i \in 1..k, NEW type PROVE DidAfter(type, i, s) <=> Did(type, i, s)
    BY DEF Did, DidAfter, SameUpTo
  <1>2. ASSUME v = written[s], \A i \in 1..k : ~Did("OUT", i, s)
        PROVE  HoldsAfter(k, s, v)
    BY <1>1, <1>2 DEF Holds, HoldsAfter, SameUpTo
  <1>3. ASSUME NEW j \in 1..k, Did("OUT", j, s), v = data[inflight[j]],
               \A i \in (j + 1)..k : ~Did("OUT", i, s)
        PROVE  HoldsAfter(k, s, v)
    <2>1. DidAfter("OUT", j, s) /\ v = data'[inflight'[j]]
      BY <1>1, <1>3 DEF SameUpTo
    <2>2. \A i \in (j + 1)..k : ~DidAfter("OUT", i, s)
      BY <1>1, <1>3
    <2> QED
      BY <2>1, <2>2 DEF Holds, HoldsAfter
  <1> QED
    BY <1>2, <1>3 DEF Holds, HoldsAfter

(* ... and stays there if the next one does not write it.                  *)
LEMMA HoldsOn ==
    ASSUME NEW k \in Nat, NEW s, NEW v, HoldsAfter(k, s, v), ~DidAfter("OUT", k + 1, s)
    PROVE  HoldsAfter(k + 1, s, v)
  <1>1. \A i \in 1..(k + 1) : i \in 1..k \/ i = k + 1
    OBVIOUS
  <1>2. ASSUME v = written'[s], \A i \in 1..k : ~DidAfter("OUT", i, s)
        PROVE  HoldsAfter(k + 1, s, v)
    BY <1>1, <1>2 DEF Holds, HoldsAfter
  <1>3. ASSUME NEW j \in 1..k, DidAfter("OUT", j, s), v = data'[inflight'[j]],
               \A i \in (j + 1)..k : ~DidAfter("OUT", i, s)
        PROVE  HoldsAfter(k + 1, s, v)
    <2>1. \A i \in (j + 1)..(k + 1) : ~DidAfter("OUT", i, s)
      BY <1>3
    <2>2. j \in 1..(k + 1)
      OBVIOUS
    <2> QED
      BY <1>3, <2>1, <2>2 DEF Holds, HoldsAfter
  <1> QED
    BY <1>2, <1>3 DEF Holds, HoldsAfter

(* Reads that were answered stay answered as they were.                    *)
LEMMA ReadsKept ==
    ASSUME NEW k \in Nat, SameUpTo(k),
           \A i \in 1..k, s \in Sectors : Did("IN", i, s) => Holds(i - 1, s, data[inflight[i]])
    PROVE  \A i \in 1..k, s \in Sectors :
               DidAfter("IN", i, s) => HoldsAfter(i - 1, s, data'[inflight'[i]])
  <1> SUFFICES ASSUME NEW i \in 1..k, NEW s \in Sectors, DidAfter("IN", i, s)
               PROVE  HoldsAfter(i - 1, s, data'[inflight'[i]])
    OBVIOUS
  <1> DEFINE v == data[inflight[i]]
  <1>1. Did("IN", i, s) /\ data'[inflight'[i]] = v
    BY DEF Did, DidAfter, SameUpTo
  <1>2. i - 1 \in Nat /\ SameUpTo(i - 1)
    BY DEF SameUpTo
  <1>3. Holds(i - 1, s, v)
    BY <1>1
  <1>4. \A w : Holds(i - 1, s, w) => HoldsAfter(i - 1, s, w)
    BY <1>2, HoldsKept
  <1> QED
    BY <1>1, <1>3, <1>4

(* The request the device takes is the first one that is not answered, and *)
(* the used ring has room for it.                                          *)
LEMMA NextRequest ==
    ASSUME BlkTyped, Posted, NEW d \in 0..QUEUE_SIZE, Answered(d), used.idx # avail.idx
    PROVE  /\ d + 1 \in 1..Len(inflight) /\ d \in 0..(QUEUE_SIZE - 1)
           /\ avail.ring[Slot(last_avail_idx)] = inflight[d + 1]
           /\ Slot(used.idx) = At(seen, d) /\ Next16(used.idx) = Index(seen, d + 1)
           /\ inflight[d + 1] \in Heads
           /\ \A i \in 1..d : inflight[i] # inflight[d + 1]
  <1> DEFINE n == Len(inflight)
  <1>1. n \in 0..QUEUE_SIZE /\ d \in 0..n /\ n \in Nat /\ d \in Nat
    BY RingSizes DEF Posted, Answered
  <1>2. d # n
    BY DEF Posted, Answered
  <1>3. d + 1 \in 1..n /\ d \in 0..(QUEUE_SIZE - 1) /\ (d + 1) - 1 = d
    BY <1>1, <1>2, RingSizes
  <1>4. Slot(used.idx) = At(seen, d) /\ Next16(used.idx) = Index(seen, d + 1)
    BY <1>3, Indexing, Places DEF BlkTyped, Answered
  <1>5. avail.ring[At(seen, (d + 1) - 1)] = inflight[d + 1]
    BY <1>3 DEF Posted
  <1>6. inflight[d + 1] \in Heads
    BY <1>3 DEF BlkTyped
  <1>7. \A i \in 1..d : inflight[i] # inflight[d + 1]
    <2> SUFFICES ASSUME NEW i \in 1..d PROVE inflight[i] # inflight[d + 1]
      OBVIOUS
    <2>1. i \in 1..n /\ i # d + 1
      BY <1>1
    <2> QED
      BY <1>3, <2>1 DEF Posted
  <1> QED
    BY <1>3, <1>4, <1>5, <1>6, <1>7 DEF Posted

(* After it, the sectors are what the writes answered so far made of them. *)
LEMMA EffectIsConsistent ==
    ASSUME BlkTyped, NEW d \in Nat, SameUpTo(d), Consistent(d), UNCHANGED <<inflight, request, reads>>,
           inflight[d + 1] \in Heads, Effect(inflight[d + 1])
    PROVE  Consistent(d + 1)'
  <1> DEFINE h == inflight[d + 1]
             t == request[h].sector
  <1>1. /\ request[h] \in [type : Types, sector : Sectors]
        /\ t \in Sectors /\ image \in [Sectors -> Values]
    BY DEF BlkTyped
  <1>2. \A type, s : DidAfter(type, d + 1, s)
                       <=> request[h].type = type /\ t = s /\ status'[h] = OK
    BY <1>1 DEF DidAfter
  <1>3. ASSUME NEW s \in Sectors PROVE Holds(d, s, image[s]) /\ HoldsAfter(d + 1, s, image'[s])
    <2>1. Holds(d, s, image[s])
      BY DEF Consistent
    <2>2. \A w : Holds(d, s, w) => HoldsAfter(d, s, w)
      BY HoldsKept
    <2>3. CASE DidAfter("OUT", d + 1, s)
      <3>1. request[h].type = "OUT" /\ t = s /\ status'[h] = OK
        BY <1>2, <2>3
      <3>2. image'[s] = data[h] /\ data'[h] = data[h]
        BY <1>1, <3>1 DEF Effect
      <3>3. data'[inflight'[d + 1]] = image'[s] /\ d + 1 \in 1..(d + 1)
        BY <3>2
      <3>4. \A i \in ((d + 1) + 1)..(d + 1) : ~DidAfter("OUT", i, s)
        OBVIOUS
      <3> QED
        BY <2>1, <2>3, <3>3, <3>4 DEF Holds, HoldsAfter
    <2>4. CASE ~DidAfter("OUT", d + 1, s)
      <3>1. image'[s] = image[s]
        <4>1. ~(request[h].type = "OUT" /\ t = s /\ status'[h] = OK)
          BY <1>1, <1>2, <2>4
        <4> QED
          BY <1>1, <4>1 DEF Effect
      <3>2. \A w : HoldsAfter(d, s, w) => HoldsAfter(d + 1, s, w)
        BY <2>4, HoldsOn
      <3> QED
        BY <2>1, <2>2, <3>1, <3>2
    <2> QED
      BY <2>3, <2>4
  <1>4. ASSUME NEW i \in 1..(d + 1), NEW s \in Sectors, DidAfter("IN", i, s)
        PROVE  HoldsAfter(i - 1, s, data'[inflight'[i]])
    <2>1. CASE i \in 1..d
      <3>1. \A j \in 1..d, r \in Sectors :
                DidAfter("IN", j, r) => HoldsAfter(j - 1, r, data'[inflight'[j]])
        BY ReadsKept DEF Consistent
      <3> QED
        BY <1>4, <2>1, <3>1
    <2>2. CASE i = d + 1
      <3>1. request[h].type = "IN" /\ t = s /\ status'[h] = OK
        BY <1>2, <1>4, <2>2
      <3>2. data'[h] = image[s]
        BY <3>1 DEF Effect
      <3>3. \A w : Holds(d, s, w) => HoldsAfter(d, s, w)
        BY HoldsKept
      <3>4. HoldsAfter(d, s, data'[h])
        BY <1>3, <3>2, <3>3
      <3>5. i - 1 = d /\ inflight'[i] = h
        BY <2>2
      <3> QED
        BY <3>4, <3>5
    <2> QED
      BY <2>1, <2>2
  <1> QED
    BY <1>3, <1>4, ConsistentAfter DEF Consistent

(* The device answers one more request, and in order.                      *)
LEMMA HandleKeeps == ASSUME BlkInv, handle_request PROVE BlkInv'
  <1>0. BlkTyped /\ Posted /\ ~wrong
    BY DEF BlkInv
  <1>1. PICK d \in 0..QUEUE_SIZE : Answered(d) /\ (resets = 0 => Consistent(d))
    BY DEF BlkInv
  <1> DEFINE h == inflight[d + 1]
             next == [idx |-> Next16(used.idx), ring |-> [used.ring EXCEPT ![Slot(used.idx)] = h]]
  <1>2. /\ UNCHANGED <<avail, request, cpu, seen, inflight, wrong, written, reads, resets>>
        /\ last_avail_idx # avail.idx
    BY DEF handle_request, history
  <1>3. /\ d + 1 \in 1..Len(inflight) /\ d \in 0..(QUEUE_SIZE - 1)
        /\ avail.ring[Slot(last_avail_idx)] = h
        /\ Slot(used.idx) = At(seen, d) /\ Next16(used.idx) = Index(seen, d + 1)
        /\ h \in Heads /\ \A i \in 1..d : inflight[i] # h
    <2>1. used.idx # avail.idx
      BY <1>0, <1>2 DEF Posted
    <2> QED
      BY <1>0, <1>1, <2>1, NextRequest
  <1>4. /\ CASE request[h].type = "IN" -> ReadSector(h)
             [] request[h].type = "OUT" -> WriteSector(h)
             [] OTHER -> Ignore(h)
        /\ Complete(h)
    BY <1>3 DEF handle_request
  <1>5. used' = next /\ last_avail_idx' = Next16(last_avail_idx)
    BY <1>4 DEF Complete
  <1> HIDE DEF h
  <1>6. /\ Effect(h) /\ \A g \in Heads \ {h} : status'[g] = status[g] /\ data'[g] = data[g]
        /\ status'[h] \in {OK, IOERR}
        /\ data' \in [Heads -> Values] /\ image' \in [Sectors -> Values]
        /\ status' \in [Heads -> {OK, IOERR, Untouched}]
    BY <1>0, <1>3, <1>4, RequestEffect
  <1>7. /\ used.idx \in Indices /\ used.ring \in [Heads -> Heads] /\ seen \in Indices
        /\ last_avail_idx = used.idx /\ inflight \in Seq(Heads)
        /\ At(seen, d) \in Heads
    BY <1>0, <1>3, Places, RingSizes DEF BlkTyped, Posted, Rings
  <1>8. used'.idx = Index(seen, d + 1) /\ used'.ring = [used.ring EXCEPT ![At(seen, d)] = h]
    BY <1>3, <1>5
  <1>9. BlkTyped'
    <2>1. Next16(used.idx) \in Indices
      BY <1>7, Next16Is
    <2>2. [used.ring EXCEPT ![Slot(used.idx)] = h] \in [Heads -> Heads]
      BY <1>3, <1>7
    <2>3. used' \in Rings /\ last_avail_idx' \in Indices
      BY <1>5, <1>7, <2>1, <2>2 DEF Rings
    <2> QED
      BY <1>0, <1>2, <1>6, <2>3 DEF BlkTyped
  <1>10. Posted'
    BY <1>0, <1>2, <1>5 DEF Posted
  <1>11. \A i \in 1..d : inflight[i] \in Heads \ {h}
    BY <1>1, <1>3, <1>7 DEF Answered
  <1>12. Answered(d + 1)'
    <2>1. d + 1 \in 0..Len(inflight')
      BY <1>2, <1>3
    <2>2. ASSUME NEW i \in 1..(d + 1)
          PROVE  used'.ring[At(seen', i - 1)] = inflight'[i] /\ status'[inflight'[i]] # Untouched
      <3>1. CASE i \in 1..d
        <4>1. i - 1 \in 0..(QUEUE_SIZE - 1) /\ i - 1 # d
          BY <1>3, <3>1, RingSizes
        <4>2. At(seen, i - 1) # At(seen, d) /\ At(seen, i - 1) \in Heads
          <5>1. i - 1 \in 0..QUEUE_SIZE
            BY <4>1, RingSizes
          <5>2. \A j, k \in 0..(QUEUE_SIZE - 1) : At(seen, j) = At(seen, k) => j = k
            BY <1>7, Places
          <5>3. At(seen, i - 1) \in Heads
            BY <1>7, <5>1, Places
          <5> QED
            BY <1>3, <4>1, <5>2, <5>3
        <4>3. used'.ring[At(seen, i - 1)] = used.ring[At(seen, i - 1)]
          BY <1>7, <1>8, <4>2
        <4>4. status'[inflight[i]] = status[inflight[i]]
          BY <1>6, <1>11, <3>1
        <4> QED
          BY <1>1, <1>2, <3>1, <4>3, <4>4 DEF Answered
      <3>2. CASE i = d + 1
        <4>1. i - 1 = d /\ inflight'[i] = h /\ seen' = seen
          BY <1>2, <3>2 DEF h
        <4>2. used'.ring[At(seen, d)] = h
          BY <1>7, <1>8
        <4>3. status'[h] # Untouched
          BY <1>6 DEF OK, IOERR, Untouched
        <4> QED
          BY <4>1, <4>2, <4>3
      <3> QED
        BY <1>3, <3>1, <3>2
    <2> QED
      BY <1>2, <1>8, <2>1, <2>2 DEF Answered
  <1>13. resets' = 0 => Consistent(d + 1)'
    <2> SUFFICES ASSUME resets = 0 PROVE Consistent(d + 1)'
      BY <1>2
    <2>1. SameUpTo(d)
      BY <1>2, <1>6, <1>11 DEF SameUpTo
    <2>2. Consistent(d) /\ d \in Nat
      BY <1>1, <1>3
    <2> QED
      BY <1>0, <1>2, <1>3, <1>6, <2>1, <2>2, EffectIsConsistent DEF h
  <1> QED
    <2>1. d + 1 \in 0..QUEUE_SIZE
      BY <1>3, RingSizes
    <2> QED
      BY <1>0, <1>2, <1>9, <1>10, <1>12, <1>13, <2>1 DEF BlkInv

-----------------------------------------------------------------------------
(* The driver posts a request.                                             *)

(* Posted requests have different heads, so the driver finds a free one    *)
(* only while the ring has room.                                           *)
LEMMA RoomToPost ==
    ASSUME BlkTyped, Posted, NEW h \in Heads, Free(h)
    PROVE  Len(inflight) \in 0..(QUEUE_SIZE - 1)
  <1> SUFFICES ASSUME Len(inflight) = QUEUE_SIZE PROVE FALSE
    BY RingSizes DEF Posted
  <1> DEFINE f == [k \in Heads |-> inflight[k + 1]]
  <1>1. \A k \in Heads : k + 1 \in 1..Len(inflight) /\ k \in Nat
    BY RingSizes DEF Heads
  <1>2. f \in [Heads -> Heads]
    BY <1>1 DEF BlkTyped
  <1>3. \A j, k \in Heads : f[j] = f[k] => j = k
    <2> SUFFICES ASSUME NEW j \in Heads, NEW k \in Heads, f[j] = f[k] PROVE j = k
      OBVIOUS
    <2>1. j + 1 = k + 1
      BY <1>1 DEF Posted
    <2> QED
      BY <1>1, <2>1
  <1> HIDE DEF f
  <1>4. f \in Injection(Heads, Heads)
    BY <1>2, <1>3 DEF Injection, IsInjective
  <1>5. IsFiniteSet(Heads)
    BY RingSizes, FS_Interval DEF Heads
  <1>6. f \in Surjection(Heads, Heads)
    BY <1>4, <1>5, FS_Injection
  <1>7. PICK k \in Heads : f[k] = h
    BY <1>6 DEF Surjection
  <1>8. inflight[k + 1] = h /\ k + 1 \in DOMAIN inflight
    BY <1>1, <1>7 DEF f, BlkTyped
  <1> QED
    BY <1>8 DEF Free

(* Nothing changes about the requests answered: not for the sectors either. *)
LEMMA SameIsConsistent ==
    ASSUME NEW d \in Nat, SameUpTo(d), Consistent(d), UNCHANGED <<image, reads>>
    PROVE  Consistent(d)'
  <1>1. \A s, v : Holds(d, s, v) => HoldsAfter(d, s, v)
    BY HoldsKept
  <1>2. \A i \in 1..d, s \in Sectors :
            DidAfter("IN", i, s) => HoldsAfter(i - 1, s, data'[inflight'[i]])
    BY ReadsKept DEF Consistent
  <1> QED
    BY <1>1, <1>2, ConsistentAfter DEF Consistent

(* A new request goes to the end of the ring, into a slot of its own.      *)
LEMMA PostKeeps == ASSUME BlkInv, Post PROVE BlkInv'
  <1>0. BlkTyped /\ Posted /\ ~wrong
    BY DEF BlkInv
  <1>1. PICK d \in 0..QUEUE_SIZE : Answered(d) /\ (resets = 0 => Consistent(d))
    BY DEF BlkInv
  <1>2. UNCHANGED <<last_avail_idx, disk, used, cpu, seen, wrong, written, reads, resets>>
    BY DEF Post, device
  <1>3. PICK h \in Heads, t \in Types, sec \in Sectors, v \in Values :
          /\ Free(h)
          /\ request' = [request EXCEPT ![h] = [type |-> t, sector |-> sec]]
          /\ data' = [data EXCEPT ![h] = v]
          /\ status' = [status EXCEPT ![h] = Untouched]
          /\ avail' = [idx |-> Next16(avail.idx),
                       ring |-> [avail.ring EXCEPT ![Slot(avail.idx)] = h]]
          /\ inflight' = Append(inflight, h)
    BY DEF Post
  <1> DEFINE n == Len(inflight)
  <1>4. /\ n \in 0..(QUEUE_SIZE - 1) /\ n \in Nat /\ n + 1 \in 0..QUEUE_SIZE
        /\ inflight \in Seq(Heads)
    BY <1>0, <1>3, RoomToPost, RingSizes DEF BlkTyped
  <1>5. /\ Len(inflight') = n + 1 /\ inflight' \in Seq(Heads)
        /\ inflight'[n + 1] = h /\ \A i \in 1..n : inflight'[i] = inflight[i]
    BY <1>3, <1>4
  <1>6. \A i \in 1..n : inflight[i] \in Heads /\ inflight[i] # h
    BY <1>3, <1>4 DEF Free
  <1>7. /\ avail.idx \in Indices /\ avail.ring \in [Heads -> Heads] /\ seen \in Indices
        /\ Slot(avail.idx) = At(seen, n) /\ At(seen, n) \in Heads
        /\ Next16(avail.idx) = Index(seen, n + 1) /\ Next16(avail.idx) \in Indices
    <2>1. avail.idx = Index(seen, n) /\ seen \in Indices
          /\ avail.idx \in Indices /\ avail.ring \in [Heads -> Heads]
      BY <1>0 DEF BlkTyped, Posted, Rings
    <2>2. n \in 0..QUEUE_SIZE
      BY <1>4, RingSizes
    <2> QED
      BY <1>4, <2>1, <2>2, Indexing, Places, Next16Is
  <1>8. BlkTyped'
    <2>1. avail' \in Rings
      <3>1. [avail.ring EXCEPT ![Slot(avail.idx)] = h] \in [Heads -> Heads]
        BY <1>7
      <3> QED
        BY <1>3, <1>7, <3>1 DEF Rings
    <2>2. request' \in [Heads -> [type : Types, sector : Sectors]]
      BY <1>0, <1>3 DEF BlkTyped
    <2>3. data' \in [Heads -> Values] /\ status' \in [Heads -> {OK, IOERR, Untouched}]
      BY <1>0, <1>3 DEF BlkTyped
    <2> QED
      BY <1>0, <1>2, <1>5, <2>1, <2>2, <2>3 DEF BlkTyped, disk
  <1>9. Posted'
    <2>1. \A i \in 1..(n + 1) : i \in 1..n \/ i = n + 1
      BY <1>4
    <2>2. \A i, j \in 1..(n + 1) : inflight'[i] = inflight'[j] => i = j
      BY <1>0, <1>5, <1>6, <2>1 DEF Posted
    <2>3. ASSUME NEW i \in 1..(n + 1) PROVE avail'.ring[At(seen', i - 1)] = inflight'[i]
      <3>1. CASE i \in 1..n
        <4>1. i - 1 \in 0..(QUEUE_SIZE - 1) /\ i - 1 # n /\ i - 1 \in 0..QUEUE_SIZE
          BY <1>4, <3>1, RingSizes
        <4>2. \A j, k \in 0..(QUEUE_SIZE - 1) : At(seen, j) = At(seen, k) => j = k
          BY <1>7, Places
        <4>3. At(seen, i - 1) \in Heads /\ At(seen, i - 1) # At(seen, n)
          BY <1>4, <1>7, <4>1, <4>2, Places
        <4>4. avail'.ring[At(seen, i - 1)] = avail.ring[At(seen, i - 1)]
          BY <1>3, <1>7, <4>3
        <4> QED
          BY <1>0, <1>2, <1>5, <3>1, <4>4 DEF Posted
      <3>2. CASE i = n + 1
        <4>1. i - 1 = n /\ inflight'[i] = h /\ seen' = seen
          BY <1>2, <1>4, <1>5, <3>2
        <4>2. avail'.ring[At(seen, n)] = h
          BY <1>3, <1>7
        <4> QED
          BY <4>1, <4>2
      <3> QED
        BY <2>1, <3>1, <3>2
    <2>4. avail'.idx = Index(seen, n + 1)
      BY <1>3, <1>7
    <2> QED
      BY <1>0, <1>2, <1>4, <1>5, <2>2, <2>3, <2>4 DEF Posted
  <1>10. d \in Nat /\ \A i \in 1..d : i \in 1..n
    BY <1>1, <1>4 DEF Answered
  <1>11. SameUpTo(d)
    BY <1>0, <1>2, <1>3, <1>5, <1>6, <1>10 DEF SameUpTo, BlkTyped
  <1>12. Answered(d)'
    <2>1. d \in 0..(n + 1)
      BY <1>1, <1>4 DEF Answered
    <2> QED
      BY <1>1, <1>2, <1>5, <1>11, <2>1 DEF Answered, SameUpTo
  <1>13. resets' = 0 => Consistent(d)'
    BY <1>1, <1>2, <1>10, <1>11, SameIsConsistent DEF disk
  <1> QED
    BY <1>0, <1>2, <1>8, <1>9, <1>12, <1>13 DEF BlkInv

-----------------------------------------------------------------------------
(* The driver reaps the oldest answered request.                           *)

(* What it remembers of the sectors moves on by that one request.          *)
LEMMA HoldsReaped ==
    ASSUME NEW k \in Nat, NEW s, NEW v, Holds(k + 1, s, v),
           UNCHANGED <<request, status, data>>,
           \A i \in 1..k : inflight'[i] = inflight[i + 1],
           Did("OUT", 1, s) => written'[s] = data[inflight[1]],
           ~Did("OUT", 1, s) => written'[s] = written[s]
    PROVE  HoldsAfter(k, s, v)
  <1>1. ASSUME NEW i \in 1..k PROVE DidAfter("OUT", i, s) <=> Did("OUT", i + 1, s)
    BY DEF Did, DidAfter
  <1>2. \A i \in 1..k : i + 1 \in 1..(k + 1)
    OBVIOUS
  <1>3. ASSUME v = written[s], \A i \in 1..(k + 1) : ~Did("OUT", i, s)
        PROVE  HoldsAfter(k, s, v)
    <2>1. v = written'[s]
      BY <1>3
    <2>2. \A i \in 1..k : ~DidAfter("OUT", i, s)
      BY <1>1, <1>2, <1>3
    <2> QED
      BY <2>1, <2>2 DEF HoldsAfter
  <1>4. ASSUME NEW j \in 1..(k + 1), Did("OUT", j, s), v = data[inflight[j]],
               \A i \in (j + 1)..(k + 1) : ~Did("OUT", i, s)
        PROVE  HoldsAfter(k, s, v)
    <2>1. CASE j = 1
      <3>1. v = written'[s]
        BY <1>4, <2>1
      <3>2. \A i \in 1..k : i + 1 \in (j + 1)..(k + 1)
        BY <2>1
      <3>3. \A i \in 1..k : ~DidAfter("OUT", i, s)
        BY <1>1, <1>4, <3>2
      <3> QED
        BY <3>1, <3>3 DEF HoldsAfter
    <2>2. CASE j # 1
      <3> DEFINE m == j - 1
      <3>1. m \in 1..k /\ m + 1 = j
        BY <2>2
      <3>2. DidAfter("OUT", m, s) /\ v = data'[inflight'[m]]
        BY <1>1, <1>4, <3>1
      <3>3. \A i \in (m + 1)..k : i \in 1..k /\ i + 1 \in (j + 1)..(k + 1)
        BY <3>1
      <3>4. \A i \in (m + 1)..k : ~DidAfter("OUT", i, s)
        BY <1>1, <1>4, <3>3
      <3> QED
        BY <3>1, <3>2, <3>4 DEF HoldsAfter
    <2> QED
      BY <2>1, <2>2
  <1> QED
    BY <1>3, <1>4 DEF Holds

(* The oldest used entry is the oldest request in flight, so the driver    *)
(* takes it off in order, and learns of it what the disk did.              *)
LEMMA ReapKeeps == ASSUME BlkInv, Reap, seen # used.idx PROVE BlkInv'
  <1>0. BlkTyped /\ Posted /\ ~wrong
    BY DEF BlkInv
  <1>1. PICK d \in 0..QUEUE_SIZE : Answered(d) /\ (resets = 0 => Consistent(d))
    BY DEF BlkInv
  <1> DEFINE n == Len(inflight)
             h == used.ring[Slot(seen)]
             r == request[h]
             m == d - 1
  <1>2. /\ UNCHANGED <<last_avail_idx, disk, rings, request, data, status, resets, cpu>>
        /\ seen' = Next16(seen)
        /\ wrong' = (wrong \/ ~Oldest(h) \/ status[h] = Untouched)
        /\ inflight' = IF Oldest(h) THEN Tail(inflight) ELSE inflight
        /\ written' = IF r.type = "OUT" /\ status[h] = OK
                      THEN [written EXCEPT ![r.sector] = data[h]] ELSE written
        /\ reads' = IF r.type = "IN" /\ status[h] = OK
                    THEN <<data[h], written[r.sector]>> ELSE reads
    BY DEF Reap, device, bounds
  <1>3. /\ seen \in Indices /\ inflight \in Seq(Heads) /\ n \in 0..QUEUE_SIZE
        /\ At(seen, 0) = Slot(seen) /\ Index(seen, 0) = seen
    BY <1>0, Indexing, Places DEF BlkTyped, Posted
  <1>4. d # 0 /\ d \in 0..n
    BY <1>1, <1>3 DEF Answered
  <1>5. /\ m \in 0..(QUEUE_SIZE - 1) /\ m + 1 = d /\ m \in Nat /\ d \in 1..n
        /\ 1 \in 1..d /\ 1 \in 1..n /\ n - 1 \in 0..(QUEUE_SIZE - 1) /\ n - 1 \in Nat
        /\ (n - 1) + 1 = n /\ m \in 0..(n - 1)
    BY <1>3, <1>4, RingSizes
  <1>6. used.ring[At(seen, 1 - 1)] = inflight[1] /\ status[inflight[1]] # Untouched
    BY <1>1, <1>5 DEF Answered
  <1>7. h = inflight[1] /\ h \in Heads /\ status[h] # Untouched /\ Oldest(h)
    <2>1. h = inflight[1] /\ status[h] # Untouched
      BY <1>3, <1>6
    <2> QED
      BY <1>3, <1>5, <2>1 DEF Oldest
  <1>8. /\ inflight' = Tail(inflight) /\ inflight' \in Seq(Heads) /\ Len(inflight') = n - 1
        /\ \A i \in 1..(n - 1) : inflight'[i] = inflight[i + 1] /\ i + 1 \in 1..n
    <2>1. inflight # <<>> /\ inflight' = Tail(inflight)
      BY <1>2, <1>7 DEF Oldest
    <2> QED
      BY <1>3, <2>1
  <1>9. r.type \in Types /\ r.sector \in Sectors /\ written \in [Sectors -> Values]
        /\ r = [type |-> r.type, sector |-> r.sector] /\ data[h] \in Values
    BY <1>0, <1>7 DEF BlkTyped
  <1>10. /\ seen' \in Indices /\ At(seen', 0) = Slot(seen')
         /\ \A k \in 0..(QUEUE_SIZE - 1) :
                Index(seen', k) = Index(seen, k + 1) /\ At(seen', k) = At(seen, k + 1)
    BY <1>2, <1>3, Indexing, Places, Next16Is
  <1>11. wrong' = FALSE
    BY <1>0, <1>2, <1>7
  <1> HIDE DEF h, r, m, n
  <1>12. BlkTyped'
    <2>1. written' \in [Sectors -> Values]
      BY <1>2, <1>9
    <2> QED
      BY <1>0, <1>2, <1>8, <1>10, <2>1 DEF BlkTyped, disk, rings
  <1>13. \A i \in 1..(n - 1) : /\ i - 1 \in 0..(QUEUE_SIZE - 1)
                                /\ (i - 1) + 1 = i /\ (i + 1) - 1 = i
                                /\ At(seen', i - 1) = At(seen, (i + 1) - 1)
    <2> SUFFICES ASSUME NEW i \in 1..(n - 1)
                 PROVE  /\ i - 1 \in 0..(QUEUE_SIZE - 1)
                        /\ (i - 1) + 1 = i /\ (i + 1) - 1 = i
                        /\ At(seen', i - 1) = At(seen, (i + 1) - 1)
      OBVIOUS
    <2>1. i - 1 \in 0..(QUEUE_SIZE - 1) /\ (i - 1) + 1 = i /\ (i + 1) - 1 = i
      BY <1>5, RingSizes
    <2> QED
      BY <1>10, <2>1
  <1>14. Posted'
    <2>1. \A i, j \in 1..(n - 1) : inflight'[i] = inflight'[j] => i = j
      <3> SUFFICES ASSUME NEW i \in 1..(n - 1), NEW j \in 1..(n - 1), inflight'[i] = inflight'[j]
                   PROVE  i = j
        OBVIOUS
      <3>1. i + 1 = j + 1
        BY <1>0, <1>8 DEF Posted, n
      <3> QED
        BY <3>1
    <2>2. \A i \in 1..(n - 1) : avail.ring[At(seen', i - 1)] = inflight'[i]
      <3> TAKE i \in 1..(n - 1)
      <3>1. inflight'[i] = inflight[i + 1] /\ i + 1 \in 1..n
        BY <1>0, <1>8
      <3>2. avail.ring[At(seen, (i + 1) - 1)] = inflight[i + 1]
        BY <1>0, <3>1 DEF Posted, n
      <3>3. At(seen', i - 1) = At(seen, (i + 1) - 1)
        BY <1>13
      <3> QED
        BY ONLY <3>1, <3>2, <3>3
    <2>3. avail.idx = Index(seen', n - 1)
      BY <1>0, <1>5, <1>10 DEF Posted, n
    <2>4. n - 1 \in 0..QUEUE_SIZE
      BY <1>5, RingSizes
    <2> QED
      BY <1>0, <1>2, <1>8, <2>1, <2>2, <2>3, <2>4 DEF Posted, rings
  <1>15. Answered(m)'
    <2>1. used.idx = Index(seen', m)
      BY <1>1, <1>5, <1>10 DEF Answered
    <2>2. ASSUME NEW i \in 1..m
          PROVE  used.ring[At(seen', i - 1)] = inflight'[i] /\ status[inflight'[i]] # Untouched
      <3>1. i \in 1..(n - 1) /\ i + 1 \in 1..d
        BY <1>5
      <3> QED
        BY <1>1, <1>8, <1>13, <3>1 DEF Answered
    <2> QED
      BY <1>2, <1>5, <1>8, <2>1, <2>2 DEF Answered, rings
  <1>16. resets' = 0 => Consistent(m)'
    <2> SUFFICES ASSUME resets = 0 PROVE Consistent(m)'
      BY <1>2
    <2>1. Consistent(m + 1)
      BY <1>1, <1>5
    <2>2. \A type, s : Did(type, 1, s) <=> r.type = type /\ r.sector = s /\ status[h] = OK
      BY <1>7, <1>9 DEF Did, r
    <2>3. ASSUME NEW s \in Sectors
          PROVE  /\ Did("OUT", 1, s) => written'[s] = data[inflight[1]]
                 /\ ~Did("OUT", 1, s) => written'[s] = written[s]
      BY <1>2, <1>7, <1>9, <2>2
    <2>4. ASSUME NEW k \in 0..m, NEW s \in Sectors, NEW v, Holds(k + 1, s, v)
          PROVE  HoldsAfter(k, s, v)
      <3>1. k \in Nat /\ \A i \in 1..k : inflight'[i] = inflight[i + 1]
        BY <1>5, <1>8
      <3> QED
        BY <1>2, <2>3, <2>4, <3>1, HoldsReaped
    <2>5. \A s \in Sectors : HoldsAfter(m, s, image'[s])
      <3> SUFFICES ASSUME NEW s \in Sectors PROVE HoldsAfter(m, s, image'[s])
        OBVIOUS
      <3>1. Holds(m + 1, s, image[s]) /\ image' = image /\ m \in 0..m
        BY <1>2, <1>5, <2>1 DEF Consistent, disk
      <3> QED
        BY <2>4, <3>1
    <2>6. ASSUME NEW i \in 1..m, NEW s \in Sectors, DidAfter("IN", i, s)
          PROVE  HoldsAfter(i - 1, s, data'[inflight'[i]])
      <3>1. i - 1 \in 0..m /\ (i - 1) + 1 = i /\ (i + 1) - 1 = i /\ i + 1 \in 1..(m + 1)
        BY <1>5
      <3>2. inflight'[i] = inflight[i + 1]
        BY <1>5, <1>8
      <3>3. Did("IN", i + 1, s)
        BY <1>2, <2>6, <3>2 DEF Did, DidAfter
      <3>4. Holds(i, s, data[inflight[i + 1]])
        BY <2>1, <3>1, <3>3 DEF Consistent
      <3> QED
        BY <1>2, <2>4, <3>1, <3>2, <3>4
    <2>7. reads'[1] = reads'[2]
      <3>1. CASE r.type = "IN" /\ status[h] = OK
        <4>1. Did("IN", 1, r.sector) /\ 1 \in 1..(m + 1) /\ 1 - 1 = 0
          BY <1>5, <2>2, <3>1
        <4>2. Holds(0, r.sector, data[h])
          BY <1>7, <1>9, <2>1, <4>1 DEF Consistent
        <4>3. data[h] = written[r.sector]
          BY <4>2 DEF Holds
        <4> QED
          BY <1>2, <3>1, <4>3
      <3>2. CASE ~(r.type = "IN" /\ status[h] = OK)
        BY <1>2, <2>1, <3>2 DEF Consistent
      <3> QED
        BY <3>1, <3>2
    <2> QED
      BY <2>5, <2>6, <2>7, ConsistentAfter
  <1> QED
    <2>1. m \in 0..QUEUE_SIZE
      BY <1>5, RingSizes
    <2> QED
      BY <1>11, <1>12, <1>14, <1>15, <1>16, <2>1 DEF BlkInv

-----------------------------------------------------------------------------
(* Every step of the device and of its driver keeps the invariant.         *)
LEMMA BlkStep == ASSUME BlkInv, [Next]_vars PROVE BlkInv'
  <1> DEFINE phases == {"guest", "process", "isr", "reap", "down"}
  <1>1. CASE Configure
    BY <1>1, QuietKeeps DEF Configure, quiet, bounds
  <1>2. CASE Notify
    BY <1>2, QuietKeeps DEF Notify, quiet, device, bounds
  <1>3. CASE Raise
    BY <1>3, QuietKeeps DEF Raise, quiet, bounds
  <1>4. CASE Claim
    BY <1>4, QuietKeeps DEF Claim, quiet, device, bounds
  <1>5. CASE Ack
    BY <1>5, QuietKeeps DEF Ack, quiet, bounds
  <1>6. CASE Reap
    <2>1. CASE seen = used.idx
      BY <1>6, <2>1, QuietKeeps DEF Reap, quiet, device, bounds
    <2> QED
      BY <1>6, <2>1, ReapKeeps
  <1>7. CASE UNCHANGED vars
    <2>1. cpu \in phases
      BY DEF BlkInv, BlkTyped
    <2> QED
      BY <1>7, <2>1, QuietKeeps DEF vars, quiet, device, bounds
  <1> QED
    BY <1>1, <1>2, <1>3, <1>4, <1>5, <1>6, <1>7, ResetKeeps, HandleKeeps, PostKeeps
       DEF Next, Device, Handler

(* ... so it holds always.                                                 *)
LEMMA BlkInvHolds == Spec => []BlkInv
  BY BlkInit, BlkStep, PTL DEF Spec

(* The driver reaps every request once, in the order it posted them and    *)
(* with its status written, whatever the host does, through every wrap of  *)
(* the 16-bit indices and every reset (process_queue).                     *)
THEOREM RequestsAreIntact == Spec => []RequestsIntact
  <1>1. BlkInv => RequestsIntact
    BY DEF BlkInv, RequestsIntact
  <1> QED
    BY <1>1, BlkInvHolds, PTL

(* Until the first reset, a read answered OK returns what the last write   *)
(* answered OK before it stored there (process_request).                   *)
THEOREM ReadsReturnLastWrite == Spec => []ReadsLastWrite
  <1>1. BlkInv => ReadsLastWrite
    BY DEF BlkInv, ReadsLastWrite, Consistent
  <1> QED
    BY <1>1, BlkInvHolds, PTL

-----------------------------------------------------------------------------
(* The interrupt.                                                          *)

\* A request answered and not reaped is one the device is about to raise, one
\* the handler is reaping, or one an interrupt stands for that the handler has
\* not acknowledged.
AnswersAnnounced ==
    used.idx # seen =>
       \/ cpu \in {"process", "reap"}
       \/ interrupt_status = 1 /\ (irq \/ cpu = "isr")

(* The driver and the device hand each other the pending interrupt.        *)
LEMMA AnnouncedStep ==
    ASSUME AnswersAnnounced, [Next]_vars
    PROVE  AnswersAnnounced'
  <1>1. CASE UNCHANGED vars
    BY <1>1 DEF AnswersAnnounced, vars, device, rings
  <1>2. CASE Configure
    BY <1>2 DEF Configure, AnswersAnnounced, rings
  <1>3. CASE Reset
    BY <1>3 DEF Reset, AnswersAnnounced, NoRing
  <1>4. CASE Notify
    BY <1>4 DEF Notify, AnswersAnnounced
  <1>5. CASE handle_request
    BY <1>5 DEF handle_request, AnswersAnnounced
  <1>6. CASE Raise
    BY <1>6 DEF Raise, RaisedStatus, AnswersAnnounced
  <1>7. CASE Post
    BY <1>7 DEF Post, AnswersAnnounced, device
  <1>8. CASE Claim
    BY <1>8 DEF Claim, AnswersAnnounced, device, rings
  <1>9. CASE Ack
    BY <1>9 DEF Ack, AnswersAnnounced, rings
  <1>10. CASE Reap
    BY <1>10 DEF Reap, AnswersAnnounced, rings
  <1> QED
    BY <1>1, <1>2, <1>3, <1>4, <1>5, <1>6, <1>7, <1>8, <1>9, <1>10
       DEF Next, Device, Handler

(* No request is left answered and unseen: whenever the driver has one to  *)
(* reap, an interrupt that says so is on its way, the safety half of       *)
(* RequestsComplete. (virtio_blk.cpp:126-127)                              *)
THEOREM AnswersAreAnnounced == Spec => []AnswersAnnounced
  <1>1. Init => AnswersAnnounced
    BY DEF Init, NoRing, AnswersAnnounced
  <1>2. AnswersAnnounced /\ [Next]_vars => AnswersAnnounced'
    BY AnnouncedStep
  <1> QED
    BY <1>1, <1>2, PTL DEF Spec
=============================================================================
