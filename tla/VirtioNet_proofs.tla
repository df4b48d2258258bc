-------------------------- MODULE VirtioNet_proofs --------------------------
(***************************************************************************)
(* Proofs about VirtioNet, for rings of any size and frames of any shape:  *)
(* that the two threads keep the state in shape, the mutex included, that  *)
(* the poll thread writes only into buffers that are the device's, and     *)
(* that no frame is lost, repeated or changed on its way to libslirp, and  *)
(* none repeated, reordered or changed on its way to the driver.           *)
(***************************************************************************)
EXTENDS VirtioNet, Arithmetic, SequenceTheorems, FiniteSetTheorems, TLAPS

-----------------------------------------------------------------------------
(* Ring indices.                                                           *)

Indices == 0..(IdxMod - 1)

(* The indices wrap at 2^16, a multiple of the queue size.                 *)
LEMMA RingSizes ==
    /\ QUEUE_SIZE \in Nat \ {0} /\ IdxMod \in Nat \ {0} /\ IdxMod > QUEUE_SIZE
    /\ IdxMod % QUEUE_SIZE = 0 /\ Indices \subseteq Nat /\ 0 \in Indices
    /\ \A i \in Nat : Slot(i) \in Slots
  <1>1. QUEUE_SIZE \in Nat \ {0} /\ IdxMod \in Nat \ {0} /\ IdxMod > QUEUE_SIZE
    BY NetAssumption
  <1>2. IdxMod % QUEUE_SIZE = 0
    BY NetAssumption
  <1>3. \A i \in Nat : i % QUEUE_SIZE \in 0..(QUEUE_SIZE - 1)
    BY <1>1, DivisionWithRemainder
  <1> QED
    BY <1>1, <1>2, <1>3 DEF Indices, Slot, Slots

(* The distance between two indices, without the remainder.                *)
LEMMA AheadIs ==
    ASSUME NEW i \in Indices, NEW j \in Indices
    PROVE  Ahead(i, j) = IF i >= j THEN i - j ELSE i - j + IdxMod
  <1>1. CASE i >= j
    <2>1. i - j \in 0..(IdxMod - 1)
      BY <1>1, RingSizes DEF Indices
    <2> QED
      BY <1>1, <2>1, RingSizes, RemainderOfSmall DEF Ahead
  <1>2. CASE ~(i >= j)
    <2> DEFINE x == i - j + IdxMod
    <2>1. x \in 0..(IdxMod - 1) /\ x # 0 /\ x - IdxMod = i - j
      BY <1>2, RingSizes DEF Indices
    <2> HIDE DEF x
    <2>2. (x - IdxMod) % IdxMod = x
      BY <2>1, RingSizes, RemainderOfSmall
    <2> QED
      BY <1>2, <2>1, <2>2 DEF Ahead, x
  <1> QED
    BY <1>1, <1>2

(* The uint16_t increment, without the remainder.                          *)
LEMMA Next16Is ==
    ASSUME NEW i \in Indices
    PROVE  /\ Next16(i) \in Indices
           /\ Next16(i) = IF i + 1 = IdxMod THEN 0 ELSE i + 1
  <1>1. CASE i + 1 = IdxMod
    BY <1>1, RingSizes, RemainderOfSelf DEF Next16, Indices
  <1>2. CASE i + 1 # IdxMod
    <2>1. i + 1 \in 0..(IdxMod - 1)
      BY <1>2, RingSizes DEF Indices
    <2> QED
      BY <1>2, <2>1, RingSizes, RemainderOfSmall DEF Next16, Indices
  <1> QED
    BY <1>1, <1>2

(* What one step of either index does to the distance.                     *)
LEMMA Distances ==
    ASSUME NEW i \in Indices, NEW j \in Indices
    PROVE  /\ Ahead(i, j) \in Indices
           /\ Ahead(i, j) = 0 <=> i = j
           /\ Ahead(i, j) + 1 < IdxMod => Ahead(Next16(i), j) = Ahead(i, j) + 1
           /\ Ahead(Next16(i), j) <= Ahead(i, j) + 1
           /\ i # j => Ahead(i, Next16(j)) = Ahead(i, j) - 1
  <1>1. /\ Ahead(i, j) = IF i >= j THEN i - j ELSE i - j + IdxMod
        /\ Next16(i) \in Indices /\ Next16(j) \in Indices
        /\ Next16(i) = IF i + 1 = IdxMod THEN 0 ELSE i + 1
        /\ Next16(j) = IF j + 1 = IdxMod THEN 0 ELSE j + 1
    BY AheadIs, Next16Is
  <1>2. /\ Ahead(Next16(i), j) = IF Next16(i) >= j THEN Next16(i) - j ELSE Next16(i) - j + IdxMod
        /\ Ahead(i, Next16(j)) = IF i >= Next16(j) THEN i - Next16(j) ELSE i - Next16(j) + IdxMod
    BY <1>1, AheadIs
  <1> QED
    BY <1>1, <1>2, RingSizes DEF Indices

(* Two indices as far ahead of a third are one.                            *)
LEMMA SameDistance ==
    ASSUME NEW i \in Indices, NEW j \in Indices, NEW k \in Indices, Ahead(i, k) = Ahead(j, k)
    PROVE  i = j
  <1>1. /\ Ahead(i, k) = IF i >= k THEN i - k ELSE i - k + IdxMod
        /\ Ahead(j, k) = IF j >= k THEN j - k ELSE j - k + IdxMod
    BY AheadIs
  <1>2. i \in 0..(IdxMod - 1) /\ j \in 0..(IdxMod - 1) /\ k \in 0..(IdxMod - 1)
    BY DEF Indices
  <1>3. (IF i >= k THEN i - k ELSE i - k + IdxMod) = IF j >= k THEN j - k ELSE j - k + IdxMod
    BY <1>1
  <1> QED
    BY <1>2, <1>3, RingSizes

(* Indices wrap at a multiple of the slots, so a slot does not notice.     *)
LEMMA SlotOfWrapped ==
    ASSUME NEW x \in Nat
    PROVE  Slot(x + IdxMod) = Slot(x)
  BY RingSizes, RemainderOfSum DEF Slot

(* Slots a ring's length apart or closer are different.                    *)
LEMMA SlotsApart ==
    ASSUME NEW x \in Nat, NEW j \in 0..(QUEUE_SIZE - 1), NEW k \in 0..(QUEUE_SIZE - 1),
           Slot(x + j) = Slot(x + k)
    PROVE  j = k
  BY RingSizes, RemaindersApart DEF Slot

\* The place of the entry k after the one at index i.
At(i, k) == Slot(i + k)

(* The places of the entries from an index on: one after the other, and    *)
(* different as long as the ring has room.                                 *)
LEMMA Places ==
    ASSUME NEW i \in Indices
    PROVE  /\ At(i, 0) = Slot(i)
           /\ \A k \in Nat : At(Next16(i), k) = At(i, k + 1) /\ At(i, k) \in Slots
           /\ \A j \in Indices : Slot(j) = At(i, Ahead(j, i))
           /\ \A j, k \in 0..(QUEUE_SIZE - 1) : At(i, j) = At(i, k) => j = k
  <1>1. i \in Nat
    BY RingSizes
  <1>2. ASSUME NEW k \in Nat PROVE At(Next16(i), k) = At(i, k + 1) /\ At(i, k) \in Slots
    <2>1. i + k \in Nat /\ i + (k + 1) = (i + 1) + k
      BY <1>1
    <2>2. At(i, k) \in Slots
      BY <2>1, RingSizes DEF At
    <2>3. CASE i + 1 = IdxMod
      <3>1. Next16(i) = 0 /\ i + (k + 1) = k + IdxMod /\ 0 + k = k
        BY <1>1, <2>3, Next16Is, RingSizes
      <3> QED
        BY <2>2, <3>1, SlotOfWrapped DEF At
    <2>4. CASE i + 1 # IdxMod
      <3>1. Next16(i) = i + 1
        BY <2>4, Next16Is
      <3> QED
        BY <2>1, <2>2, <3>1 DEF At
    <2> QED
      BY <2>3, <2>4
  <1>3. ASSUME NEW j \in Indices PROVE Slot(j) = At(i, Ahead(j, i))
    <2>1. j \in Nat
      BY RingSizes
    <2>2. CASE j >= i
      <3>1. i + Ahead(j, i) = j
        BY <1>1, <2>1, <2>2, AheadIs
      <3> QED
        BY <3>1 DEF At
    <2>3. CASE ~(j >= i)
      <3>1. i + Ahead(j, i) = j + IdxMod
        BY <1>1, <2>1, <2>3, AheadIs, RingSizes
      <3> QED
        BY <2>1, <3>1, SlotOfWrapped DEF At
    <2> QED
      BY <2>2, <2>3
  <1>4. ASSUME NEW j \in 0..(QUEUE_SIZE - 1), NEW k \in 0..(QUEUE_SIZE - 1), At(i, j) = At(i, k)
        PROVE  j = k
    BY <1>1, <1>4, SlotsApart DEF At
  <1>5. At(i, 0) = Slot(i)
    <2>1. i + 0 = i
      BY <1>1
    <2> QED
      BY <2>1 DEF At
  <1> QED
    BY <1>2, <1>3, <1>4, <1>5

-----------------------------------------------------------------------------
(* Where the two threads are.                                              *)

Injecting ==
    {<<"fill", "entry", "index", "raise">>, <<"entry", "index", "raise">>,
     <<"index", "raise">>, <<"raise">>}
Resting ==
    {<<"poll">>, <<"drain">>, <<"swap">>, <<"input">>, <<"sockets">>, <<"notify">>,
     <<"lock">>}

(* What is left of rx_inject is an end of its four steps.                  *)
LEMMA PollPhasesAre == PollPhases = Injecting \cup Resting
  <1> DEFINE io == <<"fill", "entry", "index", "raise">>
  <1>1. io \in Seq({"fill", "entry", "index", "raise"}) /\ Len(io) = 4
    OBVIOUS
  <1>2. /\ SubSeq(io, 1, 4) = io
        /\ SubSeq(io, 2, 4) = Tail(SubSeq(io, 1, 4))
        /\ SubSeq(io, 3, 4) = Tail(SubSeq(io, 2, 4))
        /\ SubSeq(io, 4, 4) = Tail(SubSeq(io, 3, 4))
    <2>1. SubSeq(io, 1, 4) = io
      BY <1>1, SubSeqFull
    <2>2. \A m \in 1..4 : Tail(SubSeq(io, m, 4)) = SubSeq(io, m + 1, 4)
      BY <1>1, HeadTailOfSubSeq
    <2> HIDE DEF io
    <2> QED
      BY <2>1, <2>2
  <1>3. /\ Tail(io) = <<"entry", "index", "raise">>
        /\ Tail(<<"entry", "index", "raise">>) = <<"index", "raise">>
        /\ Tail(<<"index", "raise">>) = <<"raise">>
    OBVIOUS
  <1>4. /\ SubSeq(io, 1, 4) = <<"fill", "entry", "index", "raise">>
        /\ SubSeq(io, 2, 4) = <<"entry", "index", "raise">>
        /\ SubSeq(io, 3, 4) = <<"index", "raise">>
        /\ SubSeq(io, 4, 4) = <<"raise">>
    BY <1>2, <1>3, Zenon
  <1> HIDE DEF io
  <1>5. {SubSeq(io, i, 4) : i \in 1..4} =
            {SubSeq(io, 1, 4), SubSeq(io, 2, 4), SubSeq(io, 3, 4), SubSeq(io, 4, 4)}
    <2>1. 1..4 = {1, 2, 3, 4}
      OBVIOUS
    <2> QED
      BY <2>1, Zenon
  <1>6. {SubSeq(InjectOrder, i, 4) : i \in 1..4} = Injecting
    BY <1>4, <1>5 DEF Injecting, io, InjectOrder
  <1>7. {<<p>> : p \in {"poll", "drain", "swap", "input", "sockets", "notify", "lock"}} = Resting
    BY Zenon DEF Resting
  <1> QED
    BY <1>6, <1>7 DEF PollPhases

Sending == {<<"tx">>, <<"enqueue", "wake">>, <<"wake">>}

(* The steps of the CPU thread, one by one.                                *)
LEMMA PhasesAre ==
    Phases = {<<"guest">>, <<"down">>, <<"status">>, <<"ack">>, <<"reap">>, <<"eoi">>}
                 \cup Sending
  <1>1. {<<p>> : p \in {"guest", "down", "tx", "status", "ack", "reap", "eoi"}} =
          {<<"guest">>, <<"down">>, <<"tx">>, <<"status">>, <<"ack">>, <<"reap">>, <<"eoi">>}
    BY Zenon
  <1> QED
    BY <1>1 DEF Phases, Sending

(* The first step of what is left of rx_inject, and what follows it.       *)
LEMMA InjectPhases ==
    ASSUME NEW p \in Injecting
    PROVE  /\ Head(p) \in {"fill", "entry", "index", "raise"}
           /\ p \notin Resting
           /\ Len(p) = 1 <=> p = <<"raise">>
           /\ p # <<"raise">> => Tail(p) \in Injecting
           /\ Head(p) = "fill" <=> p = <<"fill", "entry", "index", "raise">>
           /\ Head(p) = "entry" <=> p = <<"entry", "index", "raise">>
           /\ Head(p) = "index" <=> p = <<"index", "raise">>
           /\ Head(p) = "raise" <=> p = <<"raise">>
  <1>1. /\ Head(p) \in {"fill", "entry", "index", "raise"}
        /\ p \notin Resting
        /\ Len(p) = 1 <=> p = <<"raise">>
    BY DEF Injecting, Resting
  <1>2. /\ Head(p) = "fill" <=> p = <<"fill", "entry", "index", "raise">>
        /\ Head(p) = "entry" <=> p = <<"entry", "index", "raise">>
        /\ Head(p) = "index" <=> p = <<"index", "raise">>
        /\ Head(p) = "raise" <=> p = <<"raise">>
    BY DEF Injecting
  <1>3. /\ Tail(<<"fill", "entry", "index", "raise">>) = <<"entry", "index", "raise">>
        /\ Tail(<<"entry", "index", "raise">>) = <<"index", "raise">>
        /\ Tail(<<"index", "raise">>) = <<"raise">>
    OBVIOUS
  <1>4. p # <<"raise">> => Tail(p) \in Injecting
    BY <1>3, Zenon DEF Injecting
  <1> QED
    BY <1>1, <1>2, <1>4

(* Outside rx_inject none of its steps is next.                            *)
LEMMA RestingPhases ==
    ASSUME NEW p \in Resting
    PROVE  Head(p) \notin {"fill", "entry", "index", "raise"}
  BY DEF Resting

(* The steps of rx_inject follow each other.                               *)
LEMMA InjectTails ==
    /\ Tail(<<"fill", "entry", "index", "raise">>) = <<"entry", "index", "raise">>
    /\ Tail(<<"entry", "index", "raise">>) = <<"index", "raise">>
    /\ Tail(<<"index", "raise">>) = <<"raise">>
  OBVIOUS

(* The steps of platform_send follow each other.                           *)
LEMMA SendPhases ==
    /\ Tail(<<"enqueue", "wake">>) = <<"wake">> /\ Tail(<<"wake">>) = <<>>
    /\ \A p \in Phases : Head(p) = "enqueue" <=> p = <<"enqueue", "wake">>
    /\ \A p \in Phases : Head(p) = "wake" <=> p = <<"wake">>
  <1>1. Tail(<<"enqueue", "wake">>) = <<"wake">> /\ Tail(<<"wake">>) = <<>>
    OBVIOUS
  <1>2. \A p \in Phases : Head(p) = "enqueue" <=> p = <<"enqueue", "wake">>
    BY PhasesAre DEF Sending
  <1>3. \A p \in Phases : Head(p) = "wake" <=> p = <<"wake">>
    BY PhasesAre DEF Sending
  <1> QED
    BY <1>1, <1>2, <1>3

-----------------------------------------------------------------------------
(* The state the two threads share.                                        *)

Lengths == {0} \cup {UsedLength(b, n) : b \in Slots, n \in Int}
Rings(R) == [Queues -> [idx : Indices, ring : [Slots -> R]]]
UsedEntries == [id : Slots, len : Lengths]

Zeros == [q \in Queues |-> 0]

\* Who is where: the mutex is the CPU thread's inside process_tx_queue and the
\* poll thread's inside rx_inject; a call of slirp's knows where it returns
\* to; and the byte the poll thread is about to drain is there.
Control ==
    /\ queue_mutex \in {"free", "cpu", "poll"}
    /\ queue_mutex = "cpu" <=> cpu \in Sending
    /\ queue_mutex = "poll" <=> poll \in Injecting
    /\ cpu \in Phases /\ poll \in PollPhases
    /\ back \in {NoCall, <<"input">>, <<"poll">>}
    /\ poll \in Injecting \cup {<<"notify">>, <<"lock">>} => back # NoCall
    /\ pipe \in 0..PipeSize
    /\ poll = <<"drain">> => pipe > 0

Registers ==
    /\ ready \in [Queues -> BOOLEAN]
    /\ last_avail_idx \in [Queues -> Indices]
    /\ seen \in [Queues -> Indices]
    /\ owner \in [Slots -> {"driver", "device"}]
    /\ interrupt_status \in {0, 1} /\ {irq, held, missed} \subseteq BOOLEAN

GuestMemory ==
    /\ DOMAIN buffer = Slots /\ \A s \in Slots : DOMAIN buffer[s] = DOMAIN RxChains[s]
    /\ avail \in Rings(Nat) /\ used \in Rings(UsedEntries)
    /\ \A s \in Slots : avail[RXQ].ring[s] \in Slots
    /\ head \in Slots

\* A frame the device takes is one the driver posted: the device's indices
\* follow each other, and the driver's is as far ahead as frames are waiting.
TxRing ==
    /\ txNext \in Nat \ {0} /\ rxNext \in Nat \ {0} /\ notifies \in Nat /\ resets \in Nat
    /\ txNext - 1 <= MaxEvents
    /\ \A s \in Slots : avail[TXQ].ring[s] \in {1} \cup 1..MaxEvents
    /\ Ahead(avail[TXQ].idx, used[TXQ].idx) <= txNext - 1
    /\ cpu # <<"down">> => used[TXQ].idx = last_avail_idx[TXQ]
    /\ cpu \in Sending => avail_idx = avail[TXQ].idx
    /\ frame = <<>> \/ \E n \in 1..MaxEvents : frame = Gathered(n)

\* A device that was reset is quiet until it is configured again.
Quiet ==
    cpu = <<"down">> =>
        /\ ~ready[RXQ] /\ queue_mutex # "poll"
        /\ last_avail_idx = Zeros

NetInv == Control /\ Registers /\ GuestMemory /\ TxRing /\ Quiet

(* The parts are the type the runs check, and more.                        *)
LEMMA NetInvIsTyped == ASSUME NetInv PROVE TypeOK
  <1>1. Head(poll) \in {"fill", "entry", "index", "raise"} <=> poll \in Injecting
    BY PollPhasesAre, InjectPhases, RestingPhases DEF NetInv, Control
  <1>2. Control /\ Registers /\ GuestMemory
    BY DEF NetInv
  <1>3. frame = <<>> \/ \E n \in 1..MaxEvents : frame = Gathered(n)
    BY DEF NetInv, TxRing
  <1>4. queue_mutex = "poll" <=> Head(poll) \in {"fill", "entry", "index", "raise"}
    BY <1>1, <1>2 DEF Control
  <1> QED
    BY <1>2, <1>3, <1>4 DEF TypeOK, Control, Registers, GuestMemory, Indices, Sending

(* The rings of a device just brought up, or reset, are rings.             *)
LEMMA EmptyOnes ==
    /\ EmptyRings \in Rings(Nat) /\ [q \in Queues |-> EmptyUsed] \in Rings(UsedEntries)
    /\ \A s \in Slots : EmptyRings[RXQ].ring[s] \in Slots
    /\ \A q \in Queues : EmptyRings[q].idx = 0
    /\ \A s \in Slots : EmptyRings[TXQ].ring[s] = 1
  <1>1. 0 \in Slots /\ 0 \in Indices /\ 0 \in Lengths /\ 0 \in Nat /\ 1 \in Nat
    BY RingSizes DEF Slots, Lengths
  <1>2. /\ EmptyRings \in Rings(Nat) /\ [q \in Queues |-> EmptyUsed] \in Rings(UsedEntries)
    BY <1>1 DEF EmptyRings, EmptyUsed, Rings, UsedEntries
  <1>3. /\ \A s \in Slots : EmptyRings[RXQ].ring[s] = 0
        /\ \A s \in Slots : EmptyRings[TXQ].ring[s] = 1
        /\ \A q \in Queues : EmptyRings[q].idx = 0
    BY DEF EmptyRings, Queues, RXQ, TXQ
  <1> QED
    BY <1>1, <1>2, <1>3

(* The configuration Init starts from.                                     *)
LEMMA NetInit == ASSUME Init PROVE NetInv
  <1>1. Control
    <2>1. <<"poll">> \in Resting /\ <<"poll">> \notin Injecting
      BY DEF Resting, Injecting
    <2>2. <<"down">> \in Phases /\ <<"down">> \notin Sending
      BY PhasesAre DEF Sending
    <2>3. <<"poll">> \notin {<<"notify">>, <<"lock">>, <<"drain">>}
      OBVIOUS
    <2> QED
      BY <2>1, <2>2, <2>3, PollPhasesAre, NetAssumption DEF Init, Control, NoCall
  <1>2. Registers
    BY RingSizes DEF Init, Registers
  <1>3. GuestMemory
    <2>1. /\ EmptyRings \in Rings(Nat) /\ [q \in Queues |-> EmptyUsed] \in Rings(UsedEntries)
          /\ \A s \in Slots : EmptyRings[RXQ].ring[s] \in Slots
      BY EmptyOnes
    <2>3. 0 \in Slots
      BY RingSizes DEF Slots
    <2>4. /\ DOMAIN buffer = Slots /\ \A s \in Slots : DOMAIN buffer[s] = DOMAIN RxChains[s]
      BY DEF Init, Stale
    <2> QED
      BY <2>1, <2>3, <2>4 DEF Init, GuestMemory
  <1>4. TxRing
    <2>1. Ahead(0, 0) = 0
      BY RingSizes, Distances
    <2>2. /\ avail[TXQ].idx = 0 /\ used[TXQ].idx = 0
          /\ \A s \in Slots : avail[TXQ].ring[s] = 1
      BY DEF Init, EmptyRings, EmptyUsed, Queues, TXQ, RXQ
    <2>3. <<"down">> \notin Sending
      BY DEF Sending
    <2> QED
      BY <2>1, <2>2, <2>3, NetAssumption DEF Init, TxRing
  <1>5. Quiet
    BY DEF Init, Quiet, Zeros, Queues, RXQ
  <1> QED
    BY <1>1, <1>2, <1>3, <1>4, <1>5 DEF NetInv

-----------------------------------------------------------------------------
(* The mutex, and where the threads are.                                   *)

\* The CPU thread goes from the guest's code to the guest's code.
GuestPhases == {<<"guest">>, <<"down">>, <<"status">>, <<"ack">>, <<"reap">>, <<"eoi">>}

(* The CPU thread is in the guest's code or in process_tx_queue.           *)
LEMMA CpuPhases ==
    /\ Phases = GuestPhases \cup Sending
    /\ \A p \in GuestPhases : p \notin Sending
    /\ <<"tx">> \in Sending /\ SendOrder \in Sending
    /\ <<"guest">> \in GuestPhases /\ <<"down">> \in GuestPhases
    /\ <<"status">> \in GuestPhases /\ <<"ack">> \in GuestPhases
    /\ <<"reap">> \in GuestPhases /\ <<"eoi">> \in GuestPhases
  <1>1. \A p \in GuestPhases : p \notin Sending
    BY DEF GuestPhases, Sending
  <1> QED
    BY <1>1, PhasesAre DEF GuestPhases, Sending, SendOrder

(* The handler is none of the sending phases, before a step or after it,   *)
(* and moves nothing but the interrupt and what the driver has seen.        *)
LEMMA HandlerPhases ==
    ASSUME Handler
    PROVE  /\ cpu \notin Sending /\ cpu # <<"down">> /\ cpu # <<"wake">>
           /\ cpu' \notin Sending /\ cpu' # <<"down">>
           /\ UNCHANGED <<queue_mutex, device, rings, tx_queue, pipe, frame,
                          avail_idx, txNext, buffer, poll, local, back, head,
                          wire, bounds>>
  <1>1. CASE Claim
    BY <1>1 DEF Claim, Sending, driver
  <1>2. CASE ReadStatus
    <2>1. cpu = <<"status">> /\ cpu' \in {<<"ack">>, <<"eoi">>, <<"guest">>}
      BY <1>2 DEF ReadStatus, HandlerDone
    <2> QED
      BY <1>2, <2>1 DEF ReadStatus, Sending, driver
  <1>3. CASE Ack
    BY <1>3 DEF Ack, Sending, driver
  <1>4. CASE Reap
    <2>1. cpu = <<"reap">> /\ cpu' \in {<<"reap">>, <<"eoi">>, <<"guest">>}
      BY <1>4 DEF Reap, HandlerDone
    <2> QED
      BY <1>4, <2>1 DEF Reap, Sending
  <1>5. CASE Complete
    <2>1. /\ cpu \in {<<"status">>, <<"ack">>, <<"reap">>, <<"eoi">>}
          /\ cpu' \in {<<"guest">>, cpu}
      BY <1>5 DEF Complete
    <2> QED
      BY <1>5, <2>1 DEF Complete, Sending, driver
  <1> QED
    BY <1>1, <1>2, <1>3, <1>4, <1>5 DEF Handler

(* queue_mutex_ is the CPU thread's exactly inside process_tx_queue.       *)
LEMMA CpuKeepsControl ==
    ASSUME Control, Configure \/ Driver \/ Handler \/ Device
    PROVE  Control'
  <1> USE CpuPhases
  <1>1. CASE PostTx \/ PostRx
    <2>1. UNCHANGED <<queue_mutex, cpu, poll, back, pipe>>
      BY <1>1 DEF PostTx, PostRx
    <2> QED
      BY <2>1 DEF Control
  <1>2. CASE Configure \/ Reset \/ Handler
    <2>1. /\ cpu \in GuestPhases /\ cpu' \in GuestPhases
          /\ UNCHANGED <<queue_mutex, poll, back, pipe>>
      BY <1>2 DEF Configure, Reset, Handler, Claim, ReadStatus, Ack, Reap, Complete, HandlerDone
    <2> QED
      BY <2>1 DEF Control
  <1>3. CASE Notify
    <2>1. /\ cpu \in GuestPhases /\ cpu' \in Sending
          /\ queue_mutex = "free" /\ queue_mutex' = "cpu"
          /\ UNCHANGED <<poll, back, pipe>>
      BY <1>3 DEF Notify, CpuMayLock
    <2> QED
      BY <2>1 DEF Control
  <1>4. CASE TxFrame \/ Enqueue \/ Wake
    <2>1. /\ cpu \in Sending /\ UNCHANGED <<queue_mutex, poll, back>>
          /\ pipe' = pipe \/ (pipe < PipeSize /\ pipe' = pipe + 1)
      BY <1>4, SendPhases DEF TxFrame, Enqueue, Wake, Control, Sending
    <2>2. cpu' \in Sending
      <3>1. CASE TxFrame
        BY <3>1 DEF TxFrame
      <3>2. CASE Enqueue
        <4>1. cpu = <<"enqueue", "wake">>
          BY <3>2, SendPhases DEF Enqueue, Control
        <4> QED
          BY <3>2, <4>1, SendPhases DEF Enqueue, CpuNext, Sending
      <3>3. CASE Wake
        <4>1. cpu = <<"wake">>
          BY <3>3, SendPhases DEF Wake, Control
        <4> QED
          BY <3>3, <4>1, SendPhases DEF Wake, CpuNext, Sending
      <3> QED
        BY <1>4, <3>1, <3>2, <3>3
    <2>3. pipe' \in 0..PipeSize /\ (pipe > 0 => pipe' > 0)
      BY <2>1, NetAssumption DEF Control
    <2> QED
      BY <2>1, <2>2, <2>3 DEF Control
  <1>5. CASE TxDone
    <2>1. /\ cpu \in Sending /\ cpu' \in GuestPhases /\ queue_mutex' = "free"
          /\ UNCHANGED <<poll, back, pipe>>
      BY <1>5 DEF TxDone
    <2> QED
      BY <2>1 DEF Control
  <1> QED
    BY <1>1, <1>2, <1>3, <1>4, <1>5 DEF Driver, Device

RestPhases == {<<"poll">>, <<"drain">>, <<"swap">>, <<"input">>, <<"sockets">>}
CallPhases == {<<"notify">>, <<"lock">>}

(* The poll thread is in its loop, in a callback of slirp's, or in         *)
(* rx_inject.                                                              *)
LEMMA PollThreadPhases ==
    /\ PollPhases = RestPhases \cup CallPhases \cup Injecting
    /\ \A p \in RestPhases \cup CallPhases : p \notin Injecting
    /\ \A p \in RestPhases : p \notin CallPhases
    /\ \A p \in CallPhases \cup Injecting : p # <<"drain">>
    /\ \A p \in RestPhases \ {<<"drain">>} : p # <<"drain">>
    /\ \A p \in {<<"input">>, <<"poll">>} : p # NoCall /\ p \in RestPhases /\ p # <<"drain">>
    /\ InjectOrder \in Injecting
    /\ \A p \in {<<"drain">>, <<"swap">>, <<"sockets">>} : p \in RestPhases
    /\ \A p \in {<<"swap">>, <<"sockets">>} : p # <<"drain">>
    /\ <<"notify">> \in CallPhases /\ <<"lock">> \in CallPhases
  <1>1. /\ \A p \in RestPhases \cup CallPhases : p \notin Injecting
        /\ \A p \in RestPhases : p \notin CallPhases
    BY DEF RestPhases, CallPhases, Injecting
  <1>2. \A p \in CallPhases \cup Injecting : p # <<"drain">>
    BY DEF CallPhases, Injecting
  <1>3. \A p \in {<<"input">>, <<"poll">>} : p # NoCall /\ p \in RestPhases /\ p # <<"drain">>
    BY DEF NoCall, RestPhases
  <1>4. \A p \in {<<"swap">>, <<"sockets">>} : p # <<"drain">>
    OBVIOUS
  <1>5. PollPhases = RestPhases \cup CallPhases \cup Injecting
    BY PollPhasesAre, Zenon DEF Resting, RestPhases, CallPhases
  <1>6. InjectOrder \in Injecting
    BY DEF Injecting, InjectOrder
  <1> QED
    BY <1>1, <1>2, <1>3, <1>4, <1>5, <1>6 DEF RestPhases, CallPhases

(* rx_inject is what Inject does a step of.                                *)
LEMMA InjectIsInside ==
    ASSUME poll \in PollPhases, Inject
    PROVE  poll \in Injecting
  <1>1. Head(poll) \in {"fill", "entry", "index", "raise"}
    BY DEF Inject
  <1> QED
    BY <1>1, PollPhasesAre, RestingPhases

(* It is the poll thread's exactly inside rx_inject, which returns to the  *)
(* call of slirp's it was made from.                                       *)
LEMMA PollKeepsControl ==
    ASSUME Control, PollThread
    PROVE  Control'
  <1> USE PollThreadPhases
  <1>1. UNCHANGED cpu
    BY DEF PollThread, PollReturns, Drain, Swap, Input, Sockets, cb_notify, InjectLock,
           Inject, cpuVars
  <1>2. CASE PollReturns \/ Drain \/ Swap
    <2>0. PipeSize \in Nat
      BY NetAssumption
    <2>1. /\ poll \in RestPhases /\ poll' \in RestPhases /\ UNCHANGED <<queue_mutex, back>>
          /\ pipe' \in 0..PipeSize /\ (poll' = <<"drain">> => pipe' > 0)
      BY <1>2, <2>0 DEF PollReturns, Drain, Swap, Control
    <2> QED
      BY <1>1, <2>1 DEF Control
  <1>3. CASE Input \/ Sockets
    <2>1. poll \in RestPhases /\ UNCHANGED <<queue_mutex, pipe>>
      BY <1>3 DEF Input, Sockets
    <2>2. \/ poll' = <<"sockets">> /\ back' = back
          \/ \E r \in {<<"input">>, <<"poll">>} : poll' = r /\ back' = back
          \/ \E r \in {<<"input">>, <<"poll">>} : poll' \in CallPhases /\ back' = r
      BY <1>3 DEF Input, Sockets, SlirpActs
    <2>3. /\ poll' \in RestPhases \cup CallPhases /\ poll' # <<"drain">>
          /\ back' \in {NoCall, <<"input">>, <<"poll">>}
          /\ poll' \in CallPhases => back' # NoCall
      BY <2>2 DEF Control
    <2> QED
      BY <1>1, <2>1, <2>3 DEF Control, CallPhases
  <1>4. CASE cb_notify
    <2>1. /\ poll \in CallPhases /\ UNCHANGED queue_mutex /\ poll' = back /\ back' = NoCall
          /\ pipe' \in 0..PipeSize /\ back \in {<<"input">>, <<"poll">>}
      BY <1>4, NetAssumption DEF cb_notify, Returns, Control
    <2> QED
      BY <1>1, <2>1 DEF Control, CallPhases
  <1>5. CASE InjectLock
    <2>1. poll \in CallPhases /\ UNCHANGED pipe /\ back \in {<<"input">>, <<"poll">>}
      BY <1>5 DEF InjectLock, Control
    <2>2. \/ /\ queue_mutex = "free" /\ queue_mutex' = "poll" /\ poll' \in Injecting
             /\ back' = back
          \/ UNCHANGED queue_mutex /\ poll' = back /\ back' = NoCall
      BY <1>5 DEF InjectLock, Returns
    <2> QED
      BY <1>1, <2>1, <2>2 DEF Control, CallPhases
  <1>6. CASE Inject
    <2>1. poll \in Injecting /\ UNCHANGED pipe
      BY <1>6, InjectIsInside DEF Control, Inject
    <2>2. queue_mutex = "poll" /\ back \in {<<"input">>, <<"poll">>}
      BY <2>1 DEF Control
    <2>3. \/ queue_mutex' = "free" /\ poll' = back /\ back' = NoCall
          \/ UNCHANGED <<queue_mutex, back>> /\ poll' \in Injecting
      BY <1>6, <2>1, InjectPhases DEF Inject, InjectNext, Returns
    <2> QED
      BY <1>1, <2>1, <2>2, <2>3 DEF Control, CallPhases
  <1> QED
    BY <1>2, <1>3, <1>4, <1>5, <1>6 DEF PollThread

(* An index steps within its modulus.                                      *)
LEMMA IndexSteps ==
    ASSUME NEW f \in [Queues -> Indices], NEW q \in Queues
    PROVE  [f EXCEPT ![q] = Next16(@)] \in [Queues -> Indices]
  <1>1. f[q] \in Indices
    OBVIOUS
  <1>2. Next16(f[q]) \in Indices
    BY <1>1, Next16Is
  <1> QED
    BY <1>2

(* The device's registers and the driver's own state.                      *)
LEMMA RegistersStep ==
    ASSUME Registers, GuestMemory, Control, Next
    PROVE  Registers'
  <1> RXQ \in Queues /\ TXQ \in Queues
    BY DEF Queues
  <1> /\ ResetIndices \in [Queues -> Indices]
      /\ [q \in Queues |-> TRUE] \in [Queues -> BOOLEAN]
      /\ [q \in Queues |-> FALSE] \in [Queues -> BOOLEAN]
      /\ [s \in Slots |-> "driver"] \in [Slots -> {"driver", "device"}]
    BY RingSizes DEF ResetIndices
  <1> used[TXQ].idx \in Indices
    BY DEF GuestMemory, Rings
  <1>1. CASE Configure \/ Reset
    <2>1. [q \in Queues |-> 0] \in [Queues -> Indices]
      BY RingSizes
    <2> QED
      BY <1>1, <2>1 DEF Configure, Reset, Registers, plic
  <1>2. CASE PostTx \/ Notify \/ Claim \/ ReadStatus \/ Ack \/ Enqueue \/ Wake \/ TxDone
             \/ Complete
    <2>1. /\ UNCHANGED <<ready, last_avail_idx, seen, owner>>
          /\ interrupt_status' \in {interrupt_status, 0, 1}
      BY <1>2 DEF PostTx, Notify, Claim, ReadStatus, Ack, Enqueue, Wake, TxDone, Raise,
                  Complete, device, driver
    <2>2. /\ irq' \in {irq, TRUE, FALSE} /\ held' \in {held, TRUE, FALSE}
          /\ missed' \in {missed, FALSE} \/ missed' = (missed \/ (irq /\ cpu = <<"eoi">>))
      BY <1>2 DEF PostTx, Notify, Claim, ReadStatus, Ack, Enqueue, Wake, TxDone, Raise,
                  Complete, plic
    <2> QED
      BY <2>1, <2>2 DEF Registers
  <1>3. CASE PostRx
    BY <1>3 DEF PostRx, Registers, device, plic
  <1>4. CASE Reap
    <2>1. owner' \in [Slots -> {"driver", "device"}]
      <3>1. owner' = owner \/ \E s : owner' = [owner EXCEPT ![s] = "driver"]
        BY <1>4 DEF Reap
      <3> QED
        BY <3>1 DEF Registers
    <2>2. seen' \in [Queues -> Indices]
      BY <1>4, IndexSteps DEF Reap, Registers
    <2> QED
      BY <1>4, <2>1, <2>2 DEF Reap, Registers, device, plic
  <1>5. CASE TxFrame
    BY <1>5, IndexSteps DEF TxFrame, Registers, driver, plic
  <1>6. CASE PollReturns \/ Drain \/ Swap \/ Input \/ Sockets \/ cb_notify \/ InjectLock
    BY <1>6 DEF PollReturns, Drain, Swap, Input, Sockets, cb_notify, InjectLock, Registers,
            cpuVars, device, driver, plic
  <1>7. CASE Inject
    <2>1. /\ last_avail_idx' = last_avail_idx \/ last_avail_idx' = [last_avail_idx EXCEPT ![RXQ] = Next16(@)]
          /\ \/ UNCHANGED <<interrupt_status, plic>>
             \/ Raise
          /\ UNCHANGED <<ready, seen, owner>>
      BY <1>7 DEF Inject, InjectNext, driver
    <2>2. last_avail_idx' \in [Queues -> Indices]
      BY <2>1, IndexSteps DEF Registers
    <2>3. interrupt_status' \in {0, 1} /\ {irq, held, missed}' \subseteq BOOLEAN
      BY <2>1 DEF Registers, Raise, plic
    <2> QED
      BY <2>1, <2>2, <2>3 DEF Registers
  <1> QED
    BY <1>1, <1>2, <1>3, <1>4, <1>5, <1>6, <1>7 DEF Next, Driver, Handler, Device, PollThread

-----------------------------------------------------------------------------
(* The rings in guest memory.                                              *)

\* Rings with an entry written, with an index moved, and with both: an entry
\* at the index and the index past it, as the driver posts a buffer and the
\* device uses one.
WithEntry(f, q, s, e) == [f EXCEPT ![q].ring[s] = e]
WithIndex(f, q) == [f EXCEPT ![q].idx = Next16(@)]
Pushed(f, q, e) == [f EXCEPT ![q].ring[Slot(f[q].idx)] = e, ![q].idx = Next16(@)]

(* What writing an entry does to a pair of rings.                          *)
LEMMA EntryWritten ==
    ASSUME NEW R, NEW f \in Rings(R), NEW q \in Queues, NEW s \in Slots, NEW e \in R
    PROVE  /\ WithEntry(f, q, s, e) \in Rings(R)
           /\ WithEntry(f, q, s, e)[q].idx = f[q].idx
           /\ WithEntry(f, q, s, e)[q].ring = [f[q].ring EXCEPT ![s] = e]
  <1> DEFINE r == [f[q].ring EXCEPT ![s] = e]
             c == [f[q] EXCEPT !.ring = r]
             g == WithEntry(f, q, s, e)
  <1>1. f[q] \in [idx : Indices, ring : [Slots -> R]]
    BY DEF Rings
  <1>2. r \in [Slots -> R]
    BY <1>1
  <1>3. g = [f EXCEPT ![q] = c]
    BY DEF WithEntry
  <1> HIDE DEF r
  <1>4. c \in [idx : Indices, ring : [Slots -> R]] /\ c.idx = f[q].idx /\ c.ring = r
    BY <1>1, <1>2
  <1> HIDE DEF c, g
  <1>5. g \in Rings(R) /\ g[q] = c
    BY <1>3, <1>4 DEF Rings
  <1> QED
    BY <1>4, <1>5 DEF r, g

(* What moving an index does.                                              *)
LEMMA IndexMoved ==
    ASSUME NEW R, NEW f \in Rings(R), NEW q \in Queues
    PROVE  /\ WithIndex(f, q) \in Rings(R)
           /\ WithIndex(f, q)[q].idx = Next16(f[q].idx)
           /\ WithIndex(f, q)[q].ring = f[q].ring
  <1> DEFINE c == [f[q] EXCEPT !.idx = Next16(f[q].idx)]
             g == WithIndex(f, q)
  <1>1. f[q] \in [idx : Indices, ring : [Slots -> R]]
    BY DEF Rings
  <1>2. Next16(f[q].idx) \in Indices
    BY <1>1, Next16Is
  <1>3. g = [f EXCEPT ![q] = c]
    BY DEF WithIndex
  <1>4. c \in [idx : Indices, ring : [Slots -> R]] /\ c.idx = Next16(f[q].idx) /\ c.ring = f[q].ring
    BY <1>1, <1>2
  <1> HIDE DEF c, g
  <1>5. g \in Rings(R) /\ g[q] = c
    BY <1>3, <1>4 DEF Rings
  <1> QED
    BY <1>4, <1>5 DEF g

(* What posting, or using, an entry does.                                  *)
LEMMA EntryPushed ==
    ASSUME NEW R, NEW f \in Rings(R), NEW q \in Queues, NEW e \in R
    PROVE  /\ Pushed(f, q, e) \in Rings(R)
           /\ Pushed(f, q, e)[q].idx = Next16(f[q].idx)
           /\ Pushed(f, q, e)[q].ring = [f[q].ring EXCEPT ![Slot(f[q].idx)] = e]
  <1> DEFINE h == WithEntry(f, q, Slot(f[q].idx), e)
             g == WithIndex(h, q)
  <1>1. f[q].idx \in Indices
    BY DEF Rings
  <1>2. Slot(f[q].idx) \in Slots
    BY <1>1, RingSizes
  <1>3. /\ h \in Rings(R) /\ h[q].idx = f[q].idx
        /\ h[q].ring = [f[q].ring EXCEPT ![Slot(f[q].idx)] = e]
    BY <1>2, EntryWritten
  <1>4. Pushed(f, q, e) = [h EXCEPT ![q].idx = Next16(f[q].idx)]
    BY DEF Pushed, WithEntry
  <1> HIDE DEF h
  <1>5. Pushed(f, q, e) = g
    BY <1>3, <1>4 DEF WithIndex
  <1>6. /\ g \in Rings(R) /\ g[q].idx = Next16(h[q].idx) /\ g[q].ring = h[q].ring
    BY <1>3, IndexMoved
  <1> HIDE DEF g
  <1> QED
    BY <1>3, <1>5, <1>6

(* The other queue's ring is left alone.                                   *)
LEMMA OtherQueue ==
    ASSUME NEW R, NEW f \in Rings(R), NEW q \in Queues, NEW p \in Queues, p # q, NEW s, NEW e
    PROVE  /\ WithEntry(f, q, s, e)[p] = f[p]
           /\ WithIndex(f, q)[p] = f[p]
           /\ Pushed(f, q, e)[p] = f[p]
  BY DEF WithEntry, WithIndex, Pushed, Rings

(* What the device writes and what the driver posts keep their shape.      *)
LEMMA GuestMemoryStep ==
    ASSUME NetInv, Next
    PROVE  GuestMemory'
  <1> RXQ \in Queues /\ TXQ \in Queues /\ RXQ # TXQ
    BY DEF Queues, RXQ, TXQ
  <1>0. Control /\ Registers /\ GuestMemory /\ TxRing
    BY DEF NetInv
  <1>1. CASE Configure
    BY <1>0, <1>1, EmptyOnes DEF Configure, GuestMemory
  <1>2. CASE PostTx
    <2>1. avail' = Pushed(avail, TXQ, txNext) /\ UNCHANGED <<buffer, used, head>>
      BY <1>2 DEF PostTx, PutAvail, Pushed
    <2>2. txNext \in Nat /\ avail \in Rings(Nat)
      BY <1>0 DEF TxRing, GuestMemory
    <2>3. avail' \in Rings(Nat)
      BY <2>1, <2>2, EntryPushed
    <2>4. avail'[RXQ] = avail[RXQ]
      BY <2>1, <2>2, OtherQueue
    <2> QED
      BY <1>0, <2>1, <2>2, <2>3, <2>4 DEF GuestMemory
  <1>3. CASE PostRx
    <2>1. PICK s \in Slots : avail' = Pushed(avail, RXQ, s)
      BY <1>3 DEF PostRx, PutAvail, Pushed
    <2>2. s \in Nat
      BY DEF Slots
    <2>3. avail' \in Rings(Nat) /\ avail'[RXQ].ring = [avail[RXQ].ring EXCEPT ![Slot(avail[RXQ].idx)] = s]
      BY <1>0, <2>1, <2>2, EntryPushed DEF GuestMemory
    <2>4. avail[RXQ].ring \in [Slots -> Nat]
      BY <1>0 DEF GuestMemory, Rings
    <2>5. \A t \in Slots : avail'[RXQ].ring[t] \in Slots
      BY <1>0, <2>3, <2>4 DEF GuestMemory
    <2> QED
      BY <1>0, <1>3, <2>3, <2>5 DEF GuestMemory, PostRx
  <1>4. CASE Reset \/ Notify \/ Handler \/ Enqueue \/ Wake \/ TxDone
    <2>1. UNCHANGED <<buffer, avail, used, head>>
      BY <1>4 DEF Reset, Notify, Handler, Claim, ReadStatus, Ack, Reap, Complete, Enqueue, Wake,
              TxDone, rings
    <2> QED
      BY <1>0, <2>1 DEF GuestMemory
  <1>5. CASE TxFrame
    <2> DEFINE e == [id |-> Slot(last_avail_idx[TXQ]), len |-> 0]
    <2>1. used' = Pushed(used, TXQ, e) /\ UNCHANGED <<buffer, avail, head>>
      BY <1>5 DEF TxFrame, Pushed
    <2>2. e \in UsedEntries
      <3>1. last_avail_idx[TXQ] \in Nat
        BY <1>0, RingSizes DEF Registers
      <3>2. Slot(last_avail_idx[TXQ]) \in Slots /\ 0 \in Lengths
        BY <3>1, RingSizes DEF Lengths
      <3> QED
        BY <3>2 DEF UsedEntries
    <2> HIDE DEF e
    <2>3. used' \in Rings(UsedEntries)
      BY <1>0, <2>1, <2>2, EntryPushed DEF GuestMemory
    <2> QED
      BY <1>0, <2>1, <2>3 DEF GuestMemory
  <1>6. CASE PollReturns \/ Drain \/ Swap \/ Input \/ Sockets \/ cb_notify
    <2>1. UNCHANGED <<buffer, avail, used, head>>
      BY <1>6 DEF PollReturns, Drain, Swap, Input, Sockets, cb_notify, cpuVars
    <2> QED
      BY <1>0, <2>1 DEF GuestMemory
  <1>7. CASE InjectLock
    <2>1. UNCHANGED <<buffer, avail, used>>
      BY <1>7 DEF InjectLock, cpuVars
    <2>2. last_avail_idx[RXQ] \in Nat
      BY <1>0, RingSizes DEF Registers
    <2>3. Slot(last_avail_idx[RXQ]) \in Slots
      BY <2>2, RingSizes
    <2>4. head' \in Slots
      BY <1>0, <1>7, <2>3 DEF InjectLock, GuestMemory
    <2> QED
      BY <1>0, <2>1, <2>4 DEF GuestMemory
  <1>8. CASE Inject
    <2>1. UNCHANGED avail
      BY <1>8 DEF Inject
    <2>2. head' \in Slots
      <3>1. 0 \in Slots
        BY RingSizes DEF Slots
      <3> QED
        BY <1>0, <1>8, <3>1 DEF Inject, InjectNext, GuestMemory
    <2>3. DOMAIN buffer' = Slots /\ \A s \in Slots : DOMAIN buffer'[s] = DOMAIN RxChains[s]
      <3>1. UNCHANGED buffer \/ \E n, len : buffer' = [buffer EXCEPT ![head] = Scattered(@, RxChains[head], n, len)]
        BY <1>8 DEF Inject
      <3>2. ASSUME NEW old, NEW chain, NEW n, NEW len
            PROVE  DOMAIN Scattered(old, chain, n, len) = DOMAIN chain
        BY DEF Scattered
      <3> QED
        BY <1>0, <3>1, <3>2 DEF GuestMemory
    <2>4. used' \in Rings(UsedEntries)
      <3> DEFINE e == [id |-> head, len |-> UsedLength(head, rxNext - 1)]
      <3>1. \/ UNCHANGED used
            \/ used' = WithEntry(used, RXQ, Slot(used[RXQ].idx), e)
            \/ used' = WithIndex(used, RXQ)
        BY <1>8 DEF Inject, WithEntry, WithIndex
      <3>2. e \in UsedEntries
        <4>1. head \in Slots /\ rxNext - 1 \in Int
          BY <1>0 DEF GuestMemory, TxRing
        <4>2. UsedLength(head, rxNext - 1) \in Lengths
          BY <4>1 DEF Lengths
        <4> QED
          BY <4>1, <4>2 DEF UsedEntries
      <3>3. used[RXQ].idx \in Nat
        BY <1>0, RingSizes DEF GuestMemory, Rings
      <3>4. Slot(used[RXQ].idx) \in Slots
        BY <3>3, RingSizes
      <3> HIDE DEF e
      <3>5. used \in Rings(UsedEntries)
        BY <1>0 DEF GuestMemory
      <3>6. /\ WithEntry(used, RXQ, Slot(used[RXQ].idx), e) \in Rings(UsedEntries)
            /\ WithIndex(used, RXQ) \in Rings(UsedEntries)
        BY <3>2, <3>4, <3>5, EntryWritten, IndexMoved
      <3> QED
        BY <3>1, <3>5, <3>6
    <2> QED
      BY <1>0, <2>1, <2>2, <2>3, <2>4 DEF GuestMemory
  <1> QED
    BY <1>1, <1>2, <1>3, <1>4, <1>5, <1>6, <1>7, <1>8 DEF Next, Driver, Device, PollThread

-----------------------------------------------------------------------------
(* A device that was reset, and the transmit ring.                         *)

(* write32 resets under the mutex, so no injection is under way, and none  *)
(* starts before the driver brings the queue up.                           *)
LEMMA QuietStep ==
    ASSUME NetInv, Next
    PROVE  Quiet'
  <1>0. Control /\ Quiet
    BY DEF NetInv
  <1>1. CASE Reset
    BY <1>1 DEF Reset, CpuMayLock, ResetIndices, Quiet, Zeros, Queues, RXQ
  <1>2. CASE Configure \/ PostTx \/ PostRx \/ Notify \/ Handler \/ Device
    <2>1. cpu' # <<"down">>
      <3>1. CASE Device
        <4>1. cpu \in Sending
          BY <1>0, <3>1, SendPhases DEF Device, TxFrame, Enqueue, Wake, TxDone, Control, Sending
        <4>2. cpu' = <<"tx">> \/ cpu' = SendOrder \/ cpu' = <<"guest">> \/ cpu' = Tail(cpu)
          BY <3>1, CpuPhases DEF Device, TxFrame, Enqueue, Wake, TxDone, CpuNext
        <4>3. cpu' = Tail(cpu) => cpu' \in {<<"wake">>, <<>>, Tail(<<"tx">>)}
          BY <4>1, SendPhases DEF Sending
        <4> QED
          BY <4>2, <4>3 DEF SendOrder
      <3>2. CASE Configure \/ PostTx \/ PostRx \/ Notify
        BY <3>2 DEF Configure, PostTx, PostRx, Notify
      <3>3. CASE Handler
        BY <3>3, HandlerPhases
      <3> QED
        BY <1>2, <3>1, <3>2, <3>3
    <2> QED
      BY <2>1 DEF Quiet
  <1>3. CASE PollReturns \/ Drain \/ Swap \/ Input \/ Sockets \/ cb_notify
    <2>1. UNCHANGED <<cpu, ready, queue_mutex, last_avail_idx>>
      BY <1>3 DEF PollReturns, Drain, Swap, Input, Sockets, cb_notify, cpuVars, device
    <2> QED
      BY <1>0, <2>1 DEF Quiet
  <1>4. CASE InjectLock
    <2>1. UNCHANGED <<cpu, ready, last_avail_idx>>
      BY <1>4 DEF InjectLock, cpuVars, device
    <2>2. ready[RXQ] \/ UNCHANGED queue_mutex
      BY <1>4 DEF InjectLock
    <2> QED
      BY <1>0, <2>1, <2>2 DEF Quiet
  <1>5. CASE Inject
    <2>1. queue_mutex = "poll" /\ UNCHANGED cpu
      BY <1>0, <1>5, InjectIsInside DEF Control, Inject
    <2> QED
      BY <1>0, <2>1 DEF Quiet
  <1> QED
    BY <1>1, <1>2, <1>3, <1>4, <1>5 DEF Next, Driver, PollThread

(* The device sends what the driver posted: between the two ends of the    *)
(* ring there are no more entries than frames posted.                      *)
LEMMA TxRingStep ==
    ASSUME NetInv, Next
    PROVE  TxRing'
  <1> DEFINE a == avail[TXQ].idx
             u == used[TXQ].idx
  <1> RXQ \in Queues /\ TXQ \in Queues /\ RXQ # TXQ
    BY DEF Queues, RXQ, TXQ
  <1>0. Control /\ Registers /\ GuestMemory /\ TxRing /\ Quiet
    BY DEF NetInv
  <1>r. avail \in Rings(Nat) /\ used \in Rings(UsedEntries)
    BY <1>0 DEF GuestMemory
  <1>i. /\ a \in Indices /\ u \in Indices /\ Ahead(a, u) \in Nat
        /\ Ahead(a, u) = 0 <=> a = u
        /\ Ahead(Next16(a), u) <= Ahead(a, u) + 1
        /\ a # u => Ahead(a, Next16(u)) = Ahead(a, u) - 1
    <2>1. a \in Indices /\ u \in Indices
      BY <1>r DEF Rings
    <2> HIDE DEF a, u
    <2>2. /\ Ahead(a, u) \in Indices
          /\ Ahead(a, u) = 0 <=> a = u
          /\ Ahead(Next16(a), u) <= Ahead(a, u) + 1
          /\ a # u => Ahead(a, Next16(u)) = Ahead(a, u) - 1
      BY <2>1, Distances
    <2>3. Indices \subseteq Nat
      BY RingSizes
    <2> QED
      BY <2>1, <2>2, <2>3
  <1> HIDE DEF a, u
  <1>1. CASE Configure
    <2>1. txNext' = txNext - Ahead(a, u) /\ UNCHANGED <<rxNext, notifies, resets, frame>>
      BY <1>1 DEF Configure, bounds, a, u
    <2>2. txNext' \in Nat \ {0} /\ txNext' <= txNext
      BY <1>0, <1>i, <2>1 DEF TxRing, a, u
    <2>3. avail' = EmptyRings /\ used'[TXQ].idx = 0 /\ Ahead(0, 0) = 0
      BY <1>1, RingSizes, Distances DEF Configure, EmptyUsed
    <2>4. last_avail_idx'[TXQ] = 0 /\ cpu' \notin Sending
      BY <1>0, <1>1, CpuPhases DEF Configure, Quiet, Zeros
    <2>5. avail'[TXQ].idx = 0 /\ \A s \in Slots : avail'[TXQ].ring[s] = 1
      BY <2>3, EmptyOnes
    <2>6. Ahead(avail'[TXQ].idx, used'[TXQ].idx) <= txNext' - 1
      BY <2>2, <2>3, <2>5
    <2>7. txNext' - 1 <= MaxEvents
      <3>1. txNext \in Nat /\ txNext - 1 <= MaxEvents
        BY <1>0 DEF TxRing
      <3>2. MaxEvents \in Nat
        BY NetAssumption
      <3>3. ASSUME NEW x \in Nat, NEW y \in Nat, NEW z \in Nat, x <= y, y - 1 <= z
            PROVE  x - 1 <= z
        BY <3>3
      <3> QED
        BY <2>2, <3>1, <3>2, <3>3
    <2> QED
      BY <1>0, <2>1, <2>2, <2>3, <2>4, <2>5, <2>6, <2>7 DEF TxRing
  <1>2. CASE PostTx
    <2>1. /\ avail' = Pushed(avail, TXQ, txNext) /\ txNext' = txNext + 1
          /\ UNCHANGED <<cpu, used, last_avail_idx, avail_idx, frame, rxNext, notifies, resets>>
          /\ cpu = <<"guest">>
      BY <1>2 DEF PostTx, PutAvail, Pushed, bounds, device
    <2>2. txNext \in 1..MaxEvents
      <3>1. Bounded
        BY <1>2 DEF PostTx
      <3>2. /\ txNext \in Nat \ {0} /\ rxNext \in Nat \ {0}
            /\ notifies \in Nat /\ resets \in Nat /\ MaxEvents \in Nat
        BY <1>0, NetAssumption DEF TxRing
      <3> QED
        BY <3>1, <3>2 DEF Bounded
    <2>3. txNext \in Nat
      BY <1>0 DEF TxRing
    <2>4. avail'[TXQ].idx = Next16(a) /\ avail'[TXQ].ring = [avail[TXQ].ring EXCEPT ![Slot(a)] = txNext]
      <3>1. /\ Pushed(avail, TXQ, txNext)[TXQ].idx = Next16(avail[TXQ].idx)
            /\ Pushed(avail, TXQ, txNext)[TXQ].ring =
                    [avail[TXQ].ring EXCEPT ![Slot(avail[TXQ].idx)] = txNext]
        BY <1>r, <2>3, EntryPushed
      <3> QED
        BY <2>1, <3>1 DEF a
    <2>5. avail[TXQ].ring \in [Slots -> Nat]
      BY <1>r DEF Rings
    <2>6. \A s \in Slots : avail'[TXQ].ring[s] \in {1} \cup 1..MaxEvents
      BY <1>0, <2>2, <2>4, <2>5 DEF TxRing
    <2>7. Ahead(avail'[TXQ].idx, used'[TXQ].idx) <= txNext' - 1
      <3>1. Ahead(Next16(a), u) \in Nat
        BY <1>i, Next16Is, Distances, RingSizes
      <3>2. Ahead(a, u) <= txNext - 1
        BY <1>0 DEF TxRing, a, u
      <3>3. used'[TXQ].idx = u
        BY <2>1 DEF u
      <3> QED
        BY <1>i, <2>1, <2>3, <2>4, <3>1, <3>2, <3>3
    <2>8. cpu' \notin Sending /\ cpu' # <<"down">>
      BY <2>1, CpuPhases
    <2> QED
      BY <1>0, <2>1, <2>2, <2>6, <2>7, <2>8 DEF TxRing
  <1>3. CASE PostRx
    <2>1. PICK s \in Slots : avail' = Pushed(avail, RXQ, s)
      BY <1>3 DEF PostRx, PutAvail, Pushed
    <2>2. avail'[TXQ] = avail[TXQ]
      BY <1>r, <2>1, OtherQueue
    <2>3. UNCHANGED <<cpu, used, last_avail_idx, avail_idx, frame, txNext, rxNext, notifies, resets>>
      BY <1>3 DEF PostRx, bounds, device
    <2> QED
      BY <1>0, <2>2, <2>3 DEF TxRing
  <1>4. CASE Reset
    <2>1. /\ UNCHANGED <<used, avail, frame, txNext, rxNext, notifies>>
          /\ resets' = resets + 1 /\ cpu' = <<"down">>
      BY <1>4 DEF Reset, rings
    <2>2. cpu' \notin Sending
      BY <2>1, CpuPhases
    <2> QED
      BY <1>0, <2>1, <2>2 DEF TxRing
  <1>5. CASE Notify \/ Handler \/ TxDone
    <2>1. UNCHANGED <<used, avail, frame, txNext, rxNext, notifies, resets, last_avail_idx>>
      <3>1. CASE Handler
        BY <3>1, HandlerPhases DEF rings, driver, bounds, device
      <3> QED
        BY <1>5, <3>1 DEF Notify, TxDone, rings, driver, bounds, device
    <2>2. cpu # <<"down">>
      BY <1>5, HandlerPhases DEF Notify, TxDone
    <2>3. cpu' \in Sending => avail_idx' = avail[TXQ].idx
      BY <1>5, CpuPhases, HandlerPhases DEF Notify, TxDone
    <2> QED
      BY <1>0, <2>1, <2>2, <2>3 DEF TxRing
  <1>6. CASE TxFrame
    <2> DEFINE e == [id |-> Slot(last_avail_idx[TXQ]), len |-> 0]
               n == avail[TXQ].ring[Slot(last_avail_idx[TXQ])]
    <2>1. /\ used' = Pushed(used, TXQ, e)
          /\ last_avail_idx' = [last_avail_idx EXCEPT ![TXQ] = Next16(@)]
          /\ frame' = Gathered(n)
          /\ UNCHANGED <<avail, avail_idx, txNext, rxNext, notifies, resets>>
      BY <1>6 DEF TxFrame, Pushed, driver, bounds
    <2>2. cpu \in Sending /\ cpu # <<"down">> /\ cpu' \in Sending /\ last_avail_idx[TXQ] # avail_idx
      BY <1>6, CpuPhases DEF TxFrame
    <2>3. last_avail_idx[TXQ] = u /\ avail_idx = a /\ u # a
      BY <1>0, <2>2 DEF TxRing, a, u
    <2>4. e \in UsedEntries /\ Slot(last_avail_idx[TXQ]) \in Slots
      <3>1. last_avail_idx[TXQ] \in Nat
        BY <1>0, RingSizes DEF Registers
      <3>2. Slot(last_avail_idx[TXQ]) \in Slots /\ 0 \in Lengths
        BY <3>1, RingSizes DEF Lengths
      <3> QED
        BY <3>2 DEF UsedEntries
    <2> HIDE DEF e
    <2>5. used'[TXQ].idx = Next16(u)
      <3> HIDE DEF n
      <3>1. used \in Rings(UsedEntries) /\ e \in UsedEntries
        BY <1>r, <2>4
      <3>2. Pushed(used, TXQ, e)[TXQ].idx = Next16(used[TXQ].idx)
        <4>1. /\ Pushed(used, TXQ, e)[TXQ].idx = Next16(used[TXQ].idx)
              /\ Pushed(used, TXQ, e)[TXQ].ring =
                     [used[TXQ].ring EXCEPT ![Slot(used[TXQ].idx)] = e]
          BY <3>1, EntryPushed
        <4> QED
          BY <4>1
      <3> QED
        BY <2>1, <3>2 DEF u
    <2>6. last_avail_idx'[TXQ] = Next16(u)
      BY <1>0, <2>1, <2>3 DEF Registers
    <2>7. Ahead(a, u) >= 1 /\ Ahead(a, u) <= txNext - 1
      BY <1>0, <1>i, <2>3 DEF TxRing, a, u
    <2>8. n \in 1..MaxEvents
      <3>1. n \in {1} \cup 1..MaxEvents
        BY <1>0, <2>4 DEF TxRing
      <3>2. MaxEvents \in Nat
        BY NetAssumption
      <3>3. 1 <= MaxEvents
        BY <1>0, <1>i, <2>7, <3>2 DEF TxRing
      <3>4. {1} \cup 1..MaxEvents = 1..MaxEvents
        BY <3>2, <3>3
      <3> QED
        BY <3>1, <3>4
    <2> HIDE DEF n
    <2>9. Ahead(avail'[TXQ].idx, used'[TXQ].idx) <= txNext' - 1
      <3>1. avail'[TXQ].idx = a /\ used'[TXQ].idx = Next16(u)
        BY <2>1, <2>5 DEF a
      <3>2. Ahead(a, Next16(u)) = Ahead(a, u) - 1
        BY <1>i, <2>3
      <3>3. txNext \in Nat
        BY <1>0 DEF TxRing
      <3> QED
        BY <1>i, <2>1, <2>7, <3>1, <3>2, <3>3
    <2>10. avail_idx' = avail'[TXQ].idx
      BY <2>1, <2>3 DEF a
    <2> QED
      BY <1>0, <2>1, <2>2, <2>5, <2>6, <2>8, <2>9, <2>10 DEF TxRing
  <1>7. CASE Enqueue \/ Wake
    <2>1. UNCHANGED <<used, avail, avail_idx, txNext, rxNext, notifies, resets, last_avail_idx>>
      BY <1>7 DEF Enqueue, Wake, rings, driver, bounds, device
    <2>2. frame' = <<>> \/ frame' = frame
      BY <1>7 DEF Enqueue, Wake
    <2>3. cpu \in Sending /\ cpu # <<"down">>
      BY <1>0, <1>7, SendPhases DEF Enqueue, Wake, Control, Sending
    <2> QED
      BY <1>0, <2>1, <2>2, <2>3 DEF TxRing
  <1>8. CASE PollReturns \/ Drain \/ Swap \/ Input \/ Sockets \/ cb_notify \/ InjectLock
    <2>1. UNCHANGED <<cpu, used, avail, avail_idx, txNext, resets, last_avail_idx, frame>>
      BY <1>8 DEF PollReturns, Drain, Swap, Input, Sockets, cb_notify, InjectLock, cpuVars, bounds,
              driver, device
    <2>2. rxNext' \in {rxNext, rxNext + 1} /\ notifies' \in {notifies, notifies + 1}
      BY <1>8 DEF PollReturns, Drain, Swap, Input, Sockets, SlirpActs, cb_notify, InjectLock, bounds
    <2>3. rxNext' \in Nat \ {0} /\ notifies' \in Nat
      BY <1>0, <2>2 DEF TxRing
    <2> QED
      BY <1>0, <2>1, <2>3 DEF TxRing
  <1>9. CASE Inject
    <2>1. cpu # <<"down">>
      BY <1>0, <1>9, InjectIsInside DEF Control, Quiet
    <2>2. UNCHANGED <<cpu, avail, avail_idx, txNext, rxNext, notifies, resets, frame>>
      BY <1>9 DEF Inject, bounds, driver
    <2>3. last_avail_idx'[TXQ] = last_avail_idx[TXQ]
      BY <1>0, <1>9 DEF Inject, InjectNext, Registers
    <2>4. used'[TXQ] = used[TXQ]
      <3>1. \/ UNCHANGED used
            \/ \E s, e : used' = WithEntry(used, RXQ, s, e)
            \/ used' = WithIndex(used, RXQ)
        BY <1>9 DEF Inject, WithEntry, WithIndex
      <3> QED
        BY <1>r, <3>1, OtherQueue
    <2> QED
      BY <1>0, <2>1, <2>2, <2>3, <2>4 DEF TxRing
  <1> QED
    BY <1>1, <1>2, <1>3, <1>4, <1>5, <1>6, <1>7, <1>8, <1>9 DEF Next, Driver, Device, PollThread

(* The inductive invariant behind the two theorems: a step that changes    *)
(* nothing keeps it, and so does every step of either thread.              *)
LEMMA NetInvStep ==
    ASSUME NetInv, [Next]_vars
    PROVE  NetInv'
  <1>1. CASE Next
    <2>1. Control'
      BY <1>1, CpuKeepsControl, PollKeepsControl DEF Next, NetInv
    <2>2. Registers'
      BY <1>1, RegistersStep DEF NetInv
    <2> QED
      BY <1>1, <2>1, <2>2, GuestMemoryStep, TxRingStep, QuietStep DEF NetInv
  <1>2. CASE UNCHANGED vars
    <2>1. Control' /\ Registers'
      BY <1>2 DEF vars, device, driver, plic, rings, bounds, NetInv, Control, Registers
    <2>2. GuestMemory' /\ TxRing'
      BY <1>2 DEF vars, device, driver, rings, bounds, NetInv, GuestMemory, TxRing
    <2>3. Quiet'
      BY <1>2 DEF vars, device, driver, rings, bounds, NetInv, Quiet
    <2> QED
      BY <2>1, <2>2, <2>3 DEF NetInv
  <1> QED
    BY <1>1, <1>2

(* It holds from the start on.                                             *)
LEMMA NetInvHolds == Spec => []NetInv
  <1>1. Init => NetInv
    BY NetInit
  <1>2. NetInv /\ [Next]_vars => NetInv'
    BY NetInvStep
  <1> QED
    BY <1>1, <1>2, PTL DEF Spec

(* The mutex is where the threads are, the pipe never holds more than it   *)
(* can nor is drained when it is empty, and what the CPU thread hands over *)
(* is always a frame of the driver's (read32/write32's lock_guard,         *)
(* process_tx_queue, platform_send, rx_inject, poll_thread_func).          *)
THEOREM NetIsTyped == Spec => []TypeOK
  <1>1. NetInv => TypeOK
    BY NetInvIsTyped
  <1> QED
    BY <1>1, NetInvHolds, PTL

-----------------------------------------------------------------------------
(* The receive ring: the entries from the driver's index on.               *)

\* The first n entries from index i on name different buffers of the device's.
Owned(i, n, ring, own) ==
    /\ \A k \in 0..(n - 1) : own[ring[At(i, k)]] = "device"
    /\ \A j, k \in 0..(n - 1) : ring[At(i, j)] = ring[At(i, k)] => j = k

\* The first m used entries are for the first m buffers posted.
InOrder(i, m, ring, entries) ==
    \A k \in 0..(m - 1) : entries[At(i, k)].id = ring[At(i, k)]

(* A full ring names every buffer, so a driver that still has one has room *)
(* to post it.                                                             *)
LEMMA RoomToPost ==
    ASSUME NEW i \in Indices, NEW n \in 0..QUEUE_SIZE, NEW ring \in [Slots -> Slots],
           NEW own, Owned(i, n, ring, own), NEW s \in Slots, own[s] # "device"
    PROVE  n < QUEUE_SIZE
  <1> SUFFICES ASSUME n = QUEUE_SIZE PROVE FALSE
    BY RingSizes
  <1> DEFINE f == [k \in Slots |-> ring[At(i, k)]]
  <1>1. ASSUME NEW k \in Slots PROVE k \in Nat /\ At(i, k) \in Slots
    <2>1. k \in Nat
      BY RingSizes DEF Slots
    <2> QED
      BY <2>1, Places
  <1>2. f \in [Slots -> Slots]
    BY <1>1
  <1>3. f \in Injection(Slots, Slots)
    BY <1>2 DEF Owned, Injection, IsInjective, Slots
  <1>4. IsFiniteSet(Slots)
    BY RingSizes, FS_Interval DEF Slots
  <1> HIDE DEF f
  <1>5. f \in Surjection(Slots, Slots)
    BY <1>3, <1>4, FS_Injection
  <1>6. PICK k \in Slots : f[k] = s
    BY <1>5 DEF Surjection
  <1>7. own[s] = "device"
    BY <1>6 DEF f, Owned, Slots
  <1> QED
    BY <1>7

(* Posting a buffer of the driver's adds one entry and leaves the others.  *)
LEMMA PostedIsOwned ==
    ASSUME NEW i \in Indices, NEW n \in 0..QUEUE_SIZE, NEW ring \in [Slots -> Slots],
           NEW own \in [Slots -> {"driver", "device"}], Owned(i, n, ring, own),
           NEW s \in Slots, own[s] = "driver"
    PROVE  LET after == [ring EXCEPT ![At(i, n)] = s]
           IN  /\ n < QUEUE_SIZE
               /\ \A k \in 0..(n - 1) : after[At(i, k)] = ring[At(i, k)]
               /\ Owned(i, n + 1, after, [own EXCEPT ![s] = "device"])
  <1> DEFINE after == [ring EXCEPT ![At(i, n)] = s]
             own2 == [own EXCEPT ![s] = "device"]
  <1>1. n < QUEUE_SIZE
    BY RoomToPost
  <1>2. n \in Nat /\ n \in 0..(QUEUE_SIZE - 1) /\ At(i, n) \in Slots
    <2>1. n \in Nat /\ n \in 0..(QUEUE_SIZE - 1)
      BY <1>1, RingSizes
    <2> QED
      BY <2>1, Places
  <1>3. ASSUME NEW k \in 0..(n - 1)
        PROVE  k \in Nat /\ k \in 0..(QUEUE_SIZE - 1) /\ At(i, k) \in Slots /\ At(i, k) # At(i, n)
    <2>1. k \in Nat /\ k \in 0..(QUEUE_SIZE - 1) /\ k # n
      BY <1>2, RingSizes
    <2> QED
      BY <1>2, <2>1, Places
  <1>4. \A k \in 0..(n - 1) : after[At(i, k)] = ring[At(i, k)]
    BY <1>3
  <1>5. after[At(i, n)] = s
    BY <1>2
  <1> HIDE DEF after
  <1>6. \A t \in Slots : own2[t] = IF t = s THEN "device" ELSE own[t]
    OBVIOUS
  <1> HIDE DEF own2
  <1>7. ASSUME NEW k \in 0..n PROVE k = n \/ k \in 0..(n - 1)
    BY <1>2
  <1>8. \A k \in 0..(n - 1) : ring[At(i, k)] \in Slots /\ own[ring[At(i, k)]] = "device" /\ ring[At(i, k)] # s
    BY <1>3 DEF Owned
  <1>9. \A k \in 0..n : own2[after[At(i, k)]] = "device"
    BY <1>4, <1>5, <1>6, <1>7, <1>8
  <1>10. \A j, k \in 0..n : after[At(i, j)] = after[At(i, k)] => j = k
    BY <1>4, <1>5, <1>7, <1>8 DEF Owned
  <1>11. n + 1 - 1 = n
    BY <1>2
  <1> QED
    BY <1>1, <1>4, <1>9, <1>10, <1>11 DEF Owned, after, own2

(* Reaping takes the first entry and its buffer, and moves the others up.  *)
LEMMA ReapedIsOwned ==
    ASSUME NEW i \in Indices, NEW n \in 1..QUEUE_SIZE, NEW ring \in [Slots -> Slots],
           NEW own \in [Slots -> {"driver", "device"}], Owned(i, n, ring, own)
    PROVE  /\ Owned(Next16(i), n - 1, ring, [own EXCEPT ![ring[At(i, 0)]] = "driver"])
           /\ \A k \in 0..(n - 2) : k + 1 \in 0..(n - 1) /\ At(Next16(i), k) = At(i, k + 1)
  <1> DEFINE b == ring[At(i, 0)]
             own2 == [own EXCEPT ![b] = "driver"]
  <1>1. n \in Nat /\ n >= 1
    BY RingSizes
  <1>2. ASSUME NEW k \in 0..(n - 2)
        PROVE  k \in Nat /\ k + 1 \in 0..(n - 1) /\ At(Next16(i), k) = At(i, k + 1) /\ k + 1 # 0
               /\ At(i, k + 1) \in Slots
    <2>1. k \in Nat /\ k + 1 \in 0..(n - 1) /\ k + 1 # 0 /\ k + 1 \in Nat
      BY <1>1
    <2> QED
      BY <2>1, Places
  <1>3. 0 \in 0..(n - 1)
    BY <1>1
  <1>4. \A t \in Slots : t # b => own2[t] = own[t]
    OBVIOUS
  <1> HIDE DEF own2
  <1>5. ASSUME NEW k \in 0..(n - 2)
        PROVE  own2[ring[At(Next16(i), k)]] = "device"
    <2>1. ring[At(i, k + 1)] # b /\ own[ring[At(i, k + 1)]] = "device"
      BY <1>2, <1>3 DEF Owned
    <2> QED
      BY <1>2, <1>4, <2>1
  <1>6. ASSUME NEW j \in 0..(n - 2), NEW k \in 0..(n - 2),
               ring[At(Next16(i), j)] = ring[At(Next16(i), k)]
        PROVE  j = k
    <2>1. ring[At(i, j + 1)] = ring[At(i, k + 1)]
      BY <1>2, <1>6
    <2>2. j + 1 = k + 1
      BY <1>2, <2>1 DEF Owned
    <2> QED
      BY <1>2, <2>2
  <1>7. n - 1 - 1 = n - 2
    BY <1>1
  <1> QED
    BY <1>2, <1>5, <1>6, <1>7 DEF Owned, own2

InRing == Ahead(avail[RXQ].idx, seen[RXQ])     \* entries the driver has posted
Done == Ahead(used[RXQ].idx, seen[RXQ])        \* ... and the device has used

\* Until a reset takes it all back, the entries from the driver's index on are
\* the device's, used from the first on, and rx_inject is at the next.
RxRing ==
    /\ Done <= InRing /\ InRing <= QUEUE_SIZE
    /\ used[RXQ].idx =
          IF poll = <<"raise">> THEN Next16(last_avail_idx[RXQ]) ELSE last_avail_idx[RXQ]
    /\ Owned(seen[RXQ], InRing, avail[RXQ].ring, owner)
    /\ InOrder(seen[RXQ], Done, avail[RXQ].ring, used[RXQ].ring)
    /\ queue_mutex = "poll" /\ poll # <<"raise">> =>
          Done < InRing /\ head = avail[RXQ].ring[At(seen[RXQ], Done)]
    /\ poll = <<"index", "raise">> => used[RXQ].ring[At(seen[RXQ], Done)].id = head

DmaInv == cpu # <<"down">> => RxRing

(* What the proofs about the ring need to know of its parts.               *)
LEMMA RxTypes ==
    ASSUME Registers, GuestMemory
    PROVE  /\ RXQ \in Queues /\ TXQ \in Queues /\ RXQ # TXQ
           /\ seen[RXQ] \in Indices /\ avail[RXQ].idx \in Indices /\ used[RXQ].idx \in Indices
           /\ last_avail_idx[RXQ] \in Indices
           /\ avail[RXQ].ring \in [Slots -> Slots]
           /\ used[RXQ].ring \in [Slots -> UsedEntries]
           /\ owner \in [Slots -> {"driver", "device"}]
           /\ avail \in Rings(Nat) /\ used \in Rings(UsedEntries)
           /\ InRing \in Nat /\ Done \in Nat
  <1>1. RXQ \in Queues /\ TXQ \in Queues /\ RXQ # TXQ
    BY DEF Queues, RXQ, TXQ
  <1>2. /\ avail \in Rings(Nat) /\ used \in Rings(UsedEntries)
        /\ \A s \in Slots : avail[RXQ].ring[s] \in Slots
    BY DEF GuestMemory
  <1>3. /\ avail[RXQ].idx \in Indices /\ used[RXQ].idx \in Indices
        /\ avail[RXQ].ring \in [Slots -> Nat] /\ used[RXQ].ring \in [Slots -> UsedEntries]
    BY <1>1, <1>2 DEF Rings
  <1>4. seen[RXQ] \in Indices /\ last_avail_idx[RXQ] \in Indices /\ owner \in [Slots -> {"driver", "device"}]
    BY <1>1 DEF Registers
  <1>5. avail[RXQ].ring \in [Slots -> Slots]
    BY <1>2, <1>3
  <1>6. InRing \in Nat /\ Done \in Nat
    BY <1>3, <1>4, Distances, RingSizes DEF InRing, Done
  <1> QED
    BY <1>1, <1>2, <1>3, <1>4, <1>5, <1>6

(* Steps that leave the receive ring alone.                                *)
LEMMA RxKept ==
    ASSUME RxRing,
           avail'[RXQ] = avail[RXQ], used'[RXQ] = used[RXQ], seen'[RXQ] = seen[RXQ],
           owner' = owner, last_avail_idx'[RXQ] = last_avail_idx[RXQ],
           \/ UNCHANGED <<poll, queue_mutex, head>>
           \/ /\ poll # <<"raise">> /\ poll' # <<"raise">> /\ poll' # <<"index", "raise">>
              /\ queue_mutex' # "poll"
           \/ queue_mutex # "poll" /\ queue_mutex' # "poll" /\ UNCHANGED poll
              /\ poll # <<"index", "raise">>
    PROVE  RxRing'
  <1>1. InRing' = InRing /\ Done' = Done
    BY DEF InRing, Done
  <1> QED
    BY <1>1 DEF RxRing

(* PostRx: the entry goes behind those already there.                      *)
LEMMA PostRxKeeps ==
    ASSUME NetInv, RxRing, PostRx
    PROVE  RxRing'
  <1>0. Control /\ Registers /\ GuestMemory
    BY DEF NetInv
  <1> DEFINE i == seen[RXQ]
             n == InRing
             ring == avail[RXQ].ring
  <1>t. /\ RXQ \in Queues /\ i \in Indices /\ avail[RXQ].idx \in Indices
        /\ ring \in [Slots -> Slots] /\ avail \in Rings(Nat)
        /\ owner \in [Slots -> {"driver", "device"}] /\ n \in Nat /\ Done \in Nat
    BY <1>0, RxTypes
  <1>1. PICK s \in Slots :
            /\ owner[s] = "driver"
            /\ avail' = Pushed(avail, RXQ, s)
            /\ owner' = [owner EXCEPT ![s] = "device"]
    BY DEF PostRx, PutAvail, Pushed
  <1>2. UNCHANGED <<used, seen, poll, queue_mutex, head, last_avail_idx>>
    BY DEF PostRx, device
  <1>3. /\ avail'[RXQ].idx = Next16(avail[RXQ].idx)
        /\ avail'[RXQ].ring = [ring EXCEPT ![Slot(avail[RXQ].idx)] = s]
    <2>1. s \in Nat
      BY RingSizes DEF Slots
    <2>2. /\ Pushed(avail, RXQ, s)[RXQ].idx = Next16(avail[RXQ].idx)
          /\ Pushed(avail, RXQ, s)[RXQ].ring = [avail[RXQ].ring EXCEPT ![Slot(avail[RXQ].idx)] = s]
      BY <1>t, <2>1, EntryPushed
    <2> QED
      BY <1>1, <2>2
  <1>4. Slot(avail[RXQ].idx) = At(i, n)
    BY <1>t, Places DEF InRing
  <1> DEFINE after == [ring EXCEPT ![At(i, n)] = s]
             own2 == [owner EXCEPT ![s] = "device"]
  <1>5. n \in 0..QUEUE_SIZE /\ Owned(i, n, ring, owner) /\ Done <= n
    BY <1>t, RingSizes DEF RxRing
  <1>6. /\ n < QUEUE_SIZE
        /\ \A k \in 0..(n - 1) : after[At(i, k)] = ring[At(i, k)]
        /\ Owned(i, n + 1, after, own2)
    <2> HIDE DEF i, n, ring
    <2> QED
      BY <1>1, <1>t, <1>5, PostedIsOwned
  <1>7. InRing' = n + 1 /\ Done' = Done
    <2>1. Ahead(avail[RXQ].idx, i) = n
      BY DEF InRing
    <2>2. n + 1 < IdxMod
      BY <1>t, <1>6, RingSizes
    <2>3. Ahead(Next16(avail[RXQ].idx), i) = n + 1
      <3> HIDE DEF i, n
      <3> QED
        BY <1>t, <2>1, <2>2, Distances
    <2> QED
      BY <1>2, <1>3, <2>3 DEF InRing, Done
  <1>8. avail'[RXQ].ring = after /\ owner' = own2 /\ seen'[RXQ] = i
    BY <1>1, <1>2, <1>3, <1>4
  <1>9. \A k \in 0..(Done - 1) : k \in 0..(n - 1)
    BY <1>t, <1>5
  <1> HIDE DEF after, own2
  <1>10. InOrder(i, Done, after, used[RXQ].ring)
    BY <1>6, <1>9 DEF RxRing, InOrder
  <1>11. ASSUME queue_mutex = "poll", poll # <<"raise">>
         PROVE  Done < n + 1 /\ head = after[At(i, Done)]
    <2>1. Done < n /\ head = ring[At(i, Done)]
      BY <1>11 DEF RxRing
    <2>2. Done \in 0..(n - 1)
      BY <1>t, <2>1
    <2> QED
      BY <1>t, <1>6, <2>1, <2>2
  <1>12. Done <= n + 1 /\ n + 1 <= QUEUE_SIZE
    BY <1>t, <1>5, <1>6, RingSizes
  <1> QED
    BY <1>2, <1>6, <1>7, <1>8, <1>10, <1>11, <1>12 DEF RxRing

(* Reap: the driver takes its first entry back.                            *)
LEMMA ReapKeeps ==
    ASSUME NetInv, RxRing, Reap
    PROVE  RxRing'
  <1>0. Control /\ Registers /\ GuestMemory
    BY DEF NetInv
  <1> DEFINE i == seen[RXQ]
             n == InRing
             m == Done
             ring == avail[RXQ].ring
  <1>t. /\ RXQ \in Queues /\ TXQ \in Queues /\ RXQ # TXQ
        /\ i \in Indices /\ avail[RXQ].idx \in Indices /\ used[RXQ].idx \in Indices
        /\ ring \in [Slots -> Slots] /\ n \in Nat /\ m \in Nat
        /\ owner \in [Slots -> {"driver", "device"}]
        /\ seen \in [Queues -> Indices]
    BY <1>0, RxTypes DEF Registers
  <1>1. UNCHANGED <<avail, used, poll, queue_mutex, head, last_avail_idx>>
    BY DEF Reap, rings, device
  <1>2. CASE used[RXQ].idx = seen[RXQ]
    <2>1. owner' = owner /\ seen'[RXQ] = seen[RXQ]
      BY <1>2, <1>t DEF Reap
    <2> QED
      BY <1>1, <2>1, RxKept
  <1>3. CASE used[RXQ].idx # seen[RXQ]
    <2> DEFINE own2 == [owner EXCEPT ![ring[At(i, 0)]] = "driver"]
    <2>1. m <= n /\ n <= QUEUE_SIZE /\ Owned(i, n, ring, owner) /\ InOrder(i, m, ring, used[RXQ].ring)
      BY DEF RxRing
    <2>2. m >= 1 /\ n \in 1..QUEUE_SIZE /\ avail[RXQ].idx # seen[RXQ]
      <3>1. m # 0 /\ (n = 0 <=> avail[RXQ].idx = seen[RXQ])
        BY <1>3, <1>t, Distances DEF Done, InRing
      <3> HIDE DEF n, m
      <3> QED
        BY <1>t, <2>1, <3>1, RingSizes
    <2>3. used[RXQ].ring[Slot(i)].id = ring[At(i, 0)]
      <3>1. 0 \in 0..(m - 1)
        BY <1>t, <2>2
      <3>2. At(i, 0) = Slot(i)
        BY <1>t, Places
      <3> QED
        BY <2>1, <3>1, <3>2 DEF InOrder
    <2>4. owner' = own2 /\ seen' = [seen EXCEPT ![RXQ] = Next16(@)]
      BY <1>3, <2>3 DEF Reap
    <2>5. seen'[RXQ] = Next16(i)
      BY <1>t, <2>4
    <2>6. InRing' = n - 1 /\ Done' = m - 1
      <3>1. /\ Ahead(avail[RXQ].idx, Next16(i)) = Ahead(avail[RXQ].idx, i) - 1
            /\ Ahead(used[RXQ].idx, Next16(i)) = Ahead(used[RXQ].idx, i) - 1
        <4>1. avail[RXQ].idx # i /\ used[RXQ].idx # i
          BY <1>3, <2>2
        <4> HIDE DEF i
        <4> QED
          BY <1>t, <4>1, Distances
      <3> QED
        BY <1>1, <2>5, <3>1 DEF InRing, Done
    <2>7. /\ Owned(Next16(i), n - 1, ring, own2)
          /\ \A k \in 0..(n - 2) : k + 1 \in 0..(n - 1) /\ At(Next16(i), k) = At(i, k + 1)
      <3> HIDE DEF i, n, ring
      <3> QED
        BY <1>t, <2>1, <2>2, ReapedIsOwned
    <2> HIDE DEF own2
    <2>8. ASSUME NEW k \in 0..(m - 2)
          PROVE  k + 1 \in 0..(m - 1) /\ At(Next16(i), k) = At(i, k + 1)
      <3>1. k \in 0..(n - 2) /\ k + 1 \in 0..(m - 1)
        <4> HIDE DEF n, m
        <4> QED
          BY <1>t, <2>1
      <3> QED
        BY <2>7, <3>1
    <2>9. InOrder(Next16(i), m - 1, ring, used[RXQ].ring)
      <3>1. m - 1 - 1 = m - 2
        BY <1>t
      <3> QED
        BY <2>1, <2>8, <3>1 DEF InOrder
    <2>10. m < n => At(Next16(i), m - 1) = At(i, m)
      <3>1. m < n => m - 1 \in 0..(n - 2) /\ (m - 1) + 1 = m
        <4> HIDE DEF n, m
        <4> QED
          BY <1>t, <2>2
      <3> QED
        BY <2>7, <3>1
    <2>11. ASSUME queue_mutex = "poll", poll # <<"raise">>
           PROVE  m - 1 < n - 1 /\ head = ring[At(Next16(i), m - 1)]
      <3>1. m < n /\ head = ring[At(i, m)]
        BY <2>11 DEF RxRing
      <3>2. m - 1 < n - 1
        <4> HIDE DEF n, m
        <4> QED
          BY <1>t, <3>1
      <3> QED
        BY <2>10, <3>1, <3>2
    <2>12. ASSUME poll = <<"index", "raise">>
           PROVE  used[RXQ].ring[At(Next16(i), m - 1)].id = head
      <3>1. queue_mutex = "poll" /\ poll # <<"raise">>
        BY <1>0, <2>12 DEF Control, Injecting
      <3>2. m < n
        BY <3>1 DEF RxRing
      <3> QED
        BY <2>10, <2>12, <3>2 DEF RxRing
    <2>13. m - 1 <= n - 1 /\ n - 1 <= QUEUE_SIZE
      <3> HIDE DEF n, m
      <3> QED
        BY <1>t, <2>1, RingSizes
    <2>14. used[RXQ].idx = IF poll = <<"raise">> THEN Next16(last_avail_idx[RXQ]) ELSE last_avail_idx[RXQ]
      BY DEF RxRing
    <2> HIDE DEF n, m
    <2>15. /\ avail'[RXQ].ring = ring /\ used' = used /\ owner' = own2 /\ seen'[RXQ] = Next16(i)
           /\ InRing' = n - 1 /\ Done' = m - 1
           /\ UNCHANGED <<poll, queue_mutex, head, last_avail_idx>>
      BY <1>1, <2>4, <2>5, <2>6 DEF own2
    <2> QED
      BY <2>7, <2>9, <2>11, <2>12, <2>13, <2>14, <2>15 DEF RxRing
  <1> QED
    BY <1>2, <1>3

(* The used entry is in the place of the first one not used yet.           *)
LEMMA NextPlace ==
    ASSUME Registers, GuestMemory
    PROVE  Slot(used[RXQ].idx) = At(seen[RXQ], Done)
  BY RxTypes, Places DEF Done

(* InjectLock: rx_inject takes the first entry not used yet, if any.       *)
LEMMA InjectLockKeeps ==
    ASSUME NetInv, RxRing, InjectLock
    PROVE  RxRing'
  <1>0. Control /\ Registers /\ GuestMemory
    BY DEF NetInv
  <1>1. UNCHANGED <<avail, used, seen, owner, last_avail_idx>>
    BY DEF InjectLock, cpuVars, driver, device
  <1>2. poll # <<"raise">> /\ InjectOrder # <<"raise">> /\ InjectOrder # <<"index", "raise">>
    BY DEF InjectLock, InjectOrder
  <1>3. CASE ready[RXQ] /\ last_avail_idx[RXQ] # avail[RXQ].idx
    <2>1. poll' = InjectOrder /\ head' = avail[RXQ].ring[Slot(last_avail_idx[RXQ])]
      BY <1>3 DEF InjectLock
    <2>2. used[RXQ].idx = last_avail_idx[RXQ] /\ Done <= InRing
      BY <1>2 DEF RxRing
    <2>3. Done # InRing
      BY <1>0, <1>3, <2>2, RxTypes, SameDistance DEF Done, InRing
    <2>4. Done < InRing
      BY <1>0, <2>2, <2>3, RxTypes
    <2>5. head' = avail[RXQ].ring[At(seen[RXQ], Done)]
      BY <1>0, <2>1, <2>2, NextPlace
    <2>6. InRing' = InRing /\ Done' = Done
      BY <1>1 DEF InRing, Done
    <2> QED
      BY <1>1, <1>2, <2>1, <2>4, <2>5, <2>6 DEF RxRing
  <1>4. CASE ~(ready[RXQ] /\ last_avail_idx[RXQ] # avail[RXQ].idx)
    <2>1. poll' = back /\ queue_mutex' = queue_mutex /\ queue_mutex = "free"
      BY <1>4 DEF InjectLock, Returns
    <2>2. back \notin {<<"raise">>, <<"index", "raise">>}
      BY <1>0 DEF Control, NoCall
    <2> QED
      BY <1>1, <1>2, <2>1, <2>2, RxKept
  <1> QED
    BY <1>3, <1>4

(* Inject: the used entry first, then the index, then the entry is taken   *)
(* off the device's count.                                                 *)
LEMMA InjectKeeps ==
    ASSUME NetInv, RxRing, Inject
    PROVE  RxRing'
  <1>0. Control /\ Registers /\ GuestMemory /\ TxRing
    BY DEF NetInv
  <1> DEFINE i == seen[RXQ]
             n == InRing
             m == Done
             ring == avail[RXQ].ring
  <1>t. /\ RXQ \in Queues /\ i \in Indices /\ used[RXQ].idx \in Indices
        /\ last_avail_idx[RXQ] \in Indices
        /\ used[RXQ].ring \in [Slots -> UsedEntries] /\ used \in Rings(UsedEntries)
        /\ ring \in [Slots -> Slots] /\ n \in Nat /\ m \in Nat
    BY <1>0, RxTypes
  <1>1. UNCHANGED <<avail, seen, owner>>
    BY DEF Inject, driver
  <1>2. poll \in Injecting /\ queue_mutex = "poll"
    BY <1>0, InjectIsInside DEF Control
  <1>3. /\ m <= n /\ n <= QUEUE_SIZE /\ Owned(i, n, ring, owner) /\ InOrder(i, m, ring, used[RXQ].ring)
        /\ Slot(used[RXQ].idx) = At(i, m)
    BY <1>0, NextPlace DEF RxRing
  <1>p. /\ m < n => \A k \in 0..(m - 1) : At(i, k) \in Slots /\ At(i, k) # At(i, m)
        /\ At(i, m) \in Slots
    <2>1. ASSUME m < n, NEW k \in 0..(m - 1)
          PROVE  k \in Nat /\ k \in 0..(QUEUE_SIZE - 1) /\ m \in 0..(QUEUE_SIZE - 1) /\ k # m
      <3> HIDE DEF n, m
      <3> QED
        BY <1>t, <1>3, <2>1, RingSizes
    <2> HIDE DEF m, n, i
    <2> QED
      BY <1>t, <2>1, Places
  <1>4. CASE poll # <<"raise">>
    <2>1. m < n /\ head = ring[At(i, m)] /\ used[RXQ].idx = last_avail_idx[RXQ]
      BY <1>2, <1>4 DEF RxRing
    <2>2. poll' = Tail(poll) /\ UNCHANGED <<head, queue_mutex, last_avail_idx>>
      BY <1>2, <1>4, InjectPhases DEF Inject, InjectNext
    <2>3. CASE poll = <<"fill", "entry", "index", "raise">>
      <3>1. poll' = <<"entry", "index", "raise">> /\ used' = used
        BY <1>2, <2>2, <2>3, InjectTails, InjectPhases DEF Inject
      <3>2. poll' # <<"raise">> /\ poll' # <<"index", "raise">>
        BY <3>1
      <3>3. InRing' = n /\ Done' = m
        BY <1>1, <3>1 DEF InRing, Done
      <3> QED
        BY <1>1, <1>3, <2>1, <2>2, <3>1, <3>2, <3>3 DEF RxRing
    <2>4. CASE poll = <<"entry", "index", "raise">>
      <3> DEFINE e == [id |-> head, len |-> UsedLength(head, rxNext - 1)]
                 s == Slot(used[RXQ].idx)
      <3>1. poll' = <<"index", "raise">> /\ used' = WithEntry(used, RXQ, s, e)
        BY <1>2, <2>2, <2>4, InjectTails, InjectPhases DEF Inject, WithEntry
      <3>2. e \in UsedEntries /\ e.id = head
        <4>1. head \in Slots /\ rxNext - 1 \in Int
          BY <1>0 DEF GuestMemory, TxRing
        <4>2. UsedLength(head, rxNext - 1) \in Lengths
          BY <4>1 DEF Lengths
        <4> QED
          BY <4>1, <4>2 DEF UsedEntries
      <3> HIDE DEF e
      <3>3. s \in Slots
        BY <1>t, RingSizes
      <3>4. s = At(i, m)
        BY <1>3
      <3> HIDE DEF s
      <3>5. /\ used'[RXQ].idx = used[RXQ].idx
            /\ used'[RXQ].ring = [used[RXQ].ring EXCEPT ![s] = e]
        <4>1. /\ WithEntry(used, RXQ, s, e)[RXQ].idx = used[RXQ].idx
              /\ WithEntry(used, RXQ, s, e)[RXQ].ring = [used[RXQ].ring EXCEPT ![s] = e]
          BY <1>t, <3>2, <3>3, EntryWritten
        <4> QED
          BY <3>1, <4>1
      <3>6. InRing' = n /\ Done' = m
        BY <1>1, <3>5 DEF InRing, Done
      <3>7. InOrder(i, m, ring, used'[RXQ].ring)
        BY <1>t, <1>3, <1>p, <2>1, <3>4, <3>5 DEF InOrder
      <3>8. used'[RXQ].ring[At(i, m)].id = head
        BY <1>t, <1>p, <3>2, <3>4, <3>5
      <3>9. poll' # <<"raise">>
        BY <3>1
      <3> QED
        BY <1>1, <1>3, <2>1, <2>2, <3>1, <3>5, <3>6, <3>7, <3>8, <3>9 DEF RxRing
    <2>5. CASE poll = <<"index", "raise">>
      <3>1. poll' = <<"raise">> /\ used' = WithIndex(used, RXQ)
        BY <1>2, <2>2, <2>5, InjectTails, InjectPhases DEF Inject, WithIndex
      <3>2. used'[RXQ].idx = Next16(used[RXQ].idx) /\ used'[RXQ].ring = used[RXQ].ring
        <4>1. /\ WithIndex(used, RXQ)[RXQ].idx = Next16(used[RXQ].idx)
              /\ WithIndex(used, RXQ)[RXQ].ring = used[RXQ].ring
          BY <1>t, IndexMoved
        <4> QED
          BY <3>1, <4>1
      <3>3. InRing' = n /\ Done' = m + 1
        <4>1. InRing' = n
          BY <1>1 DEF InRing
        <4>2. Ahead(used[RXQ].idx, i) = m
          BY DEF Done
        <4>3. m + 1 < IdxMod
          <5> HIDE DEF m, n
          <5> QED
            BY <1>t, <1>3, <2>1, RingSizes
        <4>4. Ahead(Next16(used[RXQ].idx), i) = m + 1
          <5> HIDE DEF i, m
          <5> QED
            BY <1>t, <4>2, <4>3, Distances
        <4> QED
          BY <1>1, <3>2, <4>1, <4>4 DEF Done
      <3>4. InOrder(i, m + 1, ring, used[RXQ].ring)
        <4>1. used[RXQ].ring[At(i, m)].id = ring[At(i, m)]
          BY <2>1, <2>5 DEF RxRing
        <4> DEFINE next == m + 1
        <4>2. ASSUME NEW k \in 0..(next - 1) PROVE k = m \/ k \in 0..(m - 1)
          <5> HIDE DEF m
          <5> QED
            BY <1>t
        <4>3. ASSUME NEW k \in 0..(next - 1)
              PROVE  used[RXQ].ring[At(i, k)].id = ring[At(i, k)]
          <5>1. k = m \/ k \in 0..(m - 1)
            BY <4>2
          <5> HIDE DEF m, i, ring
          <5> QED
            BY <1>3, <4>1, <5>1 DEF InOrder
        <4> HIDE DEF next
        <4>4. InOrder(i, next, ring, used[RXQ].ring)
          BY <4>3 DEF InOrder
        <4> QED
          BY <4>4 DEF next
      <3>5. m + 1 <= n
        <4> HIDE DEF n, m
        <4> QED
          BY <1>t, <2>1
      <3>6. <<"raise">> # <<"index", "raise">>
        OBVIOUS
      <3> HIDE DEF n, m
      <3> QED
        BY <1>1, <1>3, <2>1, <2>2, <3>1, <3>2, <3>3, <3>4, <3>5, <3>6 DEF RxRing
    <2> QED
      BY <1>2, <1>4, <2>3, <2>4, <2>5 DEF Injecting
  <1>5. CASE poll = <<"raise">>
    <2>1. /\ poll' = back /\ queue_mutex' = "free" /\ used' = used
          /\ last_avail_idx' = [last_avail_idx EXCEPT ![RXQ] = Next16(@)]
      BY <1>2, <1>5, InjectPhases DEF Inject, InjectNext, Returns
    <2>2. back \notin {<<"raise">>, <<"index", "raise">>}
      BY <1>0 DEF Control, NoCall
    <2>3. last_avail_idx'[RXQ] = Next16(last_avail_idx[RXQ])
      BY <1>0, <1>t, <2>1 DEF Registers
    <2>4. used[RXQ].idx = Next16(last_avail_idx[RXQ])
      BY <1>5 DEF RxRing
    <2>5. InRing' = n /\ Done' = m
      BY <1>1, <2>1 DEF InRing, Done
    <2> QED
      BY <1>1, <1>3, <2>1, <2>2, <2>3, <2>4, <2>5 DEF RxRing
  <1> QED
    BY <1>4, <1>5

(* Every other step of either thread.                                      *)
LEMMA OthersKeep ==
    ASSUME NetInv, RxRing,
           \/ PostTx \/ Notify \/ Claim \/ Complete \/ ReadStatus \/ Ack \/ Device
           \/ PollReturns \/ Drain \/ Swap \/ Input \/ Sockets \/ cb_notify
    PROVE  RxRing'
  <1>0. Control /\ Registers /\ GuestMemory
    BY DEF NetInv
  <1>t. /\ RXQ \in Queues /\ TXQ \in Queues /\ RXQ # TXQ
        /\ avail \in Rings(Nat) /\ used \in Rings(UsedEntries)
    BY <1>0, RxTypes
  <1>1. CASE PostTx
    <2>1. /\ avail' = Pushed(avail, TXQ, txNext)
          /\ UNCHANGED <<used, seen, owner, last_avail_idx, poll, queue_mutex, head>>
      BY <1>1 DEF PostTx, PutAvail, Pushed, device
    <2>2. avail'[RXQ] = avail[RXQ]
      BY <1>t, <2>1, OtherQueue
    <2> QED
      BY <2>1, <2>2, RxKept
  <1>2. CASE Claim \/ Complete \/ ReadStatus \/ Ack \/ Enqueue \/ Wake
    <2>1. UNCHANGED <<avail, used, seen, owner, last_avail_idx, poll, queue_mutex, head>>
      BY <1>2 DEF Claim, Complete, ReadStatus, Ack, Enqueue, Wake, rings, driver, device
    <2> QED
      BY <2>1, RxKept
  <1>3. CASE Notify \/ TxDone
    <2>1. UNCHANGED <<avail, used, seen, owner, last_avail_idx, poll, head>>
      BY <1>3 DEF Notify, TxDone, rings, driver, device
    <2>2. queue_mutex # "poll" /\ queue_mutex' # "poll"
      <3>1. CASE Notify
        BY <3>1 DEF Notify, CpuMayLock
      <3>2. CASE TxDone
        <4>1. cpu \in Sending
          BY <3>2, CpuPhases DEF TxDone
        <4> QED
          BY <1>0, <3>2, <4>1 DEF Control, TxDone
      <3> QED
        BY <1>3, <3>1, <3>2
    <2>3. poll # <<"index", "raise">>
      BY <1>0, <2>2 DEF Control, Injecting
    <2> QED
      BY <2>1, <2>2, <2>3, RxKept
  <1>4. CASE TxFrame
    <2>1. /\ \E e : used' = Pushed(used, TXQ, e)
          /\ last_avail_idx' = [last_avail_idx EXCEPT ![TXQ] = Next16(@)]
          /\ UNCHANGED <<avail, seen, owner, poll, queue_mutex, head>>
      BY <1>4 DEF TxFrame, Pushed, driver
    <2>2. used'[RXQ] = used[RXQ]
      BY <1>t, <2>1, OtherQueue
    <2>3. last_avail_idx'[RXQ] = last_avail_idx[RXQ]
      BY <1>0, <1>t, <2>1 DEF Registers
    <2> QED
      BY <2>1, <2>2, <2>3, RxKept
  <1>5. CASE PollReturns \/ Drain \/ Swap \/ Input \/ Sockets \/ cb_notify
    <2>1. UNCHANGED <<avail, used, seen, owner, last_avail_idx, queue_mutex, head>>
      BY <1>5 DEF PollReturns, Drain, Swap, Input, Sockets, cb_notify, cpuVars, driver, device
    <2>2. poll \notin Injecting /\ queue_mutex # "poll"
      <3>1. poll \in RestPhases \cup CallPhases
        BY <1>5 DEF PollReturns, Drain, Swap, Input, Sockets, cb_notify, RestPhases, CallPhases
      <3> QED
        BY <1>0, <3>1, PollThreadPhases DEF Control
    <2>3. poll' \notin Injecting
      <3>1. Control'
        BY <1>0, <1>5, PollKeepsControl DEF PollThread
      <3> QED
        BY <2>1, <2>2, <3>1 DEF Control
    <2> QED
      BY <2>1, <2>2, <2>3, RxKept DEF Injecting
  <1> QED
    BY <1>1, <1>2, <1>3, <1>4, <1>5 DEF Device

(* A reset takes the ring away and Configure gives an empty one, so that   *)
(* the ring is in order whenever the device is up.                         *)
LEMMA DmaInvStep ==
    ASSUME NetInv, DmaInv, [Next]_vars
    PROVE  DmaInv'
  <1>0. Control /\ Registers /\ GuestMemory /\ Quiet
    BY DEF NetInv
  <1>1. CASE Reset
    BY <1>1 DEF Reset, DmaInv
  <1>2. CASE Configure
    <2>1. /\ avail' = EmptyRings /\ used'[RXQ].idx = 0 /\ seen'[RXQ] = 0
          /\ queue_mutex' = "free" /\ UNCHANGED <<poll, last_avail_idx>>
      BY <1>2, RxTypes, <1>0 DEF Configure, EmptyUsed, CpuMayLock
    <2>2. last_avail_idx'[RXQ] = 0 /\ poll # <<"raise">> /\ poll # <<"index", "raise">>
      <3>1. cpu = <<"down">> /\ queue_mutex # "poll"
        BY <1>2 DEF Configure, CpuMayLock
      <3>2. last_avail_idx' = Zeros /\ poll \notin Injecting
        BY <1>0, <2>1, <3>1 DEF Control, Quiet
      <3> QED
        BY <1>0, <3>2, RxTypes DEF Zeros, Injecting
    <2>3. InRing' = 0 /\ Done' = 0
      <3>1. Ahead(0, 0) = 0
        BY RingSizes, Distances
      <3>2. avail'[RXQ].idx = 0
        BY <1>0, <2>1, EmptyOnes, RxTypes
      <3> QED
        BY <2>1, <3>1, <3>2 DEF InRing, Done
    <2>4. QUEUE_SIZE >= 0 /\ 0..(0 - 1) = {}
      BY RingSizes
    <2>5. Owned(seen'[RXQ], 0, avail'[RXQ].ring, owner') /\ InOrder(seen'[RXQ], 0, avail'[RXQ].ring, used'[RXQ].ring)
      BY <2>4 DEF Owned, InOrder
    <2>6. RxRing'
      BY <2>1, <2>2, <2>3, <2>4, <2>5 DEF RxRing
    <2> QED
      BY <2>6 DEF DmaInv
  <1>3. CASE cpu = <<"down">> /\ (Next \/ UNCHANGED vars) /\ ~Reset /\ ~Configure
    <2>1. cpu' = cpu
      <3>1. ~Device
        BY <1>0, <1>3, SendPhases, CpuPhases DEF Device, TxFrame, Enqueue, Wake, TxDone, Control
      <3>2. ~Driver /\ ~Handler
        BY <1>3 DEF Driver, Handler, PostTx, PostRx, Notify, Claim, Complete, ReadStatus, Ack, Reap
      <3>3. PollThread => cpu' = cpu
        BY DEF PollThread, PollReturns, Drain, Swap, Input, Sockets, cb_notify, InjectLock,
               Inject, cpuVars
      <3> QED
        BY <1>3, <3>1, <3>2, <3>3 DEF Next, vars
    <2> QED
      BY <1>3, <2>1 DEF DmaInv
  <1>4. CASE cpu # <<"down">> /\ Next /\ ~Reset /\ ~Configure
    <2>1. RxRing
      BY <1>4 DEF DmaInv
    <2>2. RxRing'
      BY <1>4, <2>1, PostRxKeeps, ReapKeeps, InjectLockKeeps, InjectKeeps, OthersKeep
         DEF Next, Driver, Handler, PollThread
    <2> QED
      BY <2>2 DEF DmaInv
  <1>5. CASE UNCHANGED vars
    <2>1. RxRing => RxRing'
      BY <1>5, RxKept DEF vars, rings, driver, device
    <2> QED
      BY <1>5, <2>1 DEF DmaInv, vars
  <1> QED
    BY <1>1, <1>2, <1>3, <1>4, <1>5

(* The poll thread writes into a receive buffer only while the driver has  *)
(* it on the ring, whatever the guest posts, reaps or resets meanwhile     *)
(* (queue_mutex_ in write32 and rx_inject, last_avail_idx against the used *)
(* index in push_used).                                                    *)
THEOREM BuffersAreTheDevices == Spec => []DmaIntoOwnedBuffers
  <1>1. Init => DmaInv
    BY DEF Init, DmaInv
  <1>2. NetInv /\ DmaInv /\ [Next]_vars => DmaInv'
    BY DmaInvStep
  <1>3. NetInv /\ DmaInv => DmaIntoOwnedBuffers
    <2> SUFFICES ASSUME NetInv, DmaInv, Head(poll) = "fill"
                 PROVE  owner[head] = "device"
      BY DEF DmaIntoOwnedBuffers
    <2>1. Control /\ Registers /\ GuestMemory /\ Quiet
      BY DEF NetInv
    <2>2. poll \in Injecting /\ poll # <<"raise">> /\ queue_mutex = "poll"
      <3>1. poll \in Injecting
        BY <2>1, PollPhasesAre, RestingPhases DEF Control
      <3> QED
        BY <2>1, <3>1, InjectPhases DEF Control
    <2>3. RxRing
      BY <2>1, <2>2 DEF Quiet, DmaInv
    <2>4. Done < InRing /\ head = avail[RXQ].ring[At(seen[RXQ], Done)]
      BY <2>2, <2>3 DEF RxRing
    <2>5. Done \in 0..(InRing - 1)
      BY <2>1, <2>4, RxTypes
    <2> QED
      BY <2>3, <2>4, <2>5 DEF RxRing, Owned
  <1> QED
    BY <1>1, <1>2, <1>3, NetInvHolds, PTL DEF Spec

-----------------------------------------------------------------------------
(* Descriptor chains: how far each descriptor reaches.                     *)

AreSums(chain, f) ==
    f = [k \in 0..Len(chain) |-> IF k = 0 THEN 0 ELSE f[k - 1] + chain[k]]

Sums(chain) == CHOOSE f : AreSums(chain, f)

(* The recursion of Start has a solution, and these are its values.        *)
LEMMA SumsAre ==
    ASSUME NEW chain \in Seq(Nat)
    PROVE  /\ \A k \in 0..Len(chain) : Sums(chain)[k] \in Nat
           /\ Sums(chain)[0] = 0
           /\ \A k \in 1..Len(chain) : Sums(chain)[k] = Sums(chain)[k - 1] + chain[k]
           /\ \A d \in Int : Start(chain, d) = Sums(chain)[d - 1]
  <1> DEFINE n == Len(chain)
             g == [k \in 1..n |-> [x \in Nat |-> x + chain[k]]]
  <1>1. n \in Nat /\ \A k \in 1..n : chain[k] \in Nat
    BY LenProperties, ElementOfSeq
  <1>2. \A k \in 1..n : \A x \in Nat : g[k][x] = x + chain[k]
    OBVIOUS
  <1> HIDE DEF g
  <1>3. ASSUME NEW k \in 1..n, NEW x \in Nat PROVE g[k][x] \in Nat
    <2>1. chain[k] \in Nat /\ g[k][x] = x + chain[k]
      BY <1>1, <1>2
    <2> QED
      BY <2>1
  <1>4. \E f : AreSums(chain, f)
    <2> HIDE DEF n
    <2>1. PICK f \in [0..n -> Nat] : Recurses(f, 0, g, n)
      BY <1>1, <1>3, RecursionExists
    <2> DEFINE h == [k \in 0..n |-> IF k = 0 THEN 0 ELSE f[k - 1] + chain[k]]
    <2>2. ASSUME NEW k \in 0..n PROVE f[k] = h[k]
      <3>1. CASE k = 0
        BY <2>1, <3>1 DEF Recurses
      <3>2. CASE k # 0
        <4>1. k \in 1..n /\ k - 1 \in 0..n
          BY <1>1, <3>2
        <4>2. f[k - 1] \in Nat /\ f[k] = g[k][f[k - 1]]
          BY <2>1, <4>1 DEF Recurses
        <4> QED
          BY <1>2, <3>2, <4>1, <4>2
      <3> QED
        BY <3>1, <3>2
    <2>3. f = [k \in 0..n |-> f[k]] /\ h = [k \in 0..n |-> h[k]]
      OBVIOUS
    <2> HIDE DEF h
    <2>4. f = h
      BY <2>2, <2>3
    <2> QED
      BY <2>4, Zenon DEF AreSums, h, n
  <1> DEFINE s == Sums(chain)
  <1>5. AreSums(chain, s)
    BY <1>4, Zenon DEF Sums
  <1>6. \A d \in Int : Start(chain, d) = s[d - 1]
    BY DEF Start, Sums, AreSums
  <1> HIDE DEF s
  <1>7. \A k \in 0..n : s[k] = IF k = 0 THEN 0 ELSE s[k - 1] + chain[k]
    BY <1>5, Zenon DEF AreSums
  <1>8. s[0] = 0 /\ \A k \in 1..n : s[k] = s[k - 1] + chain[k]
    BY <1>1, <1>7
  <1>9. \A k \in 0..n : s[k] \in Nat
    <2> DEFINE A == {k \in Nat : s[k] \in Nat}
    <2> HIDE DEF n
    <2>1. 0 \in A
      BY <1>8
    <2>2. ASSUME NEW k \in 1..n, k - 1 \in A PROVE k \in A
      <3>1. k \in Nat /\ chain[k] \in Nat /\ s[k - 1] \in Nat
        BY <1>1, <2>2
      <3>2. s[k] = s[k - 1] + chain[k]
        BY <1>8
      <3>3. s[k - 1] + chain[k] \in Nat
        BY <3>1
      <3> QED
        BY <3>1, <3>2, <3>3
    <2> HIDE DEF A
    <2>3. 0..n \subseteq A
      BY <1>1, <2>1, <2>2, BoundedInduction
    <2> QED
      BY <2>3 DEF A
  <1> QED
    BY <1>6, <1>8, <1>9 DEF s

(* The sums do not fall.                                                   *)
LEMMA SumsGrow ==
    ASSUME NEW chain \in Seq(Nat), NEW i \in 0..Len(chain)
    PROVE  \A k \in i..Len(chain) : Sums(chain)[i] <= Sums(chain)[k]
  <1> DEFINE n == Len(chain)
             s == Sums(chain)
             A == {k \in Nat : k >= i => s[i] <= s[k]}
  <1>1. n \in Nat /\ \A k \in 1..n : chain[k] \in Nat
    BY LenProperties, ElementOfSeq
  <1>2. /\ \A k \in 0..n : s[k] \in Nat
        /\ s[0] = 0 /\ \A k \in 1..n : s[k] = s[k - 1] + chain[k]
    BY SumsAre
  <1> HIDE DEF n, s
  <1>3. i \in 0..n
    BY DEF n
  <1>4. 0 \in A
    BY <1>2, <1>3
  <1>5. ASSUME NEW k \in 1..n, k - 1 \in A PROVE k \in A
    <2>1. k - 1 \in 0..n /\ k \in 0..n /\ k \in Nat
      BY <1>1
    <2>2. s[k - 1] <= s[k] /\ s[k] \in Nat /\ s[k - 1] \in Nat /\ s[i] \in Nat
      <3>1. s[k] \in Nat /\ s[k - 1] \in Nat /\ s[i] \in Nat
        BY <1>2, <1>3, <2>1
      <3>2. s[k] = s[k - 1] + chain[k] /\ chain[k] \in Nat
        BY <1>1, <1>2
      <3> QED
        BY <3>1, <3>2
    <2>3. CASE k = i
      BY <2>1, <2>2, <2>3
    <2>4. CASE k # i
      BY <1>3, <1>5, <2>1, <2>2, <2>4
    <2> QED
      BY <2>3, <2>4
  <1> HIDE DEF A
  <1>6. 0..n \subseteq A
    BY <1>1, <1>4, <1>5, BoundedInduction
  <1>7. \A k \in i..n : k \in 0..n /\ k >= i
    BY <1>1, <1>3
  <1> QED
    BY <1>6, <1>7 DEF A, n, s

-----------------------------------------------------------------------------
(* What FlattenSeq makes of a sequence of sequences, one after the other.  *)

AreFlattened(seqs, f) ==
    f = [i \in 1..Len(seqs) |-> IF i = 1 THEN seqs[i] ELSE f[i - 1] \o seqs[i]]

Flattened(seqs) == CHOOSE f : AreFlattened(seqs, f)

(* It has one: each of its values is a sequence, and the last is the whole. *)
LEMMA FlattenedAre ==
    ASSUME NEW T, NEW seqs \in Seq(Seq(T)), seqs # <<>>
    PROVE  /\ \A i \in 1..Len(seqs) : Flattened(seqs)[i] \in Seq(T)
           /\ Flattened(seqs)[1] = seqs[1]
           /\ \A i \in 2..Len(seqs) : Flattened(seqs)[i] = Flattened(seqs)[i - 1] \o seqs[i]
           /\ FlattenSeq(seqs) = Flattened(seqs)[Len(seqs)]
  <1> DEFINE n == Len(seqs)
             S == Seq(T)
             g == [i \in 1..n |-> [x \in S |-> x \o seqs[i]]]
  <1>1. n \in Nat /\ n > 0 /\ \A i \in 1..n : seqs[i] \in S
    BY EmptySeq, LenProperties, ElementOfSeq
  <1>2. \A i \in 1..n : \A x \in S : g[i][x] = x \o seqs[i]
    OBVIOUS
  <1> HIDE DEF g
  <1>3. \A i \in 1..n : \A x \in S : g[i][x] \in S
    <2> TAKE i \in 1..n
    <2> TAKE x \in S
    <2>1. seqs[i] \in S /\ g[i][x] = x \o seqs[i]
      BY <1>1, <1>2
    <2> QED
      BY <2>1, ConcatProperties
  <1>4. \E f : AreFlattened(seqs, f)
    <2>0. <<>> \in S /\ \A x \in S : <<>> \o x = x
      BY EmptySeq, ConcatEmptySeq
    <2> HIDE DEF n, S
    <2>1. PICK f0 \in [0..n -> S] : Recurses(f0, <<>>, g, n)
      BY <1>1, <1>3, <2>0, RecursionExists
    <2> DEFINE f == [i \in 1..n |-> f0[i]]
    <2> DEFINE h == [i \in 1..n |-> IF i = 1 THEN seqs[i] ELSE f[i - 1] \o seqs[i]]
    <2>2. ASSUME NEW i \in 1..n PROVE f[i] = h[i]
      <3>1. i - 1 \in 0..n
        BY <1>1
      <3>2. f0[i - 1] \in S /\ f0[i] = g[i][f0[i - 1]]
        BY <2>1, <3>1 DEF Recurses
      <3>3. f[i] = f0[i - 1] \o seqs[i]
        BY <1>2, <3>2
      <3>4. CASE i = 1
        <4>1. f0[i - 1] = <<>>
          BY <2>1, <3>4 DEF Recurses
        <4> QED
          BY <1>1, <2>0, <3>3, <3>4, <4>1
      <3>5. CASE i # 1
        <4>1. i - 1 \in 1..n
          BY <1>1, <3>5
        <4> QED
          BY <3>3, <3>5, <4>1
      <3> QED
        BY <3>4, <3>5
    <2>3. f = [i \in 1..n |-> f[i]] /\ h = [i \in 1..n |-> h[i]]
      OBVIOUS
    <2> HIDE DEF h, f
    <2>4. f = h
      BY <2>2, <2>3
    <2> QED
      BY <2>4, Zenon DEF AreFlattened, h, n
  <1> DEFINE s == Flattened(seqs)
  <1>5. AreFlattened(seqs, s)
    BY <1>4, Zenon DEF Flattened
  <1>6. FlattenSeq(seqs) = s[n]
    <2>1. Len(seqs) # 0
      BY <1>1
    <2> QED
      BY <2>1 DEF FlattenSeq, Flattened, AreFlattened
  <1> HIDE DEF s
  <1>7. \A i \in 1..n : s[i] = IF i = 1 THEN seqs[i] ELSE s[i - 1] \o seqs[i]
    BY <1>5, Zenon DEF AreFlattened
  <1>8. s[1] = seqs[1] /\ \A i \in 2..n : s[i] = s[i - 1] \o seqs[i]
    <2>1. 1 \in 1..n /\ \A i \in 2..n : i \in 1..n /\ i # 1
      BY <1>1
    <2> HIDE DEF n
    <2> QED
      BY <1>7, <2>1
  <1>9. \A i \in 1..n : s[i] \in S
    <2> DEFINE A == {i \in Nat : i = 0 \/ s[i] \in S}
    <2>1. ASSUME NEW i \in 1..n, i - 1 \in A PROVE i \in A
      <3>1. CASE i = 1
        BY <1>1, <1>8, <3>1
      <3>2. CASE i # 1
        <4>1. i \in 2..n /\ s[i - 1] \in S /\ seqs[i] \in S
          BY <1>1, <2>1, <3>2
        <4>2. s[i] \in S
          BY <1>8, <4>1, ConcatProperties
        <4> QED
          BY <4>2
      <3> QED
        BY <3>1, <3>2
    <2>2. 0 \in A
      OBVIOUS
    <2> HIDE DEF A, n, S
    <2>3. 0..n \subseteq A
      BY <1>1, <2>1, <2>2, BoundedInduction
    <2>4. \A i \in 1..n : i \in 0..n /\ i # 0
      BY <1>1
    <2> QED
      BY <2>3, <2>4 DEF A
  <1> QED
    BY <1>6, <1>8, <1>9 DEF s

-----------------------------------------------------------------------------
(* The bytes of a frame.                                                   *)

Cells == Nat \X Nat      \* a byte is its frame's number and its place

(* A frame is a sequence of bytes of its length.                           *)
LEMMA BytesAre ==
    ASSUME NEW n \in Nat, NEW len \in Nat
    PROVE  /\ Bytes(n, len) \in Seq(Cells) /\ Len(Bytes(n, len)) = len
           /\ \A i \in 1..len : Bytes(n, len)[i] = <<n, i>>
           /\ Bytes(n, len) = <<>> <=> len = 0
  <1>1. Bytes(n, len) = [i \in 1..len |-> <<n, i>>]
    BY Zenon DEF Bytes
  <1>2. \A i \in 1..len : <<n, i>> \in Cells
    BY DEF Cells
  <1> DEFINE b == Bytes(n, len)
  <1>3. b \in [1..len -> Cells]
    BY <1>1, <1>2, Zenon
  <1>4. b \in Seq(Cells)
    BY <1>3, SeqDef
  <1>5. \A i \in 1..len : b[i] = <<n, i>>
    BY <1>1, Zenon
  <1> HIDE DEF b
  <1>6. DOMAIN b = 1..Len(b) /\ Len(b) \in Nat /\ DOMAIN b = 1..len
    BY <1>3, <1>4, LenProperties
  <1>7. Len(b) = len
    BY <1>6, SameInterval
  <1>8. b = <<>> <=> len = 0
    BY <1>4, <1>7, EmptySeq
  <1> QED
    BY <1>4, <1>5, <1>7, <1>8 DEF b

(* A piece of memory that holds a frame behind a header goes on where the  *)
(* piece before it ended.                                                  *)
LEMMA PiecesJoin ==
    ASSUME NEW n \in Nat, NEW lo \in Nat, NEW hi \in Nat, NEW mem \in Seq(Cells),
           NET_HDR_SIZE <= lo, lo <= hi, hi <= Len(mem),
           \A i \in (NET_HDR_SIZE + 1)..Len(mem) : mem[i] = <<n, i - NET_HDR_SIZE>>
    PROVE  /\ SubSeq(mem, lo + 1, hi) \in Seq(Cells)
           /\ Bytes(n, lo - NET_HDR_SIZE) \o SubSeq(mem, lo + 1, hi)
                = Bytes(n, hi - NET_HDR_SIZE)
  <1> DEFINE H == NET_HDR_SIZE
  <1>0. H \in Nat \ {0}
    BY NetAssumption
  <1> HIDE DEF H
  <1> DEFINE a == Bytes(n, lo - H)
             p == SubSeq(mem, lo + 1, hi)
             b == Bytes(n, hi - H)
  <1>1. Len(mem) \in Nat /\ H <= lo /\ lo - H \in Nat /\ hi - H \in Nat
    BY <1>0, LenProperties DEF H
  <1>2. \A i \in (lo + 1)..hi : mem[i] = <<n, i - H>>
    <2>1. \A i \in (lo + 1)..hi : i \in (H + 1)..Len(mem)
      BY <1>0, <1>1
    <2> QED
      BY <2>1 DEF H
  <1>3. \A i \in (lo + 1)..hi : mem[i] \in Cells
    <2>1. \A i \in (lo + 1)..hi : i \in 1..Len(mem)
      BY <1>0, <1>1
    <2> QED
      BY <2>1, ElementOfSeq
  <1>4. /\ p \in Seq(Cells) /\ Len(p) = hi - lo
        /\ \A i \in 1..(hi - lo) : p[i] = mem[lo + i]
    <2>1. /\ p \in Seq(Cells)
          /\ Len(p) = IF lo + 1 <= hi THEN hi - (lo + 1) + 1 ELSE 0
          /\ \A i \in 1..(hi - (lo + 1) + 1) : p[i] = mem[(lo + 1) + i - 1]
      BY <1>3, SubSeqProperties
    <2> HIDE DEF p
    <2>2. hi - (lo + 1) + 1 = hi - lo /\ \A i \in Int : (lo + 1) + i - 1 = lo + i
      OBVIOUS
    <2>3. Len(p) = hi - lo
      BY <2>1
    <2> QED
      BY <2>1, <2>2, <2>3
  <1>5. /\ a \in Seq(Cells) /\ Len(a) = lo - H /\ \A i \in 1..(lo - H) : a[i] = <<n, i>>
        /\ b \in Seq(Cells) /\ Len(b) = hi - H /\ \A i \in 1..(hi - H) : b[i] = <<n, i>>
    BY <1>1, BytesAre
  <1> DEFINE c == a \o p
  <1> HIDE DEF a, b, p
  <1>6. /\ c \in Seq(Cells) /\ Len(c) = Len(a) + Len(p)
        /\ \A i \in 1..(Len(a) + Len(p)) : c[i] = IF i <= Len(a) THEN a[i] ELSE p[i - Len(a)]
    BY <1>4, <1>5, ConcatProperties
  <1> HIDE DEF c
  <1>7. Len(c) = hi - H
    BY <1>0, <1>1, <1>4, <1>5, <1>6
  <1>8. ASSUME NEW i \in 1..Len(c) PROVE c[i] = b[i]
    <2>1. i \in 1..(hi - H) /\ i \in 1..(Len(a) + Len(p))
      BY <1>0, <1>1, <1>6, <1>7
    <2>2. CASE i <= lo - H
      <3>1. i \in 1..(lo - H)
        BY <1>1, <2>1, <2>2
      <3> QED
        BY <1>5, <1>6, <2>1, <2>2, <3>1
    <2>3. CASE ~(i <= lo - H)
      <3>1. i - (lo - H) \in 1..(hi - lo) /\ lo + (i - (lo - H)) = i + H
            /\ i + H \in (lo + 1)..hi /\ (i + H) - H = i
        BY <1>0, <1>1, <2>1, <2>3
      <3>2. c[i] = p[i - (lo - H)]
        BY <1>5, <1>6, <2>1, <2>3
      <3>3. c[i] = mem[i + H]
        BY <1>4, <3>1, <3>2
      <3> QED
        BY <1>2, <1>5, <2>1, <3>1, <3>3
    <2> QED
      BY <2>2, <2>3
  <1>9. c = b
    BY <1>5, <1>6, <1>7, <1>8, SeqEqual
  <1> QED
    BY <1>4, <1>9 DEF c, a, b, p, H

(* A chain holds its header in the first descriptor.                       *)
LEMMA ChainHoldsHeader ==
    ASSUME NEW chain \in Seq(Nat), chain # <<>>, chain[1] >= NET_HDR_SIZE
    PROVE  /\ Len(chain) \in Nat \ {0} /\ 1 \in 1..Len(chain)
           /\ Sums(chain)[1] = chain[1]
           /\ \A d \in 1..Len(chain) : NET_HDR_SIZE <= Sums(chain)[d]
           /\ Total(chain) = Sums(chain)[Len(chain)]
           /\ Total(chain) \in Nat
  <1>0. NET_HDR_SIZE \in Nat /\ Len(chain) \in Nat \ {0}
    BY NetAssumption, EmptySeq
  <1> DEFINE n == Len(chain)
             s == Sums(chain)
  <1>1. /\ \A k \in 0..n : s[k] \in Nat
        /\ s[0] = 0 /\ \A k \in 1..n : s[k] = s[k - 1] + chain[k]
        /\ \A d \in Int : Start(chain, d) = s[d - 1]
    BY SumsAre
  <1>2. 1 \in 1..n /\ 1 \in 0..n /\ n \in 0..n /\ 1 - 1 = 0
    BY <1>0
  <1>3. chain[1] \in Nat
    BY <1>2, ElementOfSeq
  <1>4. s[1] = chain[1]
    <2> HIDE DEF s, n
    <2>1. s[1] = s[1 - 1] + chain[1]
      BY <1>1, <1>2, Zenon
    <2>2. s[1 - 1] = 0
      BY <1>1, <1>2, Zenon
    <2> QED
      BY <1>3, <2>1, <2>2
  <1>5. \A k \in 1..n : s[1] <= s[k]
    BY <1>2, SumsGrow
  <1> HIDE DEF s
  <1>6. \A d \in 1..n : NET_HDR_SIZE <= s[d]
    <2> TAKE d \in 1..n
    <2>1. d \in 0..n
      BY <1>0
    <2>2. s[d] \in Nat /\ s[1] \in Nat
      BY <1>1, <1>2, <2>1
    <2> QED
      BY <1>0, <1>4, <1>5, <2>2
  <1>7. Total(chain) = s[n]
    <2>1. n + 1 \in Int /\ (n + 1) - 1 = n
      BY <1>0
    <2> QED
      BY <1>1, <2>1 DEF Total
  <1> QED
    BY <1>0, <1>1, <1>2, <1>4, <1>6, <1>7 DEF s

(* process_tx_queue's walk of a chain gathers its frame, byte for byte.    *)
LEMMA GatheredIsPayload ==
    ASSUME NEW n \in 1..MaxEvents
    PROVE  Gathered(n) = Payload(n) /\ Payload(n) \in Seq(Cells)
  <1> DEFINE chain == TxChains[n]
             N == Len(chain)
             s == Sums(chain)
             H == NET_HDR_SIZE
             mem == Header \o Payload(n)
             Piece(d) == SubSeq(mem, Start(chain, d) + 1 + Skip(d), Start(chain, d + 1))
             pieces == [d \in DOMAIN chain |-> Piece(d)]
  <1>0. H \in Nat \ {0} /\ n \in Nat
    BY NetAssumption
  <1>1. chain \in Seq(Nat) /\ chain # <<>> /\ chain[1] >= H
    <2>1. TxChains \in Seq(Seq(Nat)) /\ Len(TxChains) >= MaxEvents /\ MaxEvents \in Nat
          /\ \A k \in DOMAIN TxChains : TxChains[k] # <<>> /\ TxChains[k][1] >= NET_HDR_SIZE
      BY NetAssumption
    <2>2. Len(TxChains) \in Nat /\ DOMAIN TxChains = 1..Len(TxChains)
      BY <2>1, LenProperties
    <2>3. n \in 1..Len(TxChains)
      BY <2>1, <2>2
    <2> QED
      BY <2>1, <2>2, <2>3, ElementOfSeq
  <1> HIDE DEF chain
  <1>2. /\ N \in Nat \ {0} /\ 1 \in 1..N /\ s[1] = chain[1]
        /\ \A d \in 1..N : H <= s[d]
        /\ Total(chain) = s[N] /\ s[N] \in Nat
    BY <1>1, ChainHoldsHeader
  <1>3. /\ \A k \in 0..N : s[k] \in Nat
        /\ s[0] = 0 /\ \A d \in Int : Start(chain, d) = s[d - 1]
    BY <1>1, SumsAre
  <1>4. \A i \in 0..N : \A k \in i..N : s[i] <= s[k]
    BY <1>1, SumsGrow
  <1>5. DOMAIN chain = 1..N
    BY <1>1, LenProperties
  <1> HIDE DEF s, N
  <1>6. N \in 1..N /\ s[N] - H \in Nat
    <2>1. N \in 1..N
      BY <1>2
    <2> QED
      BY <1>0, <1>2, <2>1
  <1>7. Payload(n) = Bytes(n, s[N] - H)
    BY <1>2 DEF Payload, chain
  <1>8. /\ mem \in Seq(Cells) /\ Len(mem) = s[N]
        /\ \A i \in (H + 1)..Len(mem) : mem[i] = <<n, i - H>>
    <2> DEFINE p == Payload(n)
    <2>1. Header \in Seq(Cells) /\ Len(Header) = H
      BY <1>0, BytesAre DEF Header
    <2>2. p \in Seq(Cells) /\ Len(p) = s[N] - H /\ \A i \in 1..(s[N] - H) : p[i] = <<n, i>>
      BY <1>0, <1>6, <1>7, BytesAre
    <2> HIDE DEF p
    <2> DEFINE m == Header \o p
    <2>3. /\ m \in Seq(Cells) /\ Len(m) = Len(Header) + Len(p)
          /\ \A i \in 1..(Len(Header) + Len(p)) :
                 m[i] = IF i <= Len(Header) THEN Header[i] ELSE p[i - Len(Header)]
      BY <2>1, <2>2, ConcatProperties
    <2> HIDE DEF m, H
    <2>4. Len(m) = s[N]
      BY <1>0, <1>2, <2>1, <2>2, <2>3
    <2>5. ASSUME NEW i \in (H + 1)..Len(m) PROVE m[i] = <<n, i - H>>
      <3>1. i \in 1..(Len(Header) + Len(p)) /\ ~(i <= H) /\ i - H \in 1..(s[N] - H)
        BY <1>0, <1>2, <2>1, <2>2, <2>4
      <3> QED
        BY <2>1, <2>2, <2>3, <3>1
    <2> QED
      BY <2>3, <2>4, <2>5 DEF m, p
  <1> HIDE DEF mem
  <1> DEFINE lo == [d \in 1..N |-> IF d = 1 THEN H ELSE s[d - 1]]
  <1>9. ASSUME NEW d \in 1..N
        PROVE  /\ lo[d] \in Nat /\ H <= lo[d] /\ lo[d] <= s[d] /\ s[d] <= Len(mem)
               /\ s[d] \in Nat
               /\ Piece(d) = SubSeq(mem, lo[d] + 1, s[d])
    <2>1. d \in 0..N /\ d \in Int /\ d + 1 \in Int /\ (d + 1) - 1 = d /\ N \in d..N
      BY <1>2
    <2>2. s[d] \in Nat /\ s[d] <= Len(mem)
      BY <1>3, <1>4, <1>8, <2>1
    <2>3. Start(chain, d + 1) = s[d] /\ Start(chain, d) = s[d - 1]
      <3>1. Start(chain, d + 1) = s[(d + 1) - 1]
        BY <1>3, <2>1, Zenon
      <3> QED
        BY <1>3, <2>1, <3>1
    <2>4. CASE d = 1
      <3>1. lo[d] = H /\ s[d - 1] = 0 /\ Skip(d) = H
        BY <1>3, <2>4 DEF Skip
      <3>2. 0 + 1 + H = H + 1
        BY <1>0
      <3>3. Piece(d) = SubSeq(mem, lo[d] + 1, s[d])
        BY <2>3, <3>1, <3>2
      <3>4. H <= s[d]
        BY <1>2
      <3> HIDE DEF lo, Piece
      <3> QED
        BY <1>0, <2>2, <3>1, <3>3, <3>4
    <2>5. CASE d # 1
      <3>1. d - 1 \in 1..N /\ d - 1 \in 0..N /\ d \in (d - 1)..N
        BY <1>2, <2>5
      <3>2. lo[d] = s[d - 1] /\ Skip(d) = 0
        BY <2>5 DEF Skip
      <3>3. s[d - 1] \in Nat /\ H <= s[d - 1] /\ s[d - 1] <= s[d]
        BY <1>2, <1>3, <1>4, <3>1
      <3>4. s[d - 1] + 1 + 0 = s[d - 1] + 1
        BY <3>3
      <3>5. Piece(d) = SubSeq(mem, lo[d] + 1, s[d])
        BY <2>3, <3>2, <3>4
      <3> QED
        BY <2>2, <3>2, <3>3, <3>5
    <2> QED
      BY <2>4, <2>5
  <1> HIDE DEF lo
  <1>10. ASSUME NEW d \in 1..N
         PROVE  /\ pieces[d] \in Seq(Cells)
                /\ Bytes(n, lo[d] - H) \o pieces[d] = Bytes(n, s[d] - H)
    <2>1. pieces[d] = SubSeq(mem, lo[d] + 1, s[d])
      BY <1>5, <1>9
    <2>2. /\ lo[d] \in Nat /\ NET_HDR_SIZE <= lo[d] /\ lo[d] <= s[d] /\ s[d] <= Len(mem)
          /\ s[d] \in Nat
      BY <1>9
    <2>3. /\ mem \in Seq(Cells)
          /\ \A i \in (NET_HDR_SIZE + 1)..Len(mem) : mem[i] = <<n, i - NET_HDR_SIZE>>
      BY <1>8
    <2> DEFINE a == lo[d]
               b == s[d]
               p == pieces[d]
    <2>4. /\ a \in Nat /\ NET_HDR_SIZE <= a /\ a <= b /\ b <= Len(mem) /\ b \in Nat
          /\ p = SubSeq(mem, a + 1, b)
      BY <2>1, <2>2
    <2> HIDE DEF pieces, a, b, p
    <2>5. p \in Seq(Cells) /\ Bytes(n, a - NET_HDR_SIZE) \o p = Bytes(n, b - NET_HDR_SIZE)
      BY <1>0, <2>3, <2>4, PiecesJoin
    <2> QED
      BY <2>5 DEF a, b, p
  <1>11. Gathered(n) = FlattenSeq(pieces)
    BY Zenon DEF Gathered, chain, mem
  <1>12. pieces \in Seq(Seq(Cells)) /\ Len(pieces) = N /\ pieces # <<>>
    <2>1. DOMAIN pieces = 1..N /\ pieces = [d \in 1..N |-> pieces[d]]
      BY <1>5
    <2> HIDE DEF pieces
    <2>2. pieces \in [1..N -> Seq(Cells)]
      BY <1>10, <2>1
    <2>3. pieces \in Seq(Seq(Cells))
      BY <1>2, <2>2, SeqDef
    <2>4. Len(pieces) \in Nat /\ DOMAIN pieces = 1..Len(pieces)
      BY <2>3, LenProperties
    <2>5. Len(pieces) = N
      BY <1>2, <2>1, <2>4
    <2> QED
      BY <1>2, <2>3, <2>5, EmptySeq
  <1> HIDE DEF pieces
  <1> DEFINE F == Flattened(pieces)
  <1>13. /\ F[1] = pieces[1] /\ FlattenSeq(pieces) = F[N]
         /\ \A d \in 2..N : F[d] = F[d - 1] \o pieces[d]
    BY <1>12, FlattenedAre
  <1> HIDE DEF F
  <1>14. F[N] = Bytes(n, s[N] - H)
    <2> DEFINE A == {d \in Nat : d = 0 \/ F[d] = Bytes(n, s[d] - H)}
    <2>1. ASSUME NEW d \in 1..N, d - 1 \in A PROVE d \in A
      <3>1. CASE d = 1
        <4>1. lo[d] = H /\ H - H = 0
          BY <1>0, <1>2, <3>1 DEF lo
        <4>2. Bytes(n, 0) = <<>>
          BY <1>0, BytesAre
        <4>3. pieces[d] = Bytes(n, s[d] - H)
          <5>1. <<>> \o pieces[d] = Bytes(n, s[d] - H)
            BY <1>10, <4>1, <4>2
          <5>2. <<>> \o pieces[d] = pieces[d]
            BY <1>10, ConcatEmptySeq
          <5> QED
            BY <5>1, <5>2
        <4> QED
          BY <1>13, <3>1, <4>3
      <3>2. CASE d # 1
        <4>1. d \in 2..N /\ d - 1 # 0
          BY <1>2, <3>2
        <4>2. lo[d] = s[d - 1]
          BY <3>2 DEF lo
        <4>3. F[d] = Bytes(n, s[d - 1] - H) \o pieces[d]
          BY <1>13, <2>1, <4>1
        <4>4. Bytes(n, lo[d] - H) \o pieces[d] = Bytes(n, s[d] - H)
          BY <1>10
        <4>5. F[d] = Bytes(n, s[d] - H)
          BY <4>2, <4>3, <4>4, Zenon
        <4> QED
          BY <4>5
      <3> QED
        BY <3>1, <3>2
    <2>2. 0 \in A
      OBVIOUS
    <2> HIDE DEF A
    <2>3. 0..N \subseteq A
      BY <1>2, <2>1, <2>2, BoundedInduction
    <2>4. N \in 0..N /\ N # 0
      BY <1>2
    <2> QED
      BY <2>3, <2>4 DEF A
  <1>15. Bytes(n, s[N] - H) \in Seq(Cells)
    BY <1>0, <1>6, BytesAre
  <1> QED
    BY <1>7, <1>11, <1>13, <1>14, <1>15

-----------------------------------------------------------------------------
(* rx_inject's walk of a chain.                                            *)

WriteMore(chain, len, d, w) ==
    IF d = 1 THEN NET_HDR_SIZE + Least(len, chain[1] - NET_HDR_SIZE)
    ELSE LET offset == w - NET_HDR_SIZE
             remaining == IF len > offset THEN len - offset ELSE 0
         IN  w + Least(remaining, chain[d])

AreWritten(chain, len, f) ==
    f = [d \in 0..Len(chain) |->
            IF d = 0 THEN 0
            ELSE IF d = 1 THEN NET_HDR_SIZE + Least(len, chain[1] - NET_HDR_SIZE)
            ELSE LET offset == f[d - 1] - NET_HDR_SIZE
                     remaining == IF len > offset THEN len - offset ELSE 0
                 IN  f[d - 1] + Least(remaining, chain[d])]

(* The recursion of Written has a solution.                                *)
LEMMA WrittenExists ==
    ASSUME NEW chain \in Seq(Nat), NEW len \in Nat
    PROVE  \E f : AreWritten(chain, len, f)
  <1> DEFINE n == Len(chain)
             g == [d \in 1..n |-> [w \in Int |-> WriteMore(chain, len, d, w)]]
  <1>0. NET_HDR_SIZE \in Nat
    BY NetAssumption
  <1>1. n \in Nat /\ \A d \in 1..n : chain[d] \in Nat
    BY LenProperties, ElementOfSeq
  <1>2. \A d \in 1..n : \A w \in Int : g[d][w] = WriteMore(chain, len, d, w)
    OBVIOUS
  <1> HIDE DEF g, n
  <1>3. ASSUME NEW d \in 1..n, NEW w \in Int PROVE g[d][w] \in Int
    <2>1. chain[d] \in Int /\ 1 \in 1..n
      BY <1>1
    <2>2. chain[1] \in Int
      BY <1>1, <2>1
    <2>3. \A a, b \in Int : Least(a, b) \in Int
      BY DEF Least
    <2>4. WriteMore(chain, len, d, w) \in Int
      <3>1. CASE d = 1
        <4> DEFINE room == chain[1] - NET_HDR_SIZE
        <4>1. room \in Int
          BY <1>0, <2>2
        <4> HIDE DEF room
        <4>2. NET_HDR_SIZE + Least(len, room) \in Int
          BY <1>0, <4>1 DEF Least
        <4> QED
          BY <3>1, <4>2, Zenon DEF WriteMore, room
      <3>2. CASE d # 1
        <4> DEFINE offset == w - NET_HDR_SIZE
                   remaining == IF len > offset THEN len - offset ELSE 0
        <4>1. remaining \in Int
          BY <1>0
        <4> HIDE DEF remaining
        <4>2. Least(remaining, chain[d]) \in Int
          BY <2>1, <2>3, <4>1
        <4>3. WriteMore(chain, len, d, w) = w + Least(remaining, chain[d])
          BY <3>2, Zenon DEF WriteMore, remaining
        <4> QED
          BY <4>2, <4>3
      <3> QED
        BY <3>1, <3>2
    <2> QED
      BY <1>2, <2>4
  <1>4. PICK f \in [0..n -> Int] : Recurses(f, 0, g, n)
    <2>1. n \in Nat /\ 0 \in Int
      BY <1>1
    <2> QED
      BY <1>3, <2>1, RecursionExists
  <1> DEFINE h == [d \in 0..n |->
            IF d = 0 THEN 0
            ELSE IF d = 1 THEN NET_HDR_SIZE + Least(len, chain[1] - NET_HDR_SIZE)
            ELSE LET offset == f[d - 1] - NET_HDR_SIZE
                     remaining == IF len > offset THEN len - offset ELSE 0
                 IN  f[d - 1] + Least(remaining, chain[d])]
  <1>5. ASSUME NEW d \in 0..n PROVE f[d] = h[d]
    <2>1. CASE d = 0
      BY <1>4, <2>1 DEF Recurses
    <2>2. CASE d # 0
      <3>1. d \in 1..n /\ d - 1 \in 0..n
        BY <1>1, <2>2
      <3>2. f[d - 1] \in Int /\ f[d] = g[d][f[d - 1]]
        BY <1>4, <3>1 DEF Recurses
      <3>3. f[d] = WriteMore(chain, len, d, f[d - 1])
        BY <1>2, <3>1, <3>2
      <3> QED
        BY <2>2, <3>3, Zenon DEF WriteMore
    <2> QED
      BY <2>1, <2>2
  <1>6. f = [d \in 0..n |-> f[d]] /\ h = [d \in 0..n |-> h[d]]
    OBVIOUS
  <1> HIDE DEF h
  <1>7. f = h
    BY <1>5, <1>6
  <1> QED
    BY <1>7, Zenon DEF AreWritten, h, n

(* After each descriptor the header is written, and of the frame as much   *)
(* as there has been room for.                                             *)
LEMMA WrittenAre ==
    ASSUME NEW chain \in Seq(Nat), chain # <<>>, chain[1] >= NET_HDR_SIZE, NEW len \in Nat
    PROVE  /\ Written(chain, len)[0] = 0
           /\ \A d \in 1..Len(chain) :
                 Written(chain, len)[d]
                   = NET_HDR_SIZE + Least(len, Sums(chain)[d] - NET_HDR_SIZE)
  <1> DEFINE n == Len(chain)
             s == Sums(chain)
             w == Written(chain, len)
             H == NET_HDR_SIZE
  <1>1. AreWritten(chain, len, w)
    <2> DEFINE v == CHOOSE f : AreWritten(chain, len, f)
    <2>1. AreWritten(chain, len, v)
      BY WrittenExists, Zenon
    <2>2. w = v
      BY DEF Written, AreWritten
    <2> QED
      BY <2>1, <2>2
  <1>2. H \in Nat \ {0} /\ n \in Nat \ {0} /\ 1 \in 1..n /\ s[1] = chain[1]
        /\ \A d \in 1..n : H <= s[d]
    BY NetAssumption, ChainHoldsHeader
  <1>3. /\ \A d \in 0..n : s[d] \in Nat
        /\ \A d \in 1..n : s[d] = s[d - 1] + chain[d]
        /\ \A d \in 1..n : chain[d] \in Nat
    BY SumsAre, ElementOfSeq
  <1> HIDE DEF w, s
  <1>4. \A d \in 0..n : w[d] = IF d = 0 THEN 0 ELSE WriteMore(chain, len, d, w[d - 1])
    BY <1>1, Zenon DEF AreWritten, WriteMore
  <1> HIDE DEF n
  <1> DEFINE A == {d \in Nat : d = 0 \/ w[d] = H + Least(len, s[d] - H)}
  <1>5. ASSUME NEW d \in 1..n, d - 1 \in A PROVE d \in A
    <2>1. d \in 0..n /\ d # 0 /\ d - 1 \in 0..n /\ d \in Nat
      BY <1>2
    <2>2. w[d] = WriteMore(chain, len, d, w[d - 1])
      BY <1>4, <2>1
    <2>3. CASE d = 1
      BY <1>2, <2>2, <2>3 DEF WriteMore
    <2>4. CASE d # 1
      <3>1. d - 1 # 0 /\ d - 1 \in 1..n
        BY <2>1, <2>4
      <3>2. w[d - 1] = H + Least(len, s[d - 1] - H)
        BY <1>5, <3>1
      <3>3. s[d] \in Nat /\ s[d - 1] \in Nat /\ chain[d] \in Nat /\ s[d] = s[d - 1] + chain[d]
            /\ H <= s[d - 1]
        BY <1>2, <1>3, <2>1, <3>1
      <3> DEFINE x == s[d]
                 y == s[d - 1]
                 c == chain[d]
      <3>4. w[d] = H + Least(len, y - H) +
                   Least(IF len > Least(len, y - H) THEN len - Least(len, y - H) ELSE 0, c)
        <4> DEFINE done == Least(len, y - H)
        <4>1. done \in Int
          BY <1>2, <3>3 DEF Least
        <4> HIDE DEF done
        <4>2. w[d - 1] = H + done /\ (H + done) - H = done
          BY <1>2, <3>2, <4>1 DEF done
        <4>3. WriteMore(chain, len, d, w[d - 1]) =
                LET offset == w[d - 1] - H
                    remaining == IF len > offset THEN len - offset ELSE 0
                IN  w[d - 1] + Least(remaining, c)
          BY <2>4, Zenon DEF WriteMore
        <4>4. w[d] = (H + done) + Least(IF len > done THEN len - done ELSE 0, c)
          BY <2>2, <4>2, <4>3
        <4> QED
          BY <4>4, Zenon DEF done
      <3>5. x \in Nat /\ y \in Nat /\ c \in Nat /\ x = y + c /\ H <= y
        BY <3>3
      <3> HIDE DEF x, y, c, H
      <3>6. w[d] = H + Least(len, x - H)
        BY <1>2, <3>4, <3>5 DEF Least
      <3> QED
        BY <2>1, <3>6 DEF x, H
    <2> QED
      BY <2>3, <2>4
  <1>6. 0 \in A
    OBVIOUS
  <1> HIDE DEF A
  <1>7. 0..n \subseteq A
    BY <1>2, <1>5, <1>6, BoundedInduction
  <1>8. 0 \in 0..n /\ \A d \in 1..n : d \in 0..n /\ d # 0
    BY <1>2
  <1> QED
    BY <1>4, <1>7, <1>8 DEF A, w, s, n

(* What the driver finds in a buffer is the frame, as far as it has room:  *)
(* whatever the buffer held before (rx_inject's lengths and offsets).      *)
LEMMA ContentsAreFrame ==
    ASSUME NEW chain \in Seq(Nat), chain # <<>>, chain[1] >= NET_HDR_SIZE,
           NEW len \in Nat, NEW n \in Nat, NEW old
    PROVE  Contents(Scattered(old, chain, n, len), Written(chain, len)[Len(chain)])
             = Bytes(n, Least(len, Total(chain) - NET_HDR_SIZE))
  <1> DEFINE N == Len(chain)
             s == Sums(chain)
             w == Written(chain, len)
             H == NET_HDR_SIZE
             b == Bytes(n, len)
             packet == Header \o b
             pieces == Scattered(old, chain, n, len)
             T == Cells \union {old[d][i] : d \in 1..N, i \in Nat}
  <1>1. H \in Nat \ {0} /\ N \in Nat \ {0} /\ 1 \in 1..N /\ s[1] = chain[1]
        /\ \A d \in 1..N : H <= s[d]
    BY NetAssumption, ChainHoldsHeader
  <1>2. Total(chain) = s[N]
    BY ChainHoldsHeader
  <1>3. /\ s[0] = 0 /\ \A d \in 0..N : s[d] \in Nat
        /\ \A d \in 1..N : s[d] = s[d - 1] + chain[d]
        /\ \A d \in 1..N : chain[d] \in Nat
    BY SumsAre, ElementOfSeq
  <1>4. w[0] = 0 /\ \A d \in 1..N : w[d] = H + Least(len, s[d] - H)
    BY WrittenAre
  <1>5. Header \in Seq(Cells) /\ Len(Header) = H /\ b \in Seq(Cells) /\ Len(b) = len
        /\ \A i \in 1..len : b[i] = <<n, i>>
    BY <1>1, BytesAre DEF Header
  <1> HIDE DEF b
  <1>6. /\ packet \in Seq(Cells) /\ Len(packet) = H + len
        /\ \A i \in 1..(H + len) : packet[i] = IF i <= H THEN Header[i] ELSE b[i - H]
    BY <1>5, ConcatProperties
  <1>7. pieces = [d \in DOMAIN chain |-> [i \in 1..chain[d] |->
                    IF i <= w[d] - w[d - 1] THEN packet[w[d - 1] + i] ELSE old[d][i]]]
    BY Zenon DEF Scattered, b
  <1>8. DOMAIN chain = 1..N
    BY LenProperties
  <1> HIDE DEF s, w, packet, pieces, N, H
  <1>9. ASSUME NEW d \in 1..N
        PROVE  /\ w[d] \in Nat /\ w[d] <= s[d] /\ w[d] <= H + len /\ H <= w[d]
               /\ w[d] = s[d] \/ w[d] = H + len
    <2>1. d \in 0..N
      BY <1>1
    <2>2. s[d] \in Nat /\ H <= s[d] /\ w[d] = H + Least(len, s[d] - H)
      BY <1>1, <1>3, <1>4, <2>1
    <2> QED
      BY <1>1, <2>2 DEF Least
  \* Where the frame's part of a descriptor ends, the next begins, or the frame
  \* has ended.
  <1>10. ASSUME NEW d \in 1..N
         PROVE  /\ w[d - 1] \in Nat /\ s[d - 1] \in Nat /\ s[d] = s[d - 1] + chain[d]
                /\ chain[d] \in Nat /\ s[d] \in Nat
                /\ w[d - 1] = s[d - 1] \/ w[d] <= w[d - 1]
                /\ w[d] <= H + len
                /\ w[d - 1] <= s[d - 1]
    <2>0. d \in 0..N /\ d - 1 \in 0..N
      BY <1>1
    <2>1. s[d - 1] \in Nat /\ s[d] = s[d - 1] + chain[d] /\ chain[d] \in Nat /\ s[d] \in Nat
      BY <1>3, <2>0
    <2>2. w[d] \in Nat /\ w[d] <= H + len
      BY <1>9
    <2>3. CASE d = 1
      <3>1. w[d - 1] = 0 /\ s[d - 1] = 0
        BY <1>3, <1>4, <2>3
      <3> QED
        BY <2>1, <2>2, <3>1
    <2>4. CASE d # 1
      <3>1. d - 1 \in 1..N
        BY <1>1, <2>4
      <3>2. w[d - 1] \in Nat /\ w[d - 1] <= s[d - 1] /\ (w[d - 1] = s[d - 1] \/ w[d - 1] = H + len)
        BY <1>9, <3>1
      <3> QED
        BY <2>1, <2>2, <3>2
    <2> QED
      BY <2>3, <2>4
  <1>11. ASSUME NEW d \in 1..N
         PROVE  /\ pieces[d] \in Seq(T) /\ Len(pieces[d]) = chain[d]
                /\ \A i \in 1..chain[d] :
                      i <= w[d] - w[d - 1] => pieces[d][i] = packet[w[d - 1] + i]
    <2> DEFINE p == pieces[d]
               c == chain[d]
               u == w[d - 1]
               v == w[d]
    <2>1. p = [i \in 1..c |-> IF i <= v - u THEN packet[u + i] ELSE old[d][i]]
      BY <1>7, <1>8
    <2>2. c \in Nat /\ u \in Nat /\ v \in Nat /\ v <= H + len
      BY <1>9, <1>10
    <2>3. ASSUME NEW i \in 1..c PROVE p[i] \in T
      <3>1. p[i] = IF i <= v - u THEN packet[u + i] ELSE old[d][i]
        BY <2>1
      <3> HIDE DEF p, c, u, v
      <3>2. i \in Nat
        BY <2>2
      <3>3. CASE i <= v - u
        <4>1. u + i \in 1..Len(packet)
          BY <1>1, <1>6, <2>2, <3>2, <3>3
        <4> QED
          BY <1>6, <3>1, <3>3, <4>1, ElementOfSeq
      <3>4. CASE ~(i <= v - u)
        BY <3>1, <3>2, <3>4
      <3> QED
        BY <3>3, <3>4
    <2>4. p = [i \in 1..c |-> p[i]]
      BY <2>1
    <2>5. \A i \in 1..c : i <= v - u => p[i] = packet[u + i]
      BY <2>1
    <2> HIDE DEF p, c, u, v, T
    <2>6. p \in [1..c -> T]
      BY <2>3, <2>4
    <2>7. p \in Seq(T)
      BY <2>2, <2>6, SeqDef
    <2>8. Len(p) \in Nat /\ DOMAIN p = 1..Len(p) /\ DOMAIN p = 1..c
      BY <2>6, <2>7, LenProperties
    <2>9. Len(p) = c
      BY <2>2, <2>8, SameInterval
    <2> QED
      BY <2>5, <2>7, <2>9 DEF p, c, u, v
  <1> HIDE DEF T
  <1>12. pieces \in Seq(Seq(T)) /\ Len(pieces) = N /\ pieces # <<>>
    <2>1. DOMAIN pieces = 1..N /\ pieces = [d \in 1..N |-> pieces[d]]
      BY <1>7, <1>8
    <2>2. pieces \in [1..N -> Seq(T)]
      BY <1>11, <2>1
    <2>3. pieces \in Seq(Seq(T))
      BY <1>1, <2>2, SeqDef
    <2>4. Len(pieces) \in Nat /\ DOMAIN pieces = 1..Len(pieces)
      BY <2>3, LenProperties
    <2>5. Len(pieces) = N
      BY <1>1, <2>1, <2>4, SameInterval
    <2> QED
      BY <1>1, <2>3, <2>5, EmptySeq
  <1> DEFINE F == Flattened(pieces)
  <1>13. /\ F[1] = pieces[1] /\ FlattenSeq(pieces) = F[N]
         /\ \A d \in 2..N : F[d] = F[d - 1] \o pieces[d]
         /\ \A d \in 1..N : F[d] \in Seq(T)
    BY <1>12, FlattenedAre
  <1> HIDE DEF F
  <1> DEFINE Good(d) == Len(F[d]) = s[d] /\ \A i \in 1..w[d] : F[d][i] = packet[i]
             A == {d \in Nat : d = 0 \/ Good(d)}
  <1>14. ASSUME NEW d \in 1..N, d - 1 \in A PROVE Good(d)
    <2>1. /\ w[d - 1] \in Nat /\ s[d - 1] \in Nat /\ s[d] = s[d - 1] + chain[d]
          /\ chain[d] \in Nat /\ s[d] \in Nat
          /\ w[d - 1] = s[d - 1] \/ w[d] <= w[d - 1]
          /\ w[d - 1] <= s[d - 1]
          /\ w[d] \in Nat /\ w[d] <= s[d]
      BY <1>9, <1>10
    <2>2. /\ pieces[d] \in Seq(T) /\ Len(pieces[d]) = chain[d]
          /\ \A i \in 1..chain[d] :
                i <= w[d] - w[d - 1] => pieces[d][i] = packet[w[d - 1] + i]
      BY <1>11
    <2>3. CASE d = 1
      <3>1. F[d] = pieces[d] /\ w[d - 1] = 0 /\ s[d] = chain[d]
        BY <1>1, <1>4, <1>13, <2>3
      <3>2. ASSUME NEW i \in 1..w[d] PROVE F[d][i] = packet[i]
        <4>1. i \in 1..chain[d] /\ i <= w[d] - w[d - 1] /\ w[d - 1] + i = i
          BY <2>1, <3>1
        <4>2. pieces[d][i] = packet[w[d - 1] + i]
          BY <2>2, <4>1
        <4> QED
          BY <3>1, <4>1, <4>2
      <3> QED
        BY <2>2, <3>1, <3>2
    <2>4. CASE d # 1
      <3>1. d \in 2..N /\ d - 1 \in 1..N /\ d - 1 # 0
        BY <1>1, <2>4
      <3>2. Good(d - 1)
        BY <1>14, <3>1
      <3> DEFINE a == F[d - 1]
                 p == pieces[d]
                 f == F[d]
      <3>3. f = a \o p /\ a \in Seq(T) /\ p \in Seq(T)
        BY <1>13, <2>2, <3>1
      <3>4. Len(a) = s[d - 1] /\ Len(p) = chain[d] /\ \A i \in 1..w[d - 1] : a[i] = packet[i]
        BY <2>2, <3>2
      <3> HIDE DEF f, a, p
      <3>5. /\ Len(f) = Len(a) + Len(p)
            /\ \A i \in 1..(Len(a) + Len(p)) : f[i] = IF i <= Len(a) THEN a[i] ELSE p[i - Len(a)]
        BY <3>3, ConcatProperties
      <3>6. ASSUME NEW i \in 1..w[d] PROVE f[i] = packet[i]
        <4>1. i \in Nat /\ i \in 1..(Len(a) + Len(p)) /\ i <= w[d]
          BY <2>1, <3>4
        <4>2. CASE i <= s[d - 1]
          <5>1. i \in 1..w[d - 1]
            BY <2>1, <4>1, <4>2
          <5> QED
            BY <3>4, <3>5, <4>1, <4>2, <5>1
        <4>3. CASE ~(i <= s[d - 1])
          <5>1. w[d - 1] = s[d - 1]
            BY <2>1, <4>1, <4>3
          <5> DEFINE j == i - s[d - 1]
          <5>2. j \in 1..chain[d] /\ j <= w[d] - w[d - 1] /\ w[d - 1] + j = i
            <6> DEFINE S == s[d - 1]
                       e == s[d]
                       c == chain[d]
                       W == w[d]
            <6>1. /\ S \in Nat /\ e \in Nat /\ c \in Nat /\ W \in Nat /\ i \in Nat
                  /\ e = S + c /\ W <= e /\ i <= W /\ ~(i <= S) /\ w[d - 1] = S /\ j = i - S
              BY <2>1, <4>1, <4>3, <5>1
            <6> HIDE DEF S, e, c, W, j
            <6>2. j \in 1..c /\ j <= W - S /\ S + j = i
              BY <6>1
            <6> QED
              BY <6>1, <6>2 DEF c, W
          <5>3. f[i] = p[j]
            BY <3>4, <3>5, <4>1, <4>3
          <5> HIDE DEF j
          <5>4. p[j] = packet[w[d - 1] + j]
            BY <2>2, <5>2 DEF p
          <5> QED
            BY <5>2, <5>3, <5>4
        <4> QED
          BY <4>2, <4>3
      <3>7. Len(f) = s[d]
        BY <2>1, <3>4, <3>5
      <3> QED
        BY <3>6, <3>7 DEF f
    <2> QED
      BY <2>3, <2>4
  <1>15. Good(N)
    <2>1. 0 \in A /\ \A d \in 1..N : d - 1 \in A => d \in A
      <3>1. \A d \in 1..N : d \in Nat
        BY <1>1
      <3> HIDE DEF Good
      <3> QED
        BY <1>14, <3>1
    <2>2. N \in 0..N /\ N # 0
      BY <1>1
    <2> HIDE DEF A, Good
    <2>3. 0..N \subseteq A
      BY <1>1, <2>1, BoundedInduction
    <2> QED
      BY <2>2, <2>3 DEF A
  <1> DEFINE m == Least(len, s[N] - H)
             c == SubSeq(F[N], H + 1, w[N])
             e == Bytes(n, m)
  <1>16. Contents(pieces, w[N]) = c
    BY <1>13 DEF Contents, H
  <1>17. N \in 1..N
    BY <1>1
  <1>18. m \in Nat /\ w[N] = H + m /\ m <= len /\ w[N] <= s[N] /\ w[N] \in Nat
    <2>1. s[N] \in Nat /\ H <= s[N]
      <3>1. N \in 0..N
        BY <1>1
      <3> QED
        BY <1>1, <1>3, <1>17, <3>1
    <2> QED
      BY <1>1, <1>4, <1>9, <1>17, <2>1 DEF Least
  <1>19. e \in Seq(Cells) /\ Len(e) = m /\ \A i \in 1..m : e[i] = <<n, i>>
    BY <1>18, BytesAre
  <1> HIDE DEF m
  <1>20. \A i \in (H + 1)..w[N] : F[N][i] = <<n, i - H>>
    <2> TAKE i \in (H + 1)..w[N]
    <2>1. i \in 1..w[N] /\ i \in 1..(H + len) /\ ~(i <= H) /\ i - H \in 1..len
      BY <1>1, <1>18
    <2>2. F[N][i] = packet[i]
      BY <1>15, <2>1
    <2> QED
      BY <1>5, <1>6, <2>1, <2>2
  <1>21. /\ c \in Seq(Cells) /\ Len(c) = m
         /\ \A i \in 1..m : c[i] = <<n, i>>
    <2> DEFINE f == F[N]
    <2> HIDE DEF f
    <2>1. \A i \in (H + 1)..w[N] : f[i] = <<n, i - H>> /\ f[i] \in Cells
      <3> TAKE i \in (H + 1)..w[N]
      <3>1. f[i] = <<n, i - H>> /\ i - H \in Nat
        BY <1>1, <1>18, <1>20 DEF f
      <3> QED
        BY <3>1 DEF Cells
    <2> DEFINE z == SubSeq(f, H + 1, w[N])
    <2>2. /\ z \in Seq(Cells)
          /\ Len(z) = IF H + 1 <= w[N] THEN w[N] - (H + 1) + 1 ELSE 0
          /\ \A i \in 1..(w[N] - (H + 1) + 1) : z[i] = f[(H + 1) + i - 1]
      BY <1>1, <1>18, <2>1, SubSeqProperties
    <2> HIDE DEF z
    <2>3. Len(z) = m
      BY <1>1, <1>18, <2>2
    <2>4. ASSUME NEW i \in 1..m PROVE z[i] = <<n, i>>
      <3>1. i \in 1..(w[N] - (H + 1) + 1) /\ (H + 1) + i - 1 = H + i
            /\ H + i \in (H + 1)..w[N] /\ (H + i) - H = i
        BY <1>1, <1>18
      <3> QED
        BY <2>1, <2>2, <3>1
    <2> QED
      BY <2>2, <2>3, <2>4 DEF z, f
  <1> HIDE DEF c, e
  <1>22. c = e
    <2>1. Len(c) = Len(e) /\ \A i \in 1..Len(c) : c[i] = e[i]
      BY <1>19, <1>21
    <2> QED
      BY <1>19, <1>21, <2>1, SeqEqual
  <1> QED
    BY <1>2, <1>16, <1>22, Zenon DEF pieces, w, N, m, e, H

-----------------------------------------------------------------------------
(* The transmit ring, and the frames between it and slirp.                 *)

ArePayloads(f) ==
    f = [n \in 0..MaxEvents |->
            IF n = 0 THEN <<>>
            ELSE IF Payload(n) = <<>> THEN f[n - 1]
            ELSE Append(f[n - 1], Payload(n))]

(* The frames the guest sends, in order: the values of Payloads.           *)
LEMMA PayloadsAre ==
    /\ Payloads[0] = <<>>
    /\ \A n \in 1..MaxEvents :
          Payloads[n] = IF Payload(n) = <<>> THEN Payloads[n - 1]
                        ELSE Append(Payloads[n - 1], Payload(n))
    /\ \A n \in 0..MaxEvents : Payloads[n] \in Seq(Seq(Cells))
  <1> DEFINE M == MaxEvents
             S == Seq(Seq(Cells))
             g == [n \in 1..M |-> [x \in S |-> IF Payload(n) = <<>> THEN x
                                               ELSE Append(x, Payload(n))]]
  <1>1. M \in Nat /\ <<>> \in S
    BY NetAssumption, EmptySeq
  <1>2. \A n \in 1..M : \A x \in S :
            g[n][x] = IF Payload(n) = <<>> THEN x ELSE Append(x, Payload(n))
    OBVIOUS
  <1> HIDE DEF g
  <1>3. \A n \in 1..M : \A x \in S : g[n][x] \in S
    <2> TAKE n \in 1..M
    <2> TAKE x \in S
    <2>1. Payload(n) \in Seq(Cells)
      BY GatheredIsPayload
    <2>2. Append(x, Payload(n)) \in S
      BY <2>1, AppendProperties
    <2> QED
      BY <1>2, <2>2
  <1>4. \E f : ArePayloads(f)
    <2> HIDE DEF M, S
    <2>1. PICK f \in [0..M -> S] : Recurses(f, <<>>, g, M)
      BY <1>1, <1>3, RecursionExists
    <2> DEFINE h == [n \in 0..M |-> IF n = 0 THEN <<>>
                                    ELSE IF Payload(n) = <<>> THEN f[n - 1]
                                    ELSE Append(f[n - 1], Payload(n))]
    <2>2. ASSUME NEW n \in 0..M PROVE f[n] = h[n]
      <3>1. CASE n = 0
        BY <2>1, <3>1 DEF Recurses
      <3>2. CASE n # 0
        <4>1. n \in 1..M /\ n - 1 \in 0..M
          BY <1>1, <3>2
        <4>2. f[n - 1] \in S /\ f[n] = g[n][f[n - 1]]
          BY <2>1, <4>1 DEF Recurses
        <4> QED
          BY <1>2, <3>2, <4>1, <4>2
      <3> QED
        BY <3>1, <3>2
    <2>3. f = [n \in 0..M |-> f[n]] /\ h = [n \in 0..M |-> h[n]]
      OBVIOUS
    <2> HIDE DEF h
    <2>4. f = h
      BY <2>2, <2>3
    <2> QED
      BY <2>4, Zenon DEF ArePayloads, h, M
  <1> DEFINE p == Payloads
  <1>5. ArePayloads(p)
    BY <1>4, Zenon DEF Payloads, ArePayloads
  <1> HIDE DEF p
  <1>6. \A n \in 0..M : p[n] = IF n = 0 THEN <<>>
                               ELSE IF Payload(n) = <<>> THEN p[n - 1]
                               ELSE Append(p[n - 1], Payload(n))
    BY <1>5, Zenon DEF ArePayloads
  <1>7. p[0] = <<>>
    BY <1>1, <1>6
  <1>8. \A n \in 1..M : p[n] = IF Payload(n) = <<>> THEN p[n - 1]
                               ELSE Append(p[n - 1], Payload(n))
    <2>1. \A n \in 1..M : n \in 0..M /\ n # 0
      BY <1>1
    <2> QED
      BY <1>6, <2>1, Zenon
  <1>9. \A n \in 0..M : p[n] \in S
    <2> DEFINE A == {n \in Nat : p[n] \in S}
    <2>1. ASSUME NEW n \in 1..M, n - 1 \in A PROVE n \in A
      <3>1. p[n] = g[n][p[n - 1]] /\ n \in Nat
        BY <1>2, <1>8, <2>1
      <3> QED
        BY <1>3, <2>1, <3>1
    <2>2. 0 \in A
      BY <1>1, <1>7
    <2> HIDE DEF A, M, S
    <2>3. 0..M \subseteq A
      BY <1>1, <2>1, <2>2, BoundedInduction
    <2> QED
      BY <2>3 DEF A
  <1> QED
    BY <1>7, <1>8, <1>9 DEF p

Waiting == Ahead(avail[TXQ].idx, used[TXQ].idx)    \* frames posted, not yet sent
Taken == txNext - 1 - Waiting                      \* frames the device has taken

\* The rest of the ring: the frames waiting, in the order they were posted, and
\* no more than the ring has room for.
Queued ==
    /\ Waiting <= Ahead(avail[TXQ].idx, seen[TXQ])
    /\ Ahead(avail[TXQ].idx, seen[TXQ]) <= QUEUE_SIZE
    /\ \A j \in 0..(Waiting - 1) :
          avail[TXQ].ring[At(used[TXQ].idx, j)] = Taken + 1 + j

\* The poll thread takes tx_queue only when it has fed slirp all it took before.
Fed ==
    /\ poll \in {<<"poll">>, <<"drain">>, <<"swap">>, <<"sockets">>} \/ back = <<"poll">> =>
          local = <<>>
    /\ poll \in RestPhases => back = NoCall

\* The frames taken are on their way to slirp, one after the other.
Streamed ==
    /\ wire \in Seq(Seq(Cells)) /\ local \in Seq(Seq(Cells)) /\ tx_queue \in Seq(Seq(Cells))
    /\ frame \in Seq(Cells)
    /\ frame # <<>> <=> cpu = <<"enqueue", "wake">>
    /\ wire \o local \o tx_queue \o InFlight = Payloads[Taken]

\* What keeps the frames in order on their way from the guest's ring to slirp.
TxOrder == Queued /\ Fed /\ Streamed

(* What is taken, queued or fed keeps its place among the rest.            *)
LEMMA StreamSteps ==
    ASSUME NEW T, NEW w \in Seq(T), NEW l \in Seq(T), NEW q \in Seq(T), NEW f \in T
    PROVE  /\ w \o l \o q \o <<f>> = Append(w \o l \o q \o <<>>, f)
           /\ w \o l \o Append(q, f) \o <<>> = w \o l \o q \o <<f>>
           /\ Append(q, f) \in Seq(T)
           /\ l # <<>> =>
                 /\ Append(w, Head(l)) \in Seq(T) /\ Tail(l) \in Seq(T)
                 /\ Append(w, Head(l)) \o Tail(l) = w \o l
           /\ (w \o <<>>) \o q = (w \o q) \o <<>>
  <1> DEFINE a == w \o l
             b == a \o q
  <1>1. a \in Seq(T)
    BY ConcatProperties
  <1>2. b \in Seq(T)
    BY <1>1, ConcatProperties
  <1>3. <<f>> \in Seq(T)
    OBVIOUS
  <1> HIDE DEF a, b
  <1>4. b \o <<f>> = Append(b \o <<>>, f)
    BY <1>2, ConcatEmptySeq, AppendIsConcat
  <1>5. a \o Append(q, f) \o <<>> = b \o <<f>> /\ Append(q, f) \in Seq(T)
    <2>1. Append(q, f) = q \o <<f>> /\ Append(q, f) \in Seq(T)
      BY AppendIsConcat, AppendProperties
    <2>2. a \o Append(q, f) \in Seq(T)
      BY <1>1, <2>1, ConcatProperties
    <2>3. a \o Append(q, f) \o <<>> = a \o Append(q, f)
      BY <2>2, ConcatEmptySeq
    <2>4. a \o (q \o <<f>>) = b \o <<f>>
      BY <1>1, <1>3, ConcatAssociative DEF b
    <2> QED
      BY <2>1, <2>3, <2>4
  <1>6. ASSUME l # <<>>
        PROVE  /\ Append(w, Head(l)) \in Seq(T) /\ Tail(l) \in Seq(T)
               /\ Append(w, Head(l)) \o Tail(l) = w \o l
    <2>1. Head(l) \in T /\ Tail(l) \in Seq(T)
      BY <1>6, HeadTailProperties
    <2>2. Append(w, Head(l)) = w \o <<Head(l)>> /\ Append(w, Head(l)) \in Seq(T)
      BY <2>1, AppendIsConcat, AppendProperties
    <2>3. <<Head(l)>> \in Seq(T)
      BY <2>1
    <2>4. <<Head(l)>> \o Tail(l) = l
      <3> DEFINE h == Head(l)
                 t == Tail(l)
                 c == <<h>> \o t
      <3>1. Len(<<h>>) = 1 /\ <<h>>[1] = h /\ h = l[1]
        OBVIOUS
      <3>2. /\ t \in Seq(T) /\ Len(t) = Len(l) - 1
            /\ \A i \in 1..Len(t) : t[i] = l[i + 1]
        BY <1>6, HeadTailProperties
      <3>3. Len(l) \in Nat \ {0}
        BY <1>6, EmptySeq
      <3>4. <<h>> \in Seq(T)
        BY <2>3
      <3> HIDE DEF h, t
      <3>5. /\ c \in Seq(T) /\ Len(c) = Len(<<h>>) + Len(t)
            /\ \A i \in 1..(Len(<<h>>) + Len(t)) :
                  c[i] = IF i <= Len(<<h>>) THEN <<h>>[i] ELSE t[i - Len(<<h>>)]
        BY <3>2, <3>4, ConcatProperties
      <3> HIDE DEF c
      <3>6. Len(c) = Len(l)
        BY <3>1, <3>2, <3>3, <3>5
      <3>7. ASSUME NEW i \in 1..Len(c) PROVE c[i] = l[i]
        <4>1. i \in 1..(Len(<<h>>) + Len(t))
          BY <3>5
        <4>2. CASE i = 1
          BY <3>1, <3>5, <4>1, <4>2
        <4>3. CASE i # 1
          <5>1. i - 1 \in 1..Len(t) /\ ~(i <= 1) /\ (i - 1) + 1 = i
            BY <3>2, <3>3, <3>6, <4>3
          <5>2. c[i] = t[i - 1]
            BY <3>1, <3>5, <4>1, <5>1
          <5> QED
            BY <3>2, <5>1, <5>2
        <4> QED
          BY <4>2, <4>3
      <3>8. c = l
        BY <3>5, <3>6, <3>7, SeqEqual
      <3> QED
        BY <3>8 DEF c, h, t
    <2>5. (w \o <<Head(l)>>) \o Tail(l) = w \o (<<Head(l)>> \o Tail(l))
      BY <2>1, <2>3, ConcatAssociative
    <2> QED
      BY <2>1, <2>2, <2>4, <2>5
  <1>7. (w \o <<>>) \o q = (w \o q) \o <<>>
    <2>1. w \o q \in Seq(T)
      BY ConcatProperties
    <2> QED
      BY <2>1, ConcatEmptySeq
  <1> QED
    BY <1>4, <1>5, <1>6, <1>7 DEF a, b

(* What the proofs about the transmit ring need to know of its parts.      *)
LEMMA TxTypes ==
    ASSUME Registers, GuestMemory, TxRing
    PROVE  /\ avail[TXQ].idx \in Indices /\ used[TXQ].idx \in Indices /\ seen[TXQ] \in Indices
           /\ avail[TXQ].ring \in [Slots -> Nat]
           /\ Waiting \in Nat /\ txNext \in Nat /\ Taken \in Nat /\ Taken + Waiting = txNext - 1
           /\ Taken + Waiting <= MaxEvents /\ MaxEvents \in Nat
  <1>1. TXQ \in Queues
    BY DEF Queues
  <1>2. /\ avail[TXQ].idx \in Indices /\ used[TXQ].idx \in Indices /\ seen[TXQ] \in Indices
        /\ avail[TXQ].ring \in [Slots -> Nat]
    BY <1>1 DEF GuestMemory, Registers, Rings
  <1>3. Waiting \in Nat
    BY <1>2, Distances, RingSizes DEF Waiting
  <1>4. txNext \in Nat \ {0} /\ txNext - 1 <= MaxEvents /\ Waiting <= txNext - 1 /\ MaxEvents \in Nat
    BY NetAssumption DEF TxRing, Waiting
  <1> HIDE DEF Waiting
  <1> QED
    BY <1>2, <1>3, <1>4 DEF Taken

(* Steps that leave the transmit ring alone.                               *)
LEMMA QueuedKept ==
    ASSUME Queued, avail'[TXQ] = avail[TXQ], used'[TXQ] = used[TXQ], seen'[TXQ] = seen[TXQ],
           txNext' = txNext
    PROVE  Queued' /\ Taken' = Taken
  <1>1. Waiting' = Waiting
    BY DEF Waiting
  <1>2. Taken' = Taken
    BY <1>1 DEF Taken
  <1> QED
    BY <1>1, <1>2 DEF Queued

(* PostTx: the frame goes behind those that wait.                          *)
LEMMA PostTxKeeps ==
    ASSUME NetInv, Queued, PostTx
    PROVE  Queued' /\ Taken' = Taken
  <1> DEFINE a == avail[TXQ].idx
             u == used[TXQ].idx
             s == seen[TXQ]
             ring == avail[TXQ].ring
             w == Waiting
  <1>0. Control /\ Registers /\ GuestMemory /\ TxRing
    BY DEF NetInv
  <1>t. /\ a \in Indices /\ u \in Indices /\ s \in Indices /\ ring \in [Slots -> Nat]
        /\ w \in Nat /\ txNext \in Nat /\ Taken \in Nat /\ Taken + w = txNext - 1
    BY <1>0, TxTypes
  <1>1. /\ avail' = Pushed(avail, TXQ, txNext) /\ txNext' = txNext + 1
        /\ UNCHANGED <<used, seen>> /\ Ahead(a, s) < QUEUE_SIZE
    BY DEF PostTx, PutAvail, Pushed
  <1>2. avail'[TXQ].idx = Next16(a) /\ avail'[TXQ].ring = [ring EXCEPT ![Slot(a)] = txNext]
    <2>1. avail \in Rings(Nat) /\ TXQ \in Queues /\ txNext \in Nat
      BY <1>0, <1>t DEF GuestMemory, Queues
    <2>2. /\ Pushed(avail, TXQ, txNext)[TXQ].idx = Next16(avail[TXQ].idx)
          /\ Pushed(avail, TXQ, txNext)[TXQ].ring =
                [avail[TXQ].ring EXCEPT ![Slot(avail[TXQ].idx)] = txNext]
      BY <2>1, EntryPushed
    <2> QED
      BY <1>1, <2>2
  <1>3. w <= Ahead(a, s) /\ \A j \in 0..(w - 1) : ring[At(u, j)] = Taken + 1 + j
    BY DEF Queued
  <1>4. w = Ahead(a, u)
    BY DEF Waiting
  <1> DEFINE ahead == Ahead(a, s)
             taken == Taken
  <1> HIDE DEF a, u, s, ring, w
  <1>5. ahead \in Nat /\ w < QUEUE_SIZE /\ w + 1 < IdxMod /\ ahead + 1 < IdxMod
    <2>1. ahead \in Nat
      BY <1>t, Distances, RingSizes
    <2> QED
      BY <1>t, <1>1, <1>3, <2>1, RingSizes
  <1>6. Ahead(Next16(a), u) = w + 1 /\ Ahead(Next16(a), s) = ahead + 1
    BY <1>t, <1>4, <1>5, Distances
  <1>7. Waiting' = w + 1 /\ Taken' = taken
    <2>1. Waiting' = w + 1
      BY <1>1, <1>2, <1>6 DEF Waiting, u
    <2> QED
      BY <1>t, <1>1, <2>1 DEF Taken, w
  <1>8. Slot(a) = At(u, w) /\ At(u, w) \in Slots
    BY <1>t, <1>4, Places
  <1>9. ASSUME NEW j \in 0..w PROVE avail'[TXQ].ring[At(u, j)] = taken + 1 + j
    <2>1. CASE j = w
      <3>1. avail'[TXQ].ring[At(u, j)] = txNext
        BY <1>t, <1>2, <1>8, <2>1
      <3> QED
        BY <1>t, <2>1, <3>1
    <2>2. CASE j # w
      <3>1. j \in 0..(w - 1) /\ j \in 0..(QUEUE_SIZE - 1) /\ w \in 0..(QUEUE_SIZE - 1) /\ j \in Nat
        BY <1>t, <1>5, <2>2, RingSizes
      <3>2. At(u, j) # At(u, w) /\ At(u, j) \in Slots
        BY <1>t, <2>2, <3>1, Places
      <3>3. avail'[TXQ].ring[At(u, j)] = ring[At(u, j)]
        BY <1>t, <1>2, <1>8, <3>2
      <3> QED
        BY <1>3, <3>1, <3>3
    <2> QED
      BY <2>1, <2>2
  <1>10. w + 1 <= ahead + 1 /\ ahead + 1 <= QUEUE_SIZE /\ (w + 1) - 1 = w
    BY <1>t, <1>1, <1>3, <1>5, RingSizes
  <1>11. used'[TXQ].idx = u /\ Ahead(avail'[TXQ].idx, seen'[TXQ]) = ahead + 1
    BY <1>1, <1>2, <1>6 DEF u, s
  <1> HIDE DEF ahead, taken
  <1>12. Queued'
    BY <1>7, <1>9, <1>10, <1>11 DEF Queued
  <1> QED
    BY <1>7, <1>12 DEF taken

(* TxFrame: process_tx_queue takes the frame that has waited longest.      *)
LEMMA TxFrameTakes ==
    ASSUME NetInv, Queued, TxFrame
    PROVE  /\ Queued' /\ Taken' = Taken + 1 /\ Taken + 1 \in 1..MaxEvents
           /\ avail[TXQ].ring[Slot(last_avail_idx[TXQ])] = Taken + 1
  <1> DEFINE a == avail[TXQ].idx
             u == used[TXQ].idx
             s == seen[TXQ]
             ring == avail[TXQ].ring
             w == Waiting
             e == [id |-> Slot(last_avail_idx[TXQ]), len |-> 0]
  <1>0. Control /\ Registers /\ GuestMemory /\ TxRing
    BY DEF NetInv
  <1>t. /\ a \in Indices /\ u \in Indices /\ s \in Indices /\ ring \in [Slots -> Nat]
        /\ w \in Nat /\ txNext \in Nat /\ Taken \in Nat /\ Taken + w = txNext - 1
        /\ Taken + w <= MaxEvents /\ MaxEvents \in Nat
    BY <1>0, TxTypes
  <1>1. /\ used' = Pushed(used, TXQ, e)
        /\ UNCHANGED <<avail, txNext, seen>>
    BY DEF TxFrame, Pushed, driver
  <1>2. cpu \in Sending /\ cpu # <<"down">> /\ last_avail_idx[TXQ] # avail_idx
    BY CpuPhases DEF TxFrame
  <1>3. last_avail_idx[TXQ] = u /\ u # a
    BY <1>0, <1>2 DEF TxRing
  <1>4. used'[TXQ].idx = Next16(u)
    <2>1. last_avail_idx[TXQ] \in Nat
      BY <1>t, <1>3, RingSizes
    <2>2. e \in UsedEntries
      <3>1. Slot(last_avail_idx[TXQ]) \in Slots /\ 0 \in Lengths
        BY <2>1, RingSizes DEF Lengths
      <3> QED
        BY <3>1 DEF UsedEntries
    <2>3. used \in Rings(UsedEntries) /\ TXQ \in Queues
      BY <1>0 DEF GuestMemory, Queues
    <2> HIDE DEF e
    <2>4. /\ Pushed(used, TXQ, e)[TXQ].idx = Next16(used[TXQ].idx)
          /\ Pushed(used, TXQ, e)[TXQ].ring = [used[TXQ].ring EXCEPT ![Slot(used[TXQ].idx)] = e]
      BY <2>2, <2>3, EntryPushed
    <2> QED
      BY <1>1, <2>4
  <1>5. /\ w <= Ahead(a, s) /\ Ahead(a, s) <= QUEUE_SIZE
        /\ \A j \in 0..(w - 1) : ring[At(u, j)] = Taken + 1 + j
    BY DEF Queued
  <1>6. w = Ahead(a, u)
    BY DEF Waiting
  <1> DEFINE ahead == Ahead(a, s)
             taken == Taken
  <1> HIDE DEF a, u, s, ring, w, e
  <1>7. w # 0 /\ Ahead(a, Next16(u)) = w - 1
    BY <1>t, <1>3, <1>6, Distances
  <1>8. Waiting' = w - 1
    BY <1>1, <1>4, <1>7 DEF Waiting, a
  <1>9. Taken' = taken + 1
    BY <1>t, <1>1, <1>8 DEF Taken
  <1>10. ring[Slot(u)] = taken + 1
    <2>1. 0 \in 0..(w - 1) /\ At(u, 0) = Slot(u)
      BY <1>t, <1>7, Places
    <2>2. ring[At(u, 0)] = Taken + 1 + 0
      BY <1>5, <2>1
    <2> QED
      BY <1>t, <2>1, <2>2
  <1>11. ASSUME NEW j \in 0..((w - 1) - 1)
         PROVE  ring[At(Next16(u), j)] = (taken + 1) + 1 + j
    <2>1. j \in Nat /\ j + 1 \in 0..(w - 1)
      BY <1>t, <1>7
    <2>2. At(Next16(u), j) = At(u, j + 1)
      BY <1>t, <2>1, Places
    <2>3. ring[At(u, j + 1)] = Taken + 1 + (j + 1)
      BY <1>5, <2>1
    <2> QED
      BY <1>t, <2>1, <2>2, <2>3
  <1>12. ahead \in Nat
    BY <1>t, Distances, RingSizes
  <1>13. w - 1 <= ahead
    BY <1>t, <1>5, <1>12
  <1>14. Ahead(avail'[TXQ].idx, seen'[TXQ]) = ahead /\ avail'[TXQ].ring = ring
    BY <1>1 DEF a, s, ring
  <1>15. taken + 1 \in 1..MaxEvents
    BY <1>t, <1>7
  <1>16. ring[Slot(last_avail_idx[TXQ])] = taken + 1
    BY <1>3, <1>10
  <1> HIDE DEF taken
  <1>17. Queued'
    BY <1>4, <1>5, <1>8, <1>9, <1>11, <1>13, <1>14 DEF Queued, ahead
  <1> QED
    BY <1>9, <1>15, <1>16, <1>17 DEF taken, ring

(* Reap: the driver's index goes to the used index at most.                *)
LEMMA ReapKeepsQueued ==
    ASSUME NetInv, Queued, Reap
    PROVE  Queued' /\ Taken' = Taken
  <1>0. Control /\ Registers /\ GuestMemory /\ TxRing
    BY DEF NetInv
  <1>1. UNCHANGED <<avail, used, txNext>>
    BY DEF Reap, rings
  <1>2. seen \in [Queues -> Indices] /\ RXQ \in Queues /\ TXQ \in Queues /\ RXQ # TXQ
    BY <1>0 DEF Registers, Queues, RXQ, TXQ
  <1>3. seen'[TXQ] = seen[TXQ] \/ seen'[TXQ] = used[TXQ].idx
    BY <1>2 DEF Reap
  <1>4. Waiting' = Waiting /\ Taken' = Taken
    BY <1>1 DEF Waiting, Taken
  <1>5. CASE seen'[TXQ] = seen[TXQ]
    BY <1>1, <1>5, QueuedKept
  <1>6. CASE seen'[TXQ] = used[TXQ].idx
    <2>1. Ahead(avail[TXQ].idx, used[TXQ].idx) = Waiting /\ Waiting \in Nat
      BY <1>0, TxTypes DEF Waiting
    <2>2. Waiting <= QUEUE_SIZE
      <3>1. Ahead(avail[TXQ].idx, seen[TXQ]) \in Nat
        BY <1>0, TxTypes, Distances, RingSizes
      <3> QED
        BY <2>1, <3>1, RingSizes DEF Queued
    <2>3. Waiting' <= Ahead(avail'[TXQ].idx, seen'[TXQ]) /\ Ahead(avail'[TXQ].idx, seen'[TXQ]) <= QUEUE_SIZE
      BY <1>1, <1>4, <1>6, <2>1, <2>2
    <2> QED
      BY <1>1, <1>4, <2>3 DEF Queued
  <1> QED
    BY <1>3, <1>4, <1>5, <1>6

(* Configure: empty rings, and what was not sent is to be posted again.    *)
LEMMA ConfigureKeepsQueued ==
    ASSUME NetInv, Queued, Configure
    PROVE  Queued' /\ Taken' = Taken
  <1>0. Control /\ Registers /\ GuestMemory /\ TxRing
    BY DEF NetInv
  <1>1. /\ avail'[TXQ].idx = 0 /\ used'[TXQ].idx = 0 /\ seen'[TXQ] = 0
        /\ txNext' = txNext - Waiting
    <2>1. TXQ \in Queues
      BY DEF Queues
    <2> QED
      BY <2>1, EmptyOnes DEF Configure, EmptyUsed, Waiting
  <1>2. Ahead(0, 0) = 0
    BY RingSizes, Distances
  <1>3. Waiting' = 0
    BY <1>1, <1>2 DEF Waiting
  <1>4. Waiting \in Nat /\ txNext \in Nat
    BY <1>0, TxTypes
  <1>5. Taken' = Taken
    <2> HIDE DEF Waiting
    <2> QED
      BY <1>1, <1>3, <1>4 DEF Taken
  <1>6. Waiting' <= Ahead(avail'[TXQ].idx, seen'[TXQ]) /\ Ahead(avail'[TXQ].idx, seen'[TXQ]) <= QUEUE_SIZE
    BY <1>1, <1>2, <1>3, RingSizes
  <1>7. 0..(Waiting' - 1) = {}
    BY <1>3
  <1> QED
    BY <1>5, <1>6, <1>7 DEF Queued

(* No other step of either thread touches the transmit ring.               *)
LEMMA QueuedStep ==
    ASSUME NetInv, Queued, [Next]_vars
    PROVE  Queued' /\ Taken' = IF TxFrame THEN Taken + 1 ELSE Taken
  <1>0. Control /\ Registers /\ GuestMemory /\ TxRing
    BY DEF NetInv
  <1>t. TXQ \in Queues /\ RXQ \in Queues /\ RXQ # TXQ /\ avail \in Rings(Nat) /\ used \in Rings(UsedEntries)
    BY <1>0 DEF GuestMemory, Queues, RXQ, TXQ
  <1>1. ASSUME ~TxFrame PROVE Queued' /\ Taken' = Taken
    <2>1. CASE Configure \/ PostTx \/ Reap
      BY <2>1, ConfigureKeepsQueued, PostTxKeeps, ReapKeepsQueued
    <2>2. CASE PostRx
      <3>1. /\ \E s : avail' = Pushed(avail, RXQ, s)
            /\ UNCHANGED <<used, seen, txNext>>
        BY <2>2 DEF PostRx, PutAvail, Pushed
      <3>2. avail'[TXQ] = avail[TXQ]
        BY <1>t, <3>1, OtherQueue
      <3> QED
        BY <3>1, <3>2, QueuedKept
    <2>3. CASE Reset \/ Notify \/ Claim \/ Complete \/ ReadStatus \/ Ack \/ Enqueue \/ Wake \/ TxDone
      <3>1. UNCHANGED <<avail, used, seen, txNext>>
        BY <2>3 DEF Reset, Notify, Claim, Complete, ReadStatus, Ack, Enqueue, Wake, TxDone, rings, driver
      <3> QED
        BY <3>1, QueuedKept
    <2>4. CASE PollReturns \/ Drain \/ Swap \/ Input \/ Sockets \/ cb_notify \/ InjectLock
      <3>1. UNCHANGED <<avail, used, seen, txNext>>
        BY <2>4 DEF PollReturns, Drain, Swap, Input, Sockets, cb_notify, InjectLock, cpuVars, driver
      <3> QED
        BY <3>1, QueuedKept
    <2>5. CASE Inject
      <3>1. UNCHANGED <<avail, seen, txNext>>
        BY <2>5 DEF Inject, driver
      <3>2. \/ UNCHANGED used
            \/ \E s, e : used' = WithEntry(used, RXQ, s, e)
            \/ used' = WithIndex(used, RXQ)
        BY <2>5 DEF Inject, WithEntry, WithIndex
      <3>3. used'[TXQ] = used[TXQ]
        BY <1>t, <3>2, OtherQueue
      <3> QED
        BY <3>1, <3>3, QueuedKept
    <2>6. CASE UNCHANGED vars
      <3>1. UNCHANGED <<avail, used, seen, txNext>>
        BY <2>6 DEF vars, rings, driver
      <3> QED
        BY <3>1, QueuedKept
    <2> QED
      BY <1>1, <2>1, <2>2, <2>3, <2>4, <2>5, <2>6 DEF Next, Driver, Handler, Device, PollThread
  <1> QED
    BY <1>1, TxFrameTakes

(* The poll thread goes round its loop, and out of a callback of slirp's   *)
(* to where it was called.                                                 *)
LEMMA FedStep ==
    ASSUME NetInv, Fed, [Next]_vars
    PROVE  Fed'
  <1> USE PollThreadPhases
  <1>0. Control
    BY DEF NetInv
  <1>1. CASE Configure \/ Driver \/ Handler \/ Device \/ UNCHANGED vars
    <2>1. UNCHANGED <<poll, back, local>>
      BY <1>1 DEF Configure, Driver, PostTx, PostRx, Reset, Notify, Handler, Claim, Complete, ReadStatus,
              Ack, Reap, Device, TxFrame, Enqueue, Wake, TxDone, vars
    <2> QED
      BY <2>1 DEF Fed
  <1>2. CASE PollReturns \/ Drain
    <2>1. /\ poll \in {<<"poll">>, <<"drain">>} /\ UNCHANGED <<back, local>>
          /\ poll' \in {<<"drain">>, <<"swap">>, <<"sockets">>}
      BY <1>2 DEF PollReturns, Drain
    <2>2. poll \in RestPhases /\ poll' \in RestPhases
      BY <2>1
    <2> QED
      BY <2>1, <2>2 DEF Fed
  <1>3. CASE Swap
    <2>1. poll = <<"swap">> /\ poll' = <<"input">> /\ back' = back
      BY <1>3 DEF Swap
    <2>2. back = NoCall /\ NoCall # <<"poll">>
      BY <2>1 DEF Fed, NoCall
    <2> QED
      BY <2>1, <2>2 DEF Fed
  <1>4. CASE Input
    <2>1. poll = <<"input">> /\ back = NoCall /\ NoCall # <<"poll">>
      BY <1>4 DEF Input, Fed, NoCall
    <2>2. CASE local = <<>>
      <3>1. poll' = <<"sockets">> /\ UNCHANGED <<back, local>>
        BY <1>4, <2>2 DEF Input
      <3> QED
        BY <2>1, <2>2, <3>1 DEF Fed
    <2>3. CASE local # <<>>
      <3>1. SlirpActs(<<"input">>)
        BY <1>4, <2>3 DEF Input
      <3>2. \/ poll' = <<"input">> /\ back' = back
            \/ poll' \in {<<"notify">>, <<"lock">>} /\ back' = <<"input">>
        BY <3>1 DEF SlirpActs
      <3>3. poll' \notin {<<"poll">>, <<"drain">>, <<"swap">>, <<"sockets">>} /\ back' # <<"poll">>
        BY <2>1, <3>2
      <3>4. poll' \in RestPhases => back' = NoCall
        BY <2>1, <3>2
      <3> QED
        BY <3>3, <3>4 DEF Fed
    <2> QED
      BY <2>2, <2>3
  <1>5. CASE Sockets
    <2>1. poll = <<"sockets">> /\ local = <<>> /\ back = NoCall /\ local' = local
      BY <1>5 DEF Sockets, Fed
    <2>2. \/ poll' = <<"poll">> /\ back' = back
          \/ poll' \in {<<"notify">>, <<"lock">>} /\ back' = <<"poll">>
      BY <1>5 DEF Sockets, SlirpActs
    <2>3. poll' \in RestPhases => back' = NoCall
      BY <2>1, <2>2
    <2> QED
      BY <2>1, <2>3 DEF Fed
  <1>6. CASE cb_notify \/ InjectLock \/ Inject
    <2>1. /\ poll \in CallPhases \cup Injecting /\ local' = local
          /\ back \in {<<"input">>, <<"poll">>}
      <3>1. poll \in CallPhases \cup Injecting /\ local' = local
        BY <1>0, <1>6, InjectIsInside DEF cb_notify, InjectLock, Inject, Control
      <3> QED
        BY <1>0, <3>1 DEF Control, CallPhases
    <2>2. \/ poll' = back /\ back' = NoCall
          \/ poll' \in Injecting /\ back' = back
      <3>1. CASE cb_notify \/ InjectLock
        BY <3>1 DEF cb_notify, InjectLock, Returns
      <3>2. CASE Inject
        <4>1. poll \in Injecting
          BY <1>0, <3>2, InjectIsInside DEF Control
        <4> QED
          BY <3>2, <4>1, InjectPhases DEF Inject, InjectNext, Returns
      <3> QED
        BY <1>6, <3>1, <3>2
    <2>3. CASE poll' = back /\ back' = NoCall
      <3>1. NoCall # <<"poll">>
        BY DEF NoCall
      <3>2. CASE back = <<"poll">>
        BY <2>1, <2>3, <3>2 DEF Fed
      <3>3. CASE back = <<"input">>
        BY <2>3, <3>1, <3>3 DEF Fed
      <3> QED
        BY <2>1, <3>2, <3>3
    <2>4. CASE poll' \in Injecting /\ back' = back
      <3>1. \A p \in {<<"poll">>, <<"drain">>, <<"swap">>, <<"sockets">>} : p \in RestPhases
        OBVIOUS
      <3>2. poll' \notin RestPhases
        BY <2>4
      <3> QED
        BY <2>1, <2>4, <3>1, <3>2 DEF Fed
    <2> QED
      BY <2>2, <2>3, <2>4
  <1> QED
    BY <1>1, <1>2, <1>3, <1>4, <1>5, <1>6 DEF Next, PollThread

(* Steps that leave the frames on their way alone.                         *)
LEMMA StreamKept ==
    ASSUME Streamed, UNCHANGED <<wire, local, tx_queue, frame>>, Taken' = Taken,
           cpu' = <<"enqueue", "wake">> <=> cpu = <<"enqueue", "wake">>
    PROVE  Streamed'
  <1>1. InFlight' = InFlight
    BY DEF InFlight
  <1> QED
    BY <1>1 DEF Streamed

(* process_tx_queue, platform_send and the poll thread hand each frame on, *)
(* one after the other.                                                    *)
LEMMA StreamedStep ==
    ASSUME NetInv, TxOrder, [Next]_vars
    PROVE  Streamed'
  <1> DEFINE send == <<"enqueue", "wake">>
             S == Seq(Cells)
  <1>0. Control /\ Registers /\ GuestMemory /\ TxRing /\ Queued /\ Fed /\ Streamed
    BY DEF NetInv, TxOrder
  <1>1. /\ wire \in Seq(S) /\ local \in Seq(S) /\ tx_queue \in Seq(S) /\ frame \in S
        /\ frame # <<>> <=> cpu = send
        /\ wire \o local \o tx_queue \o InFlight = Payloads[Taken]
    BY <1>0 DEF Streamed
  <1>2. ~TxFrame => Taken' = Taken
    BY <1>0, QueuedStep
  <1>3. CASE TxFrame
    <2> DEFINE n == avail[TXQ].ring[Slot(last_avail_idx[TXQ])]
    <2>1. n = Taken + 1 /\ Taken' = n /\ n \in 1..MaxEvents /\ Taken = n - 1
      <3>1. n = Taken + 1 /\ Taken' = Taken + 1 /\ Taken + 1 \in 1..MaxEvents
        BY <1>0, <1>3, TxFrameTakes
      <3>2. Taken \in Nat
        BY <1>0, TxTypes
      <3> HIDE DEF n
      <3> QED
        BY <3>1, <3>2
    <2>2. /\ frame' = Gathered(n) /\ cpu = <<"tx">>
          /\ cpu' = IF frame' = <<>> THEN <<"tx">> ELSE send
          /\ UNCHANGED <<wire, local, tx_queue>>
      BY <1>3 DEF TxFrame, SendOrder
    <2> HIDE DEF n
    <2>3. frame' = Payload(n) /\ frame' \in S
      BY <2>1, <2>2, GatheredIsPayload
    <2>4. frame = <<>> /\ InFlight = <<>>
      <3>1. cpu # send
        BY <2>2
      <3> QED
        BY <1>1, <3>1 DEF InFlight
    <2>5. frame' # <<>> <=> cpu' = send
      BY <2>2
    <2>6. Payloads[n] = IF Payload(n) = <<>> THEN Payloads[n - 1] ELSE Append(Payloads[n - 1], Payload(n))
      BY <2>1, PayloadsAre
    <2>7. wire' \o local' \o tx_queue' \o InFlight' = Payloads[n]
      <3>1. wire \o local \o tx_queue \o <<>> = Payloads[n - 1]
        BY <1>1, <2>1, <2>4
      <3>2. CASE frame' = <<>>
        <4>1. InFlight' = <<>>
          BY <3>2 DEF InFlight
        <4> QED
          BY <2>2, <2>3, <2>6, <3>1, <3>2, <4>1
      <3>3. CASE frame' # <<>>
        <4>1. InFlight' = <<frame'>>
          BY <3>3 DEF InFlight
        <4>2. wire \o local \o tx_queue \o <<frame'>> = Append(wire \o local \o tx_queue \o <<>>, frame')
          BY <1>1, <2>3, StreamSteps
        <4> QED
          BY <2>2, <2>3, <2>6, <3>1, <3>3, <4>1, <4>2
      <3> QED
        BY <3>2, <3>3
    <2> QED
      BY <1>1, <2>1, <2>2, <2>3, <2>5, <2>7 DEF Streamed
  <1>4. CASE Enqueue
    <2>1. cpu = send
      BY <1>0, <1>4, SendPhases DEF Control, Enqueue
    <2>2. /\ tx_queue' = Append(tx_queue, frame) /\ frame' = <<>> /\ cpu' = <<"wake">>
          /\ UNCHANGED <<wire, local>>
      BY <1>4, <2>1, SendPhases DEF Enqueue, CpuNext
    <2>3. InFlight = <<frame>> /\ InFlight' = <<>> /\ cpu' # send
      BY <1>1, <2>1, <2>2 DEF InFlight
    <2>4. /\ wire \o local \o Append(tx_queue, frame) \o <<>> = wire \o local \o tx_queue \o <<frame>>
          /\ Append(tx_queue, frame) \in Seq(S)
      <3>1. wire \in Seq(S) /\ local \in Seq(S) /\ tx_queue \in Seq(S) /\ frame \in S
        BY <1>1
      <3> HIDE DEF S
      <3> QED
        BY <3>1, StreamSteps
    <2>5. Taken' = Taken /\ frame' \in S
      <3>1. ~TxFrame
        BY <2>1 DEF TxFrame
      <3> QED
        BY <1>2, <2>2, <3>1, EmptySeq
    <2> QED
      BY <1>1, <2>2, <2>3, <2>4, <2>5 DEF Streamed
  <1>5. CASE Swap
    <2>1. local' = tx_queue /\ tx_queue' = <<>> /\ UNCHANGED <<wire, frame, cpu>>
      BY <1>5 DEF Swap, cpuVars
    <2>2. local = <<>>
      BY <1>0, <1>5 DEF Swap, Fed
    <2>3. InFlight' = InFlight
      BY <2>1 DEF InFlight
    <2>4. (wire \o <<>>) \o tx_queue = (wire \o tx_queue) \o <<>>
      BY <1>1, StreamSteps
    <2>5. Taken' = Taken
      <3>1. ~TxFrame
        BY <1>5 DEF TxFrame, Swap
      <3> QED
        BY <1>2, <3>1
    <2>6. wire' \o local' \o tx_queue' \o InFlight' = wire \o local \o tx_queue \o InFlight
      BY <2>1, <2>2, <2>3, <2>4
    <2>7. tx_queue' \in Seq(S)
      BY <2>1, EmptySeq
    <2> QED
      BY <1>1, <2>1, <2>5, <2>6, <2>7 DEF Streamed
  <1>6. CASE Input
    <2>1. UNCHANGED <<tx_queue, frame, cpu>>
      BY <1>6 DEF Input, cpuVars
    <2>2. InFlight' = InFlight
      BY <2>1 DEF InFlight
    <2>3. Taken' = Taken
      <3>1. UNCHANGED <<avail, used, txNext>>
        BY <1>6 DEF Input, cpuVars, driver
      <3> QED
        BY <3>1 DEF Taken, Waiting
    <2>4. CASE local = <<>>
      BY <1>0, <1>6, <2>1, <2>3, <2>4, StreamKept DEF Input
    <2>5. CASE local # <<>>
      <3>1. wire' = Append(wire, Head(local)) /\ local' = Tail(local)
        BY <1>6, <2>5 DEF Input
      <3>2. /\ Append(wire, Head(local)) \in Seq(S) /\ Tail(local) \in Seq(S)
            /\ Append(wire, Head(local)) \o Tail(local) = wire \o local
        BY <1>1, <2>5, StreamSteps
      <3> QED
        BY <1>1, <2>1, <2>2, <2>3, <3>1, <3>2 DEF Streamed
    <2> QED
      BY <2>4, <2>5
  <1>7. ASSUME ~TxFrame, ~Enqueue, ~Swap, ~Input
        PROVE  /\ UNCHANGED <<wire, local, tx_queue, frame>>
               /\ cpu' = send <=> cpu = send
    <2>1. CASE Wake
      <3>1. cpu = <<"wake">>
        BY <1>0, <2>1, SendPhases DEF Control, Wake
      <3>2. cpu' = <<"tx">>
        BY <2>1, <3>1, SendPhases DEF Wake, CpuNext
      <3> QED
        BY <2>1, <3>1, <3>2 DEF Wake
    <2>2. CASE Configure \/ TxDone
      BY <2>2 DEF Configure, TxDone
    <2>d. CASE Driver
      BY <2>d DEF Driver, PostTx, PostRx, Reset, Notify
    <2>h. CASE Handler
      BY <2>h, HandlerPhases DEF Sending
    <2>3. CASE PollReturns \/ Drain \/ Sockets \/ cb_notify \/ InjectLock \/ Inject
      BY <2>3 DEF PollReturns, Drain, Sockets, cb_notify, InjectLock, Inject, cpuVars
    <2>4. CASE UNCHANGED vars
      BY <2>4 DEF vars
    <2> QED
      BY <1>7, <2>1, <2>2, <2>d, <2>h, <2>3, <2>4 DEF Next, Device, PollThread
  <1> QED
    BY <1>0, <1>2, <1>3, <1>4, <1>5, <1>6, <1>7, StreamKept

(* It holds from the start on.                                             *)
LEMMA TxOrderInit == ASSUME Init PROVE TxOrder
  <1>1. /\ avail[TXQ].idx = 0 /\ used[TXQ].idx = 0 /\ seen[TXQ] = 0 /\ txNext = 1
        /\ wire = <<>> /\ local = <<>> /\ tx_queue = <<>> /\ frame = <<>>
        /\ cpu = <<"down">> /\ back = NoCall
    <2>1. TXQ \in Queues
      BY DEF Queues
    <2> QED
      BY <2>1, EmptyOnes DEF Init, EmptyUsed
  <1>2. Ahead(0, 0) = 0
    BY RingSizes, Distances
  <1>3. Waiting = 0 /\ Taken = 0
    BY <1>1, <1>2 DEF Waiting, Taken
  <1>4. Queued
    <2>1. 0..(0 - 1) = {}
      OBVIOUS
    <2> QED
      BY <1>1, <1>2, <1>3, <2>1, RingSizes DEF Queued
  <1>5. Fed
    BY <1>1 DEF Fed
  <1>6. Streamed
    <2>1. \A T : <<>> \in Seq(T) /\ <<>> \o <<>> = <<>>
      <3> TAKE T
      <3> QED
        BY EmptySeq, ConcatEmptySeq
    <2>2. <<"down">> # <<"enqueue", "wake">>
      OBVIOUS
    <2> QED
      BY <1>1, <1>3, <2>1, <2>2, PayloadsAre DEF Streamed, InFlight
  <1> QED
    BY <1>4, <1>5, <1>6 DEF TxOrder

(* Transmission loses, repeats and reorders nothing: whatever the guest    *)
(* posts, notifies or resets, and wherever the poll thread is, the frames  *)
(* between the ring and slirp are those the guest posted, without their    *)
(* headers and byte for byte, in the order it posted them                  *)
(* (process_tx_queue, platform_send, poll_thread_func).                    *)
THEOREM FramesAreSent == Spec => []TxIntact
  <1>1. Init => TxOrder
    BY TxOrderInit
  <1>2. NetInv /\ TxOrder /\ [Next]_vars => TxOrder'
    <2> SUFFICES ASSUME NetInv, TxOrder, [Next]_vars PROVE TxOrder'
      OBVIOUS
    <2>1. Queued' /\ Fed'
      BY QueuedStep, FedStep DEF TxOrder
    <2> QED
      BY <2>1, StreamedStep DEF TxOrder
  <1>3. NetInv /\ TxOrder => TxIntact
    <2> SUFFICES ASSUME NetInv, TxOrder PROVE TxIntact
      OBVIOUS
    <2>1. Taken \in Nat
      BY TxTypes DEF NetInv
    <2>2. Taken >= 0
      BY <2>1
    <2> QED
      BY <2>2 DEF TxOrder, Streamed, TxIntact, Taken, Waiting
  <1> QED
    BY <1>1, <1>2, <1>3, NetInvHolds, PTL DEF Spec

-----------------------------------------------------------------------------
(* The frames the driver receives.                                         *)

\* What a buffer takes of a frame.
Fit(n, b) == Bytes(n, Least(RxLengths[n], Room(b)))

\* Frames of the first so many slirp sent, in the order it sent them.
InSequence(frames, last) ==
    /\ \A i \in DOMAIN frames : \E n \in 1..last, b \in Slots : frames[i] = Fit(n, b)
    /\ \A i, j \in DOMAIN frames : i < j => frames[i][1][1] < frames[j][1][1]

\* The frames the driver will find, and the number of the last frame that can be
\* among them or among those it has: the one rx_inject is at is not yet.
Unseen == IF cpu = <<"down">> THEN 0 ELSE Done
UsedAt(k) == used[RXQ].ring[At(seen[RXQ], k)]
InUsed == [k \in 1..Unseen |-> Contents(buffer[UsedAt(k - 1).id], UsedAt(k - 1).len)]
Newest == IF poll \in {<<"lock">>} \cup (Injecting \ {<<"raise">>}) THEN rxNext - 2 ELSE rxNext - 1

\* The frame rx_inject is at: copied before its entry, and the entry is whole
\* before the index.
InHand ==
    /\ poll \in {<<"entry", "index", "raise">>, <<"index", "raise">>} =>
          Contents(buffer[head], UsedLength(head, rxNext - 1)) = Fit(rxNext - 1, head)
    /\ poll = <<"index", "raise">> => UsedAt(Done).len = UsedLength(head, rxNext - 1)

Numbers ==
    /\ rxNext - 1 <= MaxEvents
    /\ poll \in {<<"lock">>} \cup Injecting => rxNext >= 2

Received ==
    /\ got \in Seq(Seq(Cells)) /\ InUsed \in Seq(Seq(Cells))
    /\ InSequence(got \o InUsed, Newest)

RxOrder == Numbers /\ InHand /\ Received

(* Every receive buffer has room for some of a frame.                      *)
LEMMA RoomIs ==
    ASSUME NEW b \in Slots
    PROVE  /\ RxChains[b] \in Seq(Nat) /\ RxChains[b] # <<>> /\ RxChains[b][1] >= NET_HDR_SIZE
           /\ Room(b) \in Nat \ {0}
  <1> DEFINE chain == RxChains[b]
             N == Len(chain)
             s == Sums(chain)
             H == NET_HDR_SIZE
  <1>0. H \in Nat
    BY NetAssumption
  <1>1. chain \in Seq(Nat) /\ chain # <<>> /\ chain[1] >= H
    BY NetAssumption DEF Slots
  <1>2. PICK d \in DOMAIN chain : chain[d] > IF d = 1 THEN H ELSE 0
    BY NetAssumption DEF Slots
  <1>3. /\ N \in Nat \ {0} /\ s[1] = chain[1] /\ \A i \in 1..N : H <= s[i]
        /\ Total(chain) = s[N] /\ Total(chain) \in Nat /\ DOMAIN chain = 1..N
    BY <1>1, ChainHoldsHeader, LenProperties
  <1>4. /\ \A k \in 0..N : s[k] \in Nat
        /\ \A k \in 1..N : s[k] = s[k - 1] + chain[k] /\ chain[k] \in Nat
    BY <1>1, SumsAre, ElementOfSeq
  <1>5. \A i \in 0..N : \A k \in i..N : s[i] <= s[k]
    BY <1>1, SumsGrow
  <1> HIDE DEF s, N, H
  <1>6. d \in 1..N /\ d \in 0..N /\ N \in d..N
    BY <1>2, <1>3
  <1>7. s[d] > H
    <2>1. s[d] \in Nat /\ chain[d] \in Nat
      BY <1>4, <1>6
    <2>2. CASE d = 1
      BY <1>2, <1>3, <2>2
    <2>3. CASE d # 1
      <3>1. d - 1 \in 1..N /\ d - 1 \in 0..N
        BY <1>6, <2>3
      <3>2. s[d - 1] \in Nat /\ H <= s[d - 1] /\ s[d] = s[d - 1] + chain[d] /\ chain[d] > 0
        BY <1>2, <1>3, <1>4, <1>6, <2>3, <3>1
      <3> QED
        BY <1>0, <2>1, <3>2
    <2> QED
      BY <2>2, <2>3
  <1>8. s[d] <= s[N] /\ s[d] \in Nat
    BY <1>4, <1>5, <1>6
  <1>9. Room(b) \in Nat \ {0}
    BY <1>0, <1>3, <1>7, <1>8 DEF Room, H
  <1> QED
    BY <1>1, <1>9 DEF H

(* A frame in a buffer says which it is, and is what rx_inject makes of    *)
(* it.                                                                     *)
LEMMA FitIs ==
    ASSUME NEW n \in 1..MaxEvents, NEW b \in Slots
    PROVE  /\ Fit(n, b) \in Seq(Cells) /\ Fit(n, b)[1][1] = n
           /\ \A old : Contents(Scattered(old, RxChains[b], n, RxLengths[n]), UsedLength(b, n))
                         = Fit(n, b)
  <1>1. n \in Nat /\ RxLengths[n] \in Nat \ {0}
    <2>1. RxLengths \in Seq(Nat \ {0}) /\ Len(RxLengths) >= MaxEvents /\ MaxEvents \in Nat
      BY NetAssumption
    <2>2. n \in 1..Len(RxLengths)
      BY <2>1, LenProperties
    <2> QED
      BY <2>1, <2>2, ElementOfSeq
  <1>2. /\ RxChains[b] \in Seq(Nat) /\ RxChains[b] # <<>> /\ RxChains[b][1] >= NET_HDR_SIZE
        /\ Room(b) \in Nat \ {0}
    BY RoomIs
  <1> DEFINE len == Least(RxLengths[n], Room(b))
  <1>3. len \in Nat /\ 1 \in 1..len
    BY <1>1, <1>2 DEF Least
  <1>4. Fit(n, b) = Bytes(n, len)
    BY DEF Fit
  <1> HIDE DEF len
  <1>5. Bytes(n, len) \in Seq(Cells) /\ Bytes(n, len)[1] = <<n, 1>>
    BY <1>1, <1>3, BytesAre
  <1>6. Fit(n, b)[1][1] = n
    <2>1. <<n, 1>>[1] = n
      OBVIOUS
    <2> QED
      BY <1>4, <1>5, <2>1
  <1>7. ASSUME NEW old
        PROVE  Contents(Scattered(old, RxChains[b], n, RxLengths[n]), UsedLength(b, n)) = Fit(n, b)
    <2>1. Contents(Scattered(old, RxChains[b], n, RxLengths[n]),
                   Written(RxChains[b], RxLengths[n])[Len(RxChains[b])])
            = Bytes(n, Least(RxLengths[n], Total(RxChains[b]) - NET_HDR_SIZE))
      BY <1>1, <1>2, ContentsAreFrame
    <2> QED
      BY <2>1, Zenon DEF UsedLength, Fit, Room
  <1> QED
    BY <1>4, <1>5, <1>6, <1>7

(* Frames in sequence stay so when more are sent, when the last is taken   *)
(* away, and when the next is added.                                       *)
LEMMA SequenceSteps ==
    ASSUME NEW F \in Seq(Seq(Cells)), NEW G \in Seq(Seq(Cells)), NEW last \in Nat
    PROVE  /\ InSequence(F, last) => \A more \in Nat : last <= more => InSequence(F, more)
           /\ InSequence(F \o G, last) => InSequence(F, last)
           /\ InSequence(F, last) /\ last + 1 <= MaxEvents =>
                 \A b \in Slots : InSequence(Append(F, Fit(last + 1, b)), last + 1)
  <1>0. DOMAIN F = 1..Len(F) /\ Len(F) \in Nat /\ MaxEvents \in Nat
    BY LenProperties, NetAssumption
  <1>1. ASSUME InSequence(F, last), NEW more \in Nat, last <= more PROVE InSequence(F, more)
    <2>1. \A n \in 1..last : n \in 1..more
      BY <1>1
    <2> QED
      BY <1>1, <2>1 DEF InSequence
  <1>2. ASSUME InSequence(F \o G, last) PROVE InSequence(F, last)
    <2> DEFINE H == F \o G
    <2>1. /\ H \in Seq(Seq(Cells)) /\ Len(H) = Len(F) + Len(G) /\ Len(G) \in Nat
          /\ \A i \in 1..(Len(F) + Len(G)) : H[i] = IF i <= Len(F) THEN F[i] ELSE G[i - Len(F)]
      BY ConcatProperties, LenProperties
    <2>2. InSequence(H, last)
      BY <1>2
    <2> HIDE DEF H
    <2>3. DOMAIN H = 1..Len(H)
      BY <2>1, LenProperties
    <2>4. \A i \in DOMAIN F : i \in DOMAIN H /\ H[i] = F[i]
      BY <1>0, <2>1, <2>3
    <2> QED
      BY <2>2, <2>4 DEF InSequence
  <1>3. ASSUME InSequence(F, last), last + 1 <= MaxEvents, NEW b \in Slots
        PROVE  InSequence(Append(F, Fit(last + 1, b)), last + 1)
    <2> DEFINE f == Fit(last + 1, b)
               H == Append(F, f)
               N == Len(F)
    <2>1. last + 1 \in 1..MaxEvents
      BY <1>0, <1>3
    <2>2. f \in Seq(Cells) /\ f[1][1] = last + 1
      BY <2>1, FitIs
    <2> HIDE DEF f
    <2>3. /\ H \in Seq(Seq(Cells)) /\ Len(H) = N + 1
          /\ \A i \in 1..N : H[i] = F[i]
          /\ H[N + 1] = f
      BY <2>2, AppendProperties
    <2> HIDE DEF H
    <2>4. DOMAIN H = 1..(N + 1)
      BY <2>3, LenProperties
    <2>5. \A i \in DOMAIN H : i = N + 1 \/ i \in 1..N
      BY <1>0, <2>4
    <2>6. \A i \in 1..N : \E n \in 1..last, c \in Slots : F[i] = Fit(n, c)
      BY <1>0, <1>3 DEF InSequence
    <2>7. \A i \in 1..N : F[i][1][1] \in 1..last
      <3> TAKE i \in 1..N
      <3>1. PICK n \in 1..last, c \in Slots : F[i] = Fit(n, c)
        BY <2>6
      <3>2. n \in 1..MaxEvents
        BY <1>0, <1>3, <3>1
      <3> QED
        BY <3>1, <3>2, FitIs
    <2>8. ASSUME NEW i \in DOMAIN H
          PROVE  \E n \in 1..(last + 1), c \in Slots : H[i] = Fit(n, c)
      <3>1. \A n \in 1..last : n \in 1..(last + 1)
        OBVIOUS
      <3>2. last + 1 \in 1..(last + 1)
        OBVIOUS
      <3>3. CASE i = N + 1
        BY <2>3, <3>2, <3>3 DEF f
      <3>4. CASE i \in 1..N
        BY <2>3, <2>6, <3>1, <3>4
      <3> QED
        BY <2>5, <3>3, <3>4
    <2>9. ASSUME NEW i \in DOMAIN H, NEW j \in DOMAIN H, i < j
          PROVE  H[i][1][1] < H[j][1][1]
      <3>1. i \in 1..N
        BY <1>0, <2>4, <2>9
      <3>2. CASE j = N + 1
        <4>1. H[i][1][1] \in 1..last /\ H[j][1][1] = last + 1
          BY <2>2, <2>3, <2>7, <3>1, <3>2
        <4> QED
          BY <4>1
      <3>3. CASE j \in 1..N
        BY <1>0, <1>3, <2>3, <2>9, <3>1, <3>3 DEF InSequence
      <3> QED
        BY <2>5, <3>2, <3>3
    <2> QED
      BY <2>8, <2>9 DEF InSequence, H, f
  <1> QED
    BY <1>1, <1>2, <1>3

(* A driver that is up stays up but for a reset: the device is quiet while *)
(* it is down.                                                             *)
LEMMA StaysUp ==
    ASSUME Control, Driver \/ Handler \/ Device, ~Reset
    PROVE  cpu # <<"down">> /\ cpu' # <<"down">>
  <1>1. CASE Device
    <2>1. cpu \in Sending
      BY <1>1, SendPhases DEF Device, TxFrame, Enqueue, Wake, TxDone, Control, Sending
    <2>2. cpu' \in {<<"tx">>, SendOrder, <<"guest">>, Tail(cpu)}
      BY <1>1 DEF Device, TxFrame, Enqueue, Wake, TxDone, CpuNext
    <2>3. cpu' = Tail(cpu) => cpu' \in {<<"wake">>, <<>>, Tail(<<"tx">>)}
      BY <2>1, SendPhases DEF Sending
    <2> QED
      BY <2>1, <2>2, <2>3 DEF SendOrder, Sending
  <1>2. CASE Driver
    BY <1>2 DEF Driver, PostTx, PostRx, Notify
  <1>3. CASE Handler
    BY <1>3, HandlerPhases
  <1> QED
    BY <1>1, <1>2, <1>3

(* The numbers of the entries from the driver's index on.                  *)
LEMMA UnseenIs ==
    ASSUME Registers, GuestMemory
    PROVE  /\ Unseen \in Nat /\ Done \in Nat
           /\ InUsed = [k \in 1..Unseen |->
                           Contents(buffer[UsedAt(k - 1).id], UsedAt(k - 1).len)]
           /\ cpu = <<"down">> => Unseen = 0 /\ InUsed = <<>>
           /\ cpu # <<"down">> => Unseen = Done
  <1>1. Done \in Nat
    BY RxTypes
  <1>2. /\ cpu = <<"down">> => Unseen = 0
        /\ cpu # <<"down">> => Unseen = Done
    BY DEF Unseen
  <1>3. cpu = <<"down">> => InUsed = <<>>
    <2>1. SUFFICES ASSUME cpu = <<"down">> PROVE InUsed = <<>>
      OBVIOUS
    <2>2. Unseen = 0 /\ 1..0 = {}
      BY <1>2, <2>1
    <2>3. InUsed \in [1..0 -> Seq(Cells)]
      BY <2>2 DEF InUsed
    <2>4. InUsed \in Seq(Seq(Cells)) /\ DOMAIN InUsed = {}
      BY <2>2, <2>3, SeqDef
    <2>5. DOMAIN InUsed = 1..Len(InUsed) /\ Len(InUsed) \in Nat
      BY <2>4, LenProperties
    <2>6. Len(InUsed) = 0
      BY <2>4, <2>5
    <2> QED
      BY <2>4, <2>6, EmptySeq
  <1> QED
    BY <1>1, <1>2, <1>3 DEF InUsed

(* Steps that leave what the driver will find alone.                       *)
LEMMA ReceivedKept ==
    ASSUME Received, got' = got, InUsed' = InUsed,
           Newest \in Nat, Newest' \in Nat, Newest <= Newest'
    PROVE  Received'
  <1>1. got \in Seq(Seq(Cells)) /\ InUsed \in Seq(Seq(Cells)) /\ InSequence(got \o InUsed, Newest)
    BY DEF Received
  <1> DEFINE F == got \o InUsed
             a == Newest
             b == Newest'
  <1>2. F \in Seq(Seq(Cells))
    BY <1>1, ConcatProperties
  <1>3. InSequence(F, a) /\ a \in Nat /\ b \in Nat /\ a <= b
    BY <1>1
  <1> HIDE DEF F, a, b
  <1>4. InSequence(F, b)
    BY <1>2, <1>3, SequenceSteps
  <1>5. InSequence(got \o InUsed, Newest')
    BY <1>4 DEF F, b
  <1>6. InSequence(got' \o InUsed', Newest') <=> InSequence(got \o InUsed, Newest')
    OBVIOUS
  <1>7. Received' <=> /\ got' \in Seq(Seq(Cells)) /\ InUsed' \in Seq(Seq(Cells))
                      /\ InSequence(got' \o InUsed', Newest')
    BY DEF Received, InSequence, Fit, Bytes, Least, Room, Total, Start
  <1> QED
    BY <1>1, <1>5, <1>6, <1>7

(* How many frames slirp has sent: one more when rx_inject is called.      *)
LEMMA NumbersStep ==
    ASSUME NetInv, Numbers, [Next]_vars
    PROVE  Numbers' /\ Newest \in Nat /\ Newest' \in Nat /\ Newest <= Newest'
  <1> DEFINE Called == {<<"lock">>} \cup Injecting
             Open == {<<"lock">>} \cup (Injecting \ {<<"raise">>})
  <1> USE PollThreadPhases
  <1>0. Control /\ TxRing
    BY DEF NetInv
  <1>1. /\ rxNext \in Nat \ {0} /\ rxNext - 1 <= MaxEvents /\ (poll \in Called => rxNext >= 2)
        /\ Open \subseteq Called /\ MaxEvents \in Nat
    BY <1>0, NetAssumption DEF TxRing, Numbers
  <1>2. \A p \in RestPhases : p \notin Called
    <2>1. \A p \in RestPhases : p # <<"lock">> /\ p \notin Injecting
      BY DEF CallPhases
    <2> QED
      BY <2>1
  <1>3. \/ rxNext' = rxNext /\ poll' = poll
        \/ rxNext' = rxNext /\ poll' \notin Called
        \/ rxNext' = rxNext /\ poll \in Open /\ poll' \in Called
        \/ poll \notin Called /\ rxNext' = rxNext + 1 /\ poll' \in Open /\ rxNext - 1 < MaxEvents
    <2>1. CASE Configure \/ Driver \/ Handler \/ Device \/ UNCHANGED vars
      <3>1. UNCHANGED <<poll, rxNext>>
        BY <2>1 DEF Configure, Driver, PostTx, PostRx, Reset, Notify, Handler, Claim, Complete, ReadStatus,
                Ack, Reap, Device, TxFrame, Enqueue, Wake, TxDone, vars, bounds
      <3> QED
        BY <3>1
    <2>2. CASE PollReturns \/ Drain \/ Swap \/ cb_notify
      <3>1. rxNext' = rxNext /\ poll' \in RestPhases
        BY <1>0, <2>2 DEF PollReturns, Drain, Swap, cb_notify, bounds, Control, Returns
      <3> QED
        BY <1>2, <3>1
    <2>3. CASE Input \/ Sockets
      <3>1. poll \in RestPhases
        BY <2>3 DEF Input, Sockets
      <3>2. \/ poll' = <<"sockets">> /\ rxNext' = rxNext
            \/ SlirpActs(<<"input">>) \/ SlirpActs(<<"poll">>)
        BY <2>3 DEF Input, Sockets, bounds
      <3>3. \/ poll' \in RestPhases \cup {<<"notify">>} /\ rxNext' = rxNext
            \/ Bounded /\ rxNext' = rxNext + 1 /\ poll' = <<"lock">>
        BY <3>2 DEF SlirpActs
      <3>4. Bounded => rxNext - 1 < MaxEvents
        BY <1>0, NetAssumption DEF Bounded, TxRing
      <3>5. <<"notify">> \notin Called
        <4>1. <<"notify">> # <<"lock">> /\ <<"notify">> \notin Injecting
          OBVIOUS
        <4> QED
          BY <4>1
      <3> QED
        BY <1>2, <3>1, <3>3, <3>4, <3>5
    <2>4. CASE InjectLock
      <3>1. rxNext' = rxNext /\ poll = <<"lock">> /\ (poll' = InjectOrder \/ poll' = back)
        BY <2>4 DEF InjectLock, bounds, Returns
      <3>2. back \in RestPhases
        BY <1>0, <3>1 DEF Control
      <3> QED
        BY <1>2, <3>1, <3>2
    <2>5. CASE Inject
      <3>1. poll \in Injecting /\ rxNext' = rxNext
        BY <1>0, <2>5, InjectIsInside DEF Control, Inject, bounds
      <3>2. CASE poll = <<"raise">>
        <4>1. poll' = back /\ back \in RestPhases
          BY <1>0, <2>5, <3>1, <3>2, InjectPhases DEF Inject, InjectNext, Returns, Control
        <4> QED
          BY <1>2, <3>1, <4>1
      <3>3. CASE poll # <<"raise">>
        <4>1. poll' \in Injecting
          BY <2>5, <3>1, <3>3, InjectPhases DEF Inject, InjectNext
        <4> QED
          BY <3>1, <3>3, <4>1
      <3> QED
        BY <3>2, <3>3
    <2> QED
      BY <2>1, <2>2, <2>3, <2>4, <2>5 DEF Next, PollThread
  <1>4. /\ Newest = IF poll \in Open THEN rxNext - 2 ELSE rxNext - 1
        /\ Newest' = IF poll' \in Open THEN rxNext' - 2 ELSE rxNext' - 1
    BY DEF Newest
  <1> HIDE DEF Called, Open
  <1>5. rxNext' - 1 <= MaxEvents /\ (poll' \in Called => rxNext' >= 2)
    BY <1>1, <1>3
  <1>6. Numbers'
    BY <1>5 DEF Numbers, Called
  <1>7. Newest \in Nat /\ Newest' \in Nat /\ Newest <= Newest'
    BY <1>1, <1>3, <1>4
  <1> QED
    BY <1>6, <1>7

(* What the driver will find is what it was, if the entries it has not     *)
(* reaped and their buffers are.                                           *)
LEMMA InUsedKept ==
    ASSUME Done' = Done, cpu' = <<"down">> <=> cpu = <<"down">>,
           \A k \in 1..Unseen : /\ UsedAt(k - 1)' = UsedAt(k - 1)
                                /\ buffer'[UsedAt(k - 1).id] = buffer[UsedAt(k - 1).id]
    PROVE  InUsed' = InUsed
  <1>1. Unseen' = Unseen
    BY DEF Unseen
  <1>2. \A k \in 1..Unseen : Contents(buffer[UsedAt(k - 1).id], UsedAt(k - 1).len)' =
                                Contents(buffer[UsedAt(k - 1).id], UsedAt(k - 1).len)
    <2> TAKE k \in 1..Unseen
    <2>1. UsedAt(k - 1)' = UsedAt(k - 1)
      OBVIOUS
    <2> QED
      BY <2>1 DEF Contents
  <1> QED
    BY <1>1, <1>2 DEF InUsed

(* A sequence is a function on an interval from 1.                         *)
LEMMA Listed ==
    ASSUME NEW T, NEW n \in Nat, NEW s \in [1..n -> T]
    PROVE  s \in Seq(T) /\ Len(s) = n
  <1>1. s \in Seq(T)
    BY SeqDef
  <1>2. DOMAIN s = 1..Len(s) /\ Len(s) \in Nat /\ DOMAIN s = 1..n
    BY <1>1, LenProperties
  <1> QED
    BY <1>1, <1>2, SameInterval

(* The steps of rx_inject: the frame, its entry, the index, and the        *)
(* interrupt.                                                              *)
LEMMA InjectReceives ==
    ASSUME NetInv, RxRing, RxOrder, Inject
    PROVE  InHand' /\ Received'
  <1> DEFINE i == seen[RXQ]
             m == Done
             n == rxNext - 1
             f == Fit(n, head)
             S == Seq(Cells)
  <1>0. Control /\ Registers /\ GuestMemory /\ TxRing /\ Quiet /\ Numbers /\ InHand /\ Received
    BY DEF NetInv, RxOrder
  <1>n. Newest \in Nat /\ Newest' \in Nat /\ Newest <= Newest'
    <2>1. Next
      BY DEF Next, PollThread
    <2> QED
      BY <1>0, <2>1, NumbersStep
  <1>1. poll \in Injecting /\ queue_mutex = "poll" /\ cpu # <<"down">>
    BY <1>0, InjectIsInside DEF Control, Quiet
  <1>2. UNCHANGED <<seen, cpu, got, rxNext>>
    BY DEF Inject, driver, bounds
  <1>3. n \in 1..MaxEvents /\ head \in Slots
    <2>1. rxNext - 1 <= MaxEvents /\ rxNext >= 2 /\ rxNext \in Nat /\ MaxEvents \in Nat
      BY <1>0, <1>1, NetAssumption DEF Numbers, TxRing
    <2> QED
      BY <1>0, <2>1 DEF GuestMemory
  <1>4. /\ Unseen = m /\ m \in Nat
        /\ InUsed = [k \in 1..m |-> Contents(buffer[UsedAt(k - 1).id], UsedAt(k - 1).len)]
    BY <1>0, <1>1, UnseenIs
  <1>5. /\ i \in Indices /\ used[RXQ].idx \in Indices /\ used[RXQ].ring \in [Slots -> UsedEntries]
        /\ used \in Rings(UsedEntries) /\ RXQ \in Queues /\ InRing \in Nat
    BY <1>0, RxTypes
  <1>6. CASE poll # <<"raise">>
    <2>1. m < InRing /\ InRing <= QUEUE_SIZE /\ head = avail[RXQ].ring[At(i, m)]
      BY <1>1, <1>6 DEF RxRing
    <2>2. \A k \in 0..(m - 1) : At(i, k) \in Slots /\ At(i, k) # At(i, m) /\ UsedAt(k).id # head
      <3> TAKE k \in 0..(m - 1)
      <3>1. /\ k \in 0..(InRing - 1) /\ m \in 0..(InRing - 1) /\ k # m
            /\ k \in 0..(QUEUE_SIZE - 1) /\ m \in 0..(QUEUE_SIZE - 1) /\ k \in Nat
        <4> HIDE DEF m
        <4> QED
          BY <1>4, <1>5, <2>1, RingSizes
      <3>2. At(i, k) \in Slots /\ At(i, k) # At(i, m)
        BY <1>5, <3>1, Places
      <3>3. avail[RXQ].ring[At(i, k)] # avail[RXQ].ring[At(i, m)]
        BY <3>1 DEF RxRing, Owned
      <3>4. UsedAt(k).id = avail[RXQ].ring[At(i, k)]
        BY DEF RxRing, InOrder, UsedAt
      <3> QED
        BY <2>1, <3>2, <3>3, <3>4
    <2>3. \A k \in 1..m : k - 1 \in 0..(m - 1)
      <3> HIDE DEF m
      <3> QED
        BY <1>4
    <2>4. poll' = Tail(poll) /\ head' = head
      BY <1>1, <1>6, InjectPhases DEF Inject, InjectNext
    <2>5. CASE poll = <<"fill", "entry", "index", "raise">>
      <3>1. /\ poll' = <<"entry", "index", "raise">> /\ used' = used
            /\ buffer' = [buffer EXCEPT ![head] =
                              Scattered(buffer[head], RxChains[head], n, RxLengths[n])]
        BY <1>1, <2>4, <2>5, InjectTails, InjectPhases DEF Inject
      <3>2. InUsed' = InUsed
        <4>1. Done' = Done /\ \A k : UsedAt(k)' = UsedAt(k)
          BY <1>2, <3>1 DEF Done, UsedAt
        <4>2. \A k \in 1..m : buffer'[UsedAt(k - 1).id] = buffer[UsedAt(k - 1).id]
          <5> TAKE k \in 1..m
          <5>1. UsedAt(k - 1).id # head
            BY <2>2, <2>3
          <5> QED
            BY <3>1, <5>1
        <4> QED
          BY <1>2, <1>4, <4>1, <4>2, InUsedKept
      <3>3. Received'
        BY <1>0, <1>2, <1>n, <3>2, ReceivedKept
      <3>4. buffer'[head] = Scattered(buffer[head], RxChains[head], n, RxLengths[n])
        BY <1>0, <1>3, <3>1 DEF GuestMemory
      <3>5. Contents(buffer'[head], UsedLength(head, n)) = Fit(n, head)
        BY <1>3, <3>4, FitIs
      <3>6. poll' # <<"index", "raise">>
        BY <3>1
      <3>7. InHand'
        BY <1>2, <2>4, <3>5, <3>6 DEF InHand, Contents, UsedLength, Fit
      <3> QED
        BY <3>3, <3>7
    <2>6. CASE poll = <<"entry", "index", "raise">>
      <3> DEFINE e == [id |-> head, len |-> UsedLength(head, n)]
                 s == Slot(used[RXQ].idx)
      <3>1. /\ poll' = <<"index", "raise">> /\ used' = WithEntry(used, RXQ, s, e)
            /\ buffer' = buffer
        BY <1>1, <2>4, <2>6, InjectTails, InjectPhases DEF Inject, WithEntry
      <3>2. e \in UsedEntries /\ e.id = head /\ e.len = UsedLength(head, n)
        <4>1. UsedLength(head, n) \in Lengths
          BY <1>3 DEF Lengths
        <4> QED
          BY <1>3, <4>1 DEF UsedEntries
      <3> HIDE DEF e
      <3>3. s = At(i, m) /\ s \in Slots
        BY <1>0, <1>5, NextPlace, RingSizes
      <3> HIDE DEF s
      <3>4. /\ used'[RXQ].idx = used[RXQ].idx
            /\ used'[RXQ].ring = [used[RXQ].ring EXCEPT ![s] = e]
        <4>1. /\ WithEntry(used, RXQ, s, e)[RXQ].idx = used[RXQ].idx
              /\ WithEntry(used, RXQ, s, e)[RXQ].ring = [used[RXQ].ring EXCEPT ![s] = e]
          BY <1>5, <3>2, <3>3, EntryWritten
        <4> QED
          BY <3>1, <4>1
      <3>5. Done' = Done
        BY <1>2, <3>4 DEF Done
      <3>6. \A k \in 0..(m - 1) : UsedAt(k)' = UsedAt(k)
        BY <1>2, <1>5, <2>2, <3>3, <3>4 DEF UsedAt
      <3>7. InUsed' = InUsed
        <4>1. \A k \in 1..Unseen : UsedAt(k - 1)' = UsedAt(k - 1)
          BY <1>4, <2>3, <3>6
        <4> QED
          BY <1>2, <3>1, <3>5, <4>1, InUsedKept
      <3>8. Received'
        BY <1>0, <1>2, <1>n, <3>7, ReceivedKept
      <3>9. (UsedAt(Done).len)' = UsedLength(head, n)
        BY <1>2, <1>5, <3>2, <3>3, <3>4, <3>5 DEF UsedAt
      <3>10. Contents(buffer[head], UsedLength(head, n)) = Fit(n, head)
        BY <1>0, <2>6 DEF InHand
      <3>11. InHand'
        BY <1>2, <2>4, <3>1, <3>9, <3>10 DEF InHand, Contents, UsedLength, Fit
      <3> QED
        BY <3>8, <3>11
    <2>7. CASE poll = <<"index", "raise">>
      <3>1. poll' = <<"raise">> /\ used' = WithIndex(used, RXQ) /\ buffer' = buffer
        BY <1>1, <2>4, <2>7, InjectTails, InjectPhases DEF Inject, WithIndex
      <3>2. used'[RXQ].idx = Next16(used[RXQ].idx) /\ used'[RXQ].ring = used[RXQ].ring
        <4>1. /\ WithIndex(used, RXQ)[RXQ].idx = Next16(used[RXQ].idx)
              /\ WithIndex(used, RXQ)[RXQ].ring = used[RXQ].ring
          BY <1>5, IndexMoved
        <4> QED
          BY <3>1, <4>1
      <3>3. Done' = m + 1
        <4>1. Ahead(used[RXQ].idx, i) = m
          BY DEF Done
        <4>2. m + 1 < IdxMod
          <5> HIDE DEF m
          <5> QED
            BY <1>4, <1>5, <2>1, RingSizes
        <4>3. Ahead(Next16(used[RXQ].idx), i) = m + 1
          <5> HIDE DEF i, m
          <5> QED
            BY <1>5, <4>1, <4>2, Distances
        <4> QED
          BY <1>2, <3>2, <4>3 DEF Done
      <3>4. Contents(buffer[UsedAt(m).id], UsedAt(m).len) = f
        <4>1. UsedAt(m).id = head
          BY <2>7 DEF RxRing, UsedAt
        <4>2. UsedAt(m).len = UsedLength(head, n)
          BY <1>0, <2>7 DEF InHand
        <4>3. Contents(buffer[head], UsedLength(head, n)) = f
          BY <1>0, <2>7 DEF InHand
        <4> QED
          BY <4>1, <4>2, <4>3
      <3> DEFINE c == [k \in 1..(m + 1) |-> Contents(buffer[UsedAt(k - 1).id], UsedAt(k - 1).len)]
                 l == InUsed
      <3>5. InUsed' = c
        <4>1. Unseen' = m + 1
          BY <1>1, <1>2, <3>3 DEF Unseen
        <4>2. \A k : UsedAt(k)' = UsedAt(k)
          BY <1>2, <3>2 DEF UsedAt
        <4>3. \A k : Contents(buffer[UsedAt(k - 1).id], UsedAt(k - 1).len)' =
                        Contents(buffer[UsedAt(k - 1).id], UsedAt(k - 1).len)
          BY <3>1, <4>2 DEF Contents
        <4> QED
          BY <4>1, <4>3 DEF InUsed
      <3>6. f \in S /\ l \in Seq(S) /\ got \in Seq(S)
        BY <1>0, <1>3, FitIs DEF Received
      <3>7. DOMAIN l = 1..m /\ \A k \in 1..m : l[k] \in S /\ c[k] = l[k]
        <4>1. DOMAIN l = 1..m /\ \A k \in 1..m : k \in 1..(m + 1)
          <5>1. DOMAIN l = 1..m
            BY <1>4
          <5> HIDE DEF m, l
          <5> QED
            BY <1>4, <5>1
        <4>2. \A k \in 1..m : l[k] \in S
          BY <3>6, <4>1, LenProperties, ElementOfSeq
        <4> QED
          BY <1>4, <4>1, <4>2
      <3>8. c[m + 1] = f
        <4>1. m + 1 \in 1..(m + 1) /\ (m + 1) - 1 = m
          <5> HIDE DEF m
          <5> QED
            BY <1>4
        <4> QED
          BY <3>4, <4>1
      <3>9. c \in [1..(m + 1) -> S]
        <4>1. \A k \in 1..(m + 1) : k = m + 1 \/ k \in 1..m
          <5> HIDE DEF m
          <5> QED
            BY <1>4
        <4>2. \A k \in 1..(m + 1) : c[k] \in S
          BY <3>6, <3>7, <3>8, <4>1
        <4> QED
          BY <4>2
      <3> HIDE DEF c, l, m, f
      <3>10. c = Append(l, f)
        <4>1. c \in Seq(S) /\ Len(c) = m + 1
          BY <1>4, <3>9, Listed
        <4>2. Len(l) = m
          <5>1. DOMAIN l = 1..Len(l) /\ Len(l) \in Nat
            BY <3>6, LenProperties
          <5> QED
            BY <1>4, <3>7, <5>1, SameInterval
        <4> DEFINE g == Append(l, f)
        <4>3. /\ g \in Seq(S) /\ Len(g) = m + 1 /\ g[m + 1] = f
              /\ \A k \in 1..m : g[k] = l[k]
          BY <3>6, <4>2, AppendProperties
        <4> HIDE DEF g
        <4>4. \A k \in 1..Len(c) : k = m + 1 \/ k \in 1..m
          BY <1>4, <4>1
        <4>5. \A k \in 1..Len(c) : c[k] = g[k]
          BY <3>7, <3>8, <4>3, <4>4
        <4>6. c = g
          BY <4>1, <4>3, <4>5, SeqEqual
        <4> QED
          BY <4>6 DEF g
      <3> DEFINE F == got \o l
                 last == rxNext - 2
      <3>11. F \in Seq(S) /\ got \o c = Append(F, f)
        <4>1. <<f>> \in Seq(S) /\ F \in Seq(S)
          BY <3>6, ConcatProperties
        <4>2. (got \o l) \o <<f>> = got \o (l \o <<f>>)
          BY ONLY <3>6, <4>1, ConcatAssociative
        <4>3. Append(l, f) = l \o <<f>> /\ Append(F, f) = F \o <<f>>
          BY <3>6, <4>1, AppendIsConcat
        <4> QED
          BY <3>10, <4>1, <4>2, <4>3
      <3>12. /\ Newest = last /\ Newest' = last + 1 /\ last \in Nat /\ last + 1 = n
             /\ last + 1 <= MaxEvents
        <4>1. Newest = last
          BY <1>1, <2>7 DEF Newest
        <4>2. rxNext \in Nat
          BY <1>0 DEF TxRing
        <4>3. Newest' = rxNext - 1
          <5>1. poll' # <<"lock">> /\ poll' \notin Injecting \ {<<"raise">>}
            BY <3>1
          <5> QED
            BY <1>2, <5>1 DEF Newest
        <4> QED
          BY <1>3, <1>n, <4>1, <4>2, <4>3
      <3>13. InSequence(F, last)
        BY <1>0, <3>12 DEF Received, l
      <3> HIDE DEF F, last
      <3>14. InSequence(Append(F, Fit(last + 1, head)), last + 1)
        BY <1>3, <3>11, <3>12, <3>13, SequenceSteps
      <3>15. InSequence(got \o c, last + 1)
        BY <3>11, <3>12, <3>14 DEF f
      <3>16. Received' <=> /\ got' \in Seq(Seq(Cells)) /\ InUsed' \in Seq(Seq(Cells))
                           /\ InSequence(got' \o InUsed', Newest')
        BY DEF Received, InSequence, Fit, Bytes, Least, Room, Total, Start
      <3>17. c \in Seq(S)
        BY <3>6, <3>10, AppendProperties
      <3>18. Received'
        BY <1>2, <3>5, <3>6, <3>12, <3>15, <3>16, <3>17
      <3>19. InHand'
        BY <3>1 DEF InHand
      <3> QED
        BY <3>18, <3>19
    <2> QED
      BY <1>1, <1>6, <2>5, <2>6, <2>7 DEF Injecting
  <1>7. CASE poll = <<"raise">>
    <2>1. UNCHANGED <<used, buffer>> /\ poll' = back
      BY <1>1, <1>7, InjectPhases DEF Inject, InjectNext, Returns
    <2>2. InUsed' = InUsed
      <3>1. Done' = Done /\ \A k : UsedAt(k)' = UsedAt(k)
        BY <1>2, <2>1 DEF Done, UsedAt
      <3> QED
        BY <1>2, <2>1, <3>1, InUsedKept
    <2>3. back \notin Injecting
      <3>1. back \in {<<"input">>, <<"poll">>}
        BY <1>0, <1>1 DEF Control
      <3> QED
        BY <3>1, PollThreadPhases
    <2>4. InHand'
      BY <2>1, <2>3 DEF InHand, Injecting
    <2> QED
      BY <1>0, <1>2, <1>n, <2>2, <2>4, ReceivedKept
  <1> QED
    BY <1>6, <1>7

(* Reap: the first frame the driver finds becomes the last it has.         *)
LEMMA ReapReceives ==
    ASSUME NetInv, RxRing, RxOrder, Reap
    PROVE  InHand' /\ Received'
  <1> DEFINE i == seen[RXQ]
             m == Done
             S == Seq(Cells)
  <1>0. Control /\ Registers /\ GuestMemory /\ TxRing /\ Quiet /\ Numbers /\ InHand /\ Received
    BY DEF NetInv, RxOrder
  <1>1. UNCHANGED <<used, buffer, poll, head, rxNext>> /\ cpu = <<"reap">>
    BY DEF Reap, rings, bounds
  <1>n. Newest \in Nat /\ Newest' \in Nat /\ Newest <= Newest'
    <2>1. Next
      BY DEF Next, Handler
    <2> QED
      BY <1>0, <2>1, NumbersStep
  <1>2. cpu # <<"down">> /\ cpu' # <<"down">>
    BY <1>0, StaysUp DEF Handler, Reap, Reset
  <1>3. /\ i \in Indices /\ used[RXQ].idx \in Indices /\ RXQ \in Queues /\ TXQ # RXQ
        /\ seen \in [Queues -> Indices] /\ used[RXQ].ring \in [Slots -> UsedEntries]
    BY <1>0, RxTypes DEF Registers
  <1>4. /\ Unseen = m /\ m \in Nat
        /\ InUsed = [k \in 1..m |-> Contents(buffer[UsedAt(k - 1).id], UsedAt(k - 1).len)]
    BY <1>0, <1>2, UnseenIs
  <1>5. got \in Seq(S) /\ InUsed \in Seq(S)
    BY <1>0 DEF Received
  <1>6. CASE used[RXQ].idx = seen[RXQ]
    <2>1. seen'[RXQ] = seen[RXQ] /\ got' = got
      BY <1>3, <1>6 DEF Reap
    <2>2. Done' = Done /\ \A k : UsedAt(k)' = UsedAt(k)
      BY <1>1, <2>1 DEF Done, UsedAt
    <2>3. InUsed' = InUsed
      BY <1>1, <1>2, <2>2, InUsedKept
    <2>4. Received'
      BY <1>0, <1>n, <2>1, <2>3, ReceivedKept
    <2>5. InHand'
      BY <1>0, <1>1, <2>2 DEF InHand, Contents, UsedLength, Fit
    <2> QED
      BY <2>4, <2>5
  <1>7. CASE used[RXQ].idx # seen[RXQ]
    <2> DEFINE l == InUsed
               c == Contents(buffer[UsedAt(0).id], UsedAt(0).len)
    <2>1. seen' = [seen EXCEPT ![RXQ] = Next16(@)] /\ got' = Append(got, c)
      <3>1. At(i, 0) = Slot(i)
        BY <1>3, Places
      <3> QED
        BY <1>7, <3>1 DEF Reap, UsedAt
    <2>2. seen'[RXQ] = Next16(i)
      BY <1>3, <2>1
    <2>3. m # 0 /\ Done' = m - 1
      <3>1. Ahead(used[RXQ].idx, i) # 0 /\ Ahead(used[RXQ].idx, Next16(i)) = Ahead(used[RXQ].idx, i) - 1
        <4>1. used[RXQ].idx # i
          BY <1>7
        <4> HIDE DEF i
        <4> QED
          BY <1>3, <4>1, Distances
      <3> QED
        BY <1>1, <2>2, <3>1 DEF Done
    <2>4. ASSUME NEW k \in Nat PROVE UsedAt(k)' = UsedAt(k + 1)
      <3>1. At(Next16(i), k) = At(i, k + 1)
        BY <1>3, Places
      <3> QED
        BY <1>1, <2>2, <3>1 DEF UsedAt
    <2> HIDE DEF m
    <2>5. 1 \in 1..m /\ 1 - 1 = 0 /\ m - 1 \in Nat
      BY <1>4, <2>3
    <2>6. l[1] = c
      BY <1>4, <2>5
    <2>7. Len(l) = m
      <3>1. DOMAIN l = 1..m
        BY <1>4
      <3>2. DOMAIN l = 1..Len(l) /\ Len(l) \in Nat
        BY <1>5, LenProperties
      <3> QED
        BY <1>4, <3>1, <3>2, SameInterval
    <2>8. l # <<>>
      BY <2>3, <2>7
    <2>9. Head(l) = c
      BY <2>6
    <2> DEFINE t == Tail(l)
               d == InUsed'
    <2>10. /\ t \in Seq(S) /\ Len(t) = m - 1
           /\ \A k \in 1..(m - 1) : t[k] = l[k + 1]
      <3> HIDE DEF l
      <3> QED
        BY <1>5, <2>7, <2>8, HeadTailProperties DEF l
    <2>11. d = [k \in 1..(m - 1) |-> Contents(buffer[UsedAt(k).id], UsedAt(k).len)]
      <3>1. Unseen' = m - 1
        BY <1>2, <2>3 DEF Unseen
      <3>2. \A k \in 1..(m - 1) : UsedAt(k - 1)' = UsedAt(k)
        <4> TAKE k \in 1..(m - 1)
        <4>1. k - 1 \in Nat /\ (k - 1) + 1 = k
          BY <2>5
        <4> QED
          BY <2>4, <4>1
      <3>3. \A k \in 1..(m - 1) : Contents(buffer[UsedAt(k - 1).id], UsedAt(k - 1).len)' =
                                     Contents(buffer[UsedAt(k).id], UsedAt(k).len)
        <4> TAKE k \in 1..(m - 1)
        <4>1. UsedAt(k - 1)' = UsedAt(k)
          BY <3>2
        <4> QED
          BY <1>1, <4>1 DEF Contents
      <3> QED
        BY <3>1, <3>3 DEF InUsed
    <2>12. \A k \in 1..(m - 1) : d[k] = t[k] /\ t[k] \in S
      <3> TAKE k \in 1..(m - 1)
      <3>1. k + 1 \in 1..m /\ (k + 1) - 1 = k /\ k \in 1..Len(t)
        <4>1. Len(t) = m - 1 /\ m \in Nat /\ m - 1 \in Nat
          BY <1>4, <2>5, <2>10
        <4> HIDE DEF t
        <4> QED
          BY ONLY k \in 1..(m - 1), <4>1
      <3>2. l[k + 1] = Contents(buffer[UsedAt(k).id], UsedAt(k).len)
        BY <1>4, <3>1
      <3>3. t[k] \in S
        BY <2>10, <3>1, ElementOfSeq
      <3> QED
        BY <2>10, <2>11, <3>2, <3>3
    <2>13. d \in [1..(m - 1) -> S]
      BY <2>11, <2>12
    <2>14. d = t
      <3> HIDE DEF d, t
      <3>1. d \in Seq(S) /\ Len(d) = m - 1
        BY <2>5, <2>13, Listed
      <3>2. \A k \in 1..Len(d) : d[k] = t[k]
        BY <2>12, <3>1
      <3> QED
        BY <2>10, <3>1, <3>2, SeqEqual
    <2>15. /\ Append(got, c) \in Seq(S)
           /\ Append(got, c) \o t = got \o l
      <3>1. c \in S /\ <<>> \in Seq(S)
        <4> HIDE DEF l, c
        <4> QED
          BY <1>5, <2>8, <2>9, HeadTailProperties, EmptySeq DEF l
      <3> HIDE DEF S
      <3>2. /\ Append(got, Head(l)) \in Seq(S)
            /\ Append(got, Head(l)) \o Tail(l) = got \o l
        BY <1>5, <2>8, <3>1, StreamSteps
      <3> QED
        BY <2>9, <3>2
    <2>16. InSequence(got' \o InUsed', Newest)
      <3>1. InSequence(got \o l, Newest)
        BY <1>0 DEF Received
      <3> HIDE DEF l, c, d, t
      <3> QED
        BY <2>1, <2>14, <2>15, <3>1 DEF d
    <2>17. Newest' = Newest
      BY <1>1 DEF Newest
    <2>18. Received'
      <3>1. Received' <=> /\ got' \in Seq(Seq(Cells)) /\ InUsed' \in Seq(Seq(Cells))
                          /\ InSequence(got' \o InUsed', Newest')
        BY DEF Received, InSequence, Fit, Bytes, Least, Room, Total, Start
      <3> HIDE DEF l, c, t
      <3> QED
        BY <2>1, <2>10, <2>14, <2>15, <2>16, <2>17, <3>1 DEF d
    <2>19. InHand'
      <3>1. (UsedAt(Done))' = UsedAt(m)
        <4>1. (m - 1) + 1 = m
          BY <1>4
        <4>2. (UsedAt(Done))' = used'[RXQ].ring[At(seen'[RXQ], Done')]
          BY DEF UsedAt
        <4>3. At(Next16(i), m - 1) = At(i, m)
          BY <1>3, <2>5, <4>1, Places
        <4> QED
          BY <1>1, <2>2, <2>3, <4>2, <4>3 DEF UsedAt
      <3> QED
        BY <1>0, <1>1, <3>1 DEF InHand, Contents, UsedLength, Fit, m
    <2> QED
      BY <2>18, <2>19
  <1> QED
    BY <1>6, <1>7

(* A reset leaves the driver what it has, and Configure gives it a ring    *)
(* with nothing used.                                                      *)
LEMMA ResetReceives ==
    ASSUME NetInv, RxOrder, Reset \/ Configure
    PROVE  InHand' /\ Received'
  <1>0. Control /\ Registers /\ GuestMemory /\ TxRing /\ Quiet /\ Numbers /\ InHand /\ Received
    BY DEF NetInv, RxOrder
  <1>1. UNCHANGED <<got, poll, rxNext, head, buffer>> /\ queue_mutex = "free"
    BY DEF Reset, Configure, CpuMayLock, bounds
  <1>n. Newest \in Nat /\ Newest' = Newest
    <2>1. Next
      BY DEF Next, Driver
    <2>2. Newest \in Nat
      BY <1>0, <2>1, NumbersStep
    <2> QED
      BY <1>1, <2>2 DEF Newest
  <1>2. InHand'
    <2>1. poll \notin Injecting
      BY <1>0, <1>1 DEF Control
    <2>2. poll' \notin {<<"entry", "index", "raise">>, <<"index", "raise">>}
      BY <1>1, <2>1 DEF Injecting
    <2> QED
      BY <2>2 DEF InHand
  <1>3. InUsed' = <<>>
    <2>1. Registers' /\ GuestMemory' /\ Unseen' = 0
      <3>1. Next
        BY DEF Next, Driver
      <3>2. Registers' /\ GuestMemory'
        BY <1>0, <3>1, RegistersStep, GuestMemoryStep
      <3>3. CASE Reset
        BY <3>2, <3>3 DEF Reset, Unseen
      <3>4. CASE Configure
        <4>1. used'[RXQ].idx = 0 /\ seen'[RXQ] = 0 /\ cpu' # <<"down">>
          BY <3>4 DEF Configure, EmptyUsed, Queues
        <4>2. Ahead(0, 0) = 0
          BY RingSizes, Distances
        <4> QED
          BY <3>2, <4>1, <4>2 DEF Unseen, Done
      <3> QED
        BY <3>3, <3>4, <3>2
    <2>2. InUsed' = [k \in 1..0 |-> Contents(buffer[UsedAt(k - 1).id], UsedAt(k - 1).len)']
      BY <2>1 DEF InUsed
    <2>3. InUsed' \in [1..0 -> Seq(Cells)]
      BY <2>2
    <2>4. InUsed' \in Seq(Seq(Cells)) /\ Len(InUsed') = 0
      BY <2>3, Listed
    <2> QED
      BY <2>4, EmptySeq
  <1>4. /\ got \in Seq(Seq(Cells)) /\ InUsed \in Seq(Seq(Cells))
        /\ InSequence(got \o InUsed, Newest)
    BY <1>0 DEF Received
  <1>5. InSequence(got, Newest)
    BY <1>n, <1>4, SequenceSteps
  <1>6. got' \o InUsed' = got
    BY <1>1, <1>3, <1>4, ConcatEmptySeq
  <1>7. Received'
    <2>1. Received' <=> /\ got' \in Seq(Seq(Cells)) /\ InUsed' \in Seq(Seq(Cells))
                        /\ InSequence(got' \o InUsed', Newest')
      BY DEF Received, InSequence, Fit, Bytes, Least, Room, Total, Start
    <2> QED
      BY <1>1, <1>n, <1>3, <1>4, <1>5, <1>6, <2>1, EmptySeq
  <1> QED
    BY <1>2, <1>7

(* Every other step of either thread leaves the received frames alone.     *)
LEMMA RxOrderStep ==
    ASSUME NetInv, DmaInv, RxOrder, [Next]_vars
    PROVE  RxOrder'
  <1>0. Control /\ Registers /\ GuestMemory /\ TxRing /\ Quiet /\ Numbers /\ InHand /\ Received
    BY DEF NetInv, RxOrder
  <1>1. Numbers' /\ Newest \in Nat /\ Newest' \in Nat /\ Newest <= Newest'
    BY <1>0, NumbersStep
  <1>2. CASE Reset \/ Configure
    BY <1>1, <1>2, ResetReceives DEF RxOrder
  <1>3. CASE Reap \/ Inject
    <2>1. cpu # <<"down">>
      <3>1. CASE Reap
        BY <3>1 DEF Reap
      <3>2. CASE Inject
        BY <1>0, <3>2, InjectIsInside DEF Control, Quiet
      <3> QED
        BY <1>3, <3>1, <3>2
    <2>2. RxRing
      BY <2>1 DEF DmaInv
    <2> QED
      BY <1>1, <1>3, <2>2, ReapReceives, InjectReceives DEF RxOrder
  <1>4. ASSUME ~Reset, ~Configure, ~Reap, ~Inject
        PROVE  /\ UNCHANGED <<got, buffer>> /\ used'[RXQ] = used[RXQ] /\ seen'[RXQ] = seen[RXQ]
               /\ cpu' = <<"down">> <=> cpu = <<"down">>
               /\ \/ UNCHANGED <<poll, rxNext, head>>
                  \/ poll' \in RestPhases \cup CallPhases \cup {InjectOrder}
    <2>1. CASE Driver \/ Handler \/ Device
      <3>1. UNCHANGED <<buffer, got, poll, rxNext, head, seen>>
        BY <1>4, <2>1 DEF Driver, PostTx, PostRx, Notify, Handler, Claim, Complete, ReadStatus, Ack,
                Device, TxFrame, Enqueue, Wake, TxDone, driver, bounds
      <3>2. cpu # <<"down">> /\ cpu' # <<"down">>
        BY <1>0, <1>4, <2>1, StaysUp
      <3>3. used'[RXQ] = used[RXQ]
        <4>1. UNCHANGED used \/ \E e : used' = Pushed(used, TXQ, e)
          BY <1>4, <2>1 DEF Driver, PostTx, PostRx, Notify, Handler, Claim, Complete, ReadStatus, Ack,
                  Device, TxFrame, Enqueue, Wake, TxDone, rings, Pushed
        <4>2. used \in Rings(UsedEntries) /\ RXQ \in Queues /\ TXQ \in Queues /\ RXQ # TXQ
          BY <1>0, RxTypes
        <4> QED
          BY <4>1, <4>2, OtherQueue
      <3> QED
        BY <3>1, <3>2, <3>3
    <2>2. CASE PollThread
      <3>1. UNCHANGED <<buffer, used, got, seen, cpu>>
        BY <1>4, <2>2 DEF PollThread, PollReturns, Drain, Swap, Input, Sockets, cb_notify,
                InjectLock, cpuVars, driver
      <3>2. poll' \in RestPhases \cup CallPhases \cup {InjectOrder}
        <4>1. CASE PollReturns \/ Drain \/ Swap
          BY <4>1 DEF PollReturns, Drain, Swap, RestPhases
        <4>2. CASE Input \/ Sockets
          BY <4>2 DEF Input, Sockets, SlirpActs, RestPhases, CallPhases
        <4>3. CASE cb_notify \/ InjectLock
          <5>1. poll \in CallPhases /\ (poll' = back \/ poll' = InjectOrder)
            BY <4>3 DEF cb_notify, InjectLock, Returns, CallPhases
          <5>2. back \in {<<"input">>, <<"poll">>}
            BY <1>0, <5>1 DEF Control, CallPhases
          <5> QED
            BY <5>1, <5>2 DEF RestPhases
        <4> QED
          BY <1>4, <2>2, <4>1, <4>2, <4>3 DEF PollThread
      <3> QED
        BY <3>1, <3>2
    <2>3. CASE UNCHANGED vars
      BY <2>3 DEF vars, rings, driver, bounds
    <2> QED
      BY <1>4, <2>1, <2>2, <2>3 DEF Next
  <1>5. CASE ~Reset /\ ~Configure /\ ~Reap /\ ~Inject
    <2>1. Done' = Done /\ \A k : UsedAt(k)' = UsedAt(k)
      BY <1>4, <1>5 DEF Done, UsedAt
    <2>2. InUsed' = InUsed
      BY <1>4, <1>5, <2>1, InUsedKept
    <2>3. Received'
      BY <1>0, <1>1, <1>4, <1>5, <2>2, ReceivedKept
    <2>4. InHand'
      <3>1. CASE UNCHANGED <<poll, rxNext, head>>
        BY <1>0, <1>4, <1>5, <2>1, <3>1 DEF InHand, Contents, UsedLength, Fit
      <3>2. CASE poll' \in RestPhases \cup CallPhases \cup {InjectOrder}
        <4>1. poll' \notin {<<"entry", "index", "raise">>, <<"index", "raise">>}
          BY <3>2 DEF RestPhases, CallPhases, InjectOrder
        <4> QED
          BY <4>1 DEF InHand
      <3> QED
        BY <1>4, <1>5, <3>1, <3>2
    <2> QED
      BY <1>1, <2>3, <2>4 DEF RxOrder
  <1> QED
    BY <1>2, <1>3, <1>5

(* Nothing has been sent when it starts.                                   *)
LEMMA RxOrderInit == ASSUME Init PROVE RxOrder
  <1>0. NetInv
    BY NetInit
  <1>1. cpu = <<"down">> /\ poll = <<"poll">> /\ got = <<>> /\ rxNext = 1
    BY DEF Init
  <1>2. poll \notin Injecting /\ poll # <<"lock">>
    BY <1>1 DEF Injecting
  <1>3. Numbers
    BY <1>1, <1>2, NetAssumption DEF Numbers
  <1>4. InHand
    BY <1>2 DEF InHand, Injecting
  <1>5. Received
    <2>1. InUsed = <<>>
      BY <1>0, <1>1, UnseenIs DEF NetInv
    <2>2. /\ <<>> \in Seq(Seq(Cells)) /\ got \o InUsed = <<>>
      BY <1>1, <2>1, EmptySeq, ConcatEmptySeq
    <2>3. DOMAIN <<>> = {}
      OBVIOUS
    <2>4. \A last : InSequence(<<>>, last)
      BY <2>3 DEF InSequence
    <2> QED
      BY <1>1, <2>1, <2>2, <2>4 DEF Received
  <1> QED
    BY <1>3, <1>4, <1>5 DEF RxOrder

(* What it says of the frames a driver can see is what RxIntact says.      *)
LEMMA RxOrderIsIntact == ASSUME NetInv, RxOrder PROVE RxIntact
  <1>0. Registers /\ GuestMemory /\ TxRing /\ Numbers /\ Received
    BY DEF NetInv, RxOrder
  <1> DEFINE Entry(k) == used[RXQ].ring[Slot(seen[RXQ] + k - 1)]
             u == IF cpu = <<"down">> THEN 0 ELSE Ahead(used[RXQ].idx, seen[RXQ])
             l == [k \in 1..u |-> Contents(buffer[Entry(k).id], Entry(k).len)]
             F == got \o l
  <1>1. u = Unseen /\ Unseen \in Nat /\ seen[RXQ] \in Nat
    BY <1>0, UnseenIs, RxTypes, RingSizes DEF Unseen, Done
  <1>2. \A k \in 1..u : Entry(k) = UsedAt(k - 1)
    <2> TAKE k \in 1..u
    <2>1. seen[RXQ] + k - 1 = seen[RXQ] + (k - 1)
      BY <1>1
    <2> QED
      BY <2>1 DEF UsedAt, At
  <1>3. l = InUsed
    BY <1>1, <1>2 DEF InUsed
  <1>4. F \in Seq(Seq(Cells)) /\ InSequence(F, Newest)
    <2>1. got \in Seq(Seq(Cells)) /\ InUsed \in Seq(Seq(Cells)) /\ InSequence(got \o InUsed, Newest)
      BY <1>0 DEF Received
    <2> HIDE DEF l
    <2> QED
      BY <1>3, <2>1, ConcatProperties
  <1>5. Newest \in Nat /\ rxNext - 1 \in Nat /\ Newest <= rxNext - 1
    <2>1. rxNext \in Nat \ {0} /\ (poll \in {<<"lock">>} \cup Injecting => rxNext >= 2)
      BY <1>0 DEF TxRing, Numbers
    <2> QED
      BY <2>1 DEF Newest
  <1> HIDE DEF F
  <1>6. InSequence(F, rxNext - 1)
    BY <1>4, <1>5, SequenceSteps
  <1>7. /\ \A i \in DOMAIN F :
              \E n \in 1..(rxNext - 1), b \in Slots : F[i] = Bytes(n, Least(RxLengths[n], Room(b)))
        /\ \A i, j \in DOMAIN F : i < j => F[i][1][1] < F[j][1][1]
    BY <1>6 DEF InSequence, Fit
  <1> QED
    BY <1>7, Zenon DEF RxIntact, F

(* What the driver finds on the receive ring is whole and new, each frame  *)
(* once and in the order slirp sent them, wherever the poll thread is and  *)
(* whatever the driver posts, reaps or resets (rx_inject, push_used).      *)
THEOREM FramesAreReceived == Spec => []RxIntact
  <1>1. Init => DmaInv /\ RxOrder
    BY RxOrderInit DEF Init, DmaInv
  <1>2. NetInv /\ DmaInv /\ RxOrder /\ [Next]_vars => DmaInv' /\ RxOrder'
    BY DmaInvStep, RxOrderStep
  <1>3. NetInv /\ RxOrder => RxIntact
    BY RxOrderIsIntact
  <1> QED
    BY <1>1, <1>2, <1>3, NetInvHolds, PTL DEF Spec

-----------------------------------------------------------------------------
(* No wake-up is lost.  These are the safety halves of TxDelivered and     *)
(* UsedNoticed: whoever has something to do has been told, or is about to. *)

\* A frame in the queue has a byte in the pipe, one about to be written, or the
\* poll thread about to take the queue.
FrameAnnounced ==
    tx_queue # <<>> => pipe > 0 \/ poll = <<"swap">> \/ cpu = <<"wake">>

\* A used entry the driver has not seen has an interrupt that will tell it of
\* the entry, one about to be raised, or a handler that has yet to look - or it
\* is a frame whose raise the driver's own completion has dropped, after its
\* last look and with no raise since.
UsedAnnounced ==
    cpu # <<"down">> => \A q \in Queues : used[q].idx # seen[q] =>
        \/ q = TXQ /\ cpu \in Sending
        \/ q = RXQ /\ poll = <<"raise">>
        \/ cpu \in {<<"ack">>, <<"reap">>}
        \/ interrupt_status = 1 /\ (irq \/ cpu = <<"status">>)
        \/ q = RXQ /\ missed

\* At the end of its handler the driver has reaped what it sent: only the poll
\* thread can raise between then and the completion.
ReapedAtEoi == cpu = <<"eoi">> => used[TXQ].idx = seen[TXQ]

UsedInv == UsedAnnounced /\ ReapedAtEoi

(* Only Enqueue fills the queue, and Wake follows it; a byte is drained    *)
(* only in front of Swap (platform_send, poll_thread_func).                *)
LEMMA FrameAnnouncedStep ==
    ASSUME Control, FrameAnnounced, [Next]_vars
    PROVE  FrameAnnounced'
  <1>0. /\ cpu \in Phases /\ poll \in PollPhases /\ pipe \in Nat
        /\ PipeSize \in Nat
    BY NetAssumption DEF Control
  <1>1. CASE Configure \/ PostTx \/ PostRx \/ Reset \/ Notify \/ Handler \/ TxFrame \/ TxDone
    <2>1. UNCHANGED <<tx_queue, pipe, poll>> /\ cpu # <<"wake">>
      <3>1. CASE Configure \/ PostTx \/ PostRx \/ Reset \/ Notify
        BY <3>1 DEF Configure, PostTx, PostRx, Reset, Notify, bounds
      <3>2. CASE Handler
        BY <3>2, HandlerPhases
      <3>3. CASE TxFrame \/ TxDone
        BY <3>3 DEF TxFrame, TxDone
      <3> QED
        BY <1>1, <3>1, <3>2, <3>3
    <2> QED
      BY <2>1 DEF FrameAnnounced
  <1>2. CASE Enqueue
    <2>1. cpu = <<"enqueue", "wake">>
      BY <1>0, <1>2, SendPhases DEF Enqueue
    <2>2. cpu' = <<"wake">>
      BY <1>2, <2>1, SendPhases DEF Enqueue, CpuNext
    <2> QED
      BY <2>2 DEF FrameAnnounced
  <1>3. CASE Wake
    <2>1. pipe' = pipe + 1
      BY <1>3 DEF Wake
    <2> QED
      BY <1>0, <2>1 DEF FrameAnnounced
  <1>4. CASE PollReturns \/ Input \/ Sockets \/ InjectLock \/ Inject
    <2>1. UNCHANGED <<tx_queue, pipe, cpu>>
      BY <1>4 DEF PollReturns, Input, Sockets, InjectLock, Inject, cpuVars
    <2>2. poll # <<"swap">>
      <3>1. CASE Inject
        BY <1>0, <3>1, InjectIsInside DEF Injecting
      <3> QED
        BY <1>4, <3>1 DEF PollReturns, Input, Sockets, InjectLock
    <2> QED
      BY <2>1, <2>2 DEF FrameAnnounced
  <1>5. CASE Drain
    BY <1>5 DEF Drain, FrameAnnounced
  <1>6. CASE Swap
    BY <1>6 DEF Swap, FrameAnnounced
  <1>7. CASE cb_notify
    <2>1. pipe' = pipe + 1
      BY <1>7 DEF cb_notify
    <2> QED
      BY <1>0, <2>1 DEF FrameAnnounced
  <1>8. CASE UNCHANGED vars
    BY <1>8 DEF vars, FrameAnnounced
  <1> QED
    BY <1>1, <1>2, <1>3, <1>4, <1>5, <1>6, <1>7, <1>8 DEF Next, Driver, Device, PollThread

(* No frame waits in the queue with the poll thread left asleep, however   *)
(* slirp's own wake-ups and the device's interleave.                       *)
THEOREM FramesAreAnnounced == Spec => []FrameAnnounced
  <1>1. Init => FrameAnnounced
    BY DEF Init, FrameAnnounced
  <1>2. NetInv /\ FrameAnnounced /\ [Next]_vars => FrameAnnounced'
    BY FrameAnnouncedStep DEF NetInv
  <1> QED
    BY <1>1, <1>2, NetInvHolds, PTL DEF Spec

(* The driver's handler: it acknowledges before it looks at the rings, and *)
(* a completion before that look drops nothing the look does not find.     *)
LEMMA HandlerKeepsAnnounced ==
    ASSUME NetInv, UsedInv, Handler
    PROVE  UsedInv'
  <1>0. Control /\ Registers /\ GuestMemory /\ cpu \in Phases
    BY DEF NetInv, Control
  <1>1. /\ UNCHANGED <<used, poll>> /\ cpu \notin Sending /\ cpu # <<"down">>
        /\ \A q \in Queues : q = TXQ \/ q = RXQ
        /\ TXQ \in Queues /\ RXQ \in Queues /\ RXQ # TXQ
    BY HandlerPhases DEF rings, Sending, Queues, TXQ, RXQ
  <1>2. CASE Claim
    <2>1. /\ cpu = <<"guest">> /\ cpu' = <<"status">>
          /\ UNCHANGED <<seen, interrupt_status, missed>>
      BY <1>2 DEF Claim, driver
    <2> QED
      BY <1>1, <2>1 DEF UsedInv, UsedAnnounced, ReapedAtEoi
  <1>3. CASE ReadStatus
    <2>1. cpu = <<"status">> /\ UNCHANGED <<seen, interrupt_status, irq, missed>>
          /\ (interrupt_status = 1 => cpu' = <<"ack">>)
      BY <1>3 DEF ReadStatus, driver, plic
    <2>2. CASE interrupt_status = 1
      BY <1>1, <2>1, <2>2 DEF UsedInv, UsedAnnounced, ReapedAtEoi
    <2>3. CASE interrupt_status # 1
      <3>1. \A q \in Queues : used[q].idx # seen[q] =>
                q = RXQ /\ (poll = <<"raise">> \/ missed)
        BY <1>1, <2>1, <2>3 DEF UsedInv, UsedAnnounced
      <3> QED
        BY <1>1, <2>1, <3>1 DEF UsedInv, UsedAnnounced, ReapedAtEoi
    <2> QED
      BY <2>2, <2>3
  <1>4. CASE Ack
    BY <1>4 DEF Ack, UsedInv, UsedAnnounced, ReapedAtEoi
  <1>5. CASE Reap
    <2>1. CASE cpu' = cpu
      BY <1>5, <2>1 DEF Reap, UsedInv, UsedAnnounced, ReapedAtEoi
    <2>2. CASE cpu' # cpu
      <3>1. used[RXQ].idx = seen[RXQ] /\ seen' = [seen EXCEPT ![TXQ] = used[TXQ].idx]
        BY <1>5, <2>2 DEF Reap
      <3>2. \A q \in Queues : used'[q].idx = seen'[q]
        BY <1>0, <1>1, <3>1 DEF Registers
      <3> QED
        BY <1>1, <3>2 DEF UsedInv, UsedAnnounced, ReapedAtEoi
    <2> QED
      BY <2>1, <2>2
  <1>6. CASE Complete
    <2>1. /\ cpu \in {<<"status">>, <<"ack">>, <<"reap">>, <<"eoi">>}
          /\ cpu # <<"eoi">> => cpu' = cpu
          /\ cpu = <<"eoi">> => cpu' = <<"guest">> /\ (irq \/ missed => missed')
          /\ missed => missed'
          /\ UNCHANGED <<seen, interrupt_status>>
      BY <1>6 DEF Complete, driver
    <2>2. CASE cpu # <<"eoi">>
      BY <1>1, <2>1, <2>2 DEF UsedInv, UsedAnnounced, ReapedAtEoi
    <2>3. CASE cpu = <<"eoi">>
      <3>1. used[TXQ].idx = seen[TXQ]
        BY <2>3 DEF UsedInv, ReapedAtEoi
      <3>2. used[RXQ].idx # seen[RXQ] => poll = <<"raise">> \/ irq \/ missed
        BY <1>1, <2>3 DEF UsedInv, UsedAnnounced
      <3> QED
        BY <1>1, <2>1, <2>3, <3>1, <3>2 DEF UsedInv, UsedAnnounced, ReapedAtEoi
    <2> QED
      BY <2>2, <2>3
  <1> QED
    BY <1>2, <1>3, <1>4, <1>5, <1>6 DEF Handler

(* The device on the CPU thread: the raise comes after the loop, with the  *)
(* lock held throughout (process_tx_queue).                                *)
LEMMA SendKeepsAnnounced ==
    ASSUME NetInv, UsedInv, Device
    PROVE  UsedInv'
  <1>0. Control /\ Registers /\ GuestMemory /\ cpu \in Phases
    BY DEF NetInv, Control
  <1>1. /\ RXQ \in Queues /\ TXQ \in Queues /\ RXQ # TXQ
        /\ \A q \in Queues : q = TXQ \/ q = RXQ
        /\ used \in Rings(UsedEntries)
    BY <1>0, RxTypes DEF Queues
  <1>2. UNCHANGED <<seen, poll>>
    BY DEF Device, TxFrame, Enqueue, Wake, TxDone, driver
  <1>3. CASE TxFrame \/ Enqueue \/ Wake
    <2>1. queue_mutex' = queue_mutex /\ cpu \in Sending
      BY <1>0, <1>3, SendPhases DEF TxFrame, Enqueue, Wake, Sending
    <2>2. Control'
      BY <1>0, CpuKeepsControl
    <2>3. cpu' \in Sending
      BY <1>0, <2>1, <2>2 DEF Control
    <2>4. UNCHANGED <<interrupt_status, irq, missed>> /\ used'[RXQ] = used[RXQ]
      <3>1. CASE TxFrame
        <4>1. \E e : used' = Pushed(used, TXQ, e)
          BY <3>1 DEF TxFrame, Pushed
        <4>2. UNCHANGED <<interrupt_status, irq, missed>>
          BY <3>1 DEF TxFrame, plic
        <4> QED
          BY <1>1, <4>1, <4>2, OtherQueue
      <3>2. CASE Enqueue \/ Wake
        BY <3>2 DEF Enqueue, Wake, rings, plic
      <3> QED
        BY <1>3, <3>1, <3>2
    <2>5. \A p \in Sending : p \notin {<<"ack">>, <<"reap">>, <<"status">>, <<"down">>, <<"eoi">>}
      BY DEF Sending
    <2>6. used[RXQ].idx # seen[RXQ] =>
              poll = <<"raise">> \/ (interrupt_status = 1 /\ irq) \/ missed
      BY <1>1, <2>1, <2>5 DEF UsedInv, UsedAnnounced
    <2> QED
      BY <1>1, <1>2, <2>3, <2>4, <2>5, <2>6 DEF UsedInv, UsedAnnounced, ReapedAtEoi
  <1>4. CASE TxDone
    BY <1>4 DEF TxDone, Raise, UsedInv, UsedAnnounced, ReapedAtEoi
  <1> QED
    BY <1>3, <1>4 DEF Device

(* The poll thread: what it has used it raises before it goes on           *)
(* (rx_inject).                                                            *)
LEMMA PollKeepsAnnounced ==
    ASSUME NetInv, UsedInv, PollThread
    PROVE  UsedInv'
  <1>0. Control /\ Registers /\ GuestMemory /\ poll \in PollPhases
    BY DEF NetInv, Control
  <1>1. UNCHANGED <<cpu, seen>>
    BY DEF PollThread, PollReturns, Drain, Swap, Input, Sockets, cb_notify, InjectLock, Inject,
           cpuVars, driver
  <1>2. CASE ~Inject
    <2>1. UNCHANGED <<used, interrupt_status, irq, missed>> /\ poll # <<"raise">>
      BY <1>2 DEF PollThread, PollReturns, Drain, Swap, Input, Sockets, cb_notify, InjectLock,
                  plic
    <2> QED
      BY <1>1, <2>1 DEF UsedInv, UsedAnnounced, ReapedAtEoi
  <1>3. CASE Inject
    <2>1. poll \in Injecting
      BY <1>0, <1>3, InjectIsInside
    <2>2. /\ RXQ \in Queues /\ TXQ \in Queues /\ RXQ # TXQ /\ used \in Rings(UsedEntries)
          /\ \A q \in Queues : q = TXQ \/ q = RXQ
      BY <1>0, RxTypes DEF Queues
    <2>3. CASE Head(poll) = "raise"
      <3>1. interrupt_status' = 1 /\ irq' = TRUE /\ used' = used
        BY <1>3, <2>3 DEF Inject, Raise
      <3> QED
        BY <1>1, <3>1 DEF UsedInv, UsedAnnounced, ReapedAtEoi
    <2>4. CASE Head(poll) # "raise"
      <3>1. UNCHANGED <<interrupt_status, irq, missed>> /\ poll # <<"raise">>
        BY <1>3, <2>1, <2>4, InjectPhases DEF Inject, plic
      <3>2. used'[TXQ] = used[TXQ]
            /\ (used'[RXQ].idx = used[RXQ].idx \/ poll' = <<"raise">>)
        <4>1. CASE Head(poll) = "fill"
          BY <1>3, <4>1 DEF Inject
        <4>2. CASE Head(poll) = "entry"
          <5>1. \E e : used' = WithEntry(used, RXQ, Slot(used[RXQ].idx), e)
            BY <1>3, <4>2 DEF Inject, WithEntry
          <5>2. used'[RXQ].idx = used[RXQ].idx
            BY <2>2, <1>3, <4>2 DEF Inject, Rings
          <5> QED
            BY <2>2, <5>1, <5>2, OtherQueue
        <4>3. CASE Head(poll) = "index"
          <5>1. used' = WithIndex(used, RXQ)
            BY <1>3, <4>3 DEF Inject, WithIndex
          <5>2. poll' = <<"raise">>
            BY <1>3, <2>1, <4>3, InjectPhases, InjectTails DEF Inject, InjectNext
          <5> QED
            BY <2>2, <5>1, <5>2, OtherQueue
        <4> QED
          BY <2>1, <2>4, <4>1, <4>2, <4>3, InjectPhases
      <3> QED
        BY <1>1, <2>2, <3>1, <3>2 DEF UsedInv, UsedAnnounced, ReapedAtEoi
    <2> QED
      BY <2>3, <2>4
  <1> QED
    BY <1>2, <1>3

(* An entry the driver has not seen is never left behind with no interrupt *)
(* to come: the acknowledgement, the device's raise, the completion and    *)
(* the resets cross in any order (INT_STATUS, INT_ACK, rx_inject,          *)
(* process_tx_queue).  The completion alone loses one, when it comes after *)
(* the handler's last look, and until the next raise (plic.cpp, line 56).  *)
THEOREM UsedAreAnnounced == Spec => []UsedAnnounced
  <1>1. Init => UsedInv
    BY DEF Init, UsedInv, UsedAnnounced, ReapedAtEoi
  <1>2. ASSUME NetInv, UsedInv, [Next]_vars
        PROVE  UsedInv'
    <2>1. CASE Configure
      <3>1. (\A q \in Queues : used'[q].idx = seen'[q]) /\ cpu' = <<"guest">>
        BY <2>1 DEF Configure, EmptyUsed
      <3> QED
        BY <3>1 DEF UsedInv, UsedAnnounced, ReapedAtEoi
    <2>2. CASE Reset
      BY <2>2 DEF Reset, UsedInv, UsedAnnounced, ReapedAtEoi
    <2>3. CASE PostTx \/ PostRx \/ Notify
      <3>1. /\ UNCHANGED <<used, seen, poll, interrupt_status, irq, missed>> /\ cpu = <<"guest">>
            /\ cpu' \in {<<"guest">>, <<"tx">>}
        BY <2>3 DEF PostTx, PostRx, Notify, rings, driver, plic
      <3>2. cpu \notin Sending \cup {<<"ack">>, <<"reap">>, <<"status">>, <<"down">>}
        BY <3>1 DEF Sending
      <3>3. \A q \in Queues : used[q].idx # seen[q] =>
                \/ q = RXQ /\ (poll = <<"raise">> \/ missed)
                \/ interrupt_status = 1 /\ irq
        BY <1>2, <3>2 DEF UsedInv, UsedAnnounced
      <3> QED
        BY <3>1, <3>3 DEF UsedInv, UsedAnnounced, ReapedAtEoi
    <2>4. CASE UNCHANGED vars
      <3>1. UNCHANGED <<used, seen, poll, interrupt_status, irq, missed, cpu>>
        BY <2>4 DEF vars, rings, driver, plic
      <3> QED
        BY <1>2, <3>1 DEF UsedInv, UsedAnnounced, ReapedAtEoi
    <2>5. CASE Handler \/ Device \/ PollThread
      BY <1>2, <2>5, HandlerKeepsAnnounced, SendKeepsAnnounced, PollKeepsAnnounced
    <2> QED
      BY <1>2, <2>1, <2>2, <2>3, <2>4, <2>5 DEF Next, Driver
  <1>3. UsedInv => UsedAnnounced
    BY DEF UsedInv
  <1> QED
    BY <1>1, <1>2, <1>3, NetInvHolds, PTL DEF Spec
=============================================================================
