------------------------------ MODULE VirtioNet ------------------------------
(***************************************************************************)
(* The virtio network device and the thread that drives libslirp           *)
(* (src/devices/virtio_net/).                                              *)
(*                                                                         *)
(* Two threads meet here.  The CPU thread runs the guest's driver and the  *)
(* device's register writes, under queue_mutex_: a notify walks the        *)
(* transmit ring, hands each frame over in tx_queue (under tx_mutex) and   *)
(* writes a byte into the wakeup pipe.  The poll thread sleeps in poll(),  *)
(* drains ONE byte, takes the whole tx_queue, feeds slirp, and injects the *)
(* frames slirp sends into the receive ring, again under queue_mutex_.     *)
(* The rings live in guest memory, which neither mutex protects.           *)
(*                                                                         *)
(* Frames are numbered in the order they are made, and byte i of frame n   *)
(* is <<n, i>>.  Ring indices are modulo IdxMod (2^16 in the code), slots  *)
(* modulo QUEUE_SIZE.  A frame behind its header lies in the descriptors   *)
(* of a chain, which is given by their lengths.  tx_mutex guards two short *)
(* sections, which are one step each.                                      *)
(***************************************************************************)
EXTENDS Integers, Sequences, SequencesExt

CONSTANTS
    QUEUE_SIZE, IdxMod,
    NET_HDR_SIZE,
    TxChains,      \* the chains of the frames the guest sends, in order
    RxChains,      \* the chain of each receive buffer
    RxLengths,     \* the lengths of the frames slirp sends, in order
    PipeSize,      \* the bytes the wakeup pipe holds
    MaxEvents      \* BOUND: frames sent by the guest and by the network,
                   \* wake-ups libslirp asks for and device resets, together;
                   \* of the last two at most one each

ASSUME NetAssumption ==
    /\ QUEUE_SIZE \in Nat \ {0} /\ IdxMod \in Nat
    /\ IdxMod > QUEUE_SIZE /\ IdxMod % QUEUE_SIZE = 0
    /\ PipeSize \in Nat \ {0}
    /\ MaxEvents \in Nat
    /\ NET_HDR_SIZE \in Nat \ {0}
    /\ TxChains \in Seq(Seq(Nat)) /\ Len(TxChains) >= MaxEvents
    /\ RxLengths \in Seq(Nat \ {0}) /\ Len(RxLengths) >= MaxEvents
    /\ DOMAIN RxChains = 0..(QUEUE_SIZE - 1)
    \* The driver's part: a first descriptor holds the header, and a buffer
    \* holds more than that.
    /\ \A n \in DOMAIN TxChains : TxChains[n] # <<>> /\ TxChains[n][1] >= NET_HDR_SIZE
    /\ \A b \in DOMAIN RxChains :
          /\ RxChains[b] \in Seq(Nat) \ {<<>>} /\ RxChains[b][1] >= NET_HDR_SIZE
          /\ \E d \in DOMAIN RxChains[b] :
                RxChains[b][d] > IF d = 1 THEN NET_HDR_SIZE ELSE 0

RXQ == 0
TXQ == 1
Queues == {RXQ, TXQ}
Slots == 0..(QUEUE_SIZE - 1)
Slot(i) == i % QUEUE_SIZE
Ahead(i, j) == (i - j) % IdxMod     \* how far index i is ahead of index j

-----------------------------------------------------------------------------
(* Descriptor chains. *)

Bytes(n, len) == [i \in 1..len |-> <<n, i>>]
Header == Bytes(0, NET_HDR_SIZE)
Stale(len) == [i \in 1..len |-> <<0, 0>>]      \* what a buffer holds at first

Least(a, b) == IF a < b THEN a ELSE b

\* How many bytes the descriptors before the d-th hold.
Start(chain, d) ==
    LET start[k \in 0..Len(chain)] == IF k = 0 THEN 0 ELSE start[k - 1] + chain[k]
    IN  start[d - 1]

Total(chain) == Start(chain, Len(chain) + 1)

\* The header is in front of the first descriptor's bytes only.
Skip(d) == IF d = 1 THEN NET_HDR_SIZE ELSE 0

Payload(n) == Bytes(n, Total(TxChains[n]) - NET_HDR_SIZE)

\* process_tx_queue's walk of the chain of frame n: what it sends.
Gathered(n) ==
    LET chain == TxChains[n]
        memory == Header \o Payload(n)
        Piece(d) == SubSeq(memory, Start(chain, d) + 1 + Skip(d), Start(chain, d + 1))
    IN  FlattenSeq([d \in DOMAIN chain |-> Piece(d)])

\* rx_inject's walk of a chain: what is written after d descriptors, header
\* included, when it puts a frame of length len into it.
Written(chain, len) ==
    LET written[d \in 0..Len(chain)] ==
            IF d = 0 THEN 0
            ELSE IF d = 1 THEN NET_HDR_SIZE + Least(len, chain[1] - NET_HDR_SIZE)
            ELSE LET offset == written[d - 1] - NET_HDR_SIZE
                     remaining == IF len > offset THEN len - offset ELSE 0
                 IN  written[d - 1] + Least(remaining, chain[d])
    IN  written

\* The descriptors' contents when it has: bytes it does not reach stay.
Scattered(old, chain, n, len) ==
    LET written == Written(chain, len)
        packet == Header \o Bytes(n, len)
    IN  [d \in DOMAIN chain |-> [i \in 1..chain[d] |->
            IF i <= written[d] - written[d - 1] THEN packet[written[d - 1] + i]
            ELSE old[d][i]]]

\* The used length of the entry.
UsedLength(b, n) == Written(RxChains[b], RxLengths[n])[Len(RxChains[b])]

\* What the driver finds in a used buffer.
Contents(descs, len) == SubSeq(FlattenSeq(descs), NET_HDR_SIZE + 1, len)

-----------------------------------------------------------------------------
Next16_NoWrap(i) == i + 1

Next16(i) == (i + 1) % IdxMod

VARIABLES
    queue_mutex,   \* "free", "cpu" or "poll"
    ready, last_avail_idx, interrupt_status,      \* the device's registers
    irq,           \* the PLIC's pending bit for the device
    held,          \* the guest has claimed the source and not completed it
    missed,        \* history: a completion has dropped a raise that came after
                   \* the handler's last look at the used ring
    avail, used,   \* the rings in guest memory: [idx, ring]; a used entry
                   \* is [id, len]
    tx_queue, pipe,
    cpu,           \* the CPU thread: "guest", "down", "tx", "status", "ack",
                   \* "reap", "eoi", or what is left to do of platform_send
    frame,         \* the frame process_tx_queue has gathered, and ...
    avail_idx,     \* ... the index it read before its loop
    seen,          \* the used index the driver has reaped up to, per queue
    owner,         \* who may write a receive buffer: "driver" or "device"
    buffer,        \* what its descriptors hold
    poll,          \* the poll thread: "poll", "drain", "swap", "input",
                   \* "sockets", "notify", "lock", or what is left of rx_inject
    local,         \* the frames it took
    back,          \* where rx_inject and cb_notify return to (NoCall outside)
    head,          \* the buffer rx_inject fills
    wire,          \* the frames slirp was fed
    got,           \* what the driver received
    txNext, rxNext, notifies, resets

device == <<ready, last_avail_idx>>
plic   == <<irq, held, missed>>
rings  == <<avail, used>>
driver == <<seen, owner, got, txNext>>
bounds == <<rxNext, notifies, resets>>
vars == <<queue_mutex, device, interrupt_status, plic, rings, tx_queue, pipe,
          cpu, frame, avail_idx, driver, buffer, poll, local, back, head, wire,
          bounds>>

\* An entry not posted yet names the first frame, or the first buffer.
EmptyRings ==
    [q \in Queues |-> [idx |-> 0, ring |-> [s \in Slots |-> IF q = TXQ THEN 1 ELSE 0]]]

EmptyUsed == [idx |-> 0, ring |-> [s \in Slots |-> [id |-> 0, len |-> 0]]]

NoCall == <<>>      \* nothing to return to: the call is over

Init ==
    /\ queue_mutex = "free"
    /\ ready = [q \in Queues |-> FALSE]
    /\ last_avail_idx = [q \in Queues |-> 0]
    /\ interrupt_status = 0 /\ irq = FALSE /\ held = FALSE /\ missed = FALSE
    /\ avail = EmptyRings /\ used = [q \in Queues |-> EmptyUsed]
    /\ tx_queue = <<>> /\ pipe = 0
    /\ cpu = <<"down">> /\ frame = <<>> /\ avail_idx = 0
    /\ seen = [q \in Queues |-> 0]
    /\ owner = [s \in Slots |-> "driver"]
    /\ buffer = [s \in Slots |-> [d \in DOMAIN RxChains[s] |-> Stale(RxChains[s][d])]]
    /\ poll = <<"poll">> /\ local = <<>> /\ back = NoCall /\ head = 0
    /\ wire = <<>> /\ got = <<>>
    /\ txNext = 1 /\ rxNext = 1 /\ notifies = 0 /\ resets = 0

Bounded == (txNext - 1) + (rxNext - 1) + notifies + resets < MaxEvents

PutAvail(q, entry) ==
    avail' = [avail EXCEPT ![q].ring[Slot(avail[q].idx)] = entry,
                           ![q].idx = Next16(@)]

-----------------------------------------------------------------------------
(* The guest's driver: external, but for the registers it writes. *)

\* Outside the lock: the driver fills its rings.
PostTx ==
    /\ cpu = <<"guest">> /\ Bounded
    /\ Ahead(avail[TXQ].idx, seen[TXQ]) < QUEUE_SIZE
    /\ PutAvail(TXQ, txNext)
    /\ txNext' = txNext + 1
    /\ UNCHANGED <<queue_mutex, device, interrupt_status, plic, used, tx_queue,
                   pipe, cpu, frame, avail_idx, seen, owner, got, buffer, poll,
                   local, back, head, wire, bounds>>

PostRx ==
    /\ cpu = <<"guest">>
    /\ \E s \in Slots :
          /\ owner[s] = "driver"
          /\ PutAvail(RXQ, s)
          /\ owner' = [owner EXCEPT ![s] = "device"]
    /\ UNCHANGED <<queue_mutex, device, interrupt_status, plic, used, tx_queue,
                   pipe, cpu, frame, avail_idx, seen, got, txNext, buffer,
                   poll, local, back, head, wire, bounds>>

CpuMayLock_NoMutex == TRUE

\* The lock_guard of read32 and write32.
CpuMayLock == queue_mutex = "free"

\* After a reset, with the device quiet: new rings, then QUEUE_READY.  What
\* was posted and not taken is posted again later.
Configure ==
    /\ cpu = <<"down">> /\ CpuMayLock
    /\ avail' = EmptyRings
    /\ used' = [q \in Queues |-> EmptyUsed]
    /\ seen' = [q \in Queues |-> 0]
    /\ owner' = [s \in Slots |-> "driver"]
    /\ txNext' = txNext - Ahead(avail[TXQ].idx, used[TXQ].idx)
    /\ ready' = [q \in Queues |-> TRUE]
    /\ cpu' = <<"guest">>
    /\ UNCHANGED <<queue_mutex, last_avail_idx, interrupt_status, plic, tx_queue,
                   pipe, frame, avail_idx, got, buffer, poll, local, back,
                   head, wire, bounds>>

ResetIndices_Kept == last_avail_idx

ResetIndices == [q \in Queues |-> 0]

\* write32: VIRTIO_STATUS with 0.
Reset ==
    /\ cpu = <<"guest">> /\ CpuMayLock /\ Bounded /\ resets = 0
    /\ resets' = resets + 1
    /\ ready' = [q \in Queues |-> FALSE]
    /\ last_avail_idx' = ResetIndices
    /\ interrupt_status' = 0
    /\ owner' = [s \in Slots |-> "driver"]
    /\ cpu' = <<"down">> /\ missed' = FALSE
    /\ UNCHANGED <<queue_mutex, irq, held, rings, tx_queue, pipe, frame, avail_idx,
                   seen, got, txNext, buffer, poll, local, back, head, wire,
                   rxNext, notifies>>

\* The interrupt handler: claim, INT_STATUS, INT_ACK, the used rings, and some
\* time before it returns the completion.
Claim ==
    /\ cpu = <<"guest">> /\ irq
    /\ irq' = FALSE /\ held' = TRUE
    /\ cpu' = <<"status">>
    /\ UNCHANGED <<queue_mutex, device, interrupt_status, missed, rings, tx_queue,
                   pipe, frame, avail_idx, driver, buffer, poll, local, back,
                   head, wire, bounds>>

HandlerDone == cpu' = IF held THEN <<"eoi">> ELSE <<"guest">>

\* The PLIC drops the pending bit, a raise since the claim with it.  Linux
\* completes when its handlers have run; a driver may as well do it before.
Complete ==
    /\ held /\ cpu \in {<<"status">>, <<"ack">>, <<"reap">>, <<"eoi">>}
    /\ irq' = FALSE /\ held' = FALSE
    /\ missed' = (missed \/ (irq /\ cpu = <<"eoi">>))
    /\ cpu' = IF cpu = <<"eoi">> THEN <<"guest">> ELSE cpu
    /\ UNCHANGED <<queue_mutex, device, interrupt_status, rings, tx_queue, pipe,
                   frame, avail_idx, driver, buffer, poll, local, back, head,
                   wire, bounds>>

ReadStatus ==
    /\ cpu = <<"status">> /\ CpuMayLock
    /\ IF interrupt_status = 1 THEN cpu' = <<"ack">> ELSE HandlerDone
    /\ UNCHANGED <<queue_mutex, device, interrupt_status, plic, rings, tx_queue,
                   pipe, frame, avail_idx, driver, buffer, poll, local, back,
                   head, wire, bounds>>

Ack ==
    /\ cpu = <<"ack">> /\ CpuMayLock
    /\ interrupt_status' = 0
    /\ cpu' = <<"reap">>
    /\ UNCHANGED <<queue_mutex, device, plic, rings, tx_queue, pipe, frame,
                   avail_idx, driver, buffer, poll, local, back, head, wire,
                   bounds>>

\* One used entry, or the end of the handler.
Reap ==
    /\ cpu = <<"reap">>
    /\ \/ /\ used[RXQ].idx # seen[RXQ]
          /\ LET e == used[RXQ].ring[Slot(seen[RXQ])] IN
                /\ got' = Append(got, Contents(buffer[e.id], e.len))
                /\ owner' = [owner EXCEPT ![e.id] = "driver"]
          /\ seen' = [seen EXCEPT ![RXQ] = Next16(@)]
          /\ UNCHANGED cpu
       \/ /\ used[RXQ].idx = seen[RXQ]
          /\ seen' = [seen EXCEPT ![TXQ] = used[TXQ].idx]
          /\ HandlerDone
          /\ UNCHANGED <<got, owner>>
    /\ UNCHANGED <<queue_mutex, device, interrupt_status, plic, rings, tx_queue,
                   pipe, frame, avail_idx, txNext, buffer, poll, local, back,
                   head, wire, bounds>>

-----------------------------------------------------------------------------
(* The device on the CPU thread: process_tx_queue, queue_mutex_ held. *)

Notify ==
    /\ cpu = <<"guest">> /\ CpuMayLock /\ ready[TXQ]
    /\ queue_mutex' = "cpu"
    /\ avail_idx' = avail[TXQ].idx
    /\ cpu' = <<"tx">>
    /\ UNCHANGED <<device, interrupt_status, plic, rings, tx_queue, pipe, frame,
                   driver, buffer, poll, local, back, head, wire, bounds>>

SendOrder_WakeFirst == <<"wake", "enqueue">>

\* platform_send: put the frame in the queue, then a byte in the pipe.
SendOrder == <<"enqueue", "wake">>

\* A chain with nothing behind the header is used and sends nothing.
TxFrame ==
    /\ cpu = <<"tx">> /\ last_avail_idx[TXQ] # avail_idx
    /\ LET packet == Gathered(avail[TXQ].ring[Slot(last_avail_idx[TXQ])]) IN
          /\ frame' = packet
          /\ cpu' = IF packet = <<>> THEN <<"tx">> ELSE SendOrder
    /\ used' = [used EXCEPT ![TXQ].ring[Slot(used[TXQ].idx)] =
                                   [id |-> Slot(last_avail_idx[TXQ]), len |-> 0],
                            ![TXQ].idx = Next16(@)]
    /\ last_avail_idx' = [last_avail_idx EXCEPT ![TXQ] = Next16(@)]
    /\ UNCHANGED <<queue_mutex, ready, interrupt_status, plic, avail, tx_queue,
                   pipe, avail_idx, driver, buffer, poll, local, back, head,
                   wire, bounds>>

CpuNext == cpu' = IF Tail(cpu) = <<>> THEN <<"tx">> ELSE Tail(cpu)

Enqueue ==
    /\ Head(cpu) = "enqueue"
    /\ tx_queue' = Append(tx_queue, frame)
    /\ frame' = <<>>
    /\ CpuNext
    /\ UNCHANGED <<queue_mutex, device, interrupt_status, plic, rings, pipe,
                   avail_idx, driver, buffer, poll, local, back, head, wire,
                   bounds>>

\* write(2) on a full pipe blocks.
Wake ==
    /\ Head(cpu) = "wake" /\ pipe < PipeSize
    /\ pipe' = pipe + 1
    /\ CpuNext
    /\ UNCHANGED <<queue_mutex, device, interrupt_status, plic, rings, tx_queue,
                   frame, avail_idx, driver, buffer, poll, local, back, head,
                   wire, bounds>>

Raise ==
    /\ interrupt_status' = 1 /\ irq' = TRUE
    /\ missed' = FALSE /\ UNCHANGED held

TxDone ==
    /\ cpu = <<"tx">> /\ last_avail_idx[TXQ] = avail_idx
    /\ Raise
    /\ queue_mutex' = "free"
    /\ cpu' = <<"guest">>
    /\ avail_idx' = 0
    /\ UNCHANGED <<device, rings, tx_queue, pipe, frame, driver, buffer, poll,
                   local, back, head, wire, bounds>>

-----------------------------------------------------------------------------
(* The poll thread. *)

cpuVars == <<device, avail, cpu, frame, avail_idx, driver>>

\* poll(2) returns: a byte is in the pipe, or a socket or a timer is due.
PollReturns ==
    /\ poll = <<"poll">>
    /\ poll' = IF pipe > 0 THEN <<"drain">> ELSE <<"sockets">>
    /\ UNCHANGED <<cpuVars, queue_mutex, interrupt_status, plic, used, tx_queue,
                   pipe, buffer, local, back, head, wire, bounds>>

Drain ==
    /\ poll = <<"drain">>
    /\ pipe' = pipe - 1
    /\ poll' = <<"swap">>
    /\ UNCHANGED <<cpuVars, queue_mutex, interrupt_status, plic, used, tx_queue,
                   buffer, local, back, head, wire, bounds>>

Swap ==
    /\ poll = <<"swap">>
    /\ local' = tx_queue /\ tx_queue' = <<>>
    /\ poll' = <<"input">>
    /\ UNCHANGED <<cpuVars, queue_mutex, interrupt_status, plic, used, pipe,
                   buffer, back, head, wire, bounds>>

\* What slirp does inside a call: nothing, wake the poll thread, or send the
\* guest a frame.
SlirpActs(ret) ==
    \/ poll' = ret /\ UNCHANGED <<back, rxNext, notifies>>
    \/ /\ Bounded /\ notifies = 0
       /\ notifies' = notifies + 1 /\ poll' = <<"notify">> /\ back' = ret
       /\ UNCHANGED rxNext
    \/ /\ Bounded
       /\ rxNext' = rxNext + 1 /\ poll' = <<"lock">> /\ back' = ret
       /\ UNCHANGED notifies

Returns == poll' = back /\ back' = NoCall

Input ==
    /\ poll = <<"input">>
    /\ IF local = <<>>
       THEN /\ poll' = <<"sockets">>
            /\ UNCHANGED <<local, wire, back, bounds>>
       ELSE /\ wire' = Append(wire, Head(local))
            /\ local' = Tail(local)
            /\ SlirpActs(<<"input">>)
            /\ UNCHANGED resets
    /\ UNCHANGED <<cpuVars, queue_mutex, interrupt_status, plic, used, tx_queue,
                   pipe, buffer, head>>

\* slirp_pollfds_poll and check_ra_timeout.
Sockets ==
    /\ poll = <<"sockets">>
    /\ SlirpActs(<<"poll">>)
    /\ UNCHANGED <<cpuVars, queue_mutex, interrupt_status, plic, used, tx_queue,
                   pipe, buffer, local, head, wire, resets>>

cb_notify ==
    /\ poll = <<"notify">> /\ pipe < PipeSize
    /\ pipe' = pipe + 1
    /\ Returns
    /\ UNCHANGED <<cpuVars, queue_mutex, interrupt_status, plic, used, tx_queue,
                   buffer, local, head, wire, bounds>>

InjectOrder_IndexFirst == <<"fill", "index", "entry", "raise">>

InjectOrder_NoRaise == <<"fill", "entry", "index">>

\* rx_inject and push_used: the frame, the used entry, the used index, then
\* the interrupt.
InjectOrder == <<"fill", "entry", "index", "raise">>

\* Without a buffer to put it in, the frame is dropped.
InjectLock ==
    /\ poll = <<"lock">> /\ queue_mutex = "free"
    /\ IF ready[RXQ] /\ last_avail_idx[RXQ] # avail[RXQ].idx
       THEN /\ queue_mutex' = "poll"
            /\ head' = avail[RXQ].ring[Slot(last_avail_idx[RXQ])]
            /\ poll' = InjectOrder
            /\ UNCHANGED back
       ELSE /\ Returns
            /\ UNCHANGED <<queue_mutex, head>>
    /\ UNCHANGED <<cpuVars, interrupt_status, plic, used, tx_queue, pipe, buffer,
                   local, wire, bounds>>

\* The last step takes the buffer off the ring and lets go of the mutex.
InjectNext ==
    IF Len(poll) = 1
    THEN /\ Returns /\ head' = 0
         /\ queue_mutex' = "free"
         /\ last_avail_idx' = [last_avail_idx EXCEPT ![RXQ] = Next16(@)]
    ELSE poll' = Tail(poll) /\ UNCHANGED <<back, head, queue_mutex, last_avail_idx>>

Inject ==
    /\ \/ /\ Head(poll) = "fill"
          /\ buffer' = [buffer EXCEPT ![head] = LET n == rxNext - 1 IN
                            Scattered(@, RxChains[head], n, RxLengths[n])]
          /\ UNCHANGED <<used, interrupt_status, plic>>
       \/ /\ Head(poll) = "entry"
          /\ used' = [used EXCEPT ![RXQ].ring[Slot(used[RXQ].idx)] =
                            [id |-> head, len |-> UsedLength(head, rxNext - 1)]]
          /\ UNCHANGED <<buffer, interrupt_status, plic>>
       \/ /\ Head(poll) = "index"
          /\ used' = [used EXCEPT ![RXQ].idx = Next16(@)]
          /\ UNCHANGED <<buffer, interrupt_status, plic>>
       \/ /\ Head(poll) = "raise"
          /\ Raise
          /\ UNCHANGED <<buffer, used>>
    /\ InjectNext
    /\ UNCHANGED <<ready, avail, cpu, frame, avail_idx, driver, tx_queue, pipe,
                   local, wire, bounds>>

-----------------------------------------------------------------------------
Driver  == PostTx \/ PostRx \/ Reset \/ Notify
Handler == Claim \/ ReadStatus \/ Ack \/ Reap \/ Complete
Device  == TxFrame \/ Enqueue \/ Wake \/ TxDone
PollThread == \/ PollReturns \/ Drain \/ Swap \/ Input \/ Sockets
              \/ cb_notify \/ InjectLock \/ Inject

Next == Configure \/ Driver \/ Handler \/ Device \/ PollThread

Spec == Init /\ [][Next]_vars

(* The operating system runs both threads, and the guest's kernel serves   *)
(* the interrupts of its device and brings a device it has reset back up.  *)
Fairness ==
    /\ WF_vars(Configure) /\ WF_vars(Device)
    /\ SF_vars(Handler)
    /\ SF_vars(PollThread)

FairSpec == Spec /\ Fairness

-----------------------------------------------------------------------------
Phases == {<<"enqueue", "wake">>, <<"wake">>} \cup
          {<<p>> : p \in {"guest", "down", "tx", "status", "ack", "reap", "eoi"}}

PollPhases ==
    {SubSeq(InjectOrder, i, 4) : i \in 1..4} \cup
    {<<p>> : p \in {"poll", "drain", "swap", "input", "sockets", "notify", "lock"}}

(* Every variable keeps its type, and the mutex says who is inside.        *)
TypeOK ==
    /\ queue_mutex \in {"free", "cpu", "poll"}
    /\ queue_mutex = "cpu" <=> cpu \in {<<"tx">>, <<"enqueue", "wake">>, <<"wake">>}
    /\ queue_mutex = "poll" <=> Head(poll) \in {"fill", "entry", "index", "raise"}
    /\ cpu \in Phases /\ poll \in PollPhases
    /\ ready \in [Queues -> BOOLEAN]
    /\ last_avail_idx \in [Queues -> 0..(IdxMod - 1)]
    /\ seen \in [Queues -> 0..(IdxMod - 1)]
    /\ owner \in [Slots -> {"driver", "device"}]
    /\ \A s \in Slots : DOMAIN buffer[s] = DOMAIN RxChains[s]
    /\ interrupt_status \in {0, 1} /\ {irq, held, missed} \subseteq BOOLEAN
    /\ pipe \in 0..PipeSize
    /\ frame = <<>> \/ \E n \in 1..MaxEvents : frame = Gathered(n)

InFlight == IF frame = <<>> THEN <<>> ELSE <<frame>>

\* Of the first n frames, those that have any bytes.
Payloads[n \in 0..MaxEvents] ==
    IF n = 0 THEN <<>>
    ELSE IF Payload(n) = <<>> THEN Payloads[n - 1]
    ELSE Append(Payloads[n - 1], Payload(n))

(* Transmission loses, repeats and reorders nothing: the frames slirp was  *)
(* fed, those the poll thread took, those queued and the one in hand are   *)
(* together all the frames the guest has handed over, without their        *)
(* headers and byte for byte, in the order it posted them, and none that   *)
(* it has not - across the descriptors of a chain, index wrap-around and   *)
(* device resets (process_tx_queue, platform_send, poll_thread_func).      *)
TxIntact ==
    LET taken == txNext - 1 - Ahead(avail[TXQ].idx, used[TXQ].idx)
    IN  /\ taken >= 0
        /\ wire \o local \o tx_queue \o InFlight = Payloads[taken]

(* The poll thread writes into a receive buffer only while the driver has  *)
(* it on the ring: a reset racing an injection waits for it (queue_mutex_  *)
(* in write32 and rx_inject).                                              *)
DmaIntoOwnedBuffers == Head(poll) = "fill" => owner[head] = "device"

(* What the driver can see on the receive ring is whole: each used entry   *)
(* below the index names a buffer and a length that together are a frame   *)
(* slirp sent - all of it, or as much as the buffer's chain has room for - *)
(* with none of an older frame's bytes; and the frames come in the order   *)
(* slirp sent them, each once (rx_inject; push_used before the index).     *)
Room(b) == Total(RxChains[b]) - NET_HDR_SIZE

RxIntact ==
    LET unseen == IF cpu = <<"down">> THEN 0
                  ELSE Ahead(used[RXQ].idx, seen[RXQ])
        Entry(k) == used[RXQ].ring[Slot(seen[RXQ] + k - 1)]
        frames == got \o [k \in 1..unseen |->
                              Contents(buffer[Entry(k).id], Entry(k).len)]
        Number(i) == frames[i][1][1]
    IN  /\ \A i \in DOMAIN frames :
              \E n \in 1..(rxNext - 1), b \in Slots :
                  frames[i] = Bytes(n, Least(RxLengths[n], Room(b)))
        /\ \A i, j \in DOMAIN frames : i < j => Number(i) < Number(j)

(* A frame handed over reaches slirp: the byte in the pipe is written      *)
(* after the frame is queued and drained before the queue is taken.        *)
TxDelivered == tx_queue # <<>> ~> tx_queue = <<>>

(* A used buffer comes to the driver's notice, or the device is reset: the *)
(* interrupt and the handler's acknowledgement never cross so that a used  *)
(* entry is left behind with no interrupt to come (rx_inject, INT_ACK).    *)
(* The one other way is the PLIC's: a completion after the handler's last  *)
(* look drops a raise (plic.cpp, line 56), and it costs no more than the   *)
(* wait for the next raise.                                                *)
UsedNoticed ==
    used[RXQ].idx # seen[RXQ]
        ~> used[RXQ].idx = seen[RXQ] \/ cpu = <<"down">> \/ missed
=============================================================================
