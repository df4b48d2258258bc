------------------------------ MODULE VirtioBlk ------------------------------
(***************************************************************************)
(* The virtio block device (src/devices/virtio_blk.cpp) and the guest's    *)
(* driver.  The device runs on the CPU thread, inside the register write   *)
(* that notifies it: it performs every request on the avail ring, in       *)
(* order, before the guest goes on.  Requests go to an std::fstream, whose *)
(* failbit nothing ever clears: after one failure every operation fails.   *)
(*                                                                         *)
(* A request is its head descriptor's slot; the other two descriptors, a   *)
(* data buffer of one sector and a status byte, are data[head] and         *)
(* status[head].  Ring indices are modulo IdxMod (2^16 in the code).       *)
(***************************************************************************)
EXTENDS Integers, Sequences

CONSTANTS
    QUEUE_SIZE, IdxMod,
    Capacity,      \* the sectors the image holds when the guest boots
    LastSector,    \* the last sector any request names
    Values,        \* what a sector holds; 0 is a sector never written
    MaxRequests,   \* BOUND: the requests the guest makes
    MaxFaults      \* BOUND: host failures and device resets, together

ASSUME BlkAssumption ==
    /\ QUEUE_SIZE \in Nat \ {0} /\ IdxMod \in Nat
    /\ IdxMod > QUEUE_SIZE /\ IdxMod % QUEUE_SIZE = 0
    /\ Capacity \in Nat /\ LastSector \in Nat /\ 0 \in Values
    /\ {MaxRequests, MaxFaults} \subseteq Nat

Heads == 0..(QUEUE_SIZE - 1)
Sectors == 0..LastSector
Types == {"IN", "OUT", "other"}
Slot(i) == i % QUEUE_SIZE
Next16(i) == (i + 1) % IdxMod
OK == 0
IOERR == 1
Untouched == 255

VARIABLES
    queue_ready, last_avail_idx, interrupt_status,   \* the device
    image, size, failbit,     \* the disk image, its length, the stream's state
    irq,                      \* the PLIC's pending bit for the device
    avail, used,              \* the rings: [idx, ring]
    request, data, status,    \* the descriptors of each head
    cpu,                      \* "guest", "process", "isr", "reap", "down"
    seen,                     \* the used index the driver has reaped up to
    inflight,                 \* history: the heads posted and not reaped
    wrong,                    \* history: what reaping found out of order
    written,                  \* history: what the driver knows it wrote
    reads,                    \* history: what the last read returned, expected
    requests, errors, resets

device == <<queue_ready, last_avail_idx, interrupt_status>>
disk == <<image, size, failbit>>
rings == <<avail, used>>
history == <<inflight, wrong, written, reads>>
bounds == <<requests, errors, resets>>
vars == <<device, disk, irq, rings, request, data, status, cpu, seen, history,
          bounds>>

NoRing == [idx |-> 0, ring |-> [s \in Heads |-> 0]]
NoRequest == [type |-> "other", sector |-> 0]

Init ==
    /\ queue_ready = FALSE /\ last_avail_idx = 0 /\ interrupt_status = 0
    /\ image = [s \in Sectors |-> 0] /\ size = Capacity /\ failbit = FALSE
    /\ irq = FALSE /\ avail = NoRing /\ used = NoRing
    /\ request = [h \in Heads |-> NoRequest]
    /\ data = [h \in Heads |-> 0] /\ status = [h \in Heads |-> Untouched]
    /\ cpu = "down" /\ seen = 0
    /\ inflight = <<>> /\ wrong = FALSE
    /\ written = [s \in Sectors |-> 0] /\ reads = <<0, 0>>
    /\ requests = 0 /\ errors = 0 /\ resets = 0

-----------------------------------------------------------------------------
(* The device. *)

Bounded == errors + resets < MaxFaults

\* The registers of the queue, after a reset or at boot.
Configure ==
    /\ cpu = "down"
    /\ queue_ready' = TRUE /\ cpu' = "guest"
    /\ UNCHANGED <<last_avail_idx, interrupt_status, disk, irq, rings, request,
                   data, status, seen, history, bounds>>

ResetIndex_Kept == last_avail_idx

ResetIndex == 0

Reset ==
    /\ cpu = "guest" /\ Bounded
    /\ resets' = resets + 1
    /\ queue_ready' = FALSE /\ interrupt_status' = 0
    /\ last_avail_idx' = ResetIndex
    /\ avail' = NoRing /\ used' = NoRing /\ seen' = 0 /\ inflight' = <<>>
    /\ cpu' = "down"
    /\ UNCHANGED <<disk, irq, request, data, status, wrong, written, reads,
                   requests, errors>>

Notify ==
    /\ cpu = "guest" /\ queue_ready /\ inflight # <<>>
    /\ cpu' = "process"
    /\ UNCHANGED <<device, disk, irq, rings, request, data, status, seen,
                   history, bounds>>

Complete(head) ==
    /\ used' = [idx |-> Next16(used.idx),
                ring |-> [used.ring EXCEPT ![Slot(used.idx)] = head]]
    /\ last_avail_idx' = Next16(last_avail_idx)

\* The host may fail any operation that reaches the file.
HostFails == Bounded /\ errors' = errors + 1

\* What a failed operation leaves in the buffer and in the sector is never seen:
\* no later operation succeeds.
Fails(head) ==
    /\ status' = [status EXCEPT ![head] = IOERR]
    /\ failbit' = TRUE
    /\ UNCHANGED <<image, size, data>>

ReadFails_Unchecked(head) ==
    /\ status' = [status EXCEPT ![head] = OK]
    /\ failbit' = TRUE
    /\ UNCHANGED <<image, size, data>>

ReadFails(head) == Fails(head)

\* A read past the end of the image is short, and fails.
ReadSector(head) ==
    LET s == request[head].sector
    IN  \/ /\ ~failbit /\ s < size
           /\ data' = [data EXCEPT ![head] = image[s]]
           /\ status' = [status EXCEPT ![head] = OK]
           /\ UNCHANGED <<disk, errors>>
        \/ (failbit \/ s >= size) /\ ReadFails(head) /\ UNCHANGED errors
        \/ HostFails /\ ReadFails(head)

\* A write past the end extends the image.
WriteSector(head) ==
    LET s == request[head].sector
    IN  \/ /\ ~failbit
           /\ image' = [image EXCEPT ![s] = data[head]]
           /\ size' = IF s < size THEN size ELSE s + 1
           /\ status' = [status EXCEPT ![head] = OK]
           /\ UNCHANGED <<failbit, data, errors>>
        \/ failbit /\ Fails(head) /\ UNCHANGED errors
        \/ HostFails /\ Fails(head)

\* Any other type is answered OK and does nothing.
Ignore(head) ==
    /\ status' = [status EXCEPT ![head] = OK]
    /\ UNCHANGED <<disk, data, errors>>

handle_request ==
    /\ cpu = "process" /\ last_avail_idx # avail.idx
    /\ LET head == avail.ring[Slot(last_avail_idx)]
       IN  /\ CASE request[head].type = "IN" -> ReadSector(head)
                [] request[head].type = "OUT" -> WriteSector(head)
                [] OTHER -> Ignore(head)
           /\ Complete(head)
    /\ UNCHANGED <<queue_ready, interrupt_status, irq, avail, request, cpu,
                   seen, history, requests, resets>>

RaisedStatus_Forgotten == interrupt_status

RaisedStatus == 1

Raise ==
    /\ cpu = "process" /\ last_avail_idx = avail.idx
    /\ interrupt_status' = RaisedStatus
    /\ irq' = TRUE /\ cpu' = "guest"
    /\ UNCHANGED <<queue_ready, last_avail_idx, disk, rings, request, data,
                   status, seen, history, bounds>>

-----------------------------------------------------------------------------
(* The guest's driver: external. *)

Free(h) == \A i \in DOMAIN inflight : inflight[i] # h

Post ==
    /\ cpu = "guest" /\ requests < MaxRequests
    /\ requests' = requests + 1
    /\ \E h \in Heads, t \in Types, s \in Sectors, v \in Values :
          /\ Free(h) /\ (t # "OUT" => v = 0) /\ (t = "other" => s = 0)
          /\ request' = [request EXCEPT ![h] = [type |-> t, sector |-> s]]
          /\ data' = [data EXCEPT ![h] = v]
          /\ status' = [status EXCEPT ![h] = Untouched]
          /\ avail' = [idx |-> Next16(avail.idx),
                       ring |-> [avail.ring EXCEPT ![Slot(avail.idx)] = h]]
          /\ inflight' = Append(inflight, h)
    /\ UNCHANGED <<device, disk, irq, used, cpu, seen, wrong, written, reads,
                   errors, resets>>

Claim ==
    /\ cpu = "guest" /\ irq
    /\ irq' = FALSE /\ cpu' = "isr"
    /\ UNCHANGED <<device, disk, rings, request, data, status, seen, history,
                   bounds>>

\* The handler reads InterruptStatus, acknowledges it, and reaps if it was set.
Ack ==
    /\ cpu = "isr"
    /\ interrupt_status' = 0
    /\ cpu' = IF interrupt_status = 1 THEN "reap" ELSE "guest"
    /\ UNCHANGED <<queue_ready, last_avail_idx, disk, irq, rings, request, data,
                   status, seen, history, bounds>>

Oldest(h) == inflight # <<>> /\ Head(inflight) = h

Reap ==
    /\ cpu = "reap"
    /\ IF seen = used.idx
       THEN cpu' = "guest" /\ UNCHANGED <<seen, history>>
       ELSE LET h == used.ring[Slot(seen)]
                r == request[h]
                good == status[h] = OK
            IN  /\ seen' = Next16(seen)
                /\ wrong' = (wrong \/ ~Oldest(h) \/ status[h] = Untouched)
                /\ inflight' = IF Oldest(h) THEN Tail(inflight) ELSE inflight
                /\ written' = IF r.type = "OUT" /\ good
                              THEN [written EXCEPT ![r.sector] = data[h]] ELSE written
                /\ reads' = IF r.type = "IN" /\ good
                            THEN <<data[h], written[r.sector]>> ELSE reads
                /\ UNCHANGED cpu
    /\ UNCHANGED <<device, disk, irq, rings, request, data, status, bounds>>

-----------------------------------------------------------------------------
Device == handle_request \/ Raise
Handler == Claim \/ Ack \/ Reap
Next == Configure \/ Reset \/ Notify \/ Device \/ Post \/ Handler

\* The CPU thread runs on, and the guest notifies and serves its device.
Fairness == WF_vars(Device) /\ SF_vars(Handler) /\ SF_vars(Notify)
            /\ WF_vars(Configure)

Spec == Init /\ [][Next]_vars
LiveSpec == Spec /\ Fairness

-----------------------------------------------------------------------------
\* The driver reaps every request once, in the order it posted them, each with
\* its status written: also when the indices wrap and after a reset.
\* (virtio_blk.cpp:105-123)
RequestsIntact == ~wrong

\* A read that is answered OK returns what the last write answered OK stored
\* there. (virtio_blk.cpp:175-195)
ReadsLastWrite == resets = 0 => reads[1] = reads[2]

\* A posted request is eventually reaped, unless the driver resets the device.
\* (virtio_blk.cpp:126-127)
RequestsComplete ==
    \A h \in Heads : (\E i \in DOMAIN inflight : inflight[i] = h) ~>
                        (cpu = "down" \/ \A i \in DOMAIN inflight : inflight[i] # h)
=============================================================================
