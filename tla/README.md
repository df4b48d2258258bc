# Verification of the RISC-V emulator

TLA+ models of the RV32IMAC emulator in `src/src`, the TLC configurations that
check them on small instances, and TLAPS proofs that the properties hold for
every size, queue, guest and schedule the modules allow. The models are
translations of the C++ code; where a comment, the emulator's README and the
code disagree, the module says what the code does.

Addresses, widths and sizes are parameters. Each module's opening comment names
the source files it stands for; the operators keep the source's names.

## 1. The system

### Threads

| thread | runs | shares with the others |
|---|---|---|
| CPU | `CPU::run`, every guest instruction, every MMIO register access, block-device requests, network transmission | everything below |
| UART input | the loop of `UART::start_input_thread` | `rx_fifo_` (under `rx_mutex_`), `ier_` (no lock), the PLIC's atomic pending word, `CPU::state_` |
| network poll | `poll_thread_func` of `virtio_net_slirp.cpp` | `tx_queue_`, the wake-up pipe, `queue_mutex_`, guest memory through the bus, the PLIC |
| SDL render | `FrameBuffer::render_loop` | the pixels (no lock), the keyboard queue (under its mutex), `running_`, the pointer to the queue |

### Components

| component | state | operations | interacts through | hard part | correct when |
|---|---|---|---|---|---|
| Hart (`cpu/{cpu,trap,csr,execute}.cpp`) | level, pc, machine/supervisor CSRs, `state_` | instruction, trap, MRET/SRET, WFI, CSR write, SBI call, interrupt sampling every 1024 turns | CLINT and PLIC lines, other threads storing HALTED or waking it | nesting of traps; sources sampled late; a state word stored by three threads without ordering | level 2 never appears; lower levels cannot touch machine state; a trap frame survives a nested trap; nobody outruns an enabled machine interrupt; a due timer and WFI make progress |
| Decoder and ALU (`cpu/{decode,execute}.cpp`) | registers, memory, pc | fetch over a page boundary, decompress, decode, execute, trap | MMU and bus for every access | scattered immediates; 64-bit corner cases; destination equal to a source; partial effects before a trap | each compressed form is the instruction it stands for; products and quotients are exact; a trap leaves nothing behind |
| CLINT (`clint/`) | mtime, mtimecmp, msip | register writes, clock update | sampled by the hart | late sampling | a deadline that passed is acted on |
| PLIC (`plic/`) | priorities, enables, thresholds, pending (atomic), claimed | set_pending, claim, complete, register writes | raised by device threads, claimed by the guest, sampled by the hart | a claim is a load and a later and-not; a completion clears the pending bit too | the winner is the best eligible source; a claim drops only what it returns |
| UART (`devices/uart/`) | FIFO, IER, LCR, THR flags, escape state | key read, push, notify, MMIO registers, stop and join | PLIC, host terminal | an unlocked flag read across threads; join of a blocked thread | no byte lost, reordered or left unannounced; the process ends |
| Virtio net (`devices/virtio_net/`) | two rings, last index each, interrupt status, queue, pipe | notify, transmit, inject, acknowledge, reset | guest memory, libslirp, PLIC | two threads, a reset in mid-injection, wrap of 16-bit indices, a bounded pipe | frames once and in order; writes only into posted buffers; used entries are noticed |
| Virtio block (`devices/virtio_blk.cpp`) | one ring, the image | notify, request, acknowledge, reset | guest memory (directly), host file | host errors, wrap, reset | requests answered once and in order; reads see writes; every request completes |
| MMU (`mmu/`) | TLB ways, PLRU bits, satp | translate (hit and walk), SFENCE.VMA in four forms, satp write | page tables in memory, `satp`, `mstatus` | stale entries, superpages in a set-indexed TLB, replacement | an access is answered by a table the guest had written since it fenced |
| Memory (`bus.cpp`, `dram.hpp`, `cache/icache.cpp`, decode cache in `cpu.cpp`) | DRAM, page copies, decoded instructions with epochs, reservation | load, store, fetch, AMO, LR/SC, DMA | every writer of memory | three copies of the same bytes, no lock between writers; decoded instructions found by virtual address, with no translation | caches hold what memory holds; what is executed is what the space in force maps; SC succeeds only after its LR |
| PMP (`cpu/csr.cpp`) | pmpcfg, pmpaddr | register writes, verdict | asked by the MMU | ranges that begin at a neighbour's address, locks | first match decides; no address write moves a locked range |
| Framebuffer, window and keyboard (`devices/framebuffer/`, `devices/input.cpp`) | pixels, texture, key queue, `running_` | draw, pop, poll events, push, copy, present, start and join | SDL, the guest, the destructor of Bus | pixels copied while the guest draws; a queue that is set after its thread starts and destroyed before it ends | keys reach the guest in order; what is drawn gets to the screen; the process ends |
| Bus map, loaders, profiles, trace, Windows backend | | | | | see section 8 |

`PROJECT.json` lists every component with its status, and under `hazards` each
place in the code where something could go wrong that a test would hardly
reach, with the property that would notice or the reason none does.

## 2. Modules

| module | models | built on |
|---|---|---|
| `Hart` | run loop, traps, delegation, interrupt CSRs, SBI, WFI, CLINT | |
| `Hart_proofs` | theorems about `Hart` and `Pmp`, the two halves of `csr.cpp` | `Hart`, `Pmp`, `Arithmetic` |
| `Arithmetic` | lemmas of quotients and remainders, induction over a set of numbers, recursive functions; no state | `TLAPS` |
| `Plic` | the interrupt controller by itself | |
| `Console` | UART, input thread, a guest driver, over the PLIC's own definitions | extends `Plic` |
| `Display` | framebuffer, render thread, keyboard queue, and how the devices start and end, composed with the console | extends `Console` |
| `Display_proofs` | theorems about `Plic`, `Console` and `Display`, each carried to the next | `Display`, `Arithmetic` |
| `VirtioNet` | the network device, its poll thread, descriptor chains, a guest driver | |
| `VirtioNet_proofs` | theorems about `VirtioNet` | `VirtioNet`, `Arithmetic` |
| `VirtioBlk` | the disk, a guest driver, host errors | |
| `VirtioBlk_proofs` | theorems about `VirtioBlk` | `VirtioBlk`, `Arithmetic` |
| `Translation` | abstract: what any translation cache in front of page tables may answer | |
| `Mmu` | walker and TLB | implements `Translation` (`Refines`) |
| `Mmu_proofs` | theorems about `Mmu`, the refinement among them | `Mmu`, `Arithmetic` |
| `Memory` | DRAM, instruction cache, decode cache, reservation | |
| `Memory_proofs` | theorems about `Memory` | `Memory`, `Arithmetic` |
| `Pmp` | PMP registers and verdict | |
| `Decode` | `decompress` and `decode` | |
| `Instructions` | fetch and the unprivileged handlers on words of 4 to 32 bits | extends `Decode` |
| `Instructions_proofs` | theorems about `Instructions` | `Instructions`, `Arithmetic` |
| `MC_*` | constants for the runs; `MC_Registers` takes `Plic` and `Pmp`, which share nothing, into one run | |

### How state and actions correspond

*Hart.* A turn of `CPU::run` is split where another thread can come between:
the loop's head (count, sample on every `TickPeriod`-th turn, decide about
WFI), the store that makes the hart active again, and `CPU::step`, which takes
one interrupt or executes one instruction. `phase` is the place in the turn,
`state` is `state_`, the CSRs are records or sets of causes with one field or
member per bit. Which instruction comes next is a free choice, so every guest
program is covered. The trap vector, the alignment of `xepc`, the clamping of
MPP, the sstatus/sie/sip windows and the SBI calls that touch this state follow
`trap.cpp` and `csr.cpp` branch for branch. Integer registers, `xcause`,
`xtval`, counters and the answers of the Base and HSM calls decide nothing
here and are left out.

*Plic, Console.* The PLIC's pending word is the only state written by device
threads, so a claim is two steps and everything else is one. `Console` reuses
the PLIC's actions unchanged, adds the input thread at the grain of its lock
and of its unlocked read of `ier_` (whose store may wait in the CPU's store
buffer), and a driver that follows the 16550 protocol: it enables the receive
interrupt while keys are being typed, turns it off and on again, claims, serves
whatever IIR reports, and completes at any moment between the claim and the
return. The driver is not in the repository; its definitions are marked external.
The halt that Ctrl+A Q asks for may be lost (`Hart` has how). Two variables are
not in the code. `closes` says whether the input ends after the keys or stays
open, one of `Lines` for good. `unheard` is a history: one of the two steps of
`Overlooked` has come in between, a look at `ier_` before its store can be seen
(`uart.cpp:105`) or a completion that drops the pending bit after the handler's
last look (`plic.cpp:56`), and there has been no raise since.

*Display.* The main thread is in `FrameBuffer::init`, then in the guest, then in
the destructor of `Bus`, which ends the devices in the reverse order of their
declaration. `DeskNext` interleaves the console's own steps with the render
thread's: an event polled, a key pushed, one cell copied, a frame presented. A
key pushed while `input_` points to no queue is undefined: `Crash` kills the
process ("crashed", which is not "exited"), or the key goes nowhere (`stray`). Either the window is used or the
terminal.

*VirtioNet, VirtioBlk.* The CPU thread is a sequence of the guest driver's
steps and the device's; the poll thread follows `poll_thread_func` and, inside
`rx_inject`, writes frame, ring entry, index and status in the code's order,
because the driver reads the ring with no lock. `queue_mutex` is who holds it.
A frame's bytes are its number and their place in it; `Gathered` and
`Scattered` walk the descriptors of a chain as `process_tx_queue` and
`rx_inject` do, and the driver reads as many bytes as the used entry says.
Sectors are numbers. A reset is a status write at any moment. The network driver
completes its interrupt at any moment between the claim and the return, and the
completion drops what was raised since (`Complete`); `missed` is a history of
one that dropped a raise after the handler's last look at the ring, with no
raise since.

*Mmu, Translation.* Addresses are page numbers, tables are functions, the TLB
is sets of four ways with the three tree bits of `tlb.cpp`. `guest` is what the
software does (its pages, tables, requests and fences), chosen at the start. `Translation` keeps,
for each page and space, the answers that became possible since the last fence
covering them, and permits any of those: that is what RISC-V software may rely
on. `Refines` says each lookup, walk and fence of `Mmu` is a step of it.

*Memory.* A bus write is a step each, in the order of `bus.cpp`, for the
bytes, the reservation, the page invalidation, the read of the epoch and its
increment. `fetch_page` is a copy and a
publication. The disk's read is one step and does none of these. `dma` records
the units the disk wrote. A pc is virtual. `space`, one of `Spaces`, is what the
MMU would answer for it now: the pages it maps for execution and where to, so a
write of satp, a change of level and one of the tables are all `SwitchSpace`.
A live entry is matched by pc and epoch and by no space (`FetchMiss`); what is
missing is fetched through the space in force, half by half.
`spaces` is a history: those in force since the epoch last moved.

*Decode, Instructions.* `Decode` keeps instructions as their fields and moves
every immediate bit as `decode.cpp` does. `Instructions` runs them on registers
of `Width` bits, with 64-bit intermediates of twice the width, one step per
instruction, a trap to a handler that runs the instruction again. A job is a
program with its registers and memory, and the law it is run for;
`ProgramsAssumption` ties the two: a pair is a product's or a quotient's two
halves on the same operands, a call is a call of a subroutine that returns at
once, an AMO is followed by a load of the same word.

## 3. Runs

Bounds are constants of the module or definitions of the MC module, never a
changed definition. State counts and times are those of one machine with two
workers.

| run | asks | bounds, and why they are enough | size |
|---|---|---|---|
| `hart_privilege` | Can any sequence of CSR writes, traps and returns reach level 2, keep MPRV below machine mode, change machine state from below, lose a supervisor frame, or let an instruction run ahead of an enabled machine interrupt? | One code address, since control flow is free anyway; an mstatus value with the reserved MPP, a tvec with a reserved mode, an odd epc; interrupt masks with one delegable cause and two; one delegable exception. Interrupts arise from CSR writes; with the source sampled every turn the lines add nothing. | 962 K states, 44 s |
| `hart_progress` | Does a due timer take the hart from lower code, and does WFI wake? | Sampling every second turn (late sampling is the hazard, two is the smallest late), two instants of time, one deadline, one external line, SBI on so that the supervisor's timer goes through machine mode. | 109 K, 42 s |
| `hart_quit` | Does a machine that was halted stay halted? It violates `HaltSticks`. | As above without lines. | counterexample of 5 states |
| `registers` | Is the winner the one the PLIC's rule names, in every configuration; does a claim drop only its own source? Is PMP's verdict that of the first matching entry; can a write of an address register move a locked range? | PLIC: three sources (a tie and a loser at once), priorities 0, 1 and 10 (10 shows the 3-bit mask), completions of a held source or of 32. PMP: three entries (one before, one after), 5-bit addresses, three values for an address register. One moves while the other is as at power-on. | 297 K, 79 s |
| `desk` | Is a byte or a key ever lost, duplicated or reordered, and what can make a byte wait; does output leave, does the last picture show, does a machine told to stop end? | Terminal: ten scripts of up to three keys out of an ordinary one, Ctrl+A and Q, typed from power-on: every escape, one that stays open, one after a letter, before one and after another. Two bytes to send. The line stays open or hangs up. Window: presses and releases of two keys with one code and of one without, a closed window; two cells and two stores, so a copy can be torn. The guest may shut down at any moment. | 631 K, 139 s |
| `net_rings` | Is a byte of a frame lost or out of place, is a frame overtaken, is memory written that the driver owns, is a used buffer left unnoticed by any cause but a completion? | Rings of two with indices modulo four, so that indices wrap and a ring fills; four frames, extra notifications and resets in all; a reset at any moment. A header of two bytes; sent frames over one and two descriptors, with the header alone in one, and an empty one; a receive buffer with the header alone in its first descriptor and too small for the long frame, and one with room; a short frame after a long one. The pipe is as large as the number of frames (see section 7). | 853 K, 169 s |
| `blk_requests` | Is each request answered once and in order, does a good read return the last good write, is each request reaped? | A ring of two, indices modulo four, one sector on the disk and a request past it, one host error, four requests: the fourth uses wrapped indices. | 431 K, 51 s |
| `mmu_guests` | Is translation what software may rely on, and does replacement spare the ways used last? | Three kernels. *Switcher*: two spaces, two pages in two sets, global and user leaves, all four forms of fence; a user store and a load under MPRV. *Crowder*: five pages for four ways of one set, singly or under a superpage. *Mapper*: a superpage with pages in both sets, remapped, misaligned or split, and fences of everything. One rewritten entry each. | 74 K, 84 s |
| `mmu_superpages` | May a kernel fence just one page of a superpage? It violates `Refines`. | *Mapper*, fencing page 0. | counterexample |
| `memory_caches` | Do the two caches hold what memory holds, does SC follow LR? | Four units of memory in two pages, one cached page (so it is evicted), two decode slots and three pcs (so two addresses collide), epochs modulo three (so they wrap), a long instruction that may cross the page; two spaces, one bare and one that maps a page elsewhere and the other not at all. | 11.8 M, 84 s |
| `memory_dma` | Are caches invalidated on every DRAM write? It violates `InvalidatedOnWrites`. | As above with the disk writing anywhere. | counterexample |
| `instructions` | Do compressed forms mean what the ISA says; are products, quotients, links and AMOs right; are traps clean? | All 49,152 compressed halfwords; all pairs of 4-bit operands; every register coincidence the properties name; calls in both lengths; programs that fault on fetch, load, store, CSR and decoding, with C on and off, in M and U. | 197 K, 11 s |

`CHECK_DEADLOCK FALSE` stands only where a bounded guest may stop: a halted
hart, an exited process, a PLIC nobody writes to, devices without further
requests, programs that have ended. The MMU and memory runs check deadlock.

### What the properties say

- `Hart`: `NoReservedPrivilege`, `MprvOnlyInMachine` (safety);
  `MachineStateIsolated`, `PrivilegeRisesOnlyByTrap`, `SupervisorFrameSurvives`,
  `MachineInterruptNotDeferred` (what no step may do); `TimerPreempts`,
  `WfiWakes` (progress).
- `Plic`: `ArbiterIsFair`, `DroppedOnlyInService`. The second one assumes a
  guest that completes what it holds, or writes a number outside the PLIC. In
  the code that number is shifted by (`1u << val`), undefined from 32 up; on
  x86 32 clears bit 0, which is no source.
- `Console`: `StreamIntact` relates what was typed, by the rule in the comments
  of `read_char`, to what left the FIFO. `DataAnnounced` is about the comment
  "Assert interrupt if RX data waiting" (`uart.cpp:70`): the code does not always
  do that, and the property says that the two steps of `Overlooked` are the only
  ways to miss it, and that a raise ends it. `BytesReachGuest` and
  `TransmitDrains` are progress. `ShutdownEnds`: a halted machine ends its process,
  through the joins of the render thread and of the input thread, or its join waits
  for a read of an open line, or a stray key has crashed it. It does not say that
  the quit key ends the process, which is not so (section 7).
- `Display`: `KeysIntact` (what the guest popped, what is queued and what is in
  hand are the keys polled, unless one met no queue) and `FrameSettles`.
- `VirtioNet`: `TxIntact`, `RxIntact` (byte for byte and in order, against
  histories of the frames handed over), `DmaIntoOwnedBuffers`, `TxDelivered`,
  `UsedNoticed` (up to a raise that the driver's own completion has dropped).
- `VirtioBlk`: `RequestsIntact`, `ReadsLastWrite`, `RequestsComplete`.
- `Mmu`: `VictimNotRecent`, and `Refines`.
- `Memory`: `IcacheCoherent` and `DecodeCoherent` at the moments no store is
  half done and outside units the disk wrote; `ScIsPaired`. `DecodeCoherent`
  claims what the code gives: a decoded instruction is in memory at its virtual
  address under one of the spaces in force since the last store or fence. It need
  not be so under the space in force now (section 7).
- `Pmp`: `VerdictIsOfFirstRange` (TOR and NA4); `AddressWritesKeepRanges`, in all
  modes, for the entries locked at the moment an address register is written. A
  write of the configuration keeps no lock (section 7).
- `Instructions`: `RvcExpands` against an independent table of the compressed
  forms; `HalvesOfProduct`, `DivisionLaw`, `AmoExchanges` against arithmetic;
  `CallReturns`; `FaultsAreClean`.

Each property is paired in `PROJECT.json` with a mutation of a modelled
definition that breaks it, of the kind a slip in that code would be.

## 4. Fairness

- `Hart`: weak fairness of the run loop (the CPU thread keeps being scheduled)
  and of the wall clock. Nothing is assumed of guest code: it may spin for ever.
- `Console`: weak fairness of each step of the input thread except the key
  itself, of reading what is left when the line closes, of a store leaving the
  store buffer, and of the guest's sampling and handler. It is stated of the
  code's own variables (`stepVars`).
- `Display`: besides the console's, weak fairness of the render thread and of
  the main thread in `FrameBuffer::init`, in the destructors and in the joins.
- `VirtioNet`: weak fairness of the device's steps on the CPU thread, which run
  to completion inside one MMIO access, and of the driver's set-up; strong
  fairness of the poll thread and of the interrupt handler, since a mutex and
  repeated resets disable and enable them again and again: the mutex and the
  scheduler let a waiting thread in eventually.
- `VirtioBlk`: weak fairness of device and set-up, strong of the driver's
  handler and notification, for the same reason.

No fairness is assumed for a key, a frame from the network, a reset, a request,
an event of the window, a store to the framebuffer or a shutdown.

## 5. Theorems

Each theorem is proved for every value of the constants that satisfies the
module's `ASSUME` and the hypotheses named below; the run of section 3 that
lists the same property shows it on a small instance, and evaluates the
`ASSUME`s.

| module | theorem | states | hypotheses |
|---|---|---|---|
| `Hart_proofs` | `TypeCorrect` | `[]TypeOK` | |
| | `PrivilegeIsLegal` | `[]NoReservedPrivilege` | |
| | `MprvConfined` | `[]MprvOnlyInMachine` | |
| | `MachineIsolation` | `MachineStateIsolated` | |
| | `PrivilegeRises` | `PrivilegeRisesOnlyByTrap` | |
| | `SupervisorFrameIsSafe` | `SupervisorFrameSurvives` | |
| | `MachineInterruptIsTaken` | `MachineInterruptNotDeferred` | |
| | `TimerIsSeen`, `SeenIsTaken` | `SampleSeesTimer`, `DueIsTaken` * (of `TimerPreempts`) | |
| | `SamplesWake` | `SampleWakes` * (of `WfiWakes`) | |
| | `LockedRangesIgnoreAddresses` | `AddressWritesKeepRanges`, of `Pmp` | |
| | `FirstRangeDecides` | `[]VerdictIsOfFirstRange`, of `Pmp` | `BelowTop` |
| `Display_proofs` | `ArbiterIsAlwaysFair` | `[]ArbiterIsFair`, of the PLIC by itself | |
| | `OnlyServedAreDropped` | `DroppedOnlyInService` | `CompletesOwn` |
| | `PlicServesConsole` | both, of the PLIC under the console | |
| | `StreamStaysIntact`, `StreamStaysIntactAtDesk` | `[]StreamIntact`, of `Console` and of `Display` | `Tty` |
| | `DataIsAnnounced`, `DataIsAnnouncedAtDesk` | `[]DataAnnounced`, likewise | |
| | `KeysStayIntact` | `[]KeysIntact` | |
| | `KeysStrayAtTheEdges` | `StrayAtTheEdges` * (the condition of `KeysIntact`) | |
| | `TransmitIsAnnounced`, `TransmitIsAnnouncedAtDesk` | `[]TransmitAnnounced` * (of `TransmitDrains`), of `Console` and of `Display` | |
| | `PictureNeverGoesBack` | `PictureAdvances` * (of `FrameSettles`) | |
| | `ThreadsAreJoined` | `[]ThreadsJoined` * (of `ShutdownEnds`) | |
| `VirtioNet_proofs` | `NetIsTyped` | `[]TypeOK` | |
| | `BuffersAreTheDevices` | `[]DmaIntoOwnedBuffers` | |
| | `FramesAreSent` | `[]TxIntact` | |
| | `FramesAreReceived` | `[]RxIntact` | |
| | `FramesAreAnnounced` | `[]FrameAnnounced` * (of `TxDelivered`) | |
| | `UsedAreAnnounced` | `[]UsedAnnounced` * (of `UsedNoticed`) | |
| `VirtioBlk_proofs` | `RequestsAreIntact` | `[]RequestsIntact` | |
| | `ReadsReturnLastWrite` | `[]ReadsLastWrite` | |
| | `AnswersAreAnnounced` | `[]AnswersAnnounced` * (of `RequestsComplete`) | |
| `Mmu_proofs` | `VictimIsNotRecent` | `[]VictimNotRecent` | |
| | `MmuImplementsTranslation` | `Refines` | `MxrMakesNoDifference`, `PageFencesReach` |
| `Memory_proofs` | `IcacheStaysCoherent` | `[]IcacheCoherent` | `OneWriter` |
| | `DecodeStaysCoherent` | `[]DecodeCoherent` | `OneWriter` |
| | `ScStaysPaired` | `[]ScIsPaired` | `OneWriter`, `WholeWords` |
| `Instructions_proofs` | `FaultsLeaveNothing` | `FaultsAreClean` | |
| | `ProductsAreExact` | `[]HalvesOfProduct` | |
| | `DivisionsAreExact` | `[]DivisionLaw` | |
| | `CallsReturn` | `[]CallReturns` | |
| | `AmosExchange` | `[]AmoExchanges` | |

The properties marked * are stated in the module of proofs, and no run lists
them: most are the safety half of the liveness property in parentheses, what has
to hold at every moment for fairness to do the rest.

### Assumptions

The `ASSUME`s give constants their types and say what the code's own constants
satisfy: sizes are positive, a ring's indices wrap at a multiple of its length
(2^16 and a power of two), what a guest writes has the width of its register,
the keys of a script are bytes and the two of an escape differ, the events of a
window are events. `NetAssumption` also has the network driver's part: a first
descriptor holds the 12 bytes of the header, which `process_tx_queue` skips in
the first one only and `rx_inject` subtracts without a test
(`virtio_net.cpp:205`), and a receive buffer holds some byte more, or a frame
would be cut down to nothing and `RxIntact` could not tell which it was.
`WidthAssumption` has the registers of `Instructions` 4, 8, 16 or 32 bits wide,
so that a word is four bytes of whole bits, and `ProgramsAssumption` says which
programs the laws are about (section 2). Nothing is assumed of a number's size otherwise, so the theorems cover the
emulator's own.

The hypotheses are conditions on who uses the component. Each excludes what the
code gets wrong (section 7), none excludes an interleaving of the rest.

| hypothesis | says | why it is needed |
|---|---|---|
| `CompletesOwn` | A guest completes what it holds, or a number that names no source. | A completion clears the pending bit of whatever number it is given (`plic.cpp:56`). |
| `Tty` | The input is a terminal. | From a pipe a Ctrl+A is dropped (`uart_posix.cpp:76`). |
| `MxrMakesNoDifference` | No load with MXR is made to a page that may be executed and not read. | A hit does not look at MXR (`mmu.cpp:30`). |
| `PageFencesReach` | A fence of a page is used on superpages only if all the guest's pages of the superpage share its set. | A page fence clears one set (`tlb.cpp:127`). `mmu_superpages` is the counterexample without it. |
| `OneWriter` | The hart is the only thread that stores, and each store stays on the page of its first byte. | The poll thread's stores race with `fetch_page` (`icache.cpp:30`), and only the first page is invalidated (`bus.cpp:124`). |
| `WholeWords` | A store that touches a word names the word's address; nothing is reserved at power-on. | The reservation is compared with the address of the store alone (`cpu.cpp:313`), and starts uninitialised (`cpu.hpp:95`). |
| `BelowTop` | No range ends at the top of the address space. | The code's 32-bit bounds wrap there (`csr.cpp:293`). |

The configurations satisfy them: `desk` sets `Tty`, and `memory_caches`,
`registers` and `mmu_guests` use guests of the kinds described.

### The arguments

A property is seldom inductive. Each module of proofs names the strengthening
it uses; every one was checked by TLC before it was proved.

*Hart.* `PrivilegeInv` is `TypeOK`, `NoReservedPrivilege` and
`MprvOnlyInMachine` together. They need each other: MRET copies MPP to the
level, so level 2 stays away only while MPP is not 2; MPRV is confined only
because MRET leaves it set solely when MPP is machine, which reads MPP again.
Most actions change nothing the action properties are about (`QuietStep`), so
each of those needs an argument only for traps, returns and CSR writes.
`MachineInterruptIsTaken` needs in addition that the scan stops at the first
cause it may take, and that machine causes which are enabled are always taken
below machine mode, so that no cause before it can hide one.

That a due timer is not missed is shown in two steps: the sample leaves a
takeable cause (`SampleHasTimer`: whether MTIP is forwarded to STIP or not, the
bit the level looks at is set), and `InterruptDue` is stable until `CPU::step`.

*PLIC.* `best_pending` is a loop, in the model a recursive function. Its loop
invariant (the best of the sources seen so far, the least among equals) is
shown turn by turn. `RegistersOK` adds that a claim in its second half has
recorded its source as claimed, which is what makes the later and-not drop a
served source and no other, whatever device threads raise in between.

*Console.* `StreamInv` relates `escape_mode` to what was typed, and says the
input thread's hands are empty when it reads. `StreamIntact` alone does not
know whether an escape is open. `AnnounceInv` extends `DataAnnounced` to the
places of the handler where the guest is not going to look at the FIFO any more
(`Away`: "run", "claim", "eoi"): a byte there has the pending bit, or the input
thread is between its push and its notification, or it is `unheard`. A claim and
an early completion take the bit away and leave the guest in a place from which
it looks; what a late completion takes is what `Overlooked` records. A
notification either finds IER set or was too early, which it records too.

`TransmitInv` is about the other direction: a driver with bytes to send has THRI
enabled and the bit pending, but for its handler; one that completes after it
serves drops the bit last, when it has turned THRI off with nothing left to send.

*Display.* The console's two invariants are shown to survive the window's
steps, most of which leave them alone; the shutdown of the process is the one
that does not. `KeysInv` says the render thread polls only with empty hands. `EndInv` follows the
order of `FrameBuffer::init` and `~Bus`: which of `setup`, `torn`, `input_` and the
two threads can be where; it gives both the joins and the two windows in which a
key can stray. `PictureInv` numbers the colours by their stores and orders the
three copies of a cell: screen, texture, framebuffer.

*Virtio network.* `NetInv` has five parts: `Control` (who is where, and who
holds the mutex), `Registers` (indices and the pipe), `GuestMemory`, `TxRing`
(the device is behind the driver by no more frames than the driver has handed
over, and its two indices agree), `Quiet` (a device that was reset is quiet
until configured again). `RxRing` is about ownership:
the slots between what the driver has seen and what it has posted hold distinct
buffers, all the device's; those the device has finished are in the same order
in both rings. That the driver has room to post is a pigeonhole argument
(`RoomToPost`): each buffer it owns is missing from the ring.

For transmission `TxOrder` is added. `Queued`: the entries from the device's
index on name the frames not yet taken, in the order they were posted, and no
more than the ring has room for, so a post overwrites none of them. `Fed`: the
poll thread takes the queue only when its own batch is used up. `Streamed`: what
was fed, taken, queued and is in hand are together the frames taken so far. That
the frame in hand is what the guest posted is a lemma on its own
(`GatheredIsPayload`): after each descriptor of a chain, what was copied is the
frame up to there. For reception `RxOrder`: what the driver has, followed by the
entries it has yet to see, are frames in the order they were sent (`Received`),
the newest of them older than the one `rx_inject` is at until its index is
stored (`Newest`, `Numbers`); and that one is copied before its entry is written
and has its length before the index moves (`InHand`). `ContentsAreFrame` says
what a driver reads from a chain that was written descriptor by descriptor,
whatever it held before. `RxRing` keeps the poll thread out of the buffers in
`Received`; the driver touches only those it owns.

`FrameAnnounced` and `UsedInv` are inductive with `Control`: a frame is
queued before its byte is written, a byte is drained before the queue is taken,
the status is acknowledged before the ring is read, and no step in between takes
the announcement away, a reset included. A completion does, at the handler's end:
`UsedInv` has `ReapedAtEoi` beside `UsedAnnounced`, that the handler leaves nothing
of the transmit ring behind, so what is `missed` can only be a received frame.

*Virtio block.* The requests in flight are a window of the ring, and of those a
prefix of length `d` is answered (`Answered(d)`). The image is what the
answered writes made of it (`Consistent(d)`), until a first reset; a reset may
forget a request that already reached the image, so the comparison with the
driver's expectation stops there, as it does in `ReadsLastWrite`.

*MMU.* `TablesOK` says the tables hold what the guest wrote but for A and D
bits; `SuperpagesWritten` that a guest without superpages has none cached;
`ReplacementOK` relates the three bits of the tree to the two ways used last. The refinement has one lemma for each kind of step: a hit
answers from an entry, and an entry is among `Translation`'s answers because no
fence that covers the page came since the walk that filled it (for a superpage, none of
those its set saw: hence `PageFencesReach`). A walk answers
from the tables. A fence removes at least what `Translation` asks for. Writes
to tables are the abstract guest's own steps.

*Memory.* `CoherenceInv` has seven parts. Between a store's first and last step
the caches are stale at exactly the units being stored, and `LinesCurrent`,
`FetchCurrent` and `EntriesCurrent` say so for lines, for a fetch in progress
and for decoded instructions. A fetch goes on in one space, since only an idle
hart switches, so what it has got is held under the space in force; an entry
keeps that space as its witness among `spaces` until the epoch moves, which only
a store or a fence does. `NoFutureEpoch` says no entry is of an epoch yet
to come; the epoch's wrap empties the cache. `Reserved` says that while a
reservation is valid no write reached its word since the LR, except one whose
store is about to drop it.

*PMP.* The verdict of the code is a loop over entries that match; the proof
shows that without wrapping an entry matches exactly the addresses of its range
(`MatchIsRange`), that the first match decides, and that the lock bits in force at
a write of an address register, its own and its TOR neighbour's, protect the
ranges it could move. It says nothing of writes to the configuration, which
move them.

*Instructions.* `HandlersAreClean` goes through the handlers once: one that
raises leaves everything as it was. `BetweenKeeps` says a fetch, a trap and a
repair change nothing an instruction sees, so each law needs its invariant only
at the two instructions of its program: `PairInv` (the operands until each is
overwritten, and what the first computed), `CallInv` (the link is the address
after the call), `AmoInv` (memory holds the result, byte by byte, and the operand
register the old word). The rest is arithmetic: `HalvesOf` (the high and the low
half of a product in double width are the product, for each mix of signs),
`TruncatedQuotient` (C++ division rounds towards zero), `SignedWrap`, and for the
AMOs `BitwiseIs` (AND, OR and XOR bit by bit, by induction over the bits) and
`BytesOfWord` (four bytes written are the word read).

Induction: the library's theorems take an operator as a parameter and cannot be
used. `Arithmetic` states `SetInduction` (a set with 0 and closed under
successor holds all naturals), from which finite loops and
`RecursionExists` (a recursive function on an interval satisfies its equation)
follow with the set instantiated.

## 6. Only model-checked

- Every liveness property (`TimerPreempts`, `WfiWakes`, `BytesReachGuest`,
  `TransmitDrains`, `ShutdownEnds`, `FrameSettles`, `TxDelivered`,
  `UsedNoticed`, `RequestsComplete`): the prover does not do fairness or
  `ENABLED`. What fairness acts on is proved: no wake-up, interrupt
  or announcement is lost (the theorems marked * in section 5, and `DataIsAnnounced`).
- `RvcExpands`. Its statement adds up the bits of an immediate with a fold of the
  community modules, which takes an operator as a parameter, and it is a claim
  about 49,152 halfwords: the run enumerates all of them, so nothing is
  left to a proof.

## 7. Where code and documentation part

Three are runs.

- `hart_quit`: `CPU::halt` stores HALTED from the UART's thread into a plain
  variable; `execWFI` (`execute.cpp:854`) and the wake-up (`cpu.cpp:75`) store
  into it without looking, so the quit key of `README.md:31` can be lost.
- `memory_dma`: `VirtioBlk::process_request` reads into the DRAM vector and
  bypasses the bus (`virtio_blk.cpp:181`), so a page the hart has executed stays
  in the instruction cache although the emulator's README says caches are
  invalidated on DRAM writes (`README.md:14`).
- `mmu_superpages`: a fence of one page clears one set of the TLB
  (`tlb.cpp:127`), but a superpage has an entry in each set it was accessed
  through, so the fence does not do what `SFENCE.VMA` with an address does
  (`README.md:22`).

Five more are in the models, and a property names each as the exception it makes;
without the exception TLC finds the behaviour told here.

- `ShutdownEnds`, `guest = "join" /\ input = "read" /\ ~closes`: after Ctrl+A Q the
  input thread is back in `read()` before main clears `running_`, and the join
  (`uart.cpp:133`) waits for one more key, against `README.md:31`.
- `DataAnnounced`, `unheard`: the driver stores `ier_` and looks at the FIFO with
  no lock, the input thread pushes and looks at `ier_` with no lock
  (`uart.cpp:105`). Each can look before it can see what the other wrote, so a
  byte that is waiting is not announced, against the comment at `uart.cpp:70`.
- `UsedNoticed`, `missed` (and `unheard` once more): a completion clears the pending
  bit (`plic.cpp:56`), so what is raised between the driver's last look and its
  completion is lost, in a register `README.md:25` calls safe for concurrent
  access. The driver that completes after it has served is the usual one.
- `DecodeCoherent`, `spaces`: the decode cache is looked up by virtual pc before
  any translation (`cpu.cpp:93`), and neither satp nor the level is part of the
  key or moves the epoch (`csr.cpp:154`), so a hart that switches spaces with no
  fence and no store executes the other space's instruction, without the checks
  of `README.md:21`.
- `AddressWritesKeepRanges`, `write_pmpaddr`: `write_pmpcfg` tests the lock bit of
  the register's number, not of its contents (`csr.cpp:244`), so locked entries
  are rewritten, against `csr.cpp:249` and `README.md:23`.

Seen while modelling; modelled as the code is, or kept out by the bound named:

- *Hart.* Legacy `set_timer` clears MTIP only (`trap.cpp:136`), so a forwarded STIP stays.
- *Console.* A Ctrl+A from a pipe is dropped, as `s_instance` is set for terminals only
  (`uart_posix.cpp:76`); the run has a terminal.
- *Virtio net.* A full wake-up pipe blocks the CPU thread inside
  `queue_mutex_` (`virtio_net_slirp.cpp:370`) while the poll thread waits for
  that mutex. The pipe holds 65,536 bytes. With `PipeSize` 1 TLC shows
  `TxDelivered` failing by that deadlock. A first receive descriptor
  shorter than the header makes `dlen - 12` wrap (`virtio_net.cpp:205`);
  `NetAssumption` leaves it out. A frame longer than its chain is cut short
  without a sign. Nothing stops the poll thread (`virtio_net.cpp:26`): it goes
  on using a `Bus` that is being destroyed. The comment at `virtio_net.cpp:122`
  counts on locks that `bus.cpp:59-91` has commented out.
- *Display.* `FrameBuffer::init` sets `input_` after it started the thread that
  uses it (`framebuffer_sdl.cpp:10`), and `Bus` declares the queue after the
  framebuffer (`bus.hpp:99`), so it is destroyed before that thread is joined.
  `KeysIntact` excludes behaviours in which a key meets no queue. Two keys with
  one code (the Ctrl keys) release each other.
- *MMU.* A hit neither sets the D bit (`mmu.cpp:64`) nor
  looks at MXR (`mmu.cpp:30`). The walker discards PMP's verdict on its table
  reads (`mmu.cpp:148`), and A/D are written before a misaligned superpage
  faults (`mmu.cpp:131`).
- *Memory.* A misaligned store over a page boundary invalidates the first page
  only (`bus.cpp:124`). The poll thread's store can fall between the copy of a
  page and its publication (`icache.cpp:30`). `current_epoch_++` is not atomic
  (`cpu.cpp:296`), and `reservation_valid_` has no initialiser (`cpu.hpp:95`).
  An access that starts below the end of DRAM and ends beyond it goes past the
  vector; `Instructions` takes any value for what is read there.
- *Virtio block.* The stream's failbit is never cleared (`virtio_blk.cpp:177`):
  after one failure all requests fail. `ReadsLastWrite` holds since failed
  requests are answered as failed.
- *PMP.* NAPOT sizes (`csr.cpp:304`) and ranges up to 2^32 (`csr.cpp:298`) come
  out wrong. `VerdictIsOfFirstRange` is about TOR and NA4.
- *Instructions.* CSRRSI and CSRRCI write `rd` before the CSR write can be
  refused (`execute.cpp:645`, `665`): exempt from `FaultsAreClean`. A fault on
  the second half of a fetch reports the pc (`cpu.cpp:166`). A misaligned
  access over a page translates its first byte only (`execute.cpp:276`).
  Register shift counts are not masked (`execute.cpp:137`); a shift by the
  width or more is undefined in C++, and the model takes the low bits as x86
  does.

## 8. Not modelled

- The feature negotiation and configuration registers of both virtio devices;
  libslirp and SDL are external.
- The end of the network's poll thread, which the code does not have, and the
  deferred UART input of the tests (`bus.cpp:35-46`).
- The Windows backends (same shape, other system calls), trace and disassembler
  (no machine state), ELF and binary loaders, profiles and `main` (start-up and
  file input), the `Memory` class (instantiated nowhere), test programs.
- UART divisor latch, modem status and scratch registers.
- Host memory ordering apart from the store buffer in `Console`.
- In `Memory`, which space translates what: any may come after any, and the walk,
  the TLB and the levels are `Mmu`'s and `Hart`'s. Stores and loads are by
  physical address.

## 9. Plan

Done: hart, PLIC, console, window and keyboard, the network and block rings with
the network's descriptor chains, MMU, memory, PMP, instructions; theorems for
each property that can be proved, and for the safety half of the others
(section 5). The order was that of consequence: first what an operating system's
isolation rests on, then interrupts, devices with threads, the caches, and the
arithmetic.

Next:

1. shared memory between hart and poll thread: `Memory` already has the second
   thread's actions; state and prove what does hold with it (units the
   thread did not write);
2. the register file of CLINT with its 64-bit halves;
3. a disk driver that notifies from inside its handler. `VirtioBlk`'s does not, and
   its requests are answered on the CPU thread, so nothing is raised between its
   claim and its completion; one that does would meet `plic.cpp:56`.
