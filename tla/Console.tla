------------------------------ MODULE Console ------------------------------
(***************************************************************************)
(* The serial console: the keys a person types reach the guest through the *)
(* UART's input thread, its receive FIFO and an interrupt                  *)
(* (src/devices/uart/uart.cpp, uart_posix.cpp), over the PLIC of Plic.     *)
(*                                                                         *)
(* Two threads.  The input thread reads a byte, pushes what it stands for  *)
(* (under rx_mutex_), then looks at ier_ (no lock) and raises IRQ.  The    *)
(* CPU thread runs the guest: it programs the UART and the PLIC, takes an  *)
(* external interrupt when the sampled SEIP says so, and serves it.        *)
(*                                                                         *)
(* ier_ is a plain byte written by one thread and read by the other: the   *)
(* CPU's store may sit in its store buffer (ier) before the input thread   *)
(* can see it (ierSeen).  Taking rx_mutex_ drains the buffer.              *)
(*                                                                         *)
(* The guest's driver is not in the repository.  It follows the 16550      *)
(* protocol: claim, then while IIR reports a reason serve it, and some     *)
(* time between the claim and the return complete.  A completion drops the *)
(* pending bit (plic.cpp, line 56), a raise since the claim with it.       *)
(***************************************************************************)
EXTENDS Plic, Sequences

CONSTANTS
    IRQ,             \* the UART's source
    Script,          \* the sequences of keys a person may type
    CtrlA, Quit,     \* the bytes read_char gives a meaning
    Tty,             \* stdin is a terminal: s_instance is set
    Lines,           \* the values of closes
    GuestExits,      \* the guest may shut the machine down
    MaxSend          \* BOUND: the bytes the guest transmits

\* What may be typed.
Bytes == UNION {{s[i] : i \in DOMAIN s} : s \in Script}

ASSUME ConsoleAssumption ==
    /\ IRQ \in Sources
    /\ Script \subseteq Seq(Bytes) /\ CtrlA # Quit
    /\ {Tty, GuestExits} \cup Lines \subseteq BOOLEAN
    /\ MaxSend \in Nat

RDI == "RDI"      \* IER_RDI: receive data interrupt
THRI == "THRI"    \* IER_THRI: transmitter empty interrupt

VARIABLES
    closes,      \* stdin ends after the keys, and read returns 0 from then on;
                 \* never changed
    keys,        \* what is still to be typed
    typed,       \* what read_char has read
    escape_mode, \* the static of read_char
    running,     \* running_
    input,       \* the input thread: "top", "read", "push", "notify", "done"
    todo,        \* the bytes it has still to push
    rx_fifo,
    gone,        \* the bytes that left rx_fifo, read or flushed, in order
    ier, ierSeen,
    dlab,        \* lcr_ & 0x80
    guest,       \* the CPU thread: the guest is at "boot", "run", "claim",
                 \* "iir", "drain" or "eoi"; later "join", "exited" (a crash
                 \* is Display's: "crashed")
    seip,        \* MIP.SEIP as updateCycle last sampled it
    tosend,      \* bytes in the driver's transmit buffer
    sent,        \* bytes it has queued so far
    halted,
    unheard      \* history: nothing told the guest of the bytes that wait

thread   == <<running, input>>
rx       == <<typed, escape_mode, todo, rx_fifo, gone>>
uartRegs == <<ier, ierSeen, dlab>>
tx       == <<tosend, sent>>
stepVars == <<plicVars, keys, thread, rx, uartRegs, guest, seip, tx, halted>>
vars == <<stepVars, closes, unheard>>

Init ==
    /\ PlicInit
    /\ closes \in Lines
    /\ keys \in Script /\ typed = <<>>
    /\ escape_mode = FALSE /\ todo = <<>>
    /\ running = TRUE /\ input = "top"
    /\ rx_fifo = <<>> /\ gone = <<>>
    /\ ier = {} /\ ierSeen = {} /\ dlab = FALSE
    /\ guest = "boot" /\ seip = FALSE
    /\ tosend = 0 /\ sent = 0
    /\ halted = FALSE /\ unheard = FALSE

-----------------------------------------------------------------------------
(* The input thread. *)

Pushes_WrongWayRound(byte) ==
    IF escape_mode
    THEN CASE byte = Quit  -> <<>>
           [] byte = CtrlA -> <<CtrlA>>
           [] OTHER        -> IF Tty THEN <<byte, CtrlA>> ELSE <<byte>>
    ELSE IF byte = CtrlA THEN <<>> ELSE <<byte>>

\* What read_char makes of a byte: the bytes to push, one after the other.
Pushes(byte) ==
    IF escape_mode
    THEN CASE byte = Quit  -> <<>>
           [] byte = CtrlA -> <<CtrlA>>
           [] OTHER        -> IF Tty THEN <<CtrlA, byte>> ELSE <<byte>>
    ELSE IF byte = CtrlA THEN <<>> ELSE <<byte>>

LoopTop ==
    /\ input = "top"
    /\ input' = IF running THEN "read" ELSE "done"
    /\ UNCHANGED <<plicVars, keys, running, rx, uartRegs, guest, seip, tx, halted>>

\* With no key typed the thread stays inside read(2).
ReadNothing ==
    /\ input = "read" /\ keys = <<>> /\ closes
    /\ input' = "top"
    /\ UNCHANGED <<plicVars, keys, running, rx, uartRegs, guest, seip, tx, halted>>

\* cpu.halt() writes state_, which the CPU thread may overwrite: Hart has how.
ReadChar ==
    /\ input = "read" /\ keys # <<>>
    /\ LET byte == Head(keys) IN
          /\ typed' = Append(typed, byte)
          /\ escape_mode' = (byte = CtrlA /\ ~escape_mode)
          /\ halted' \in {halted, halted \/ (escape_mode /\ byte = Quit /\ Tty)}
          /\ todo' = Pushes(byte)
          /\ input' = IF Pushes(byte) = <<>> THEN "top" ELSE "push"
    /\ keys' = Tail(keys)
    /\ UNCHANGED <<plicVars, running, rx_fifo, gone, uartRegs, guest, seip, tx>>

\* rx_push, under rx_mutex_.
Push ==
    /\ input = "push"
    /\ rx_fifo' = Append(rx_fifo, Head(todo))
    /\ todo' = Tail(todo)
    /\ input' = "notify"
    /\ UNCHANGED <<plicVars, keys, running, typed, escape_mode, gone, uartRegs,
                   guest, seip, tx, halted>>

\* rx_push, after it.
Wanted == RDI \in ierSeen

AfterPush == IF todo = <<>> THEN "top" ELSE "push"

Notify ==
    /\ input = "notify"
    /\ input' = AfterPush
    /\ IF Wanted THEN set_pending(IRQ) ELSE UNCHANGED plicVars
    /\ UNCHANGED <<keys, running, rx, uartRegs, guest, seip, tx, halted>>

InputThread == LoopTop \/ ReadNothing \/ ReadChar \/ Push \/ Notify

-----------------------------------------------------------------------------
(* The UART's registers, as the CPU thread uses them. *)

IerRaises_OnlyForTransmit(bits) == THRI \in bits
IerRaises_NotForTransmit(bits) == RDI \in bits /\ rx_fifo # <<>>

\* The raises a write of IER makes.  rx_fifo_ is looked at without its lock,
\* and before the store need be visible.
IerRaises(bits) ==
    \/ RDI \in bits /\ rx_fifo # <<>>
    \/ THRI \in bits

WriteIer(bits) ==
    /\ ier' = IF dlab THEN ier ELSE bits
    /\ IF ~dlab /\ IerRaises(bits) THEN set_pending(IRQ) ELSE UNCHANGED plicVars

\* The processor lets the store out of its buffer.  A step that takes a lock
\* cannot pass a buffered store (FlushedBy).
StoreDrains ==
    /\ ierSeen # ier
    /\ ierSeen' = ier
    /\ UNCHANGED <<plicVars, keys, thread, rx, ier, dlab, guest, seip, tx, halted>>

FlushedBy == ierSeen' = ier

WriteFcrReset ==
    /\ gone' = gone \o rx_fifo /\ rx_fifo' = <<>>
    /\ FlushedBy
    /\ UNCHANGED <<plicVars, keys, thread, typed, escape_mode, todo, ier, dlab,
                   seip, tx>>

WriteLcr(bit) ==
    /\ dlab' = bit
    /\ UNCHANGED <<plicVars, keys, thread, rx, ier, ierSeen, seip, tx>>

ReadRbr ==
    /\ gone' = Append(gone, Head(rx_fifo)) /\ rx_fifo' = Tail(rx_fifo)
    /\ FlushedBy
    /\ UNCHANGED <<plicVars, keys, thread, typed, escape_mode, todo, ier, dlab,
                   seip, tx>>

\* THR: the byte is out at once, and the transmitter empty again.
WriteThr ==
    /\ tosend' = tosend - 1
    /\ IF THRI \in ier THEN set_pending(IRQ) ELSE UNCHANGED plicVars
    /\ UNCHANGED <<keys, thread, rx, uartRegs, seip, sent>>

read_iir_NoReceive == IF THRI \in ier THEN THRI ELSE "none"

\* The reason IIR gives, "none" for none.
read_iir ==
    CASE RDI \in ier /\ rx_fifo # <<>> -> RDI
      [] THRI \in ier                  -> THRI
      [] OTHER                         -> "none"

-----------------------------------------------------------------------------
(* The guest on the CPU thread. *)

Live == ~halted

\* Before its driver runs the guest may do anything to the UART.
Boot ==
    /\ Live /\ guest = "boot"
    /\ \/ WriteFcrReset
       \/ \E bit \in BOOLEAN : WriteLcr(bit)
    /\ UNCHANGED <<guest, halted>>

SetPlic ==
    /\ Live /\ guest = "boot"
    /\ \/ priority[IRQ] = 0 /\ WritePriority(IRQ, 1)
       \/ enable[CTX_SUPERVISOR] = {} /\ WriteEnable(CTX_SUPERVISOR, {IRQ})
    /\ UNCHANGED <<keys, thread, rx, uartRegs, guest, seip, tx, halted>>

\* The last step of the driver's setup.
StartDriver ==
    /\ Live /\ guest = "boot" /\ ~dlab
    /\ priority[IRQ] # 0 /\ enable[CTX_SUPERVISOR] # {}
    /\ WriteIer({RDI})
    /\ guest' = "run"
    /\ UNCHANGED <<keys, thread, rx, ierSeen, dlab, seip, tx, halted>>

StartSend ==
    /\ Live /\ guest = "run" /\ tosend = 0
    /\ \E n \in 1..(MaxSend - sent) :
          /\ tosend' = n
          /\ sent' = sent + n
    /\ WriteIer(ier \cup {THRI})
    /\ UNCHANGED <<keys, thread, rx, ierSeen, dlab, guest, seip, halted>>

\* The driver opens the line again, or closes it.
SwitchReceive ==
    /\ Live /\ guest = "run"
    /\ WriteIer(IF RDI \in ier THEN ier \ {RDI} ELSE ier \cup {RDI})
    /\ UNCHANGED <<keys, thread, rx, ierSeen, dlab, guest, seip, tx, halted>>

\* updateCycle, lines 271-276.
Sample ==
    /\ Live
    /\ seip # interrupt_pending(CTX_SUPERVISOR)
    /\ seip' = interrupt_pending(CTX_SUPERVISOR)
    /\ UNCHANGED <<plicVars, keys, thread, rx, uartRegs, guest, tx, halted>>

TakeInterrupt ==
    /\ Live /\ guest = "run" /\ seip
    /\ guest' = "claim"
    /\ UNCHANGED <<plicVars, keys, thread, rx, uartRegs, seip, tx, halted>>

\* A sample may be stale: a claim that finds nothing ends the handler.
Claim ==
    /\ Live /\ guest = "claim"
    /\ \/ ClaimLoad(CTX_SUPERVISOR) /\ UNCHANGED guest
       \/ ClaimClear /\ guest' = "iir"
       \/ /\ claim = NoClaim /\ ~interrupt_pending(CTX_SUPERVISOR)
          /\ guest' = "run"
          /\ UNCHANGED plicVars
    /\ UNCHANGED <<keys, thread, rx, uartRegs, seip, tx, halted>>

\* Linux completes after it has served; a driver may as well do it before.
Eoi ==
    /\ Live /\ guest \in {"iir", "drain", "eoi"}
    /\ CompleteClaimed(CTX_SUPERVISOR)
    /\ guest' = IF guest = "eoi" THEN "run" ELSE guest
    /\ UNCHANGED <<keys, thread, rx, uartRegs, seip, tx, halted>>

Identify ==
    /\ Live /\ guest = "iir" /\ read_iir # THRI
    /\ guest' = IF read_iir = RDI THEN "drain"
                ELSE IF claimed[CTX_SUPERVISOR] = 0 THEN "run" ELSE "eoi"
    /\ UNCHANGED <<plicVars, keys, thread, rx, uartRegs, seip, tx, halted>>

\* The driver sends a byte, or with none left turns the interrupt off.
Transmit ==
    /\ Live /\ guest = "iir" /\ read_iir = THRI
    /\ \/ tosend > 0 /\ WriteThr
       \/ /\ tosend = 0 /\ WriteIer(ier \ {THRI})
          /\ UNCHANGED <<keys, thread, rx, ierSeen, dlab, seip, tx>>
    /\ UNCHANGED <<guest, halted>>

\* LSR, then RBR while LSR_DR is set.
Drain ==
    /\ Live /\ guest = "drain"
    /\ \/ rx_fifo # <<>> /\ ReadRbr /\ UNCHANGED guest
       \/ /\ rx_fifo = <<>> /\ guest' = "iir" /\ FlushedBy
          /\ UNCHANGED <<plicVars, keys, thread, rx, ier, dlab, seip, tx>>
    /\ UNCHANGED halted

\* SBI shutdown, or a ProgramExit, by the driver's kernel or before it is up.
Shutdown ==
    /\ GuestExits /\ Live /\ guest \in {"boot", "run"}
    /\ halted' = TRUE
    /\ UNCHANGED <<plicVars, keys, thread, rx, uartRegs, guest, seip, tx>>

StopFlag_Forgotten == running

StopFlag == FALSE

\* run returns, main destroys the emulator, ~UART stops the input thread.
StopInputThread ==
    /\ halted /\ guest \notin {"join", "exited", "crashed"}
    /\ running' = StopFlag /\ guest' = "join"
    /\ UNCHANGED <<plicVars, keys, input, rx, uartRegs, seip, tx, halted>>

Join ==
    /\ guest = "join" /\ input = "done"
    /\ guest' = "exited"
    /\ UNCHANGED <<plicVars, keys, thread, rx, uartRegs, seip, tx, halted>>

Handler == TakeInterrupt \/ Claim \/ Eoi \/ Identify \/ Transmit \/ Drain
Setup == SetPlic \/ StartDriver
Finish == StopInputThread \/ Join

Step ==
    \/ InputThread
    \/ StoreDrains
    \/ Boot \/ Setup \/ StartSend \/ SwitchReceive \/ Sample \/ Handler
    \/ Shutdown \/ Finish

\* Two steps may leave the guest unaware of a byte: the look at ier_ that comes
\* before its store (uart.cpp, line 105), and a completion after the handler's
\* last look (plic.cpp, line 56).
Overlooked ==
    \/ input = "notify" /\ input' # "notify" /\ RDI \in ier \ ierSeen
    \/ guest = "eoi" /\ guest' = "run" /\ IRQ \in pending

\* It lasts until the next raise, or until the FIFO is empty.
Unheard == (unheard \/ Overlooked) /\ IRQ \notin pending' /\ rx_fifo' # <<>>

Next == Step /\ closes' = closes /\ unheard' = Unheard

Spec == Init /\ [][Next]_vars

(* A person need not type; what a pipe holds is there to be read.  The     *)
(* operating system runs both threads, the processor does not keep a store *)
(* to itself forever, CPU::run samples the lines every 1024 turns, and the *)
(* guest's kernel serves an interrupt it has taken.                        *)
Fairness ==
    /\ WF_stepVars(LoopTop \/ ReadNothing \/ Push \/ Notify)
    /\ WF_stepVars(closes /\ ReadChar)
    /\ WF_stepVars(StoreDrains)
    /\ WF_stepVars(Sample)
    /\ WF_stepVars(Handler)

-----------------------------------------------------------------------------
\* One byte of what the keys typed mean, by the rule the comments of read_char
\* give; esc: a Ctrl+A is open.
Means(last, b) ==
    CASE last.esc /\ b = Quit  -> [out |-> last.out, esc |-> FALSE]
      [] last.esc /\ b = CtrlA -> [out |-> Append(last.out, CtrlA), esc |-> FALSE]
      [] last.esc /\ b \notin {Quit, CtrlA} ->
           [out |-> last.out \o <<CtrlA, b>>, esc |-> FALSE]
      [] ~last.esc /\ b = CtrlA -> [out |-> last.out, esc |-> TRUE]
      [] OTHER                  -> [out |-> Append(last.out, b), esc |-> FALSE]

Meaning(bytes) ==
    LET m[i \in 0..Len(bytes)] ==
            IF i = 0 THEN [out |-> <<>>, esc |-> FALSE]
            ELSE Means(m[i - 1], bytes[i])
    IN  m[Len(bytes)].out

(* No byte is lost, duplicated or reordered between the keyboard and the   *)
(* guest: what left the FIFO, what is in it and what the input thread is   *)
(* still to push are together the meaning of what was typed (read_char,    *)
(* rx_push, the RBR and FCR cases).                                        *)
StreamIntact == gone \o rx_fifo \o todo = Meaning(typed)

(* With the receive interrupt enabled, data does not wait unannounced: the *)
(* source is pending, or the input thread is on its way to raise it, or    *)
(* the guest is in its handler - or one of the two steps of Overlooked has *)
(* come in between and nothing since.  There is no third way (rx_push, the *)
(* IER case of write8, the PLIC's claim and completion), although line 70  *)
(* of uart.cpp has data waiting always interrupt.                          *)
DataAnnounced ==
    Live /\ guest = "run" /\ RDI \in ier /\ rx_fifo # <<>>
        => IRQ \in pending \/ input = "notify" \/ unheard

(* A byte in the FIFO gets to the guest, unless the machine stops, the     *)
(* guest turns the receive interrupt off, or it is not told: then the next *)
(* byte's raise brings it (uart.cpp, lines 68-76 and 100-108).             *)
BytesReachGuest ==
    rx_fifo # <<>> /\ guest # "boot"
        ~> rx_fifo = <<>> \/ halted \/ RDI \notin ier \/ unheard

(* What the guest queues for transmission leaves, unless the machine stops *)
(* (the THRI raises of write8).                                            *)
TransmitDrains == tosend > 0 ~> tosend = 0 \/ halted

(* A machine told to stop ends its process; main waits for nothing but a   *)
(* read of the console on an open line, or a push through the dangling     *)
(* pointer has killed it (~Bus, ~FrameBuffer and uart.cpp, lines 130-135). *)
(* The hotkey of src/README.md, line 31, may end in either.                *)
ShutdownEnds ==
    halted ~> \/ guest \in {"exited", "crashed"}
              \/ guest = "join" /\ input = "read" /\ ~closes
=============================================================================
