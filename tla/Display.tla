------------------------------ MODULE Display ------------------------------
(***************************************************************************)
(* The window: the framebuffer, the SDL render thread and the keyboard     *)
(* queue (src/devices/framebuffer, src/devices/input.cpp), and how a       *)
(* machine with a window and a console starts and ends (bus.cpp:18-25 and  *)
(* the order ~Bus destroys its devices in).                                *)
(*                                                                         *)
(* Three threads: the render thread polls the window's events, pushes keys *)
(* into the queue and copies the pixels to the screen, with no lock on     *)
(* them; the CPU thread draws and pops; the console's input thread.        *)
(*                                                                         *)
(* input_ points nowhere until init has set it, which is after the thread  *)
(* started, and the queue it points to is destroyed before the thread is   *)
(* joined.  A push through it then is undefined: the process dies (Crash)  *)
(* or the key goes nowhere (stray).                                        *)
(*                                                                         *)
(* A cell is what one store of the guest writes; its colour is the number  *)
(* of that store.  SDL is external: what its calls do is in the comments.  *)
(***************************************************************************)
EXTENDS Console

CONSTANTS
    Profiles,         \* the values of open_sdl: with a window, without
    Windows,          \* the sequences of events a person may cause in it
    Alphanumerics,    \* the letters and digits among their keys
    CELLS,            \* the cells of the framebuffer
    MaxDraws          \* BOUND: the stores of the guest to it

\* What may happen in the window.
Events == UNION {{s[i] : i \in DOMAIN s} : s \in Windows}

ASSUME DisplayAssumption ==
    /\ Windows \subseteq Seq(Events)
    /\ Profiles \subseteq BOOLEAN
    /\ CELLS \in Nat \ {0} /\ MaxDraws \in Nat

Cells == 1..CELLS
Blank == [c \in Cells |-> 0]
None == "none"

VARIABLES
    open_sdl,     \* never changed
    setup,        \* the main thread in FrameBuffer::init: "init", "assign", "up"
    torn,         \* ... and in ~Bus: "no", "input", "stopped", "framebuffer"
    fb_running,   \* running_
    input_,       \* what the pointer points to: "wild", "live", "destroyed"
    render,       \* the render thread: "none", "init", "top", "poll", "push",
                  \* "copy", "present", "done"
    window,       \* the events still to come
    polled,       \* history: those the render thread has polled
    hand,         \* the key it is pushing, as a sequence
    queue,        \* queue_
    popped,       \* history: what the guest has popped
    stray,        \* history: a key was pushed through a pointer to no queue
    pixels, texture, screen,
    copied,       \* the cells UpdateTexture has copied
    draws

lifetime == <<setup, torn, fb_running, input_>>
keyboard == <<window, polled, hand, queue, popped, stray>>
picture  == <<pixels, texture, screen, copied, draws>>
displayVars == <<open_sdl, lifetime, render, keyboard, picture>>
deskVars == <<vars, displayVars>>

DeskInit ==
    /\ Init
    /\ open_sdl \in Profiles
    /\ open_sdl => keys = <<>>        \* it is the window that is used
    /\ setup = IF open_sdl THEN "init" ELSE "up"
    /\ torn = "no" /\ fb_running = FALSE /\ input_ = "wild" /\ render = "none"
    /\ window \in IF open_sdl THEN Windows ELSE {<<>>}
    /\ polled = <<>> /\ hand = <<>> /\ queue = <<>> /\ popped = <<>>
    /\ stray = FALSE
    /\ pixels = Blank /\ texture = Blank /\ screen = Blank
    /\ copied = 0 /\ draws = 0

-----------------------------------------------------------------------------
(* Start: FrameBuffer::init, before the CPU runs. *)

StartThread ==
    /\ setup = "init"
    /\ fb_running' = TRUE
    /\ render' = "init"
    /\ setup' = "assign"
    /\ UNCHANGED <<vars, open_sdl, torn, input_, keyboard, picture>>

AssignInput ==
    /\ setup = "assign" /\ guest # "crashed"
    /\ input_' = "live"
    /\ setup' = "up"
    /\ UNCHANGED <<vars, open_sdl, torn, fb_running, render, keyboard, picture>>

-----------------------------------------------------------------------------
(* The render thread. *)

DoomKeys ==
    [Up |-> "KEY_UPARROW", Down |-> "KEY_DOWNARROW", Left |-> "KEY_LEFTARROW",
     Right |-> "KEY_RIGHTARROW", Return |-> "KEY_ENTER", Escape |-> "KEY_ESCAPE",
     LCtrl |-> "KEY_FIRE", RCtrl |-> "KEY_FIRE", Space |-> "KEY_USE",
     LShift |-> "KEY_RSHIFT", RShift |-> "KEY_RSHIFT"]

translate_sdl_key(sym) ==
    CASE sym \in DOMAIN DoomKeys -> DoomKeys[sym]
      [] sym \in Alphanumerics   -> sym
      [] OTHER                   -> None

IsKey(e) == e.type # "quit" /\ translate_sdl_key(e.sym) # None

Code(e) == [key |-> translate_sdl_key(e.sym), pressed |-> e.type = "down"]

Pushed_PressesOnly(e) == IsKey(e) /\ e.type = "down"

\* The events render_loop pushes: keys going down and keys going up.
Pushed(e) == IsKey(e)

\* SDL_Init and the window, renderer and texture: any of them may fail.
OpenWindow ==
    /\ render = "init"
    /\ render' \in {"top", "done"}
    /\ UNCHANGED <<vars, open_sdl, lifetime, keyboard, picture>>

RenderTop ==
    /\ render = "top"
    /\ render' = IF fb_running THEN "poll" ELSE "done"
    /\ UNCHANGED <<vars, open_sdl, lifetime, keyboard, picture>>

AfterEvents_NoUpdate == "present"

AfterEvents == "copy"

\* SDL_PollEvent: nothing, as long as nobody has acted, or the next event.
PollNothing ==
    /\ render = "poll"
    /\ render' = AfterEvents
    /\ UNCHANGED <<vars, open_sdl, lifetime, keyboard, picture>>

PollEvent ==
    /\ render = "poll" /\ window # <<>>
    /\ LET e == Head(window) IN
          /\ polled' = Append(polled, e)
          /\ fb_running' = (fb_running /\ e.type # "quit")
          /\ hand' = IF Pushed(e) THEN <<Code(e)>> ELSE <<>>
          /\ render' = IF e.type = "quit" THEN AfterEvents
                       ELSE IF Pushed(e) THEN "push" ELSE "poll"
    /\ window' = Tail(window)
    /\ UNCHANGED <<vars, open_sdl, setup, torn, input_, queue, popped, stray,
                   picture>>

push_event ==
    /\ render = "push"
    /\ IF input_ = "live"
       THEN queue' = queue \o hand /\ UNCHANGED stray
       ELSE stray' = TRUE /\ UNCHANGED queue
    /\ hand' = <<>>
    /\ render' = "poll"
    /\ UNCHANGED <<vars, open_sdl, lifetime, window, polled, popped, picture>>

\* The other outcome of a push through the pointer to nothing.
Crash ==
    /\ render = "push" /\ input_ # "live"
    /\ stray' = TRUE
    /\ render' = "done" /\ input' = "done"
    /\ halted' = TRUE /\ guest' = "crashed"
    /\ UNCHANGED <<plicVars, closes, keys, running, rx, uartRegs, seip, tx, unheard,
                   open_sdl, lifetime, window, polled, hand, queue, popped, picture>>

\* SDL_UpdateTexture copies the pixels while the guest goes on drawing.
UpdateTexture ==
    /\ render = "copy"
    /\ copied' = copied + 1
    /\ texture' = [texture EXCEPT ![copied'] = pixels[copied']]
    /\ render' = IF copied' = CELLS THEN "present" ELSE "copy"
    /\ UNCHANGED <<vars, open_sdl, lifetime, keyboard, pixels, screen, draws>>

\* SDL_RenderCopy, SDL_RenderPresent and 16 ms of sleep.
Present ==
    /\ render = "present"
    /\ screen' = texture
    /\ copied' = 0
    /\ render' = "top"
    /\ UNCHANGED <<vars, open_sdl, lifetime, keyboard, pixels, texture, draws>>

Render == \/ OpenWindow \/ RenderTop \/ PollNothing \/ PollEvent
          \/ push_event \/ UpdateTexture \/ Present

-----------------------------------------------------------------------------
(* The guest at the window, on the CPU thread. *)

AtWindow == open_sdl /\ setup = "up" /\ Live

\* A store outside of the framebuffer is ignored.
Draw ==
    /\ AtWindow /\ draws < MaxDraws
    /\ draws' = draws + 1
    /\ \E c \in Cells : pixels' = [pixels EXCEPT ![c] = draws']
    /\ UNCHANGED <<vars, open_sdl, lifetime, render, keyboard, texture, screen,
                   copied>>

\* A load of REG_POP; with nothing queued it returns 0xFFFFFFFF.
PopEvent ==
    /\ AtWindow /\ queue # <<>>
    /\ popped' = Append(popped, Head(queue))
    /\ queue' = Tail(queue)
    /\ UNCHANGED <<vars, open_sdl, lifetime, render, window, polled, hand,
                   stray, picture>>

-----------------------------------------------------------------------------
(* The end: the main thread, once run has returned, destroys the members   *)
(* of Bus in the reverse order of their declaration.                       *)

DestroyInput ==
    /\ halted /\ guest # "crashed" /\ torn = "no"
    /\ input_' = "destroyed"
    /\ torn' = "input"
    /\ UNCHANGED <<vars, open_sdl, setup, fb_running, render, keyboard, picture>>

StopRender ==
    /\ torn = "input" /\ guest # "crashed"
    /\ fb_running' = FALSE
    /\ torn' = "stopped"
    /\ UNCHANGED <<vars, open_sdl, setup, input_, render, keyboard, picture>>

JoinRender ==
    /\ torn = "stopped" /\ guest # "crashed"
    /\ render \in {"none", "done"}
    /\ torn' = "framebuffer"
    /\ UNCHANGED <<vars, open_sdl, setup, fb_running, input_, render, keyboard,
                   picture>>

TearDown == DestroyInput \/ StopRender \/ JoinRender

\* The console at a desk: nothing halts before the CPU runs, the UART is the
\* last device destroyed, and a guest with a window leaves the UART alone.
ConsoleStep ==
    /\ Next
    /\ halted' = halted \/ setup = "up"
    /\ running' = running \/ torn = "framebuffer"
    /\ open_sdl => <<plicVars, uartRegs>>' = <<plicVars, uartRegs>>
    /\ UNCHANGED displayVars

DeskNext ==
    \/ ConsoleStep
    \/ StartThread \/ AssignInput
    \/ Render \/ Crash
    \/ Draw \/ PopEvent
    \/ TearDown

(* The operating system also runs the render thread, and the main thread   *)
(* in FrameBuffer::init and in ~Bus.  Nothing is assumed of what the guest *)
(* draws or when it looks for keys, nor of the person at the window.       *)
DeskSpec ==
    /\ DeskInit /\ [][DeskNext]_deskVars
    /\ Fairness
    /\ WF_deskVars(AssignInput)
    /\ WF_deskVars(Render)
    /\ WF_deskVars(TearDown)
    /\ WF_stepVars(torn = "framebuffer" /\ Finish)

-----------------------------------------------------------------------------
\* The keys of a sequence of events, as the guest's driver knows them.
Codes(events) ==
    LET c[i \in 0..Len(events)] ==
            IF i = 0 THEN <<>>
            ELSE IF IsKey(events[i]) THEN Append(c[i - 1], Code(events[i]))
                                     ELSE c[i - 1]
    IN  c[Len(events)]

(* Unless a key meets no queue, none is lost, repeated or overtaken on its *)
(* way through the queue the two threads share: each press and each        *)
(* release of a key that has a code reaches the guest or is on its way     *)
(* (framebuffer_sdl.cpp:69-78, input.cpp:3-17).                            *)
KeysIntact == ~stray => popped \o queue \o hand = Codes(polled)

(* No picture is lost: although a copy may be torn by the drawing it races *)
(* with, what the guest leaves in the framebuffer gets to the screen, or   *)
(* the window is gone (framebuffer_sdl.cpp:67-86).                         *)
FrameSettles ==
    open_sdl /\ pixels # screen
        ~> pixels = screen \/ render \in {"none", "done"}
=============================================================================
