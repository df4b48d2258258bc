\* At a terminal: keys at any moment, at a driver that completes when it likes;
\* the line stays open or hangs up.  At a window: keys, drawing, a closed
\* window.  The guest may stop.
CONSTANTS
    NUM_SOURCES = 2
    PriorityWrites = {}
    EnableWrites = {}
    CompleteWrites = {}
    IRQ = 1
    CtrlA = "^A"
    Quit = "q"
    Script <- Keystrokes
    Tty = TRUE
    Lines <- Both
    GuestExits = TRUE
    MaxSend = 2
    Profiles <- Both
    Windows <- TwoHands
    Alphanumerics <- Letters
    CELLS = 2
    MaxDraws = 2
SPECIFICATION DeskSpec
INVARIANTS StreamIntact DataAnnounced KeysIntact
PROPERTIES BytesReachGuest TransmitDrains ShutdownEnds FrameSettles
CHECK_DEADLOCK FALSE
