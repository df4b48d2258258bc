----------------------------- MODULE MC_Display -----------------------------
(* A machine at a desk for TLC: what a person may do at it. *)
EXTENDS Display

\* Nothing, letters (outside an escape Q is one), every escape, one that stays
\* open, and an escape after a letter, before one and after another.
Keystrokes ==
    {<<>>, <<Quit>>, <<"a", "a">>, <<"a", CtrlA>>,
     <<CtrlA, CtrlA>>, <<CtrlA, "a">>, <<CtrlA, Quit>>,
     <<"a", CtrlA, Quit>>, <<CtrlA, "a", "a">>, <<CtrlA, CtrlA, Quit>>}

Key(type, sym) == [type |-> type, sym |-> sym]

\* Two keys of one code, a key without a code, and a closed window.
TwoHands ==
    {<<Key("down", "LCtrl"), Key("down", "a"), Key("up", "LCtrl")>>,
     <<Key("down", "F1"), Key("down", "RCtrl"), Key("quit", "F1"), Key("up", "RCtrl")>>}

Letters == {"a"}
Both == BOOLEAN
=============================================================================
