------------------------------ MODULE MC_Hart ------------------------------
(* Small instances of Hart: the values guest software writes.              *)
EXTENDS Hart, FiniteSets

Off == [sie |-> FALSE, mie |-> FALSE, spie |-> FALSE, mpie |-> FALSE,
        spp |-> FALSE, mpp |-> U, mprv |-> FALSE, tw |-> FALSE, tsr |-> FALSE]

(* A return to the reserved level, clamped to S, with everything else set.  *)
Reserving ==
    {[Off EXCEPT !.mpp = 2, !.mprv = TRUE, !.spp = TRUE, !.sie = TRUE, !.mpie = TRUE]}

Mixed       == {{SSI}, {SSI, STI}}
IllegalOnly == {{2}}
Timers      == {{MTI}, {STI, SEI}}
Reserved    == {[base |-> 64, mode |-> 3]}
OneCode     == {16}
OddEpc      == {17}
Deadlines   == {1}
Zero        == {0}
=============================================================================
