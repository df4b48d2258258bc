------------------------------- MODULE MC_Mmu -------------------------------
(* Guests for TLC: pages of even number share a set of the TLB. *)
EXTENDS Mmu

Request(t, l) ==
    [type |-> t, level |-> l, mprv |-> FALSE, mpp |-> "U", sum |-> FALSE, mxr |-> FALSE]

OneRead == {Request("R", "S")}
\* A store by a user, and a load with machine mode's MPRV on.
Users == {Request("W", "U"), [Request("R", "M") EXCEPT !.mprv = TRUE, !.mpp = "S"]}

Pte(p, perm) ==
    [v |-> TRUE, perm |-> perm, u |-> FALSE, g |-> FALSE, a |-> FALSE, d |-> FALSE, ppn |-> p]

Seen(ptes) == {[pte EXCEPT !.a = TRUE, !.d = TRUE] : pte \in ptes}

Pointer == Pte(1, {})
SeenPage == Seen({Pte(3, {"R", "W"})})

\* A superpage not yet accessed, and one that is not aligned.
Super == Pte(N0, {"R", "W"})
Crooked == Pte(N0 + 1, {"R", "W"})

\* A user page, a global page and no page.
MixedPages == Seen({[Pte(0, {}) EXCEPT !.v = FALSE],
                    [Pte(3, {"R", "W"}) EXCEPT !.u = TRUE],
                    [Pte(5, {"R"}) EXCEPT !.g = TRUE]})

\* Two address spaces of two pages in two sets; every fence.
Switcher ==
    [asids |-> {0, 1}, pages |-> {0, 1}, requests |-> Users,
     leaves1 |-> {Pointer}, leaves0 |-> MixedPages,
     fences |-> ({0, 1} \union {Every}) \X (Asids \union {Every})]

\* Five pages for one set of four ways, mapped singly or by a superpage.
Crowder ==
    [asids |-> {0}, pages |-> {0, 2, 4, 6, 8}, requests |-> OneRead,
     leaves1 |-> {Pointer, Super}, leaves0 |-> SeenPage,
     fences |-> {<<0, Every>>}]

\* A superpage with pages in both sets; fences of every page.
Mapper ==
    [Crowder EXCEPT !.pages = {0, 1}, !.leaves1 = {Pointer, Super, Crooked},
                    !.fences = {Every} \X {0, Every}]

Safe == {Switcher, Crowder, Mapper}

\* The same, but fencing one page of the superpage.
PageFencer == {[Mapper EXCEPT !.fences = {<<0, Every>>}]}
=============================================================================
