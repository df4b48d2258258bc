\* Address spaces, a full set and superpages; tables rewritten at any time.
SPECIFICATION Spec
CONSTANTS
    N1 = 1
    N0 = 10
    TLB_SETS = 2
    Asids = {0, 1}
    Guests <- Safe
    MaxWrites = 1
INVARIANTS VictimNotRecent
PROPERTIES Refines
