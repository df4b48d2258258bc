\* One page of a superpage is fenced after its table entry changed.
SPECIFICATION Spec
CONSTANTS
    N1 = 1
    N0 = 10
    TLB_SETS = 2
    Asids = {0, 1}
    Guests <- PageFencer
    MaxWrites = 1
PROPERTIES Refines
