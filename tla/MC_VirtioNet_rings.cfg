\* Both threads over two-slot rings whose indices wrap, with resets, and frames
\* over one and two descriptors.
CONSTANTS
    QUEUE_SIZE = 2
    IdxMod = 4
    NET_HDR_SIZE = 2
    TxChains <- Sent
    RxChains <- Posted
    RxLengths <- LongShort
    PipeSize = 4
    MaxEvents = 4
SPECIFICATION FairSpec
INVARIANTS TypeOK TxIntact DmaIntoOwnedBuffers RxIntact
PROPERTIES TxDelivered UsedNoticed
CHECK_DEADLOCK FALSE
