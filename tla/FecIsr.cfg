SPECIFICATION Spec
CONSTANTS
    NBUF_MAX = 4
    NRXBD = 2
    NTXBD = 3
    Senders = {"isr"}
    Leaks = TRUE
INVARIANTS
    RxRingInOrder
    RxFramesInOrder
    TxRingInOrder
    IsrNeverWaits
PROPERTIES
    TxImplementsFifo
