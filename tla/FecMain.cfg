SPECIFICATION FairSpec
CONSTANTS
    NBUF_MAX = 3
    NRXBD = 1
    NTXBD = 3
    Senders = {"main"}
    Leaks = TRUE
INVARIANTS
    EachBufferHasOneOwner
    TxQueueCoversBDs
PROPERTIES
    RxServed
    TxServed
