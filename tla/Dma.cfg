SPECIFICATION Spec
CONSTANTS
    NCHANNELS = 3
    FecRx = "FEC0_RX"
    FecTx = "FEC0_TX"
    Drivers = {"DREQ1", "PSC2_TX", "CTM5", "PCI_TX"}
    Pausers = {"DREQ1"}
INVARIANTS
    RunningTaskOwned
    PendingForOwner
    ReleasedAll
    StatusMatchesEngine
