\* An interrupt handler that waits for an ARP reply waits for ever.
CHECK_DEADLOCK FALSE
SPECIFICATION FairSpec
CONSTANTS
    Hosts = {h1, h2, h3}
    NoHost = NoHost
    MAX_ARP_ENTRY = 2
    MAX_TRIES = 3
INVARIANTS
    OneEntryPerAddress
    SentToOwnerWithRoom
    HandlerNeverWaits
PROPERTIES
    SendReturns
