\* A transfer ends.
CHECK_DEADLOCK FALSE
SPECIFICATION FairSpec
CONSTANTS
    Sessions = {1, 2}
    StaleReads = {3}
    N = 7
    BLOCKNUMS = 6
    Lifetime = 4
    RETRIES = 3
INVARIANTS
    AckedIsStored
    StoredUnlessRetriesUsed
PROPERTIES
    Terminates
