\* A transfer ends.
CHECK_DEADLOCK FALSE
SPECIFICATION FairSpec
CONSTANTS
    Sessions = {1, 2, 3}
    Stale = {3}
    N = 9
    BLOCKNUMS = 6
    Lifetime = 2
    BUFFERS = 2
    RETRIES = 3
INVARIANTS
    InOrder
    OneSession
    CompletedUnlessLost
    ServerNotAhead
PROPERTIES
    Terminates
