SPECIFICATION MmuSpec
CONSTANTS
    Pages = {0, 14, 15, 16, 17, 510, 511, 600}
    ST_RAM = {0}
    TOS = 14
    IO = 15
    RAM = {16, 17}
    BAS = 510
    DRIVERS = 511
    Lockable = {16, 17}
    DTLB = 9
    ITLB = 6
INVARIANTS
    SystemPages
    LockHolds
    LockedEntriesBounded
