SPECIFICATION Spec
CONSTANTS
    DRIVER_MEM_BUFFER_SIZE = 96
    MAXMD = 4
    Amounts = {1, 17, 48}
INVARIANTS
    ListsConsistent
PROPERTIES
    IsHeap
