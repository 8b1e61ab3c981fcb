SPECIFICATION Spec
CONSTANTS
    NUM_CARDS = 4
    NUM_RESOURCES = 3
    MAX_INTERRUPTS = 2
    BARS = 2
    Sizes = {1, 2}
    NUM_FOUND = 2
INVARIANT
    NoOverlap
