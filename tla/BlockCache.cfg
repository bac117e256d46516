SPECIFICATION Spec
CONSTANTS
    Blocks = {b1, b2, b3}
    Data = {v1, v2}
    CACHE_SIZE = 2
    Objs = {o1, o2}
INVARIANTS SlotHoldsBlock CleanIsDurable ReadsSeeUpdates
PROPERTY DirtyIsFlushed
