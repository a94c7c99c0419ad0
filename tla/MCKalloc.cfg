CONSTANTS
    Base = 8
    MinBlock = 16
    NOrders = 3
    Width = 31
    Page = 8
    Header = 3
    Sizes = {1, 2, 4, 8, 17, 33}
    MaxLive = 3
SPECIFICATION Spec
INVARIANTS
    TypeOK
    HeapTiled
    NoOverlap
    SlotsCounted
    RefusesOnlyWhenFragmented
CHECK_DEADLOCK FALSE
