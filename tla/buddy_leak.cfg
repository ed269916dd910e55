SPECIFICATION Spec
CONSTANTS
    t1 = t1  t2 = t2
    Thread = {t1}
    Blocks = 4
    MaxOrder = 2
    MaxRequest = 4
    UsedAtMount <- MCUsedAtMount
INVARIANTS
    FullMeansFull
CHECK_DEADLOCK FALSE
