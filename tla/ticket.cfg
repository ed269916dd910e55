SPECIFICATION FairSpec
CONSTANTS
    t1 = t1  t2 = t2  t3 = t3
    Thread = {t1, t2, t3}
    Modulus = 4
INVARIANTS
    TypeOK
    TicketsInWindow
PROPERTIES
    LockReturns
    FairLockSpec
CHECK_DEADLOCK FALSE
