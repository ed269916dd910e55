SPECIFICATION FairSpec
CONSTANTS
    t1 = t1  t2 = t2
    Thread = {t1, t2}
    Blocks = 6
    MaxOrder = 2
    MaxRequest = 5
    UsedAtMount <- MCUsedAtMount
INVARIANTS
    TypeOK
    IndexesAgree
    BlocksExclusive
PROPERTIES
    OnlyHopeLoses
    ShortAnswers
    CallsReturn
    OwnershipSpec
CHECK_DEADLOCK FALSE
