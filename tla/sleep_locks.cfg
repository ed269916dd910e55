SPECIFICATION Spec
CONSTANTS
    t1 = t1
    t2 = t2
    t3 = t3
    Thread = {t1, t2, t3}
    WRITER_LOCKED = 4
    MaxCalls <- MCCalls
    Disciplined = TRUE
PROPERTIES
    CallsReturn
    ReadersWritersSpec
CHECK_DEADLOCK FALSE
