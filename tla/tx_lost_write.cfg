SPECIFICATION Spec
CONSTANTS
    t1 = t1  t2 = t2
    b1 = b1  b2 = b2  b3 = b3
    g1 = g1  g2 = g2
    f1 = f1  f2 = f2  f3 = f3
    NoThread = NoThread
    Thread = {t1, t2}
    Block = {b1, b2}
    File = {f1, f2}
    Group = {g1}
    GroupOf <- MCGroupOf
    TableOf <- MCTableOf
    MaxEvents = 2
    IBlocksMod = 1
    ExclusiveFiles = TRUE
    MayFail = FALSE
INVARIANTS
    DurableWhenIdle
CHECK_DEADLOCK FALSE
