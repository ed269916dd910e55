SPECIFICATION Spec
CONSTANTS
    Thread = {t1, t2}
    Name = {a, b}
    Inodes = 2
    PerGroup = 1
    MaxEvents = 3
    OwnNames = TRUE
    QuietDrops = FALSE
SYMMETRY Alike
INVARIANT
    OneObject
