SPECIFICATION Spec
CONSTANTS
    Thread = {t1}
    Name = {a, b}
    Inodes = 2
    PerGroup = 1
    MaxEvents = 3
    OwnNames = TRUE
    QuietDrops = TRUE
INVARIANT
    ErrorsReturn
