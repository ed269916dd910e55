SPECIFICATION Spec
CONSTANTS
    Thread = {t1, t2}
    Name = {a}
    Inodes = 2
    PerGroup = 1
    MaxEvents = 3
    OwnNames = TRUE
    QuietDrops = TRUE
PROPERTY
    Reclaimed
