SPECIFICATION Spec
CONSTANTS
    Thread = {t1, t2}
    Name = {a, b}
    Inodes = 2
    PerGroup = 1
    MaxEvents = 2
    OwnNames = TRUE
    QuietDrops = TRUE
SYMMETRY Alike
INVARIANTS
    OrphanListComplete
    OneObject
    CountsAgree
    NeverPanics
    CountersFollow
    NothingForgotten
