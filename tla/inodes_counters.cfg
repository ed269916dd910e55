SPECIFICATION Spec
CONSTANTS
    Thread = {t1, t2}
    Name = {a}
    Inodes = 2
    PerGroup = 2
    MaxEvents = 1
    OwnNames = TRUE
    QuietDrops = FALSE
SYMMETRY Alike
CONSTRAINT SoFar
INVARIANT
    CountersFollow
