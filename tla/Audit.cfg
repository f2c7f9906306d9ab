SPECIFICATION FairSpec
CONSTANTS
    Ops = {o1, o2}
    BatchSize = 2
    MaxEvents = 4
INVARIANTS
    TypeOK
    LoggedOnce
    LogTellsHistory
    VerdictHasAuthor
PROPERTIES
    EveryTransitionLogged
