SPECIFICATION Spec
CONSTANTS
    Attempts = 4
    MaxCommits = 3
INVARIANTS
    TypeOK
    CopyIsCommitted
    RefusalHasCause
