SPECIFICATION FairSpec
CONSTANTS
    Polls = {p1, p2}
    ListLimit = 50
    MaxRowPolls = 1
    MaxRequests = 1
    MaxRevision = 3
INVARIANTS
    TypeOK
    PatchesWhatWasSeen
PROPERTIES
    EndIsShown
