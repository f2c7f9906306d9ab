SPECIFICATION Spec
CONSTANTS
    None = None
    Devices = {d1}
    Sessions = {s1, s2}
    MaxOps = 2
    Commands = {"patch_config"}
    Verdicts = {"unable_to_confirm", "confirmed_failed"}
    Refusals = {"rejected"}
    Unsolicited = {"repetition"}
    Slots = 1
    MaxCrashes = 1
    MaxEdits = 1
    MaxInFlight = 1
SYMMETRY SessionSymmetry
INVARIANTS
    TypeOK
    ExecuteAtMostOnce
    SettledBeforeNext
    OutcomeIsTrue
    SucceededPatchRecorded
PROPERTIES
    EvidenceIsNotVerdict
    ImplementsLifecycle
