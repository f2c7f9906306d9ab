SPECIFICATION Spec
CONSTANTS
    None = None
    Devices = {d1}
    Sessions = {s1, s2}
    MaxOps = 1
    Commands = {"patch_config"}
    Verdicts = {}
    Refusals = {}
    Unsolicited = {}
    Slots = 2
    MaxCrashes = 0
    MaxEdits = 0
    MaxInFlight = 1
SYMMETRY SessionSymmetry
INVARIANTS
    RevokedMeansRevoked
