SPECIFICATION Spec
CONSTANTS
    None = None
    Devices = {d1}
    Sessions = {s1, s2}
    MaxOps = 1
    Commands = {"read_config", "patch_config", "restart"}
    Verdicts = {"confirmed_failed"}
    Refusals = {}
    Unsolicited = {"heartbeat"}
    Slots = 2
    MaxCrashes = 0
    MaxEdits = 1
    MaxInFlight = 1
SYMMETRY SessionSymmetry
PROPERTIES
    CurrentSessionDecides
    CurrentSessionKept
    CurrentSessionRecords
