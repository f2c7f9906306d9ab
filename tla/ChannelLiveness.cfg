SPECIFICATION FairSpec
CONSTANTS
    None = None
    Devices = {d1}
    Sessions = {s1, s2}
    MaxOps = 1
    Commands = {"read_config"}
    Verdicts = {}
    Refusals = {}
    Unsolicited = {"heartbeat"}
    Slots = 2
    MaxCrashes = 1
    MaxEdits = 0
    MaxInFlight = 1
PROPERTIES
    SlotComesFree
    WaitEnds
    RunningEnds
