SPECIFICATION Spec
CONSTANTS
    Silence = 45
    ResultWait = 110
    SendWait = 10
    Lease = 120
    MaxStalled = 12
INVARIANTS
    SilenceEnds
    LeaseOutlivesWait
