SPECIFICATION FairStoreSpec
CONSTANTS
    Payloads = {p1, p2}
    Defaults = Defaults
    Mixed = Mixed
    NoPayload = NoPayload
    PayloadLen = 2
    FileLimit = 20
    MaxFaults = 2
    ReadFaults = TRUE
INVARIANT SecondCommitSticks
PROPERTY BootRecovers
CHECK_DEADLOCK FALSE
