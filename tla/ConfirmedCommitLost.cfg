SPECIFICATION StoreSpec
CONSTANTS
    Payloads = {p1, p2}
    Defaults = Defaults
    Mixed = Mixed
    NoPayload = NoPayload
    PayloadLen = 2
    FileLimit = 16
    MaxFaults = 2
    ReadFaults = FALSE
INVARIANTS ConfirmedCommitLoads
CHECK_DEADLOCK FALSE
