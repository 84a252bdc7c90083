SPECIFICATION FairSpec
CONSTANTS
    Payloads <- MCPayloads
    Gaits <- MCGaits
    Defaults <- MCDefaults
    Mixed <- MCMixed
    NoPayload <- MCNoPayload
    PayloadLen = 2
    FileLimit = 13
    MaxFaults = 1
    ReadFaults = TRUE
    MaxTimeouts = 1
    MaxPresses = 1
PROPERTY CommitAnswers
INVARIANT BootPreservesReadable
CHECK_DEADLOCK FALSE
