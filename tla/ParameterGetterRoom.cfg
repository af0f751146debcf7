\* Lengths up to the wrap of the offset.
CONSTANTS
    MaxEntries = 2
    Keys <- Ids
    Values <- Huge
    NoKey = NoKey
    NoValue = NoValue
    Base = 3
    Wrap = 18
    MaxTmPayload = 8
    MaxTcPayload = 12
    Commands <- LongCommands
    Requests <- SomeRequests
    Data <- HugeData
    AppStatuses = {"OK", "HANDLER_FAILED"}
SPECIFICATION Spec
INVARIANTS
    GetterHasRoom
