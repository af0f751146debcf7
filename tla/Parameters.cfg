\* Set commands, reports and re-registration on two parameters, with a length
\* close to the wrap of the offset.
CONSTANTS
    MaxEntries = 2
    Keys <- Ids
    Values <- Descriptors
    NoKey = NoKey
    NoValue = NoValue
    Base = 3
    Wrap = 18
    MaxTmPayload = 7
    MaxTcPayload = 12
    Commands <- SomeCommands
    Requests <- SomeRequests
    Data <- Mixed
    AppStatuses = {"OK", "HANDLER_FAILED"}
SPECIFICATION Spec
INVARIANTS
    TypeOK
    SetsFollowTheCommand
    StatusTellsWhatWasSet
    ReportIsReplayable
    OverrunNeedsHugeLength
\* The model stops where the code's behaviour is undefined.
CHECK_DEADLOCK FALSE
