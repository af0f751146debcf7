CONSTANTS
    MaxEntries = 1
    Keys = {k1}
    Values = {h}
    NoKey = NoKey
    NoValue = NoValue
    MaxRequests = 1
    AckSets <- SomeAcks
    AppStatuses = {"OK", "HANDLER_FAILED"}
    MayCall <- Plain
    MaxCounter = 1
    MaxReentry = 2
    MaxProgress = 0
SPECIFICATION Spec
INVARIANTS
    FailureIsReported
