CONSTANTS
    MaxEntries = 1
    Keys = {k1}
    Values = {h}
    NoKey = NoKey
    NoValue = NoValue
    MaxRequests = 2
    AckSets <- SomeAcks
    AppStatuses = {"OK", "HANDLER_FAILED"}
    MayCall <- Verifying
    MaxCounter = 1
    MaxReentry = 3
    MaxProgress = 3
SPECIFICATION Spec
INVARIANTS
    TypeOK
PROPERTIES
    ImplementsVerification
