CONSTANTS
    MaxEntries = 2
    Keys = {k1, k2}
    Values = {h}
    NoKey = NoKey
    NoValue = NoValue
    MaxRequests = 1
    AckSets <- BeforeExecution
    AppStatuses = {"OK"}
    MayCall <- DeregisteringSink
    MaxCounter = 1
    MaxReentry = 2
    MaxProgress = 0
SPECIFICATION Spec
INVARIANTS
    HandlerMatchesCommand
