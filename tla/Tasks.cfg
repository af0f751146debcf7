\* One task processes telecommands, the other one configures and reports.
CONSTANTS
    MaxEntries = 1
    Keys = {k1}
    Values = {h}
    NoKey = NoKey
    NoValue = NoValue
    MaxRequests = 2
    AckSets <- AroundExecution
    AppStatuses = {"OK", "HANDLER_FAILED"}
    TcMayCall <- TcCalls
    HkMayCall <- HkCalls
    MaxCounter = 1
    MaxReentry = 2
    MaxProgress = 0
SPECIFICATION FairSpec
INVARIANTS
    TasksShareTheNumbering
    TasksKeepTheRouting
PROPERTIES
    ImplementsCore
    EveryRequestCloses
    MutexIsGivenBack
