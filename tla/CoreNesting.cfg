CONSTANTS
    MaxEntries = 2
    Keys = {k1, k2}
    Values = {h1}
    NoKey = NoKey
    NoValue = NoValue
    MaxRequests = 2
    AckSets <- BeforeExecution
    AppStatuses = {"OK"}
    MayCall <- Nesting
    MaxCounter = 1
    MaxReentry = 5
    MaxProgress = 1
SPECIFICATION Spec
INVARIANTS
    RoutingStaysValid
    CounterFollowsLastPacket
