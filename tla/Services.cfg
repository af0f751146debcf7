\* Five commands for two slots; a request may come while another is served.
CONSTANTS
    MaxEntries = 2
    Keys <- CommandKeys
    Values <- Handlers
    NoKey = NoKey
    NoValue = NoValue
    MaxRequests = 2
    AckSets <- OnlyAcceptance
    AppStatuses = {"OK", "BAD_LENGTH"}
    SinkStatuses = {"OK", "BAD_LENGTH"}
    Removable <- SomeKeys
    Buffers = {b1, b2}
    NoBuffer = NoBuffer
    MayCall <- Serving
    MaxCounter = 1
    MaxReentry = 6
    MaxProgress = 0
SPECIFICATION ServicesSpec
SYMMETRY BuffersAreAlike
VIEW WithoutThePast
INVARIANTS
    ServicesTypeOK
    StatusTellsTheAnswer
    PayloadsAreReadWhileLent
    RegistrationStatusIsTrue
