\* The largest payloads that ST[03] and ST[05] document.
CONSTANTS
    s1 = s1
    s2 = s2
    p1 = p1
    p2 = p2
    MaxEntries = 1
    Keys <- OneStructure
    Values = {p1}
    NoKey = NoKey
    NoValue = NoValue
    Sids <- OneSid
    Wrap = 10
    HeaderLen = 2
    MaxPayload = 4
    Lengths <- AllLengths
    Failures = {"HANDLER_FAILED"}
    MaxDepth = 2
SPECIFICATION Spec
INVARIANTS
    DocumentedPayloadIsSent
