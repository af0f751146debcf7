\* Every length from 0 to the wrap; two structures of one id and a third one for
\* two entries, two providers.
CONSTANTS
    s1 = s1
    s2 = s2
    p1 = p1
    p2 = p2
    MaxEntries = 2
    Keys <- ThreeStructures
    Values = {p1, p2}
    NoKey = NoKey
    NoValue = NoValue
    Sids <- TwoSids
    Wrap = 6
    HeaderLen = 1
    MaxPayload = 2
    Lengths <- AllLengths
    Failures = {"HANDLER_FAILED"}
    MaxDepth = 2
SYMMETRY ProvidersAreAlike
SPECIFICATION Spec
INVARIANTS
    TypeOK
    PacketsFitTheirBuffers
    RefusedOnlyWhenTooLong
PROPERTIES
    CollectedByItsProvider
