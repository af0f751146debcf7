\* Headers at the boundaries of their fields, and noise, in one buffer.
CONSTANTS
    Version = 1
    SentTc <- SomeTc
    SentTm <- SomeTm
    Noise <- SomeNoise
    Lengths = {9, 10, 11, 12}
SPECIFICATION Spec
INVARIANTS
    TypeOK
    TcRoundTrip
    TmRoundTrip
PROPERTIES
    DecodedStandsForItsBytes
