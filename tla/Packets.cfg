SPECIFICATION Spec
CONSTANTS
    Base = 32
    IntBytes = 2
    ExpBytes = 2
    MantissaBits = 2
    MinExp <- MinExpDef
    MaxExp = 3
    MaxAlloc = 40
    Integers64 <- IntegersDef
    Doubles <- DoublesDef
    Strings <- StringsDef
    Blobs <- BlobsDef
    Formats <- FormatsDef
    Noise = {0, 1, 2, 3, 8, 17, 31}
INVARIANTS TypeOK RoundTrip CutIsNoticed FreedOnce
PROPERTIES OnlyPackedIsAccepted
