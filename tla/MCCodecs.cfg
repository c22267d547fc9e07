SPECIFICATION Spec
CONSTANTS
    Base = 4
    LimbDigits = 2
    Symbol = 8
    Throws = Throws
    Absent = Absent
    NoVersion = NoVersion
    Idle = Idle
    Shake256 <- Digits
    Radixes = {1, 2, 5, 7}
    HexLength = 6
    AddLength = 4
    Secrets <- SomeSecrets
    Tokens <- SomeTokens
    WalletPositions <- SomePositions
    Years <- SomeYears
    Offsets <- SomeOffsets
    Fractions <- SomeFractions
INVARIANTS RadixExact AdditionExact Base64RoundTrip FramesDistinct BindsMaker TimestampExact
