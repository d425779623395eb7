\* Every 16-bit input with 4-bit bytes: sizes 0..15 as nBits, 0..65535 as magnitudes.
CONSTANTS
    ByteBits = 4
    TargetBits = 16
    MaxInput = 65535
SPECIFICATION Spec

INVARIANT CompactRoundTrip
INVARIANT EncodeTruncatesDown
INVARIANT EncodeMonotone
