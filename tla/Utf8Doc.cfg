CONSTANTS
    MaxLength = 6
    Letters = {32, 65, 97}
    TextSize = 4
    SepSize = 2
    OtherSize = 2
    Bytes = {65, 128, 144, 191, 194, 224, 237, 160, 240, 244, 143, 245, 248}
    ByteCount = 4
    Halves = {65, 233, 8364, 55357, 56832}
    HalfCount = 4
    WideBits = 5
    MaxText = 8
    Signs = {1, 9, 16, 17, 18, 19, 20, 21}
    NumeralSize = 4
    ValueCount = 2
    Bits = {0, 1, 2}
    ItemCount = 3
SPECIFICATION Spec
INVARIANT BoundedMeansUtf8
