SPECIFICATION Spec
CONSTANTS
    DefaultKey = DefaultKey
    DefaultPin = DefaultPin
    k1 = k1
    k2 = k2
    p2 = p2
    ChosenKeys <- MCChosenKeys
    Pins <- MCPins
    Salts = {s1, s2}
    Paths = {f1, f2}
    NoKey = NoKey
    NoPin = NoPin
    NoSalt = NoSalt
    NoFile = NoFile
    NoPath = NoPath
SYMMETRY MCSymmetry
INVARIANT
    PinChangeKeepsKeyWorking
