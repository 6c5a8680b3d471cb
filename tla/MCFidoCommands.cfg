CONSTANTS
    c1 = c1
    c2 = c2
    short = short
    long = long
    Creds = {c1, c2}
    Texts = {"a"}
    Pins = {short, long}
    PinLength <- MCPinLength
    Minimums = {4, 6}
    Arrays = {"array"}
    Empty = Empty
    None = None
SPECIFICATION Spec
VIEW MCView
SYMMETRY MCSymmetry
PROPERTIES
    ListIsSnapshot
    ChangedAsShown
    OtherFieldsKept
