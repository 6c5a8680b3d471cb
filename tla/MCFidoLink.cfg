SPECIFICATION LinkSpec
CONSTANTS
    c1 = c1
    c2 = c2
    c3 = c3
    other = other
    s1 = s1
    s2 = s2
    None = None
    MaxTries = 2
    Readers <- MCReaders
    Cards <- MCCards
    CanoKeys <- MCCanoKeys
    Serials <- MCSerials
    SerialOf <- MCSerialOf
    HidSerialOf <- MCHidSerialOf
INVARIANTS
    SelectionIsUnambiguous
    RetriedOnce
    LinkAsAsked
PROPERTIES
    ListingComplete
