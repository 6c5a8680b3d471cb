CONSTANTS
    Slots = {"Decryption"}
    Firmwares = {"1.3", "1.6.2", "3.1.2"}
    Algorithms = {"Rsa2048", "Ed25519", "X25519", "Sm2"}
    Passwords = {"123456", "12345678", "abcdefgh"}
    Length <- MCLength
    PinDefault = "123456"
    AdminDefault = "12345678"
    DefaultTries = 2
    RetryCounts <- MCRetryCounts
    Fields = {"Name", "Url"}
    MaxCommands = 3
    None = None
    Unknown = Unknown
SPECIFICATION Spec
INVARIANTS
    RefusedMeansUnchanged
    OneTryPerCommand
    TruePasswords
    InfoTruthful
CHECK_DEADLOCK FALSE
