CONSTANTS
    Periods = {0, 30, 60}
    DEFAULT_PERIOD = 30
    Texts = {"a", "A", "_hidden"}
    Firmwares = {1, 3}
    old = old
    strange = strange
    x = x
    y = y
    Ids = {x, y}
    Existing <- MCExisting
    Issuers <- MCIssuers
    Accounts <- MCAccounts
    NewNames <- MCNewNames
    Queries <- MCQueries
    Counters = {0, 1}
    MaxCounter = 2
    MaxName = 6
    Times = {0, 60}
    Lower <- MCLower
    Hidden = "_hidden"
    MaxCommands = 3
    None = None
SPECIFICATION Spec
INVARIANTS
    TotpCodesRight
    CodesAccounted
    NoAccountLost
    SecretShown
    NameReadBack
SYMMETRY Symmetry
CHECK_DEADLOCK FALSE
