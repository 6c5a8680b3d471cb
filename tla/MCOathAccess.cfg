CONSTANTS
    Hosts = {h1, h2}
    Passwords = {p1, p2}
    Handles = {d1, d2}
    Absent = Absent
SPECIFICATION AccessSpec
INVARIANTS
    RememberedKeyWorked
    StaleKeyNeverDenies
    SuccessSettlesKeyring
