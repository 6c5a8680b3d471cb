SPECIFICATION AdapterSpec
CONSTANTS
    INIT_PAYLOAD = 2
    CONT_PAYLOAD = 2
    MAX_SEQ = 1
    Pad = 0
    Commands = {"init", "cbor", "error", "keepalive"}
    Bytes <- MCBytes
    Payloads <- MCPayloads
    o1 = o1
    o2 = o2
    o3 = o3
    Operations = {o1, o2, o3}
    MessageLens = {1, 3, 5, 6, 7}
    APDU_DATA = 3
    NoOperation = NoOperation
INVARIANTS RoundTrip RequestsWhole
CHECK_DEADLOCK FALSE
