SPECIFICATION FairSpec
CONSTANTS
    a1 = a1
    a2 = a2
    r1 = r1
    r2 = r2
    Apps = {a1, a2}
    Requests = {r1, r2}
    RequestLen = 3
    ResponseLens = {4}
    INIT_PAYLOAD = 2
    CONT_PAYLOAD = 1
    MAX_SEQ = 3
    Pad = Pad
    Commands = {"init", "cbor", "error", "keepalive"}
    BROADCAST_CID = BROADCAST_CID
    NoCid = NoCid
    None = None
    Failed = Failed
    MaxCid = 3
    MaxLost = 1
    MaxQueue = 2
INVARIANTS ChannelsDistinct WholeRequests
PROPERTIES ExchangeContract CallsEnd
CHECK_DEADLOCK FALSE
