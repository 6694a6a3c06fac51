\* One keyed POST whose first try times out while its handler still runs,
\* with a reliable KV and no rate limit: the retry's handler finds the
\* anchor but not yet the document, and writes it as pending after the
\* dispatcher assigned it.
CONSTANTS
    r1 = r1  r2 = r2  k1 = k1
    Requests = {r1}
    ReqKey <- MCReqKey
    Keys = {k1}
    NoKey = NoKey  NoId = NoId  NoDoc = NoDoc  NoIdx = NoIdx  NoResp = NoResp
    INDEX_TRIES = 40
    PUT_LOST = FALSE
    GET_RAISES = FALSE
    CAS_LOST <- MCCasNone
    RL_RATE_NUM = 0
    RL_RATE_DEN = 1
    RL_BURST = 0
    MaxTime = 0
SPECIFICATION Spec
PROPERTIES
    PendingNeverRegresses
