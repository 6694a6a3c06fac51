\* Two POSTs through the load balancer, one with an Idempotency-Key (whose
\* first try may time out, and be retried while it still runs) and one
\* without.  kv_cas may answer False having committed or not.  Lost puts
\* and raising reads are off: they only end a handler or leave a document
\* or zones_config unwritten, and touch neither deliveries_index nor the
\* bucket.  Four rounds of the index loop instead of 40: a failed round
\* changes nothing but the handler's round count, so any behaviour of the
\* code's loop maps to one with fewer rounds that reaches the same KV.
\* A bucket of one token refilled at half a token per
\* second, over two seconds.
CONSTANTS
    r1 = r1  r2 = r2  k1 = k1
    Requests = {r1, r2}
    ReqKey <- MCReqKey
    Keys = {k1}
    NoKey = NoKey  NoId = NoId  NoDoc = NoDoc  NoIdx = NoIdx  NoResp = NoResp
    INDEX_TRIES = 4
    PUT_LOST = FALSE
    GET_RAISES = FALSE
    CAS_LOST <- MCCasLost
    RL_RATE_NUM = 1
    RL_RATE_DEN = 2
    RL_BURST = 1
    MaxTime = 2
SPECIFICATION Spec
INVARIANTS
    TypeOK
    IndexNoDuplicates
    RateBound
