\* Two clients, one read-then-write round each, issuing either a put or a
\* CAS, on replicas that may both fail, with read-repair on and a warm
\* cache that keeps the key: hints are queued on both
\* replicas, replayed, kept on failure and popped by the flusher.
CONSTANTS
    A = A  B = B  c1 = c1  c2 = c2
    Replicas = {A, B}
    Clients = {c1, c2}
    ReplicaOrder <- MCReplicaOrder
    Data <- MCData
    MaxTs <- MCMaxTs
    D0 = D0
    NoVal = NoVal
    Pending = Pending
    OPS = 1
    WRITE_OPS = {"put"}
    FAILS = {A, B}
    READ_REPAIR = TRUE
    CACHE_WARM = TRUE
    CACHE_EVICTS = TRUE
SPECIFICATION Spec
PROPERTIES
    HintsDrain
