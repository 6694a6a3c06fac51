\* Read-then-CAS rounds on a cold cache that may lose the key: a GET that
\* missed reads the row, and its cache fill lands after a CAS has put the
\* newer value in the cache.
CONSTANTS
    A = A  B = B  c1 = c1  c2 = c2
    Replicas = {A, B}
    Clients = {c1, c2}
    ReplicaOrder <- MCReplicaOrder
    Data <- MCData
    MaxTs <- MCMaxTs
    D0 = D0
    NoVal = NoVal
    Pending = Pending
    OPS = 2
    WRITE_OPS = {"cas"}
    FAILS = {}
    READ_REPAIR = FALSE
    CACHE_WARM = FALSE
    CACHE_EVICTS = TRUE
SPECIFICATION Spec
PROPERTIES
    Linearizable
