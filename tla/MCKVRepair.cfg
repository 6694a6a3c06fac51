\* Read-then-CAS rounds with read-repair on and no failure: a GET that
\* read the primary before a CAS and the secondary after it repairs the
\* primary with the older value.
CONSTANTS
    A = A  B = B  c1 = c1  c2 = c2
    Replicas = {A, B}
    Clients = {c1, c2}
    ReplicaOrder <- MCReplicaOrder
    Data <- MCData
    MaxTs <- MCMaxTs
    D0 = D0
    NoVal = NoVal
    Pending = Pending
    OPS = 2
    WRITE_OPS = {"cas"}
    FAILS = {}
    READ_REPAIR = TRUE
    CACHE_WARM = TRUE
    CACHE_EVICTS = FALSE
SPECIFICATION Spec
PROPERTIES
    Linearizable
