\* One client, two read-then-put rounds, while either replica may fail and
\* read-repair is off: both replicas get hints, and the second round queues
\* a new hint for one replica while the flusher replays the other's.
CONSTANTS
    A = A  B = B  c1 = c1  c2 = c2
    Replicas = {A, B}
    Clients = {c1}
    ReplicaOrder <- MCReplicaOrder
    Data <- MCData
    MaxTs <- MCMaxTs
    D0 = D0
    NoVal = NoVal
    Pending = Pending
    OPS = 2
    WRITE_OPS = {"put"}
    FAILS = {A, B}
    READ_REPAIR = FALSE
    CACHE_WARM = TRUE
    CACHE_EVICTS = FALSE
SPECIFICATION Spec
PROPERTIES
    HintNotDropped
