\* Two clients reading and then CASing the key, twice each, on a primary
\* whose cache holds the key and keeps it (no eviction); the secondary's
\* requests may fail, so hints and the flusher run. Read-repair is off (its
\* clobber is the run MCKVRepair); eviction and fill run in MCKVHints.
CONSTANTS
    A = A  B = B  c1 = c1  c2 = c2
    Replicas = {A, B}
    Clients = {c1, c2}
    ReplicaOrder <- MCReplicaOrder
    Data <- MCData
    MaxTs <- MCMaxTs
    D0 = D0
    NoVal = NoVal
    Pending = Pending
    OPS = 2
    WRITE_OPS = {"cas"}
    FAILS = {B}
    READ_REPAIR = FALSE
    CACHE_WARM = TRUE
    CACHE_EVICTS = FALSE
SPECIFICATION Spec
INVARIANTS
    KVTypeOK
PROPERTIES
    Linearizable
SYMMETRY MCClientSymmetry
