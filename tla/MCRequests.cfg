\* One request consumer and one telemetry consumer beside the scheduler, two
\* drones, one delivery, and locks that may expire under their holder (so two
\* assign_one calls may work on the same delivery, and both advancement paths
\* act on it); EARLY_CHARGE_THRESHOLD 2: a failed recheck below the threshold
\* abandons the assignment without writing.
CONSTANTS
    r1 = r1  r2 = r2  d1 = d1  d2 = d2
    Drones = {r1, r2}
    Deliveries = {d1}
    DroneOrder <- MCDroneOrder
    DeliveryOrder <- MCDeliveryOrder1
    Classes <- MCClasses
    DroneType <- MCDroneType
    DeliveryClass <- MCDeliveryClass
    MissionCost <- MCMissionCost
    PickupTooFar <- MCPickupTooFar
    LOCK_TTL_EXPIRES = TRUE
    MaxBattery = 2
    CRITICAL_BATTERY = 0
    FULL_AFTER = 2
    EARLY_CHARGE_THRESHOLD = 2
    NULL = NULL
    Sched = sched
    ReqWorkers = {q1}
    TelWorkers = {t1}
    AUTOSCALE_DISABLED = FALSE
    PENDING_SCAN_LIMIT = 2
    MAX_ASSIGN_PER_ROUND = 2
    BASE_ACTIVE = 1
    DRONE_POOL_MAX = 2
    SCALE_NUM = 4
    SCALE_DEN = 5
SPECIFICATION Spec
INVARIANTS
    AssignedOnce
    FeasMissMatchesSet
PROPERTIES
    DeliveryMonotone
