\* Liveness of the scheduler and simulator alone: two light drones, one light
\* delivery; SCALE_RATIO 2 makes its backlog activate both drones and the
\* empty backlog retire one. Fairness as stated in Fleet.
CONSTANTS
    r1 = r1  r2 = r2  d1 = d1  d2 = d2
    Drones = {r1, r2}
    Deliveries = {d1}
    DroneOrder <- MCDroneOrder
    DeliveryOrder <- MCDeliveryOrder1
    Classes <- MCClasses
    DroneType <- MCDroneType
    DeliveryClass <- MCDeliveryClass
    MissionCost <- MCMissionCost
    PickupTooFar <- MCPickupTooFar
    LOCK_TTL_EXPIRES = FALSE
    MaxBattery = 2
    CRITICAL_BATTERY = 0
    FULL_AFTER = 2
    EARLY_CHARGE_THRESHOLD = 2
    NULL = NULL
    Sched = sched
    ReqWorkers = {}
    TelWorkers = {}
    AUTOSCALE_DISABLED = FALSE
    PENDING_SCAN_LIMIT = 2
    MAX_ASSIGN_PER_ROUND = 2
    BASE_ACTIVE = 1
    DRONE_POOL_MAX = 2
    SCALE_NUM = 2
    SCALE_DEN = 1
SPECIFICATION Spec
PROPERTIES
    AssignedEventuallyDelivered
    DeliveredDroneReleased
    RetiringEventuallyInactive
