\* The scheduler loop and the simulator of two light drones, with two light
\* deliveries: every assignment, advancement, charging and autoscaling path.
CONSTANTS
    r1 = r1  r2 = r2  d1 = d1  d2 = d2
    Drones = {r1, r2}
    Deliveries = {d1, d2}
    DroneOrder <- MCDroneOrder
    DeliveryOrder <- MCDeliveryOrder2
    Classes <- MCClasses
    DroneType <- MCDroneType
    DeliveryClass <- MCDeliveryClass
    MissionCost <- MCMissionCost
    PickupTooFar <- MCPickupTooFar
    LOCK_TTL_EXPIRES = FALSE
    MaxBattery = 2
    CRITICAL_BATTERY = 0
    FULL_AFTER = 2
    EARLY_CHARGE_THRESHOLD = 2
    NULL = NULL
    Sched = sched
    ReqWorkers = {}
    TelWorkers = {}
    AUTOSCALE_DISABLED = FALSE
    PENDING_SCAN_LIMIT = 2
    MAX_ASSIGN_PER_ROUND = 2
    BASE_ACTIVE = 1
    DRONE_POOL_MAX = 2
    SCALE_NUM = 4
    SCALE_DEN = 5
SPECIFICATION Spec
INVARIANTS
    TypeOK
    BusyIffDelivery
    ActiveDeliveryHeld
    FeasMissMatchesSet
