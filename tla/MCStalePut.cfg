\* One drone, two deliveries, one request consumer; the second delivery is
\* out of range, so a pick_drone write-back races the scheduler's claim.
CONSTANTS
    r1 = r1  r2 = r2  d1 = d1  d2 = d2
    Drones = {r1}
    Deliveries = {d1, d2}
    DroneOrder <- MCDroneOrder1
    DeliveryOrder <- MCDeliveryOrder2
    Classes <- MCClasses
    DroneType <- MCDroneType
    DeliveryClass <- MCDeliveryClass
    MissionCost <- MCMissionCostLong
    PickupTooFar <- MCPickupTooFar
    LOCK_TTL_EXPIRES = FALSE
    MaxBattery = 2
    CRITICAL_BATTERY = 0
    FULL_AFTER = 2
    EARLY_CHARGE_THRESHOLD = 2
    NULL = NULL
    Sched = sched
    ReqWorkers = {q1}
    TelWorkers = {}
    AUTOSCALE_DISABLED = FALSE
    PENDING_SCAN_LIMIT = 2
    MAX_ASSIGN_PER_ROUND = 2
    BASE_ACTIVE = 1
    DRONE_POOL_MAX = 2
    SCALE_NUM = 4
    SCALE_DEN = 5
SPECIFICATION Spec
INVARIANT
    ActiveDeliveryHeld
