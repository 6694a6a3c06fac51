----------------------------- MODULE DroneFleet -----------------------------
(***************************************************************************)
(* The documents the dispatcher and the drone simulator share through the  *)
(* KV: drone:{id} and delivery:{id}, and the dispatcher's lock records.     *)
(* The KV is taken here as a single linearizable copy per key (the         *)
(* replication layer of kvfront is not modelled); a CAS compares the      *)
(* whole stored document with the expected one, as db_cas does.           *)
(*                                                                         *)
(* Data abstraction: battery is a level 0..MaxBattery, a position is one   *)
(* of the places the code tests (a delivery's origin or destination within *)
(* ARRIVE_EPS_KM, the charge point within close_enough, or "away").        *)
(***************************************************************************)
EXTENDS Naturals, FiniteSets, Sequences

CONSTANTS
    Drones,                  \* drone ids (drones_index)
    Deliveries,              \* delivery ids (deliveries_index)
    DroneOrder,              \* drones_index as a sequence, the order the sweeps use
    DeliveryOrder,           \* deliveries_index as a sequence (creation order)
    Classes,                 \* light / medium / heavy, in the order autoscale visits them
    DroneType,               \* drone id -> class (its "type" field)
    DeliveryClass,           \* delivery id -> pkg_class(weight)
    MaxBattery,              \* the level standing for battery 100.0
    CRITICAL_BATTERY,        \* level of CRITICAL_BATTERY
    FULL_AFTER,              \* level of FULL_AFTER
    EARLY_CHARGE_THRESHOLD,
    MissionCost(_, _),       \* battery level pos -> origin -> destination -> charge point costs
    PickupTooFar(_, _),      \* haversine(pos, origin) > MAX_PICKUP_KM
    LOCK_TTL_EXPIRES,        \* whether a holder may outlive its lock's 20 s TTL
    NULL

ASSUME DroneOrder \in Seq(Drones) /\ Len(DroneOrder) = Cardinality(Drones)
ASSUME DeliveryOrder \in Seq(Deliveries) /\ Len(DeliveryOrder) = Cardinality(Deliveries)
ASSUME Classes \in Seq(STRING)
ASSUME DroneType \in [Drones -> {Classes[i] : i \in DOMAIN Classes}]
ASSUME DeliveryClass \in [Deliveries -> {Classes[i] : i \in DOMAIN Classes}]
ASSUME CRITICAL_BATTERY < FULL_AFTER /\ FULL_AFTER <= MaxBattery
ASSUME EARLY_CHARGE_THRESHOLD \in Nat \ {0}
ASSUME LOCK_TTL_EXPIRES \in BOOLEAN

VARIABLES
    drone,      \* drone id -> the drone:{id} document
    delivery,   \* delivery id -> the delivery:{id} document
    dlock,      \* delivery ids whose lock record is held (kvstore STORE_LOCKS)
    rlock,      \* drone ids whose lock record is held
    published   \* delivery_status events: <<type, delivery>> -> times published

fleetVars == <<drone, delivery, dlock, rlock, published>>

DroneStatus    == {"inactive", "idle", "busy", "charging", "retiring"}
DeliveryStatus == {"pending", "assigned", "in_flight", "delivered"}
Legs           == {"to_origin", "to_destination"}

Origin(d)      == <<d, "origin">>
Destination(d) == <<d, "destination">>
Charge         == <<"charge">>     \* close_enough to the nearest charge point
Away           == <<"away">>       \* anywhere else
Places         == {Charge, Away} \cup (Deliveries \X {"origin", "destination"})
Levels         == 0..MaxBattery

DroneDoc ==
    [status: DroneStatus, current_delivery: Deliveries \cup {NULL},
     battery: Levels, pos: Places, at_charge: BOOLEAN,
     feas_miss: 0..EARLY_CHARGE_THRESHOLD, feas_miss_set: SUBSET Deliveries]

DeliveryDoc ==
    [status: DeliveryStatus, drone_id: Drones \cup {NULL}, leg: Legs \cup {NULL}]

\* register_pool (drone_sim): every drone starts inactive, full, at a charge
\* point, with no delivery and no feasibility misses.
RegisteredDrone ==
    [status |-> "inactive", current_delivery |-> NULL, battery |-> MaxBattery,
     pos |-> Charge, at_charge |-> FALSE, feas_miss |-> 0, feas_miss_set |-> {}]

\* create_delivery (gateway): a fresh delivery is pending with no drone.
CreatedDelivery == [status |-> "pending", drone_id |-> NULL, leg |-> NULL]

FleetInit ==
    /\ drone = [r \in Drones |-> RegisteredDrone]
    /\ delivery = [d \in Deliveries |-> CreatedDelivery]
    /\ dlock = {}
    /\ rlock = {}
    /\ published = [e \in {"delivery_assigned", "delivery_completed"} \X Deliveries |-> 0]

-----------------------------------------------------------------------------
(* The KV operations the clients use. *)

\* Mutant: kv_cas done as kv_put, the expected document ignored.
PutDelivery(d, old, new) == delivery' = [delivery EXCEPT ![d] = new]

\* kv_cas on a delivery: the write happens only if the stored document still
\* equals the one the caller read; the result is not returned to callers that
\* ignore it (advance_deliveries, advance_for_drone).
CasDelivery(d, old, new) ==
    delivery' = IF delivery[d] = old THEN [delivery EXCEPT ![d] = new] ELSE delivery

\* kv_cas on a drone document, same semantics.
CasDrone(r, old, new) ==
    drone' = IF drone[r] = old THEN [drone EXCEPT ![r] = new] ELSE drone

\* kv_put: an unconditional overwrite with whatever the caller holds.
PutDrone(r, doc) == drone' = [drone EXCEPT ![r] = doc]

\* publish_delivery_status: one more event of this type for d.
Publish(type, d) == published' = [published EXCEPT ![<<type, d>>] = @ + 1]

\* Mutant: the release sets status idle and forgets current_delivery.
SetDroneIdleKeepDelivery(r, expected, wins) ==
    IF drone[r].status = "busy" /\ drone[r].current_delivery = expected /\ wins
    THEN drone' = [drone EXCEPT ![r].status = "idle"]
    ELSE UNCHANGED drone

\* set_drone_idle_if_busy: the read-check-CAS retry loop. A successful attempt
\* is a CAS against the document just read, so it takes effect atomically;
\* when the drone is no longer busy on `expected` the helper returns at once.
\* `wins` = FALSE is the loop giving up after its 40 attempts all collided.
SetDroneIdleIfBusy(r, expected, wins) ==
    IF drone[r].status = "busy" /\ drone[r].current_delivery = expected /\ wins
    THEN drone' = [drone EXCEPT ![r].status = "idle", ![r].current_delivery = NULL]
    ELSE UNCHANGED drone

\* kvstore lock_acquire grants a lock once now >= its expiry: a lock whose
\* holder has not released it within the TTL becomes free again, and the
\* holder carries on unaware.
LockExpires ==
    \/ \E d \in dlock : dlock' = dlock \ {d} /\ rlock' = rlock
    \/ \E r \in rlock : rlock' = rlock \ {r} /\ dlock' = dlock

\* The check set_drone_busy_if_idle makes before its CAS.
DroneIsFree(doc) == doc.status = "idle" /\ doc.current_delivery = NULL

\* can_complete_mission: battery >= (km pos -> origin -> destination ->
\* nearest charge point) * BATTERY_PER_KM + SAFETY_MARGIN_PCT. The cost is a
\* function of where the drone is and of the delivery, given per model.
Feasible(doc, d) == doc.battery >= MissionCost(doc.pos, d)

=============================================================================
