------------------------------- MODULE Fleet --------------------------------
(***************************************************************************)
(* The dispatcher's tasks and the drone simulator's per-drone loops, all   *)
(* acting on the shared drone and delivery documents.                      *)
(***************************************************************************)
EXTENDS DroneSim, Dispatcher

vars == <<fleetVars, simVars, dispVars>>

Init == FleetInit /\ SimInit /\ DispInit

Next ==
    \/ DispNext /\ UNCHANGED simVars
    \/ SimNext /\ UNCHANGED dispVars

\* The scheduler loop never ends (sleep, then the next round): weak fairness.
\* A retry loop that gives up (`wins` = FALSE) does so only after a run of
\* collisions with other writers, which cannot go on forever, so the winning
\* outcome of the scheduler's release of a finished drone, and of its
\* charging / retiring loop, is strongly fair.
\* Each drone's loop runs every tick; `step` covers a fixed fraction of the
\* remaining distance, so a flying drone ends within ARRIVE_EPS_KM of its
\* target after finitely many ticks, and the CAS merge of an arrival,
\* recomputed every tick, lands eventually.
\* The on_drone_upd consumers get no fairness: their events may be dropped.
Fairness ==
    /\ WF_vars(SchedStep /\ UNCHANGED simVars)
    /\ SF_vars(RecReadDelivery(TRUE) /\ UNCHANGED simVars)
    /\ SF_vars(GovLoop(TRUE) /\ UNCHANGED simVars)
    /\ \A r \in Drones :
         /\ WF_vars(SimStep(r) /\ UNCHANGED dispVars)
         /\ SF_vars(SimRead(r, TRUE) /\ UNCHANGED dispVars)
         /\ SF_vars(SimMerge(r, TRUE) /\ simTick[r].pos # Away /\ UNCHANGED dispVars)

Spec == Init /\ [][Next]_vars /\ Fairness

-----------------------------------------------------------------------------
TypeOK ==
    /\ drone \in [Drones -> DroneDoc]
    /\ delivery \in [Deliveries -> DeliveryDoc]
    /\ dlock \subseteq Deliveries /\ rlock \subseteq Drones
    /\ published \in [{"delivery_assigned", "delivery_completed"} \X Deliveries -> Nat]
    /\ reqs \subseteq Deliveries
    /\ simTick \in [Drones -> SimTickState]

Active(d) == delivery[d].status \in {"assigned", "in_flight"}

\* The rule inconsistency_guard logs against: a drone is busy exactly when it
\* has a current delivery (assign_one's claim and every release must set the
\* two fields together, and no stale write may split them).
BusyIffDelivery ==
    \A r \in Drones : drone[r].status = "busy" <=> drone[r].current_delivery # NULL

\* A delivery that is assigned or in flight is carried by the drone it names,
\* and that drone is busy on it: assign_one claims the drone before the
\* delivery CAS, advancement marks the delivery delivered before releasing
\* the drone, and no write in between may detach the two.
ActiveDeliveryHeld ==
    \A d \in Deliveries :
        Active(d) => /\ drone[delivery[d].drone_id].status = "busy"
                     /\ drone[delivery[d].drone_id].current_delivery = d

StatusRank == [pending |-> 0, assigned |-> 1, in_flight |-> 2, delivered |-> 3]

\* A delivery only moves forward (pending, assigned, in_flight, delivered),
\* keeps the drone it was first given, and is never written once delivered,
\* although the advancing tasks CAS with documents that may be stale and
\* carry on with d_new after a failed CAS.
DeliveryMonotone ==
    [][\A d \in Deliveries :
         /\ StatusRank[delivery'[d].status] >= StatusRank[delivery[d].status]
         /\ delivery[d].drone_id # NULL => delivery'[d].drone_id = delivery[d].drone_id
         /\ delivery[d].status = "delivered" => delivery'[d] = delivery[d]
      ]_vars

\* feas_miss counts the deliveries in feas_miss_set: a drone's infeasibility
\* is counted once per delivery (pick_drone adds the id with the increment,
\* and both are reset together), whatever the interleaving of picks and
\* rechecks on that drone.
FeasMissMatchesSet ==
    \A r \in Drones : drone[r].feas_miss = Cardinality(drone[r].feas_miss_set)

\* The tasks inside assign_one's drone-lock section (after acquiring
\* "drone:{id}", before the finally block releases it).
HoldsDroneLock(p) ==
    pc[p] \in {"as_recheck", "as_put_drone", "as_claim_drone", "as_cas_delivery", "as_rollback"}

\* The drone lock excludes: no two assign_one calls are in the section of the
\* same drone at once.
DroneLockExclusive ==
    \A p, q \in Tasks :
        p # q /\ HoldsDroneLock(p) /\ HoldsDroneLock(q) => asg[p].r # asg[q].r

\* delivery_assigned is published at most once per delivery, although
\* assign_one may run for it from the scheduler and from on_request at once.
AssignedOnce ==
    \A d \in Deliveries : published[<<"delivery_assigned", d>>] <= 1

\* An assigned delivery is eventually delivered: the drone flies its legs and
\* the scheduler's advance_deliveries observes each arrival.
AssignedEventuallyDelivered ==
    \A d \in Deliveries : delivery[d].status = "assigned" ~> delivery[d].status = "delivered"

\* The drone of a delivered delivery is eventually released from it, by the
\* advancement's set_drone_idle_if_busy or, when that gave up, by
\* reconcile_stuck_busy.
DeliveredDroneReleased ==
    \A d \in Deliveries, r \in Drones :
        (delivery[d].status = "delivered" /\ drone[r].current_delivery = d)
            ~> drone[r].current_delivery # d

\* A retiring drone is eventually inactive: it flies to a charge point,
\* recharges to FULL_AFTER, and govern_charging_and_retiring retires it.
RetiringEventuallyInactive ==
    \A r \in Drones : drone[r].status = "retiring" ~> drone[r].status = "inactive"

=============================================================================
