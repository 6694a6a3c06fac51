----------------------------- MODULE Dispatcher -----------------------------
(***************************************************************************)
(* dispatcher/app.py: one process running three kinds of tasks that        *)
(* interleave at every KV call (each await is a step here):                *)
(*   - the scheduler loop (autoscale_by_type, govern_charging_and_retiring,*)
(*     advance_deliveries, reconcile_stuck_busy, assign_round, sleep);     *)
(*   - on_request consumers, each running assign_one for one message;      *)
(*   - on_drone_upd consumers, each running advance_for_drone.             *)
(* assign_one and the per-delivery advancement are shared procedures: the  *)
(* caller's return label is kept in ret.                                   *)
(*                                                                         *)
(* A read-check-CAS retry loop whose CAS expects the document read in the  *)
(* same iteration (set_drone_busy_if_idle, set_drone_idle_if_busy, the     *)
(* charging/retiring loops, autoscale activation) is one atomic step: a    *)
(* successful iteration is indistinguishable from an atomic conditional    *)
(* write, a failed one writes nothing. A write whose expected or written   *)
(* value was read at an earlier await is split from that read.             *)
(***************************************************************************)
EXTENDS DroneFleet, Functions

CONSTANTS
    Sched,                  \* the scheduler_loop task
    ReqWorkers,             \* concurrent on_request callbacks
    TelWorkers,             \* concurrent on_drone_upd callbacks
    AUTOSCALE_DISABLED,
    PENDING_SCAN_LIMIT,
    MAX_ASSIGN_PER_ROUND,
    BASE_ACTIVE,
    DRONE_POOL_MAX,
    SCALE_NUM, SCALE_DEN    \* SCALE_RATIO = SCALE_NUM / SCALE_DEN

ASSUME AUTOSCALE_DISABLED \in BOOLEAN
ASSUME {Sched} \cap (ReqWorkers \cup TelWorkers) = {} /\ ReqWorkers \cap TelWorkers = {}
ASSUME SCALE_DEN \in Nat \ {0}

VARIABLES
    pc,       \* task -> label of its next await
    ret,      \* task -> label to resume at when assign_one / advancement returns
    asg,      \* task -> assign_one's locals
    adv,      \* task -> the advancement's locals
    sched,    \* the scheduler loop's locals
    reqs      \* deliveries whose delivery_requests message is still queued

dispVars == <<pc, ret, asg, adv, sched, reqs>>

Tasks == {Sched} \cup ReqWorkers \cup TelWorkers
ClassSet == {Classes[i] : i \in DOMAIN Classes}

NoAsg == [d |-> NULL, ddoc |-> CreatedDelivery, i |-> 1, cand |-> {}, r |-> NULL,
          put |-> NULL, ok |-> FALSE]
NoAdv == [d |-> NULL, doc |-> CreatedDelivery, r |-> NULL, pos |-> Charge]
SchedIdle == [i |-> 1, out |-> <<>>, assigned |-> 0,
              per_type |-> [c \in ClassSet |-> 0], bucket |-> [r \in Drones |-> "inactive"],
              c |-> 1, todo |-> <<>>, safe |-> <<>>, noneed |-> 0, doc |-> NULL]

LoopStart == IF AUTOSCALE_DISABLED THEN "gov_read" ELSE "au_read_delivery"

DispInit ==
    /\ pc = [p \in Tasks |-> IF p = Sched THEN LoopStart
                             ELSE IF p \in ReqWorkers THEN "req_wait" ELSE "tel_wait"]
    /\ ret = [p \in Tasks |-> "none"]
    /\ asg = [p \in Tasks |-> NoAsg]
    /\ adv = [p \in Tasks |-> NoAdv]
    /\ sched = SchedIdle
    /\ reqs = Deliveries

Goto(p, l) == pc' = [pc EXCEPT ![p] = l]

-----------------------------------------------------------------------------
(* assign_one(delivery_id) *)

CallAssignOne(p, d, back) ==
    /\ asg' = [asg EXCEPT ![p] = [NoAsg EXCEPT !.d = d]]
    /\ ret' = [ret EXCEPT ![p] = back]
    /\ Goto(p, "as_lock_delivery")

\* lock_acquire("delivery:{id}"): failing returns False before the try block.
AsLockDelivery(p) ==
    LET d == asg[p].d IN
    /\ pc[p] = "as_lock_delivery"
    /\ IF d \notin dlock
       THEN /\ dlock' = dlock \cup {d}
            /\ Goto(p, "as_read_delivery")
       ELSE /\ dlock' = dlock
            /\ Goto(p, ret[p])
    /\ UNCHANGED <<drone, delivery, rlock, published, ret, asg, adv, sched, reqs>>

\* Read the delivery; anything but pending abandons (finally releases).
AsReadDelivery(p) ==
    LET d == asg[p].d IN
    /\ pc[p] = "as_read_delivery"
    /\ IF delivery[d].status = "pending"
       THEN /\ asg' = [asg EXCEPT ![p].ddoc = delivery[d]]
            /\ Goto(p, "pick_read")
       ELSE /\ asg' = asg
            /\ Goto(p, "as_release")
    /\ UNCHANGED <<fleetVars, ret, adv, sched, reqs>>

\* Mutant: the miss counted without recording the delivery.
MissRecordedCountOnly(doc, d) == [doc EXCEPT !.feas_miss = @ + 1]

\* One more feasibility miss, for delivery d.
MissRecorded(doc, d) ==
    [doc EXCEPT !.feas_miss = @ + 1, !.feas_miss_set = @ \cup {d}]

\* The document with feas_miss = 0 and feas_miss_set = [] (pick_drone's
\* reset once a drone is feasible again, or charging at the threshold).
FeasReset(doc) == [doc EXCEPT !.feas_miss = 0, !.feas_miss_set = {}]

\* pick_drone: one drone of drones_index per read. The filters in order;
\* each write-back is a kv_put of the document read here, done at the next
\* await (pick_put).
PickRead(p) ==
    LET a   == asg[p]
        d   == a.d
        r   == DroneOrder[a.i]
        doc == drone[r]
        miss == doc.feas_miss + 1
        far  == PickupTooFar(doc.pos, d)
        next == IF a.i = Len(DroneOrder) THEN "pick_choose" ELSE "pick_read"
        skip == /\ asg' = [asg EXCEPT ![p].i = a.i + 1]
                /\ Goto(p, next)
        write(new, cand) ==
                /\ asg' = [asg EXCEPT ![p].put = new, ![p].cand = cand]
                /\ Goto(p, "pick_put")
    IN
    /\ pc[p] = "pick_read"
    /\ IF doc.status # "idle" \/ doc.current_delivery # NULL \/ DroneType[r] # DeliveryClass[d]
       THEN skip
       ELSE IF doc.battery <= CRITICAL_BATTERY
       THEN write([doc EXCEPT !.status = "charging"], a.cand)
       ELSE IF ~Feasible(doc, d)
       THEN IF d \in doc.feas_miss_set
            THEN skip
            ELSE IF miss >= EARLY_CHARGE_THRESHOLD
            THEN write([FeasReset(doc) EXCEPT !.status = "charging"], a.cand)
            ELSE write(MissRecorded(doc, d), a.cand)
       ELSE IF doc.feas_miss # 0 \/ doc.feas_miss_set # {}
       THEN write(FeasReset(doc), a.cand \cup {<<r, far>>})
       ELSE /\ asg' = [asg EXCEPT ![p].i = a.i + 1, ![p].cand = a.cand \cup {<<r, far>>}]
            /\ Goto(p, next)
    /\ UNCHANGED <<fleetVars, ret, adv, sched, reqs>>

PickPut(p) ==
    LET a == asg[p] IN
    /\ pc[p] = "pick_put"
    /\ PutDrone(DroneOrder[a.i], a.put)
    /\ asg' = [asg EXCEPT ![p].put = NULL, ![p].i = a.i + 1]
    /\ Goto(p, IF a.i = Len(DroneOrder) THEN "pick_choose" ELSE "pick_read")
    /\ UNCHANGED <<delivery, dlock, rlock, published, ret, adv, sched, reqs>>

\* The ranking (distance bucket, zone proximity, battery, speed) orders by
\* coordinates and speeds the model abstracts, so any candidate may rank
\* first; the winner is rejected if it was further than MAX_PICKUP_KM.
PickChoose(p, c) ==
    /\ pc[p] = "pick_choose"
    /\ IF asg[p].cand = {}
       THEN /\ asg' = asg
            /\ Goto(p, "as_release")
       ELSE /\ c \in asg[p].cand
            /\ IF c[2]
               THEN /\ asg' = asg
                    /\ Goto(p, "as_release")
               ELSE /\ asg' = [asg EXCEPT ![p].r = c[1]]
                    /\ Goto(p, "as_lock_drone")
    /\ UNCHANGED <<fleetVars, ret, adv, sched, reqs>>

\* k_dlock is set before lock_acquire: when the acquire fails, the finally
\* block still releases "drone:{id}" -- the lock someone else holds.
AsLockDrone(p) ==
    LET r == asg[p].r IN
    /\ pc[p] = "as_lock_drone"
    /\ IF r \notin rlock
       THEN /\ rlock' = rlock \cup {r}
            /\ Goto(p, "as_recheck")
       ELSE /\ rlock' = rlock
            /\ Goto(p, "as_release")
    /\ UNCHANGED <<drone, delivery, dlock, published, ret, asg, adv, sched, reqs>>

\* Mutant: s_upd made serialisable by writing only the counter.
RecheckUpdateCountOnly(doc, d) ==
    IF doc.feas_miss + 1 >= EARLY_CHARGE_THRESHOLD
    THEN [FeasReset(doc) EXCEPT !.status = "charging"]
    ELSE [doc EXCEPT !.feas_miss = @ + 1]

\* The s_upd the recheck writes when the drone fails it: feas_miss + 1 and
\* feas_miss_set as a Python set, which kv_put cannot serialise -- the write
\* raises (NULL here) unless the threshold branch replaced the set with []
\* and made the drone charging.
RecheckUpdate(doc, d) ==
    IF doc.feas_miss + 1 >= EARLY_CHARGE_THRESHOLD
    THEN [FeasReset(doc) EXCEPT !.status = "charging"]
    ELSE NULL

\* Re-read the drone and re-check feasibility and battery; on failure write
\* s_upd, or leave through the exception.
AsRecheck(p) ==
    LET a    == asg[p]
        sdoc == drone[a.r]
        upd  == RecheckUpdate(sdoc, a.d)
    IN
    /\ pc[p] = "as_recheck"
    /\ IF Feasible(sdoc, a.d) /\ sdoc.battery > CRITICAL_BATTERY
       THEN /\ asg' = asg
            /\ Goto(p, "as_claim_drone")
       ELSE IF upd # NULL
       THEN /\ asg' = [asg EXCEPT ![p].put = upd]
            /\ Goto(p, "as_put_drone")
       ELSE /\ asg' = asg
            /\ Goto(p, "as_release")
    /\ UNCHANGED <<fleetVars, ret, adv, sched, reqs>>

AsPutDrone(p) ==
    /\ pc[p] = "as_put_drone"
    /\ PutDrone(asg[p].r, asg[p].put)
    /\ asg' = [asg EXCEPT ![p].put = NULL]
    /\ Goto(p, "as_release")
    /\ UNCHANGED <<delivery, dlock, rlock, published, ret, adv, sched, reqs>>

\* set_drone_busy_if_idle: idle -> busy on this delivery, every other field
\* kept; `wins` = FALSE is its 15 attempts all colliding.
AsClaimDrone(p, wins) ==
    LET a == asg[p] IN
    /\ pc[p] = "as_claim_drone"
    /\ IF DroneIsFree(drone[a.r]) /\ wins
       THEN /\ drone' = [drone EXCEPT ![a.r].status = "busy",
                                      ![a.r].current_delivery = a.d]
            /\ Goto(p, "as_cas_delivery")
       ELSE /\ drone' = drone
            /\ Goto(p, "as_release")
    /\ UNCHANGED <<delivery, dlock, rlock, published, ret, asg, adv, sched, reqs>>

\* Mutant: the delivery written pending -> assigned without the CAS.
AsCasDeliveryBlind(p) ==
    LET a   == asg[p]
        new == [a.ddoc EXCEPT !.status = "assigned", !.drone_id = a.r, !.leg = "to_origin"]
    IN
    /\ pc[p] = "as_cas_delivery"
    /\ delivery' = [delivery EXCEPT ![a.d] = new]
    /\ Publish("delivery_assigned", a.d)
    /\ asg' = [asg EXCEPT ![p].ok = TRUE]
    /\ Goto(p, "as_release")
    /\ UNCHANGED <<drone, dlock, rlock, ret, adv, sched, reqs>>

\* CAS delivery pending -> assigned against the document read at the start;
\* on success publish delivery_assigned, on failure roll the drone back.
AsCasDelivery(p) ==
    LET a   == asg[p]
        new == [a.ddoc EXCEPT !.status = "assigned", !.drone_id = a.r, !.leg = "to_origin"]
    IN
    /\ pc[p] = "as_cas_delivery"
    /\ IF delivery[a.d] = a.ddoc
       THEN /\ delivery' = [delivery EXCEPT ![a.d] = new]
            /\ Publish("delivery_assigned", a.d)
            /\ asg' = [asg EXCEPT ![p].ok = TRUE]
            /\ Goto(p, "as_release")
       ELSE /\ UNCHANGED <<delivery, published, asg>>
            /\ Goto(p, "as_rollback")
    /\ UNCHANGED <<drone, dlock, rlock, ret, adv, sched, reqs>>

AsRollback(p, wins) ==
    /\ pc[p] = "as_rollback"
    /\ SetDroneIdleIfBusy(asg[p].r, asg[p].d, wins)
    /\ Goto(p, "as_release")
    /\ UNCHANGED <<delivery, dlock, rlock, published, ret, asg, adv, sched, reqs>>

\* finally: release the drone lock (when k_dlock was set), then the delivery lock.
AsRelease(p) ==
    LET a == asg[p] IN
    /\ pc[p] = "as_release"
    /\ rlock' = IF a.r # NULL THEN rlock \ {a.r} ELSE rlock
    /\ dlock' = dlock \ {a.d}
    /\ asg' = [asg EXCEPT ![p] = [NoAsg EXCEPT !.ok = a.ok]]
    /\ Goto(p, ret[p])
    /\ UNCHANGED <<drone, delivery, published, ret, adv, sched, reqs>>

AssignOneStep(p) ==
    \/ AsLockDelivery(p)
    \/ AsReadDelivery(p)
    \/ PickRead(p)
    \/ PickPut(p)
    \/ \E c \in Drones \X BOOLEAN : PickChoose(p, c)
    \/ AsLockDrone(p)
    \/ AsRecheck(p)
    \/ AsPutDrone(p)
    \/ \E w \in BOOLEAN : AsClaimDrone(p, w)
    \/ AsCasDelivery(p)
    \/ \E w \in BOOLEAN : AsRollback(p, w)
    \/ AsRelease(p)

-----------------------------------------------------------------------------
(* Advancing one delivery: the tail shared by advance_deliveries (per       *)
(* delivery) and advance_for_drone. Every kv_cas result is ignored and d is *)
(* replaced by d_new whether or not the CAS took effect.                    *)

\* Enter the tail with the delivery document and the drone position read.
AdvEnter(p, d, doc, r, pos, back) ==
    /\ adv' = [adv EXCEPT ![p] = [d |-> d, doc |-> doc, r |-> r, pos |-> pos]]
    /\ ret' = [ret EXCEPT ![p] = back]
    /\ Goto(p, IF doc.status = "assigned" THEN "adv_flight" ELSE "adv_leg")

AdvReturn(p) ==
    /\ adv' = [adv EXCEPT ![p] = NoAdv]
    /\ Goto(p, ret[p])

\* assigned -> in_flight, then d = d_new.
AdvFlight(p) ==
    LET a == adv[p]
        new == [a.doc EXCEPT !.status = "in_flight"]
    IN
    /\ pc[p] = "adv_flight"
    /\ CasDelivery(a.d, a.doc, new)
    /\ adv' = [adv EXCEPT ![p].doc = new]
    /\ Goto(p, "adv_leg")
    /\ UNCHANGED <<drone, dlock, rlock, published, ret, asg, sched, reqs>>

\* leg = d.leg or "to_origin": at the origin switch the leg; at the
\* destination mark the delivery delivered (the drone is released next).
AdvLeg(p) ==
    LET a   == adv[p]
        leg == IF a.doc.leg = NULL THEN "to_origin" ELSE a.doc.leg
    IN
    /\ pc[p] = "adv_leg"
    /\ \/ /\ leg = "to_origin" /\ a.pos = Origin(a.d)
          /\ CasDelivery(a.d, a.doc, [a.doc EXCEPT !.leg = "to_destination"])
          /\ AdvReturn(p)
       \/ /\ leg = "to_destination" /\ a.pos = Destination(a.d)
          /\ CasDelivery(a.d, a.doc, [a.doc EXCEPT !.status = "delivered", !.leg = NULL])
          /\ adv' = adv
          /\ Goto(p, "adv_idle")
       \/ /\ a.pos # IF leg = "to_origin" THEN Origin(a.d) ELSE Destination(a.d)
          /\ delivery' = delivery
          /\ AdvReturn(p)
    /\ UNCHANGED <<drone, dlock, rlock, published, ret, asg, sched, reqs>>

\* set_drone_idle_if_busy(drone_id, did), then delivery_completed is
\* published -- whether or not the delivered CAS took effect.
AdvIdle(p, wins) ==
    LET a == adv[p] IN
    /\ pc[p] = "adv_idle"
    /\ SetDroneIdleIfBusy(a.r, a.d, wins)
    /\ Publish("delivery_completed", a.d)
    /\ AdvReturn(p)
    /\ UNCHANGED <<delivery, dlock, rlock, ret, asg, sched, reqs>>

AdvanceStep(p) ==
    \/ AdvFlight(p)
    \/ AdvLeg(p)
    \/ \E w \in BOOLEAN : AdvIdle(p, w)

-----------------------------------------------------------------------------
(* on_drone_upd -> advance_for_drone(drone_id): the event may name any      *)
(* drone at any time (drone_sim publishes one per tick per drone, through a *)
(* queue that drops the oldest event when full).                            *)

\* Mutant: only in_flight deliveries are advanced.
InProgressFlightOnly(dd) == dd.status = "in_flight"

\* The statuses both advancing paths act on.
InProgress(dd) == dd.status \in {"assigned", "in_flight"}

AfdReadDrone(p, r) ==
    LET s == drone[r] IN
    /\ pc[p] = "tel_wait"
    /\ IF s.current_delivery # NULL
       THEN /\ adv' = [adv EXCEPT ![p] = [NoAdv EXCEPT !.d = s.current_delivery,
                                           !.r = r, !.pos = s.pos]]
            /\ Goto(p, "afd_read_delivery")
       ELSE UNCHANGED <<pc, adv>>
    /\ UNCHANGED <<fleetVars, ret, asg, sched, reqs>>

AfdReadDelivery(p) ==
    LET a == adv[p]
        dd == delivery[a.d]
    IN
    /\ pc[p] = "afd_read_delivery"
    /\ IF InProgress(dd)
       THEN AdvEnter(p, a.d, dd, a.r, a.pos, "tel_wait")
       ELSE /\ adv' = [adv EXCEPT ![p] = NoAdv]
            /\ ret' = ret
            /\ Goto(p, "tel_wait")
    /\ UNCHANGED <<fleetVars, asg, sched, reqs>>

TelStep(p) ==
    \/ \E r \in Drones : AfdReadDrone(p, r)
    \/ AfdReadDelivery(p)
    \/ AdvanceStep(p)

-----------------------------------------------------------------------------
(* autoscale_by_type: pure part *)

\* Python round(): halves go to the even neighbour (n / m with n, m >= 0).
RoundHalfEven(n, m) ==
    LET q == n \div m
        r == n % m
    IN  IF 2 * r < m THEN q
        ELSE IF 2 * r > m THEN q + 1
        ELSE IF q % 2 = 0 THEN q ELSE q + 1

CeilDiv(n, m) == (n + m - 1) \div m

MaxOf(a, b) == IF a >= b THEN a ELSE b
MinOf(a, b) == IF a <= b THEN a ELSE b

\* target_total = max(BASE_ACTIVE, min(DRONE_POOL_MAX, ceil(backlog * SCALE_RATIO)))
TargetTotal(backlog) ==
    MaxOf(BASE_ACTIVE, MinOf(DRONE_POOL_MAX, CeilDiv(backlog * SCALE_NUM, SCALE_DEN)))

\* target_by_type[k]: with no backlog BASE_ACTIVE split evenly, the remainder
\* going to the first classes; otherwise round(share * target_total).
TargetByType(perType, k) ==
    LET backlog == SumFunction(perType)
        base    == BASE_ACTIVE \div 3
        rem     == BASE_ACTIVE - base * 3
    IN  IF backlog = 0
        THEN base + (IF \E i \in 1..rem : Classes[i] = k THEN 1 ELSE 0)
        ELSE RoundHalfEven(perType[k] * TargetTotal(backlog), backlog)

\* buckets[t][s] as a list in drones_index order.
Bucket(bucket, t, st) == SelectSeq(DroneOrder, LAMBDA r : DroneType[r] = t /\ bucket[r] = st)

ActiveNow(bucket, t) ==
    Len(Bucket(bucket, t, "idle")) + Len(Bucket(bucket, t, "busy"))
        + Len(Bucket(bucket, t, "charging"))

-----------------------------------------------------------------------------
(* The scheduler loop. *)


SchedGoto(l) == Goto(Sched, l)

\* autoscale: pending = [delivery docs] filtered on status, per_type counted.
\* The scan reads one document per await; since no delivery ever returns to
\* pending, the count it makes is the count at some instant of the scan, and
\* the scan is taken as one step.
PendingIn(c) == {d \in Deliveries : delivery[d].status = "pending" /\ DeliveryClass[d] = c}

AuReadDelivery ==
    /\ pc[Sched] = "au_read_delivery"
    /\ sched' = [sched EXCEPT !.per_type = [c \in ClassSet |-> Cardinality(PendingIn(c))]]
    /\ SchedGoto("au_read_drone")
    /\ UNCHANGED <<fleetVars, ret, asg, adv, reqs>>

AuReadDrone ==
    LET s == sched
        r == DroneOrder[s.i]
        last == s.i = Len(DroneOrder)
    IN
    /\ pc[Sched] = "au_read_drone"
    /\ sched' = [s EXCEPT !.i = IF last THEN 1 ELSE s.i + 1,
                          !.bucket[r] = drone[r].status]
    /\ SchedGoto(IF last THEN "au_class" ELSE "au_read_drone")
    /\ UNCHANGED <<fleetVars, ret, asg, adv, reqs>>

\* End of one class's work: the next class, or govern after the last.
AuNextClass(s) ==
    /\ sched' = IF s.c = Len(Classes) THEN SchedIdle
                ELSE [s EXCEPT !.c = s.c + 1, !.todo = <<>>, !.safe = <<>>,
                               !.i = 1, !.noneed = 0]
    /\ SchedGoto(IF s.c = Len(Classes) THEN "gov_read" ELSE "au_class")

\* The decision for class Classes[c]: activate inactive[:take], retire from
\* pool = charging + idle, or nothing; after the last class, govern.
AuClass ==
    LET s      == sched
        t      == Classes[s.c]
        active == ActiveNow(s.bucket, t)
        target == TargetByType(s.per_type, t)
        inact  == Bucket(s.bucket, t, "inactive")
        pool   == Bucket(s.bucket, t, "charging") \o Bucket(s.bucket, t, "idle")
        take   == MinOf(target - active, Len(inact))
    IN
    /\ pc[Sched] = "au_class"
    /\ \/ /\ active < target /\ take > 0
          /\ sched' = [s EXCEPT !.todo = SubSeq(inact, 1, take), !.i = 1]
          /\ SchedGoto("au_activate")
       \/ /\ active > target /\ pool # <<>>
          /\ sched' = [s EXCEPT !.todo = pool, !.i = 1, !.noneed = active - target]
          /\ SchedGoto("au_pool")
       \/ /\ \/ active = target
             \/ active < target /\ take = 0
             \/ active > target /\ pool = <<>>
          /\ AuNextClass(s)
    /\ UNCHANGED <<fleetVars, ret, asg, adv, reqs>>

\* Activation: read, and if still inactive CAS it to idle against that read.
\* `wins` = FALSE is the CAS losing to a concurrent write of the document.
AuActivate(wins) ==
    LET s == sched
        r == s.todo[s.i]
    IN
    /\ pc[Sched] = "au_activate"
    /\ drone' = IF drone[r].status = "inactive" /\ wins
                THEN [drone EXCEPT ![r].status = "idle"] ELSE drone
    /\ IF s.i = Len(s.todo)
       THEN AuNextClass(s)
       ELSE /\ sched' = [s EXCEPT !.i = s.i + 1]
            /\ SchedGoto("au_activate")
    /\ UNCHANGED <<delivery, dlock, rlock, published, ret, asg, adv, reqs>>

\* Retirement: re-read each pool member; keep those with no current
\* delivery and not busy, with the document read.
AuPool ==
    LET s == sched
        r == s.todo[s.i]
        d == drone[r]
        safe == IF d.current_delivery = NULL /\ d.status # "busy"
                THEN Append(s.safe, <<r, d>>) ELSE s.safe
        take == MinOf(s.noneed, Len(safe))
    IN
    /\ pc[Sched] = "au_pool"
    /\ IF s.i < Len(s.todo)
       THEN /\ sched' = [s EXCEPT !.i = s.i + 1, !.safe = safe]
            /\ SchedGoto("au_pool")
       ELSE IF take = 0
       THEN AuNextClass(s)
       ELSE /\ sched' = [s EXCEPT !.i = 1, !.safe = SubSeq(safe, 1, take)]
            /\ SchedGoto("au_retire")
    /\ UNCHANGED <<fleetVars, ret, asg, adv, reqs>>

\* CAS each of safe_pool[:take] to retiring against the document read in
\* the pool scan.
AuRetire ==
    LET s == sched
        e == s.safe[s.i]
    IN
    /\ pc[Sched] = "au_retire"
    /\ CasDrone(e[1], e[2], [e[2] EXCEPT !.status = "retiring"])
    /\ IF s.i = Len(s.safe)
       THEN AuNextClass(s)
       ELSE /\ sched' = [s EXCEPT !.i = s.i + 1]
            /\ SchedGoto("au_retire")
    /\ UNCHANGED <<delivery, dlock, rlock, published, ret, asg, adv, reqs>>

\* govern_charging_and_retiring: one read per drone, then at most one write.
GovNext(s) ==
    LET last == s.i = Len(DroneOrder) IN
    /\ sched' = [s EXCEPT !.i = IF last THEN 1 ELSE s.i + 1, !.doc = NULL]
    /\ SchedGoto(IF last THEN "advd_read_delivery" ELSE "gov_read")

\* Mutant: full only above FULL_AFTER.
ChargedAbove(d) == d.at_charge /\ d.battery > FULL_AFTER

\* At a charge point with at least FULL_AFTER.
Charged(d) == d.at_charge /\ d.battery >= FULL_AFTER

\* charging is done into idle, retiring into inactive.
GovTarget(from) == IF from = "charging" THEN "idle" ELSE "inactive"

GovRead ==
    LET s == sched
        d == drone[DroneOrder[s.i]]
    IN
    /\ pc[Sched] = "gov_read"
    /\ IF d.status \in {"charging", "retiring"} /\ Charged(d)
       THEN /\ sched' = [s EXCEPT !.doc = d]
            /\ SchedGoto("gov_loop")
       ELSE IF d.status = "idle" /\ d.battery <= CRITICAL_BATTERY
       THEN /\ sched' = [s EXCEPT !.doc = d]
            /\ SchedGoto("gov_cas")
       ELSE GovNext(s)
    /\ UNCHANGED <<fleetVars, ret, asg, adv, reqs>>

\* The 5-attempt loop: re-read, stop unless still charging (retiring), at the
\* charger and full, then CAS to idle (inactive). `wins` = FALSE: every
\* attempt collided.
GovLoop(wins) ==
    LET s    == sched
        r    == DroneOrder[s.i]
        cur  == drone[r]
        from == s.doc.status
    IN
    /\ pc[Sched] = "gov_loop"
    /\ drone' = IF cur.status = from /\ Charged(cur) /\ wins
                THEN [drone EXCEPT ![r].status = GovTarget(from)] ELSE drone
    /\ GovNext(s)
    /\ UNCHANGED <<delivery, dlock, rlock, published, ret, asg, adv, reqs>>

\* idle with a critical battery: one CAS to charging against the first read.
GovCas ==
    LET s == sched IN
    /\ pc[Sched] = "gov_cas"
    /\ CasDrone(DroneOrder[s.i], s.doc, [s.doc EXCEPT !.status = "charging"])
    /\ GovNext(s)
    /\ UNCHANGED <<delivery, dlock, rlock, published, ret, asg, adv, reqs>>

\* advance_deliveries: each delivery in deliveries_index order.
AdvdAfter(i) == IF i = Len(DeliveryOrder) THEN "rec_read_drone" ELSE "advd_read_delivery"
AdvdIndex(i) == IF i = Len(DeliveryOrder) THEN 1 ELSE i + 1

AdvdReadDelivery ==
    LET s  == sched
        d  == DeliveryOrder[s.i]
        dd == delivery[d]
    IN
    /\ pc[Sched] = "advd_read_delivery"
    /\ IF InProgress(dd) /\ dd.drone_id # NULL
       THEN /\ adv' = [adv EXCEPT ![Sched] = [d |-> d, doc |-> dd, r |-> dd.drone_id, pos |-> Charge]]
            /\ sched' = s
            /\ SchedGoto("advd_read_drone")
       ELSE /\ adv' = adv
            /\ sched' = [s EXCEPT !.i = AdvdIndex(s.i)]
            /\ SchedGoto(AdvdAfter(s.i))
    /\ UNCHANGED <<fleetVars, ret, asg, reqs>>

AdvdReadDrone ==
    LET a == adv[Sched] IN
    /\ pc[Sched] = "advd_read_drone"
    /\ sched' = [sched EXCEPT !.i = AdvdIndex(sched.i)]
    /\ AdvEnter(Sched, a.d, a.doc, a.r, drone[a.r].pos, AdvdAfter(sched.i))
    /\ UNCHANGED <<fleetVars, asg, reqs>>

\* reconcile_stuck_busy: a busy drone whose delivery reads delivered is
\* released with set_drone_idle_if_busy. (delivered is final, so the read
\* and the helper's own re-read are taken in one step.)
RecNext(s) ==
    LET last == s.i = Len(DroneOrder) IN
    /\ sched' = [s EXCEPT !.i = IF last THEN 1 ELSE s.i + 1]
    /\ SchedGoto(IF last THEN "rd_scan" ELSE "rec_read_drone")

\* Mutant: the busy test inverted on current_delivery.
RecReadDroneNoDelivery ==
    LET s == sched
        r == DroneOrder[s.i]
        d == drone[r]
    IN
    /\ pc[Sched] = "rec_read_drone"
    /\ IF d.status = "busy" /\ d.current_delivery = NULL
       THEN /\ adv' = [adv EXCEPT ![Sched] = [NoAdv EXCEPT !.d = d.current_delivery, !.r = r]]
            /\ sched' = s
            /\ SchedGoto("rec_read_delivery")
       ELSE /\ adv' = adv
            /\ RecNext(s)
    /\ UNCHANGED <<fleetVars, ret, asg, reqs>>

RecReadDrone ==
    LET s == sched
        r == DroneOrder[s.i]
        d == drone[r]
    IN
    /\ pc[Sched] = "rec_read_drone"
    /\ IF d.status = "busy" /\ d.current_delivery # NULL
       THEN /\ adv' = [adv EXCEPT ![Sched] = [NoAdv EXCEPT !.d = d.current_delivery, !.r = r]]
            /\ sched' = s
            /\ SchedGoto("rec_read_delivery")
       ELSE /\ adv' = adv
            /\ RecNext(s)
    /\ UNCHANGED <<fleetVars, ret, asg, reqs>>

\* Mutant: the busy drone released without looking at its delivery.
RecReadDeliveryUnchecked(wins) ==
    LET a == adv[Sched] IN
    /\ pc[Sched] = "rec_read_delivery"
    /\ SetDroneIdleIfBusy(a.r, a.d, wins)
    /\ adv' = [adv EXCEPT ![Sched] = NoAdv]
    /\ RecNext(sched)
    /\ UNCHANGED <<delivery, dlock, rlock, published, ret, asg, reqs>>

RecReadDelivery(wins) ==
    LET a == adv[Sched] IN
    /\ pc[Sched] = "rec_read_delivery"
    /\ IF delivery[a.d].status = "delivered"
       THEN SetDroneIdleIfBusy(a.r, a.d, wins)
       ELSE UNCHANGED drone
    /\ adv' = [adv EXCEPT ![Sched] = NoAdv]
    /\ RecNext(sched)
    /\ UNCHANGED <<delivery, dlock, rlock, published, ret, asg, reqs>>

\* assign_round: oldest_pending(PENDING_SCAN_LIMIT), then assign_one on each
\* until MAX_ASSIGN_PER_ROUND succeeded; then sleep and start over.
EndRound ==
    /\ sched' = SchedIdle
    /\ asg' = [asg EXCEPT ![Sched] = NoAsg]
    /\ SchedGoto(LoopStart)
    /\ UNCHANGED ret

\* oldest_pending: the first PENDING_SCAN_LIMIT pending ids in
\* deliveries_index order. Taken as one step like the autoscale scan: an id
\* that stops being pending after it was listed is dropped by assign_one's
\* own pending check.
RdScan ==
    LET pending == SelectSeq(DeliveryOrder, LAMBDA d : delivery[d].status = "pending")
        out     == SubSeq(pending, 1, MinOf(PENDING_SCAN_LIMIT, Len(pending)))
    IN
    /\ pc[Sched] = "rd_scan"
    /\ IF out = <<>>
       THEN EndRound
       ELSE /\ sched' = [sched EXCEPT !.i = 1, !.out = out]
            /\ CallAssignOne(Sched, out[1], "rd_next")
    /\ UNCHANGED <<fleetVars, adv, reqs>>

RdNext ==
    LET s == sched
        assigned == s.assigned + (IF asg[Sched].ok THEN 1 ELSE 0)
    IN
    /\ pc[Sched] = "rd_next"
    /\ IF s.i < Len(s.out) /\ assigned < MAX_ASSIGN_PER_ROUND
       THEN /\ sched' = [s EXCEPT !.i = s.i + 1, !.assigned = assigned]
            /\ CallAssignOne(Sched, s.out[s.i + 1], "rd_next")
       ELSE EndRound
    /\ UNCHANGED <<fleetVars, adv, reqs>>

SchedStep ==
    \/ AuReadDelivery \/ AuReadDrone \/ AuClass
    \/ \E w \in BOOLEAN : AuActivate(w)
    \/ AuPool \/ AuRetire
    \/ GovRead \/ (\E w \in BOOLEAN : GovLoop(w)) \/ GovCas
    \/ AdvdReadDelivery \/ AdvdReadDrone \/ AdvanceStep(Sched)
    \/ RecReadDrone \/ \E w \in BOOLEAN : RecReadDelivery(w)
    \/ RdScan \/ RdNext \/ AssignOneStep(Sched)

-----------------------------------------------------------------------------
(* on_request: one delivery_requests message per created delivery. *)

ReqTake(p, d) ==
    /\ pc[p] = "req_wait"
    /\ d \in reqs
    /\ reqs' = reqs \ {d}
    /\ CallAssignOne(p, d, "req_wait")
    /\ UNCHANGED <<fleetVars, adv, sched>>

ReqStep(p) ==
    \/ \E d \in Deliveries : ReqTake(p, d)
    \/ AssignOneStep(p)

DispNext ==
    \/ LOCK_TTL_EXPIRES /\ LockExpires
       /\ UNCHANGED <<drone, delivery, published, pc, ret, asg, adv, sched, reqs>>
    \/ SchedStep
    \/ \E p \in ReqWorkers : ReqStep(p)
    \/ \E p \in TelWorkers : TelStep(p)

=============================================================================
