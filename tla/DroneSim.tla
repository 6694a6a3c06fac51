------------------------------ MODULE DroneSim ------------------------------
(***************************************************************************)
(* drone_sim: one run_one task per drone. Each tick it reads drone:{id},   *)
(* (when busy) reads the delivery to find its target, computes the new     *)
(* pos / battery / at_charge, and merges only those three fields into the  *)
(* latest document with a CAS retry loop. The telemetry event it enqueues  *)
(* is what makes the dispatcher run advance_for_drone; the dispatcher      *)
(* model lets that handler run for any drone at any time, which covers     *)
(* every order and loss of those events.                                   *)
(***************************************************************************)
EXTENDS DroneFleet

VARIABLES
    simPc,      \* drone id -> "sim_read" | "sim_merge"
    simTick     \* drone id -> the tick's result, waiting to be merged

simVars == <<simPc, simTick>>

SimTickState == [pos: Places, battery: Levels, at_charge: BOOLEAN]

NoTick == [pos |-> Charge, battery |-> MaxBattery, at_charge |-> FALSE]

SimInit ==
    /\ simPc = [r \in Drones |-> "sim_read"]
    /\ simTick = [r \in Drones |-> NoTick]

\* Mutant: the battery drain without the clamp at 0.
MovesNoClamp(pos, battery, target, arrive) ==
    IF pos = target
    THEN {[pos |-> pos, battery |-> battery]}
    ELSE {[pos |-> IF arrive THEN target ELSE Away, battery |-> b] : b \in {battery, battery - 1}}

\* step(prev, target, speed) followed by the battery drain of haversine(prev,
\* new) * BATTERY_PER_KM, clamped at 0. From the target itself the step goes
\* nowhere and costs nothing; otherwise the drone either ends within the
\* arrival radius (`arrive`) or is still on its way, and spends up to a level.
Moves(pos, battery, target, arrive) ==
    IF pos = target
    THEN {[pos |-> pos, battery |-> battery]}
    ELSE {[pos |-> IF arrive THEN target ELSE Away,
           battery |-> IF battery > 0 THEN b ELSE 0] : b \in {battery, battery - 1}}

\* The target is the origin while the leg is to_origin (a pending document
\* has no leg, and dd.get("leg", "to_origin") defaults it), the destination
\* otherwise -- also when the leg is None on a delivered document.
SimTarget(dd, d) ==
    IF dd.status = "pending" \/ dd.leg = "to_origin" THEN Origin(d) ELSE Destination(d)

\* Read the drone document (and, when busy, its delivery) and compute the
\* tick's pos / battery / at_charge. The delivery read is taken in the same
\* step as the drone read: the only field of it used is the leg, which the
\* dispatcher changes only while the drone stays busy on that delivery.
\* A tick whose result is the three fields it read (a parked drone, a drone
\* waiting at its target, a full drone at the charger) is left out: its merge
\* writes back what is there.
SimRead(r, arrive) ==
    LET cur == drone[r]
        d   == cur.current_delivery
        tick(pos, battery, atc) ==
            simTick' = [simTick EXCEPT ![r] = [pos |-> pos, battery |-> battery, at_charge |-> atc]]
    IN
    /\ simPc[r] = "sim_read"
    /\ simPc' = [simPc EXCEPT ![r] = "sim_merge"]
    /\ IF cur.status = "busy" /\ d # NULL
       THEN \E m \in Moves(cur.pos, cur.battery, SimTarget(delivery[d], d), arrive) :
                tick(m.pos, m.battery, FALSE)
       ELSE IF cur.status \in {"charging", "retiring"}
       THEN IF cur.pos # Charge
            THEN \E m \in Moves(cur.pos, cur.battery, Charge, arrive) :
                    tick(m.pos, m.battery, FALSE)
            ELSE tick(cur.pos, IF cur.battery < MaxBattery THEN cur.battery + 1 ELSE MaxBattery, TRUE)
       ELSE tick(cur.pos, cur.battery, FALSE)
    /\ simTick'[r] # [pos |-> cur.pos, battery |-> cur.battery, at_charge |-> cur.at_charge]
    /\ UNCHANGED fleetVars

\* The CAS merge loop: a successful attempt writes pos, battery and at_charge
\* onto the document it just read, leaving every other field as it is.
\* `lands` = FALSE is the loop giving up after ten collisions.
SimMerge(r, lands) ==
    LET t == simTick[r] IN
    /\ simPc[r] = "sim_merge"
    /\ drone' = IF lands
                THEN [drone EXCEPT ![r].pos = t.pos, ![r].battery = t.battery,
                                   ![r].at_charge = t.at_charge]
                ELSE drone
    /\ simPc' = [simPc EXCEPT ![r] = "sim_read"]
    /\ simTick' = [simTick EXCEPT ![r] = NoTick]
    /\ UNCHANGED <<delivery, dlock, rlock, published>>

SimStep(r) ==
    \/ \E arrive \in BOOLEAN : SimRead(r, arrive)
    \/ \E lands \in BOOLEAN : SimMerge(r, lands)

SimNext == \E r \in Drones : SimStep(r)

=============================================================================
