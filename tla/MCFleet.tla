------------------------------ MODULE MCFleet -------------------------------
(* Instances of Fleet for TLC: light drones r1, r2 and light deliveries d1, *)
(* d2 (the model values are given in the .cfg files).                       *)
EXTENDS Fleet

CONSTANTS r1, r2, d1, d2

MCDroneOrder     == <<r1, r2>>
MCDroneOrder1    == <<r1>>
MCDeliveryOrder2 == <<d1, d2>>
MCDeliveryOrder1 == <<d1>>
MCClasses        == <<"light", "medium", "heavy">>
MCDroneType      == [r \in Drones |-> "light"]
MCDeliveryClass  == [d \in Deliveries |-> "light"]

\* The geometry: from a charge point, or from the pickup itself, a mission
\* costs one battery level; from anywhere else two. The destination of d1 is
\* more than MAX_PICKUP_KM from the origin of d2.
MCMissionCost(pos, d)  == IF pos \in {Charge, Origin(d)} THEN 1 ELSE 2
MCPickupTooFar(pos, d) == pos = Destination(d1) /\ d = d2

\* A second geometry: d2 is longer than a full battery covers, so every pick
\* for it counts a feasibility miss.
MCMissionCostLong(pos, d) == IF d = d2 THEN MaxBattery + 1 ELSE MCMissionCost(pos, d)

=============================================================================
