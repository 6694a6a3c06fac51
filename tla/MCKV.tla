--------------------------------- MODULE MCKV ---------------------------------
(* Constant operators instantiating KV for TLC: one key on two replicas,   *)
(* the primary A first in replica_set's order.                             *)
EXTENDS KV, TLC

CONSTANTS A, B, c1, c2

MCReplicaOrder == <<A, B>>
\* D0 and one fresh document per write of each client.
MCData == {D0} \cup (Clients \X (1..OPS))
\* One timestamp per write after the initial one.
MCMaxTs == 1 + Cardinality(Clients) * OPS
\* The clients run the same code on documents named after themselves.
MCClientSymmetry == Permutations(Clients)

=============================================================================
