----------------------------- MODULE MCIngress ------------------------------
(* Model values and definitions for checking LB with TLC. *)
EXTENDS LB, TLC

CONSTANTS r1, r2, k1

\* r1 carries an Idempotency-Key, as ordergen's send_one does; r2 does not.
MCReqKey == [r \in {r1, r2} |-> IF r = r1 THEN k1 ELSE NoKey]

\* kv_cas answers False on any exception, raised before or after the
\* coordinator committed (gateway 305-315).
MCCasLost == {"before", "after"}
MCCasNone == {}
=============================================================================
