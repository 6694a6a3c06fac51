------------------------------ MODULE KVRegister ------------------------------
(***************************************************************************)
(* What the KV promises its clients for one key: a linearizable register   *)
(* with GET, PUT and a compare-and-swap that may fail spuriously (a weak   *)
(* CAS: it may answer False even when the value equals old, but it never   *)
(* writes unless the value equals old).  Each call is invoked, takes       *)
(* effect at one instant between invocation and response, and responds.   *)
(*                                                                         *)
(* A GET may answer any value the register held at some instant since it  *)
(* was invoked: aseen[c] collects them.                                    *)
(***************************************************************************)
CONSTANTS Clients, Data, D0, NoVal

VARIABLES
    reg,      \* the register's value
    aop,      \* client -> its call: kind, old, new, and whether it took effect
    aseen,    \* client -> the values held since its pending GET was invoked
    ret       \* client -> the value its last GET answered

regVars == <<reg, aop, aseen, ret>>

NoOp == [k |-> "none", old |-> NoVal, new |-> NoVal, res |-> "pending"]

Calls ==
    {[k |-> "get", old |-> NoVal, new |-> NoVal, res |-> "pending"]}
    \cup {[k |-> "cas", old |-> o, new |-> n, res |-> "pending"] : o, n \in Data}
    \cup {[k |-> "put", old |-> NoVal, new |-> n, res |-> "pending"] : n \in Data}

RegInit ==
    /\ reg = D0
    /\ aop = [c \in Clients |-> NoOp]
    /\ aseen = [c \in Clients |-> {}]
    /\ ret = [c \in Clients |-> NoVal]

Invoke(c) ==
    /\ aop[c] = NoOp
    /\ \E call \in Calls :
         /\ aop' = [aop EXCEPT ![c] = call]
         /\ aseen' = IF call.k = "get" THEN [aseen EXCEPT ![c] = {reg}] ELSE aseen
    /\ UNCHANGED <<reg, ret>>

\* A write takes effect: every pending GET may now answer the new value.
Write(c, v) ==
    /\ reg' = v
    /\ aop' = [aop EXCEPT ![c].res = "ok"]
    /\ aseen' = [x \in Clients |-> IF aop[x].k = "get" THEN aseen[x] \cup {v} ELSE aseen[x]]
    /\ UNCHANGED ret

CasTakesEffect(c) ==
    /\ aop[c].k = "cas" /\ aop[c].res = "pending" /\ reg = aop[c].old
    /\ Write(c, aop[c].new)

PutTakesEffect(c) ==
    /\ aop[c].k = "put" /\ aop[c].res = "pending"
    /\ Write(c, aop[c].new)

GetRespond(c) ==
    /\ aop[c].k = "get"
    /\ \E v \in aseen[c] : ret' = [ret EXCEPT ![c] = v]
    /\ aop' = [aop EXCEPT ![c] = NoOp]
    /\ UNCHANGED <<reg, aseen>>

\* A CAS answers after taking effect, or fails without having written.
CasRespond(c) ==
    /\ aop[c].k = "cas"
    /\ aop' = [aop EXCEPT ![c] = NoOp]
    /\ UNCHANGED <<reg, aseen, ret>>

\* A PUT answers only once it has taken effect.
PutRespond(c) ==
    /\ aop[c].k = "put" /\ aop[c].res = "ok"
    /\ aop' = [aop EXCEPT ![c] = NoOp]
    /\ UNCHANGED <<reg, aseen, ret>>

RegNext ==
    \E c \in Clients :
        \/ Invoke(c) \/ CasTakesEffect(c) \/ PutTakesEffect(c)
        \/ GetRespond(c) \/ CasRespond(c) \/ PutRespond(c)

RegSpec == RegInit /\ [][RegNext]_regVars

=============================================================================
