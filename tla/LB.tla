-------------------------------- MODULE LB ----------------------------------
(***************************************************************************)
(* The load balancer's proxy (src/lb/app.py) in front of the gateway's     *)
(* create_delivery handlers of module Gateway, with the dispatcher seen    *)
(* only as the actor that moves a pending delivery it has heard of to      *)
(* assigned.  Every client request is a POST /deliveries, as ordergen's    *)
(* send_one makes them.                                                    *)
(*                                                                         *)
(* Time advances in ticks of one second; the global token bucket keeps its *)
(* tokens scaled by RL_RATE_DEN, so that refilling RL_RATE_NUM/RL_RATE_DEN *)
(* tokens per second is integer arithmetic.  The choice of backend by      *)
(* round robin does not change what a request does (every gateway replica  *)
(* shares the KV) and is left out.                                         *)
(***************************************************************************)
EXTENDS Gateway

CONSTANTS
    RL_RATE_NUM, RL_RATE_DEN,   \* RL_GLOBAL_RATE as a fraction, tokens per second
    RL_BURST,                   \* RL_GLOBAL_BURST
    MaxTime                     \* last second of the behaviour

VARIABLES
    lb,         \* per request: pc, current try, answer to the client
    now,        \* time.monotonic(), in seconds
    bucket,     \* _global_bucket: [tokens (scaled), last]
    admitted    \* times at which the bucket let a request through

lbVars == <<lb, now, bucket, admitted>>
vars == <<gwVars, lbVars>>

Limited == RL_RATE_NUM > 0 /\ RL_BURST > 0
Cost == RL_RATE_DEN
Capacity == RL_BURST * RL_RATE_DEN

TypeOK ==
    /\ GWTypeOK
    /\ lb \in [Requests -> [pc : {"new", "wait", "done"}, try : {1, 2},
                            resp : Answer \cup [code : {429}, id : {NoId}] \cup {NoResp}]]
    /\ now \in 0..MaxTime
    /\ bucket \in [tokens : 0..Capacity, last : 0..MaxTime]
    /\ admitted \in Seq(0..MaxTime)

Init ==
    /\ GWInit
    /\ lb = [r \in Requests |-> [pc |-> "new", try |-> 1, resp |-> NoResp]]
    /\ now = 0
    /\ bucket = [tokens |-> Capacity, last |-> 0]
    /\ admitted = <<>>

\* Mutant: the refill without the cap at the burst.
RefilledUncapped(b) == [tokens |-> b.tokens + (now - b.last) * RL_RATE_NUM, last |-> now]

\* _refill: min(burst, tokens + elapsed * rate), last = now.
Refilled(b) == [tokens |-> IF b.tokens + (now - b.last) * RL_RATE_NUM < Capacity
                           THEN b.tokens + (now - b.last) * RL_RATE_NUM ELSE Capacity,
                last |-> now]

\* Mutant: _take without its check on the tokens left.
CanTakeAlways(b) == TRUE

\* _take: the bucket holds the cost of one request.
CanTake(b) == b.tokens >= Cost

\* Hand the request to a gateway handler as try t.
Forward(r, t) == gw' = [gw EXCEPT ![<<r, t>>].pc = "sent"]

\* proxy: pick the backend, then the global limiter (_refill and _take)
\* answers 429 or lets the request through to its first try.
Proxy(r) ==
    /\ lb[r].pc = "new"
    /\ \/ /\ Limited
          /\ LET b == Refilled(bucket) IN
             \/ /\ CanTake(b)
                /\ bucket' = [b EXCEPT !.tokens = @ - Cost]
                /\ admitted' = Append(admitted, now)
                /\ lb' = [lb EXCEPT ![r].pc = "wait"]
                /\ Forward(r, 1)
             \/ /\ ~CanTake(b)
                /\ bucket' = b
                /\ lb' = [lb EXCEPT ![r].pc = "done", ![r].resp = [code |-> 429, id |-> NoId]]
                /\ UNCHANGED <<admitted, gw>>
       \/ /\ ~Limited
          /\ lb' = [lb EXCEPT ![r].pc = "wait"]
          /\ Forward(r, 1)
          /\ UNCHANGED <<bucket, admitted>>
    /\ UNCHANGED <<idem, doc, index, zones, published, now>>

\* one_try raises: a connect error before the handler ran, or the 5 s
\* timeout while it runs (it goes on).  allow_retry holds for a POST with
\* an Idempotency-Key; the retry is a second handler; otherwise, and when
\* the retry raises too, the exception escapes the proxy (500).
TryFails(r) ==
    LET h == <<r, lb[r].try>>
        retry == ReqKey[r] # NoKey /\ lb[r].try = 1
        abandoned == IF gw[h].pc = "sent" THEN [gw EXCEPT ![h].pc = "lost"] ELSE gw
    IN
    /\ lb[r].pc = "wait"
    /\ gw[h].pc \notin {"idle", "lost"}
    /\ \/ /\ retry
          /\ lb' = [lb EXCEPT ![r].try = 2]
          /\ gw' = [abandoned EXCEPT ![<<r, 2>>].pc = "sent"]
       \/ /\ ~retry
          /\ lb' = [lb EXCEPT ![r].pc = "done", ![r].resp = [code |-> 500, id |-> NoId]]
          /\ gw' = abandoned
    /\ UNCHANGED <<idem, doc, index, zones, published, now, bucket, admitted>>

\* The try's response is relayed to the client as it is.
Reply(r) ==
    LET h == <<r, lb[r].try>> IN
    /\ lb[r].pc = "wait"
    /\ gw[h].pc = "done"
    /\ lb' = [lb EXCEPT ![r].pc = "done", ![r].resp = gw[h].resp]
    /\ UNCHANGED <<gwVars, now, bucket, admitted>>

\* The dispatcher assigns a pending delivery it finds in deliveries_index
\* (oldest_pending) or in a delivery_requests message (on_request).
\* pick_drone needs zones_config (get_zcfg): without it point_zone raises.
Assign(x) ==
    /\ zones
    /\ doc[x] = "pending"
    /\ published[x] > 0 \/ x \in ToSet(IF index = NoIdx THEN <<>> ELSE index)
    /\ doc' = [doc EXCEPT ![x] = "assigned"]
    /\ UNCHANGED <<idem, index, zones, published, gw, lbVars>>

Tick ==
    /\ now < MaxTime
    /\ now' = now + 1
    /\ UNCHANGED <<gwVars, lb, bucket, admitted>>

\* Every request answered and time at its bound: the behaviour may stop.
Quiescent ==
    /\ \A r \in Requests : lb[r].pc = "done"
    /\ \A h \in Handlers : gw[h].pc \in {"idle", "lost", "done"}
    /\ now = MaxTime
    /\ UNCHANGED vars

Next ==
    \/ \E r \in Requests : Proxy(r) \/ TryFails(r) \/ Reply(r)
    \/ \E h \in Handlers : GWStep(h) /\ UNCHANGED lbVars
    \/ ZonesEndpoint /\ UNCHANGED lbVars
    \/ \E x \in Handlers : Assign(x)
    \/ Tick
    \/ Quiescent

Spec == Init /\ [][Next]_vars

-----------------------------------------------------------------------------

\* deliveries_index lists each delivery at most once.  The index loop
\* re-reads the list and leaves when the id is already in it (gateway
\* 592-594), so neither a kv_cas that committed and then answered False nor
\* the load balancer's retry, which carries the same id, appends it twice.
IndexNoDuplicates == index # NoIdx => IsInjective(index)

\* The global token bucket never lets through more than RL_GLOBAL_BURST
\* requests plus RL_GLOBAL_RATE per elapsed second, over any window of
\* time (_refill caps at the burst; _take spends one token).
RateBound ==
    Limited =>
        \A t0 \in 0..now :
            Cost * Cardinality({i \in DOMAIN admitted : admitted[i] >= t0})
                <= Capacity + RL_RATE_NUM * (now - t0)

\* spec.md, invariant 4: a delivery's status never goes back to pending
\* once the dispatcher has assigned it (create_delivery's kv_put of the
\* pending document is unconditional).
PendingNeverRegresses ==
    [][\A x \in Handlers : doc[x] = "assigned" => doc'[x] = "assigned"]_doc
=============================================================================
