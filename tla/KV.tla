---------------------------------- MODULE KV ----------------------------------
(***************************************************************************)
(* The coordinator and its replicas as a whole, and what they are checked  *)
(* against: the register of KVRegister, under the refinement mapping       *)
(* below, and the properties the spec states for the replicated KV.        *)
(*                                                                         *)
(* The value of the register is what the primary serves: its cache entry,  *)
(* else its row.  The primary is where cas compares, and every write the   *)
(* coordinator makes reaches it first; a CAS takes effect when kvstore's   *)
(* cas puts the new value in the primary's cache.                          *)
(***************************************************************************)
EXTENDS KVFront

VARIABLE
    seen    \* history: client -> the values served since its GET was invoked

kvVars == <<vars, seen>>

RegValue == Served(Primary).data

\* A bounded run ends once every client has finished its rounds and the
\* hint lists are empty; the coordinator then only waits.
Quiescent ==
    /\ \A c \in Clients : nops[c] = OPS /\ loc[c].pc = "idle"
    /\ fl.pc = "sleep" /\ \A r \in Replicas : hints[r] = <<>>
    /\ UNCHANGED vars

\* The history variable follows the values the primary serves while a GET
\* is pending; it does not constrain any step.
SeenNext ==
    seen' = [x \in Clients |->
               IF op'[x].k = "get" /\ op[x].k # "get" THEN {RegValue'}
               ELSE IF op[x].k = "get" THEN seen[x] \cup {RegValue'}
               ELSE seen[x]]

KVInit == Init /\ seen = [c \in Clients |-> {}]
\* Next of KVFront, each step with the history update.
KVNext ==
    \/ \E c \in Clients :
         \/ StartGet(c) /\ SeenNext
         \/ ResolveGet(c) /\ SeenNext
         \/ RepairDone(c) /\ SeenNext
         \/ \E r \in Replicas : BackendGet(c, r) /\ SeenNext
         \/ \E r \in Replicas : CacheFill(c, r) /\ SeenNext
         \/ \E r \in Replicas : RepairDb(c, r) /\ SeenNext
         \/ \E r \in Replicas : RepairCache(c, r) /\ SeenNext
         \/ StartCas(c) /\ SeenNext
         \/ CasCompare(c) /\ SeenNext
         \/ CasPost(c) /\ SeenNext
         \/ CasCache(c) /\ SeenNext
         \/ StartPut(c) /\ SeenNext
         \/ SeqPutDb(c) /\ SeenNext
         \/ SeqPutCache(c) /\ SeenNext
         \/ SeqDone(c) /\ SeenNext
    \/ FlushStart /\ SeenNext
    \/ FlushNextBackend /\ SeenNext
    \/ FlushItem(TRUE) /\ SeenNext
    \/ FlushItem(FALSE) /\ SeenNext
    \/ FlushItemCache /\ SeenNext
    \/ FlushBackendDone /\ SeenNext
    \/ \E r \in Replicas : CacheEvict(r) /\ UNCHANGED frontVars /\ SeenNext
    \/ Quiescent /\ SeenNext

\* Every client task and the flusher are scheduled by the event loop; a
\* replica that is down comes back, so a replay is not failed forever.
Fairness ==
    /\ \A c \in Clients : WF_kvVars(ClientStep(c) /\ SeenNext)
    /\ WF_kvVars((FlushStart \/ FlushNextBackend \/ FlushItemCache
                  \/ FlushBackendDone) /\ SeenNext)
    /\ SF_kvVars(FlushItem(TRUE) /\ SeenNext)

Spec == KVInit /\ [][KVNext]_kvVars /\ Fairness

-----------------------------------------------------------------------------
KVTypeOK == StoreTypeOK /\ FrontTypeOK /\ seen \in [Clients -> SUBSET Data]

\* A write takes effect at the first instant the primary serves its wrapped
\* value: its cache put, or an eviction between db_cas (db_put) and the
\* cache put, after which the row is served.
Visible(c) ==
    loc[c].pc \in {"cas_cache", "put"} /\ Served(Primary) = loc[c].w
TookEffect(c) == loc[c].applied \/ Visible(c)

Abstract == INSTANCE KVRegister WITH
    reg   <- RegValue,
    aop   <- [c \in Clients |->
                [k |-> op[c].k, old |-> op[c].old, new |-> op[c].new,
                 res |-> IF TookEffect(c) THEN "ok" ELSE "pending"]],
    aseen <- seen,
    ret   <- [c \in Clients |-> loc[c].v]

\* Linearizability: get_key, put_key and cas of the coordinator, over the
\* backends' cache and DB steps, implement the register of KVRegister: a GET
\* answers a value the primary served while it was pending, a CAS answers ok
\* only after writing over exactly the value it expected, and nothing else
\* (a read-repair, an hint replay, a cache fill) changes what is served.
Linearizable == Abstract!RegSpec

\* Hinted handoff drains: every write queued for a replica that was down is
\* eventually replayed or dropped, so the hint lists end empty (flush_hints
\* keeps failed items and pops backends whose list it emptied).
HintsDrain ==
    <>[](\A r \in Replicas : hints[r] = <<>>)

\* Hinted handoff loses no write (spec: "Hints give availability during
\* short outages without losing writes"): a value leaves a replica's list
\* in _HINTS (the flusher's _HINTS[b] = still, or _HINTS.pop(b)) only once
\* that replica's row holds it or something newer.
HintNotDropped ==
    [][\A r \in Replicas : \A i \in 1..Len(hints[r]) :
         hints[r][i] \notin {hints'[r][j] : j \in 1..Len(hints'[r])}
           => db'[r].ts >= hints[r][i].ts]_hints

=============================================================================
