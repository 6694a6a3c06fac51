------------------------------ MODULE Gateway ------------------------------
(***************************************************************************)
(* The ingress gateway's POST /deliveries handler (create_delivery in      *)
(* src/gateway/app.py) against the KV keys it touches: idem:{key},         *)
(* delivery:{id}, deliveries_index and zones_config, and the               *)
(* delivery_requests queue.  Every await of the handler is one step.  A    *)
(* handler is identified by the client request it serves and the load      *)
(* balancer's try (1, or 2 for its one retry); the uuid4 it draws as       *)
(* tentative_id (or as delivery_id without a key) is its own identity.     *)
(*                                                                         *)
(* The KV is taken as atomic per key.  Its failures are the ones the       *)
(* gateway's helpers see: kv_put swallows every exception, so a write may  *)
(* be lost while the handler goes on; kv_get_opt lets a transport error    *)
(* escape, which FastAPI answers with 500; kv_cas turns any exception into *)
(* False, whether the coordinator committed before it failed or not.       *)
(***************************************************************************)
EXTENDS Naturals, Sequences, SequencesExt

CONSTANTS
    Requests,       \* client POSTs reaching the load balancer
    ReqKey,         \* request -> its Idempotency-Key, or NoKey
    Keys,           \* the Idempotency-Keys in use
    NoKey, NoId, NoDoc, NoIdx, NoResp,
    INDEX_TRIES,    \* for _ in range(40) of the deliveries_index loop
    PUT_LOST,       \* kv_put may fail silently
    GET_RAISES,     \* kv_get_opt may raise (answered 500)
    CAS_LOST        \* subset of {"before", "after"}: kv_cas raised before or
                    \* after the coordinator committed; both return False

Handlers == Requests \X {1, 2}
KeyOf(h) == ReqKey[h[1]]

VARIABLES
    idem,       \* idem:{key} -> delivery id (NoId: absent)
    doc,        \* delivery:{id} -> status (NoDoc: absent)
    index,      \* deliveries_index (NoIdx: absent)
    zones,      \* zones_config has been written
    published,  \* delivery_requests messages published, per delivery id
    gw          \* per handler: pc, delivery_id, cur, loop count, answer

gwVars == <<idem, doc, index, zones, published, gw>>

Status == {"pending", "assigned"}
Answer == [code : {200, 201, 500}, id : Handlers \cup {NoId}]

GWTypeOK ==
    /\ idem \in [Keys -> Handlers \cup {NoId}]
    /\ doc \in [Handlers -> Status \cup {NoDoc}]
    /\ index = NoIdx \/ index \in Seq(Handlers)
    /\ zones \in BOOLEAN
    /\ published \in [Handlers -> Nat]
    /\ \A h \in Handlers :
        /\ gw[h].pc \in {"idle", "sent", "lost", "doc_get", "idem_cas",
                         "winner_get", "winner_doc", "zones_get", "zones_put",
                         "doc_put", "idx_cas", "idx_get", "idx_cas2", "publish", "done"}
        /\ gw[h].did \in Handlers \cup {NoId}
        /\ gw[h].tries \in 0..INDEX_TRIES
        /\ gw[h].resp \in Answer \cup {NoResp}

GWInit ==
    /\ idem = [k \in Keys |-> NoId]
    /\ doc = [h \in Handlers |-> NoDoc]
    /\ index = NoIdx
    /\ zones = FALSE
    /\ published = [h \in Handlers |-> 0]
    /\ gw = [h \in Handlers |-> [pc |-> "idle", did |-> NoId, cur |-> <<>>,
                                  tries |-> 0, resp |-> NoResp]]

Goto(h, pc) == gw' = [gw EXCEPT ![h].pc = pc]
Answered(h, code, id) == gw' = [gw EXCEPT ![h].pc = "done", ![h].resp = [code |-> code, id |-> id]]

\* A kv_get_opt that raises: the exception leaves create_delivery, 500.
GetRaised(h) ==
    /\ GET_RAISES
    /\ Answered(h, 500, NoId)
    /\ UNCHANGED <<idem, doc, index, zones, published>>

\* Entry: read the Idempotency-Key header and idem:{key}, or draw the id.
Start(h) ==
    /\ gw[h].pc = "sent"
    /\ \/ /\ KeyOf(h) = NoKey
          /\ gw' = [gw EXCEPT ![h].pc = "zones_get", ![h].did = h]
       \/ /\ KeyOf(h) # NoKey /\ idem[KeyOf(h)] # NoId
          /\ gw' = [gw EXCEPT ![h].pc = "doc_get", ![h].did = idem[KeyOf(h)]]
       \/ /\ KeyOf(h) # NoKey /\ idem[KeyOf(h)] = NoId
          /\ Goto(h, "idem_cas")
       \/ KeyOf(h) # NoKey /\ GetRaised(h)
    /\ UNCHANGED <<idem, doc, index, zones, published>>

\* existing: the delivery is returned with 200 if its document is there;
\* otherwise the handler goes on to create it under existing.
\* (Also the kv_get_opt of delivery:{winner} after a lost idem CAS.)
ExistingDoc(h) ==
    /\ gw[h].pc \in {"doc_get", "winner_doc"}
    /\ \/ /\ doc[gw[h].did] # NoDoc /\ Answered(h, 200, gw[h].did)
       \/ /\ doc[gw[h].did] = NoDoc /\ Goto(h, "zones_get")
       \/ GetRaised(h)
    /\ UNCHANGED <<idem, doc, index, zones, published>>

\* kv_cas(idem:{key}, None, tentative_id); False when another handler set
\* the key or when the call raised, committed or not.
IdemCasNext(h, won) ==
    IF won THEN gw' = [gw EXCEPT ![h].pc = "zones_get", ![h].did = h]
    ELSE Goto(h, "winner_get")
IdemCas(h) ==
    /\ gw[h].pc = "idem_cas"
    /\ LET k == KeyOf(h) IN
       \/ /\ idem[k] = NoId /\ idem' = [idem EXCEPT ![k] = h] /\ IdemCasNext(h, TRUE)
       \/ /\ idem[k] = NoId /\ "after" \in CAS_LOST
          /\ idem' = [idem EXCEPT ![k] = h] /\ IdemCasNext(h, FALSE)
       \/ /\ idem[k] = NoId /\ "before" \in CAS_LOST
          /\ UNCHANGED idem /\ IdemCasNext(h, FALSE)
       \/ /\ idem[k] # NoId /\ UNCHANGED idem /\ IdemCasNext(h, FALSE)
    /\ UNCHANGED <<doc, index, zones, published>>

\* winner = kv_get_opt(idem:{key}); with no winner, delivery_id = tentative_id.
WinnerGet(h) ==
    /\ gw[h].pc = "winner_get"
    /\ LET w == idem[KeyOf(h)] IN
       \/ /\ w # NoId /\ gw' = [gw EXCEPT ![h].pc = "winner_doc", ![h].did = w]
       \/ /\ w = NoId /\ gw' = [gw EXCEPT ![h].pc = "zones_get", ![h].did = h]
       \/ GetRaised(h)
    /\ UNCHANGED <<idem, doc, index, zones, published>>

\* zcfg = kv_get_opt("zones_config") or build_zones_config()
ZonesGet(h) ==
    /\ gw[h].pc = "zones_get"
    /\ \/ Goto(h, "zones_put") \/ GetRaised(h)
    /\ UNCHANGED <<idem, doc, index, zones, published>>

\* kv_put("zones_config", zcfg), a write that may be lost.
ZonesPut(h) ==
    /\ gw[h].pc = "zones_put"
    /\ \/ zones' = TRUE
       \/ PUT_LOST /\ UNCHANGED zones
    /\ Goto(h, "doc_put")
    /\ UNCHANGED <<idem, doc, index, published>>

\* kv_put(delivery:{id}, {..., "status": "pending", "drone_id": None}):
\* an unconditional write of a fresh pending document.
DocPut(h) ==
    /\ gw[h].pc = "doc_put"
    /\ \/ doc' = [doc EXCEPT ![gw[h].did] = "pending"]
       \/ PUT_LOST /\ UNCHANGED doc
    /\ Goto(h, "idx_cas")
    /\ UNCHANGED <<idem, index, zones, published>>

\* A CAS on deliveries_index from old to old \o <<id>>: committed and True,
\* committed and False (raised after), or False without a write.
IndexCas(h, old, lost) ==
    \/ /\ index = old /\ index' = Append(IF old = NoIdx THEN <<>> ELSE old, gw[h].did)
       /\ Goto(h, "publish")
    \/ /\ index = old /\ "after" \in CAS_LOST
       /\ index' = Append(IF old = NoIdx THEN <<>> ELSE old, gw[h].did)
       /\ lost
    \/ /\ index = old /\ "before" \in CAS_LOST /\ UNCHANGED index /\ lost
    \/ /\ index # old /\ UNCHANGED index /\ lost

\* created = kv_cas("deliveries_index", None, [delivery_id])
IdxCas(h) ==
    /\ gw[h].pc = "idx_cas"
    /\ IndexCas(h, NoIdx, Goto(h, "idx_get"))
    /\ UNCHANGED <<idem, doc, zones, published>>

\* Mutant: the loop CASes without looking for the id in cur.
IdxGetNoBreak(h) ==
    /\ gw[h].pc = "idx_get"
    /\ LET cur == IF index = NoIdx THEN <<>> ELSE index IN
       \/ gw' = [gw EXCEPT ![h].pc = "idx_cas2", ![h].cur = cur]
       \/ GetRaised(h)
    /\ UNCHANGED <<idem, doc, index, zones, published>>

\* cur = kv_get_opt("deliveries_index") or []; break if the id is in it.
IdxGet(h) ==
    /\ gw[h].pc = "idx_get"
    /\ LET cur == IF index = NoIdx THEN <<>> ELSE index IN
       \/ /\ gw[h].did \in ToSet(cur) /\ Goto(h, "publish")
       \/ /\ gw[h].did \notin ToSet(cur)
          /\ gw' = [gw EXCEPT ![h].pc = "idx_cas2", ![h].cur = cur]
       \/ GetRaised(h)
    /\ UNCHANGED <<idem, doc, index, zones, published>>

\* kv_cas("deliveries_index", cur, cur + [delivery_id]); on False sleep and
\* loop, leaving the loop after INDEX_TRIES rounds.
NextRound(h) ==
    gw' = [gw EXCEPT ![h].pc = IF gw[h].tries + 1 < INDEX_TRIES THEN "idx_get" ELSE "publish",
                     ![h].tries = gw[h].tries + 1]
IdxCas2(h) ==
    /\ gw[h].pc = "idx_cas2"
    /\ IndexCas(h, gw[h].cur, NextRound(h))
    /\ UNCHANGED <<idem, doc, zones, published>>

\* publish_delivery_request: published, or skipped when no channel can be
\* opened or both publish attempts fail; the answer is 201 either way.
Publish(h) ==
    /\ gw[h].pc = "publish"
    /\ \/ published' = [published EXCEPT ![gw[h].did] = @ + 1]
       \/ UNCHANGED published
    /\ Answered(h, 201, gw[h].did)
    /\ UNCHANGED <<idem, doc, index, zones>>

\* GET /zones (get_zones; the gateway's startup does the same): a missing
\* zones_config is rebuilt and kv_put.  A lost put or a raising read
\* (500) leaves the KV as it was.
ZonesEndpoint ==
    /\ ~zones
    /\ zones' = TRUE
    /\ UNCHANGED <<idem, doc, index, published, gw>>

GWStep(h) ==
    \/ Start(h) \/ ExistingDoc(h) \/ IdemCas(h) \/ WinnerGet(h)
    \/ ZonesGet(h) \/ ZonesPut(h) \/ DocPut(h) \/ IdxCas(h) \/ IdxGet(h)
    \/ IdxCas2(h) \/ Publish(h)
=============================================================================
