------------------------------- MODULE KVFront -------------------------------
(***************************************************************************)
(* The KV coordinator (src/kvfront/app.py) for one key, over the replicas  *)
(* of KVStore, driven by clients that call it the way the dispatcher does  *)
(* (kv_get, then kv_cas with the value read, or kv_put).                   *)
(*                                                                         *)
(* Every await of the coordinator is a step, and so is every step of the  *)
(* backend handler it waits on: a GET that misses the cache reads the DB   *)
(* and fills the cache in two steps, a PUT writes the DB and then the      *)
(* cache, a CAS commits in the DB and then puts the cache.  The fan-out of *)
(* get_key and of _repair_many (asyncio.gather) lets the requests to the   *)
(* replicas proceed in any order; put_key and the CAS replication visit    *)
(* the replicas one after the other.  A request to a replica in FAILS may  *)
(* fail (the replica is down or the 2 s timeout fires before it is sent):  *)
(* get_one then answers None and put_one False.                            *)
(*                                                                         *)
(* wrap() reads a single coordinator's clock: the timestamps are taken     *)
(* from a counter that grows with every wrap.                              *)
(***************************************************************************)
EXTENDS KVStore, Integers, Sequences, FiniteSets

CONSTANTS
    Clients,        \* concurrent callers of the coordinator (dispatcher tasks)
    ReplicaOrder,   \* replica_set(key): the primary first, then the secondaries
    D0,             \* the document stored before the run
    OPS,            \* read-then-write rounds per client
    WRITE_OPS,      \* which writes the clients issue: "cas", "put"
    FAILS,          \* replicas whose requests may fail
    READ_REPAIR,    \* the READ_REPAIR flag
    CACHE_WARM,     \* whether the key starts in every replica's cache
    Pending         \* a replica's reply not yet received

ASSUME ReplicaOrder \in Seq(Replicas) /\ Len(ReplicaOrder) = Cardinality(Replicas)
ASSUME WRITE_OPS \subseteq {"cas", "put"} /\ WRITE_OPS # {}
ASSUME FAILS \subseteq Replicas /\ READ_REPAIR \in BOOLEAN /\ CACHE_WARM \in BOOLEAN /\ OPS \in Nat \ {0}

Primary     == ReplicaOrder[1]

VARIABLES
    now,      \* the next wrap timestamp
    hints,    \* _HINTS: replica -> the wrapped values queued for it
    loc,      \* client -> the locals of the coordinator call it is in
    op,       \* client -> the call it has made: kind, old, new
    nops,     \* client -> rounds completed
    fl        \* the flush_hints task

frontVars == <<now, hints, loc, op, nops, fl>>
vars == <<storeVars, frontVars>>

Pcs == {"idle", "get", "repair", "write", "cas_get", "cas_post", "cas_cache",
        "repl", "put"}
NoCall == [k |-> "none", old |-> NoVal, new |-> NoVal]
Idle   == [pc |-> "idle", rd |-> [r \in Replicas |-> NoVal],
           fill |-> [r \in Replicas |-> NoVal], wr |-> [r \in Replicas |-> "none"],
           i |-> 1, w |-> NoVal, ok |-> 0, applied |-> FALSE, v |-> NoVal]

FrontTypeOK ==
    /\ now \in 1..MaxTs + 1
    /\ hints \in [Replicas -> Seq(Wrapped)]
    /\ \A c \in Clients :
         /\ loc[c].pc \in Pcs
         /\ loc[c].rd \in [Replicas -> Stored \cup {Pending}]
         /\ loc[c].fill \in [Replicas -> Stored]
         /\ loc[c].wr \in [Replicas -> {"none", "db", "cache"}]
         /\ loc[c].i \in 1..Len(ReplicaOrder) + 1
         /\ loc[c].w \in Stored
         /\ loc[c].ok \in 0..Len(ReplicaOrder)
         /\ loc[c].applied \in BOOLEAN
         /\ loc[c].v \in Data \cup {NoVal}
         /\ op[c] \in [k : {"none", "get", "cas", "put"},
                       old : Data \cup {NoVal}, new : Data \cup {NoVal}]
    /\ nops \in [Clients -> 0..OPS]
    /\ fl.pc \in {"sleep", "run"} /\ fl.todo \subseteq Replicas
    /\ fl.b \in Replicas \cup {NoVal} /\ fl.still \in Seq(Wrapped)
    /\ fl.del \subseteq Replicas /\ fl.wr \in {"none", "cache"}

\* Mutant: the timestamp taken one tick late.
WrapLater(d) == [ts |-> now + 1, data |-> d]

\* wrap(): the value with the coordinator's current timestamp.
Wrap(d) == [ts |-> now, data |-> d]

\* The document a client writes in its n-th round: unique per write.
NewData(c) == <<c, nops[c] + 1>>

SetLoc(c, f) == loc' = [loc EXCEPT ![c] = f]

\* The end of a call: the client's round is over or its write comes next.
EndRound(c) ==
    /\ loc' = [loc EXCEPT ![c] = [Idle EXCEPT !.v = loc[c].v]]
    /\ op' = [op EXCEPT ![c] = NoCall]
    /\ nops' = [nops EXCEPT ![c] = @ + 1]

Init ==
    /\ db = [r \in Replicas |-> [ts |-> 1, data |-> D0]]
    /\ cache = [r \in Replicas |-> IF CACHE_WARM THEN db[r] ELSE NoVal]
    /\ now = 2
    /\ hints = [r \in Replicas |-> <<>>]
    /\ loc = [c \in Clients |-> Idle]
    /\ op = [c \in Clients |-> NoCall]
    /\ nops = [c \in Clients |-> 0]
    /\ fl = [pc |-> "sleep", todo |-> {}, b |-> NoVal, idx |-> 1,
             still |-> <<>>, del |-> {}, wr |-> "none"]

-----------------------------------------------------------------------------
(* Backend GET (kvstore get_key) as awaited by get_one.                    *)

\* get_one: the request fails (None), or the cache answers, or on a miss the
\* DB row is read and a cache fill is left to do.
BackendGet(c, r) ==
    /\ loc[c].rd[r] = Pending /\ loc[c].fill[r] = NoVal
    /\ \/ r \in FAILS /\ SetLoc(c, [loc[c] EXCEPT !.rd[r] = NoVal])
       \/ CacheHit(r) /\ SetLoc(c, [loc[c] EXCEPT !.rd[r] = cache[r]])
       \/ ~CacheHit(r) /\ SetLoc(c, [loc[c] EXCEPT !.fill[r] = db[r]])
    /\ UNCHANGED <<storeVars, now, hints, op, nops, fl>>

\* get_key's CACHE.put(key, v) after the DB read, then the reply.
CacheFill(c, r) ==
    /\ loc[c].fill[r] # NoVal
    /\ CachePut(r, loc[c].fill[r])
    /\ SetLoc(c, [loc[c] EXCEPT !.rd[r] = loc[c].fill[r], !.fill[r] = NoVal])
    /\ UNCHANGED <<db, now, hints, op, nops, fl>>

-----------------------------------------------------------------------------
(* get_key of the coordinator.                                             *)

\* kv_get: the client calls GET; get_key fans out to every replica.
StartGet(c) ==
    /\ loc[c].pc = "idle" /\ nops[c] < OPS
    /\ SetLoc(c, [loc[c] EXCEPT !.pc = "get", !.rd = [r \in Replicas |-> Pending]])
    /\ op' = [op EXCEPT ![c] = [k |-> "get", old |-> NoVal, new |-> NoVal]]
    /\ UNCHANGED <<storeVars, now, hints, nops, fl>>

\* LWW: the reply with the largest _ts (timestamps are unique per wrap).
Answered(rd) == {r \in Replicas : rd[r] # NoVal}
Best(rd) == LET R == Answered(rd)
            IN rd[CHOOSE r \in R : \A s \in R : rd[s].ts <= rd[r].ts]
\* The replicas that answered with an older _ts than the winner.
ToFix(rd) == {r \in Answered(rd) : rd[r].ts < Best(rd).ts}

\* The value returned to the client; its write follows.
ReturnGet(c, v) ==
    /\ loc' = [loc EXCEPT ![c] = [Idle EXCEPT !.pc = "write", !.v = v]]
    /\ op' = [op EXCEPT ![c] = NoCall]

\* All replies are in: 404 when none answered, else the LWW winner, with
\* read-repair of the stale replicas first when READ_REPAIR is on.
ResolveGet(c) ==
    LET rd == loc[c].rd IN
    /\ loc[c].pc = "get"
    /\ \A r \in Replicas : rd[r] # Pending
    /\ IF Answered(rd) = {}
       THEN EndRound(c)
       ELSE IF READ_REPAIR /\ ToFix(rd) # {}
            THEN /\ SetLoc(c, [loc[c] EXCEPT !.pc = "repair", !.w = Best(rd),
                      !.wr = [r \in Replicas |-> IF r \in ToFix(rd) THEN "db" ELSE "none"]])
                 /\ UNCHANGED <<op, nops>>
            ELSE /\ ReturnGet(c, Best(rd).data)
                 /\ UNCHANGED nops
    /\ UNCHANGED <<storeVars, now, hints, fl>>

\* _repair_many: one put_one per stale replica, results ignored (no hint).
RepairDb(c, r) ==
    /\ loc[c].pc = "repair" /\ loc[c].wr[r] = "db"
    /\ \/ r \in FAILS /\ SetLoc(c, [loc[c] EXCEPT !.wr[r] = "none"]) /\ UNCHANGED db
       \/ DbPut(r, loc[c].w) /\ SetLoc(c, [loc[c] EXCEPT !.wr[r] = "cache"])
    /\ UNCHANGED <<cache, now, hints, op, nops, fl>>

\* kvstore put_key: CACHE.put after db_put.
RepairCache(c, r) ==
    /\ loc[c].pc = "repair" /\ loc[c].wr[r] = "cache"
    /\ CachePut(r, loc[c].w)
    /\ SetLoc(c, [loc[c] EXCEPT !.wr[r] = "none"])
    /\ UNCHANGED <<db, now, hints, op, nops, fl>>

\* gather has returned: get_key answers the winner.
RepairDone(c) ==
    /\ loc[c].pc = "repair" /\ \A r \in Replicas : loc[c].wr[r] = "none"
    /\ ReturnGet(c, loc[c].w.data)
    /\ UNCHANGED <<storeVars, now, hints, nops, fl>>

-----------------------------------------------------------------------------
(* cas of the coordinator.                                                 *)

\* kv_cas with the document just read: get_one(primary) first.
StartCas(c) ==
    /\ loc[c].pc = "write" /\ "cas" \in WRITE_OPS /\ loc[c].v # NoVal
    /\ SetLoc(c, [loc[c] EXCEPT !.pc = "cas_get",
                  !.rd = [r \in Replicas |-> IF r = Primary THEN Pending ELSE NoVal]])
    /\ op' = [op EXCEPT ![c] = [k |-> "cas", old |-> loc[c].v, new |-> NewData(c)]]
    /\ UNCHANGED <<storeVars, now, hints, nops, fl>>

\* The front-side compare of the primary's unwrapped data with old; on a
\* match the new value is wrapped.
CasCompare(c) ==
    LET cur == loc[c].rd[Primary] IN
    /\ loc[c].pc = "cas_get" /\ cur # Pending
    /\ IF cur = NoVal \/ cur.data # op[c].old
       THEN EndRound(c) /\ UNCHANGED now
       ELSE /\ SetLoc(c, [loc[c] EXCEPT !.pc = "cas_post", !.w = Wrap(op[c].new)])
            /\ now' = now + 1
            /\ UNCHANGED <<op, nops>>
    /\ UNCHANGED <<storeVars, hints, fl>>

\* Mutant: the primary is written with a plain put once the front compare
\* has passed.
CasPostAsPut(c) ==
    /\ loc[c].pc = "cas_post"
    /\ \/ /\ DbPut(Primary, loc[c].w)
          /\ SetLoc(c, [loc[c] EXCEPT !.pc = "cas_cache"])
          /\ UNCHANGED <<op, nops>>
       \/ /\ Primary \in FAILS
          /\ EndRound(c)
          /\ UNCHANGED db
    /\ UNCHANGED <<cache, now, hints, fl>>

\* The real CAS on the primary, old = the wrapped value read (cur_raw).  A
\* failed request raises, and the client's kv_cas answers False.
CasPost(c) ==
    /\ loc[c].pc = "cas_post"
    /\ \/ /\ DbCasOk(Primary, loc[c].rd[Primary])
          /\ DbPut(Primary, loc[c].w)
          /\ SetLoc(c, [loc[c] EXCEPT !.pc = "cas_cache"])
          /\ UNCHANGED <<op, nops>>
       \/ /\ ~DbCasOk(Primary, loc[c].rd[Primary]) \/ Primary \in FAILS
          /\ EndRound(c)
          /\ UNCHANGED db
    /\ UNCHANGED <<cache, now, hints, fl>>

\* kvstore cas: CACHE.put(new) after db_cas; then replication starts.
CasCache(c) ==
    /\ loc[c].pc = "cas_cache"
    /\ CachePut(Primary, loc[c].w)
    /\ SetLoc(c, [loc[c] EXCEPT !.pc = "repl", !.i = 2, !.applied = TRUE])
    /\ UNCHANGED <<db, now, hints, op, nops, fl>>

-----------------------------------------------------------------------------
(* put_key of the coordinator, and the replication loop it shares with cas. *)

\* kv_put with a fresh document: wrap, then put_one to every replica in order.
StartPut(c) ==
    /\ loc[c].pc = "write" /\ "put" \in WRITE_OPS
    /\ SetLoc(c, [loc[c] EXCEPT !.pc = "put", !.i = 1, !.ok = 0,
                  !.w = Wrap(NewData(c))])
    /\ now' = now + 1
    /\ op' = [op EXCEPT ![c] = [k |-> "put", old |-> NoVal, new |-> NewData(c)]]
    /\ UNCHANGED <<storeVars, hints, nops, fl>>

\* put_one to the i-th replica: on failure an hint is queued for it.
SeqPutDb(c) ==
    LET r == ReplicaOrder[loc[c].i] IN
    /\ loc[c].pc \in {"repl", "put"} /\ loc[c].i <= Len(ReplicaOrder)
    /\ loc[c].wr[r] = "none"
    /\ \/ /\ r \in FAILS
          /\ hints' = [hints EXCEPT ![r] = Append(@, loc[c].w)]
          /\ SetLoc(c, [loc[c] EXCEPT !.i = @ + 1])
          /\ UNCHANGED db
       \/ /\ DbPut(r, loc[c].w)
          /\ SetLoc(c, [loc[c] EXCEPT !.wr[r] = "cache"])
          /\ UNCHANGED hints
    /\ UNCHANGED <<cache, now, op, nops, fl>>

SeqPutCache(c) ==
    LET r == ReplicaOrder[loc[c].i] IN
    /\ loc[c].pc \in {"repl", "put"} /\ loc[c].i <= Len(ReplicaOrder)
    /\ loc[c].wr[r] = "cache"
    /\ CachePut(r, loc[c].w)
    /\ SetLoc(c, [loc[c] EXCEPT !.wr[r] = "none", !.i = @ + 1, !.ok = @ + 1,
                  !.applied = @ \/ r = Primary])
    /\ UNCHANGED <<db, now, hints, op, nops, fl>>

\* cas answers ok; put_key answers ok if one replica wrote, else 503.
SeqDone(c) ==
    /\ loc[c].pc \in {"repl", "put"} /\ loc[c].i > Len(ReplicaOrder)
    /\ EndRound(c)
    /\ UNCHANGED <<storeVars, now, hints, fl>>

-----------------------------------------------------------------------------
(* flush_hints: every HINT_FLUSH_SEC, replay each backend's hint list.     *)

\* if not _HINTS: continue; else snapshot the keys of _HINTS.
FlushStart ==
    /\ fl.pc = "sleep" /\ \E r \in Replicas : hints[r] # <<>>
    /\ fl' = [fl EXCEPT !.pc = "run", !.todo = {r \in Replicas : hints[r] # <<>>},
                        !.b = NoVal, !.del = {}]
    /\ UNCHANGED <<storeVars, now, hints, loc, op, nops>>

FlushNextBackend ==
    /\ fl.pc = "run" /\ fl.b = NoVal
    /\ \E r \in fl.todo :
         fl' = [fl EXCEPT !.b = r, !.todo = @ \ {r}, !.idx = 1, !.still = <<>>]
    /\ UNCHANGED <<storeVars, now, hints, loc, op, nops>>

\* The put of the idx-th item of the live list: a failure keeps it in still.
FlushItem(ok) ==
    LET b == fl.b IN
    /\ b # NoVal /\ fl.wr = "none" /\ fl.idx <= Len(hints[b])
    /\ IF ok
       THEN DbPut(b, hints[b][fl.idx]) /\ fl' = [fl EXCEPT !.wr = "cache"]
       ELSE /\ b \in FAILS
            /\ fl' = [fl EXCEPT !.still = Append(@, hints[b][fl.idx]), !.idx = @ + 1]
            /\ UNCHANGED db
    /\ UNCHANGED <<cache, now, hints, loc, op, nops>>

FlushItemCache ==
    /\ fl.b # NoVal /\ fl.wr = "cache"
    /\ CachePut(fl.b, hints[fl.b][fl.idx])
    /\ fl' = [fl EXCEPT !.wr = "none", !.idx = @ + 1]
    /\ UNCHANGED <<db, now, hints, loc, op, nops>>

\* The list is exhausted: _HINTS[b] = still if an item failed ...
Kept == IF fl.still # <<>> THEN [hints EXCEPT ![fl.b] = fl.still] ELSE hints

\* Mutant: a backend whose items all went through is never put in to_del.
ToDelNever == fl.del

\* ... else b is put in to_del.
ToDel == IF fl.still # <<>> THEN fl.del ELSE fl.del \cup {fl.b}

\* for b in to_del: _HINTS.pop(b): the whole list goes, whatever was
\* appended to it while later backends were being flushed.
PopDeleted(h, del) == [r \in Replicas |-> IF r \in del THEN <<>> ELSE h[r]]

\* The next backend's first put is the next await; after the last backend
\* the pops follow without one, and the task sleeps again.
FlushBackendDone ==
    /\ fl.b # NoVal /\ fl.wr = "none" /\ fl.idx > Len(hints[fl.b])
    /\ \/ /\ fl.todo # {}
          /\ hints' = Kept
          /\ fl' = [fl EXCEPT !.b = NoVal, !.del = ToDel]
       \/ /\ fl.todo = {}
          /\ hints' = PopDeleted(Kept, ToDel)
          /\ fl' = [fl EXCEPT !.pc = "sleep", !.b = NoVal, !.del = {}]
    /\ UNCHANGED <<storeVars, now, loc, op, nops>>

-----------------------------------------------------------------------------
ClientStep(c) ==
    \/ StartGet(c) \/ ResolveGet(c) \/ RepairDone(c)
    \/ \E r \in Replicas : BackendGet(c, r) \/ CacheFill(c, r)
                           \/ RepairDb(c, r) \/ RepairCache(c, r)
    \/ StartCas(c) \/ CasCompare(c) \/ CasPost(c) \/ CasCache(c)
    \/ StartPut(c) \/ SeqPutDb(c) \/ SeqPutCache(c) \/ SeqDone(c)

FlushStep ==
    \/ FlushStart \/ FlushNextBackend \/ FlushItem(TRUE) \/ FlushItem(FALSE)
    \/ FlushItemCache \/ FlushBackendDone

Next ==
    \/ \E c \in Clients : ClientStep(c)
    \/ FlushStep
    \/ \E r \in Replicas : CacheEvict(r) /\ UNCHANGED frontVars

=============================================================================
