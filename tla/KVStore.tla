------------------------------- MODULE KVStore -------------------------------
(***************************************************************************)
(* One key of the kvstore backend (src/kvstore/app.py), on every replica:  *)
(* the SQLite row (db) and the LRU cache entry (cache).  Each handler runs *)
(* in FastAPI's thread pool, so its steps interleave with other handlers': *)
(* the DB is guarded by _db_lock and the cache by its own lock, but a      *)
(* handler that touches both releases one before it takes the other.  The  *)
(* steps below are the atomic pieces; KVFront strings them into handlers.  *)
(*                                                                         *)
(* A stored value is what kvfront wraps: a record [ts, data] (wrap()).     *)
(* Data values are model values; ts is the wrap timestamp.                 *)
(***************************************************************************)
EXTENDS Naturals

CONSTANTS
    Replicas,       \* the backends of the key's replica set
    Data,           \* the documents a client may store under the key
    MaxTs,          \* the largest wrap timestamp any run can reach
    NoVal,          \* an absent row or cache entry; a failed or empty reply
    CACHE_EVICTS    \* whether traffic on other keys may evict this key (_evict)

ASSUME CACHE_EVICTS \in BOOLEAN

VARIABLES
    db,       \* replica -> the kv_store row of the key
    cache     \* replica -> the key's LRUCache entry, or NoVal

storeVars == <<db, cache>>

Wrapped == [ts : 0..MaxTs, data : Data]
Stored  == Wrapped \cup {NoVal}

StoreTypeOK ==
    /\ db    \in [Replicas -> Stored]
    /\ cache \in [Replicas -> Stored]

\* get_key: the cache is consulted first, the DB only on a miss.
CacheHit(r) == cache[r] # NoVal

\* What a GET on replica r answers when no fill is under way.
Served(r) == IF CacheHit(r) THEN cache[r] ELSE db[r]

\* db_put: INSERT ... ON CONFLICT DO UPDATE, unconditional, under _db_lock.
DbPut(r, w) == db' = [db EXCEPT ![r] = w]

\* LRUCache.put under the cache lock.  The key itself is never the one
\* _evict drops on its own put (it is the most recent entry).
CachePut(r, w) == cache' = [cache EXCEPT ![r] = w]

\* db_cas with a present row and a present old: BEGIN IMMEDIATE, compare the
\* stored JSON with old, UPDATE on equality, all under _db_lock.
DbCasOk(r, old) == db[r] = old

\* LRUCache._evict triggered by puts of other keys: the least recently used
\* entry is dropped, and this key may be it.
CacheEvict(r) ==
    /\ CACHE_EVICTS
    /\ CacheHit(r)
    /\ cache' = [cache EXCEPT ![r] = NoVal]
    /\ UNCHANGED db

=============================================================================
