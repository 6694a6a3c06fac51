# TLA+ models of the drone dispatch system

These TLA+ modules model the part of `src/` where concurrency decides correctness. There
are two groups:
- **The fleet.** The dispatcher (`src/dispatcher/app.py`) and the drone simulator
  (`src/drone_sim/app.py`) act on the same `drone:{id}` and `delivery:{id}` documents. This
  group takes each key as one linearizable copy.
- **The replicated KV underneath.** The coordinator (`src/kvfront/app.py`) and its backends
  (`src/kvstore/app.py`) are modelled for one key. They are checked against that
  assumption: an abstract register, by a refinement mapping.
- **Ingress.** The load balancer (`src/lb/app.py`) forwards ordergen's POSTs to the
  gateway's `create_delivery` (`src/gateway/app.py`), with its global token bucket and its
  one retry of a keyed POST. This group takes the KV as atomic per key and adds the
  failures the gateway's KV helpers see.

TLC checks the modules under the configurations listed below.

## The system and how its parts interact

| part | source | role |
|---|---|---|
| gateway | `src/gateway/app.py` | `create_delivery` writes a `pending` delivery, appends it to `deliveries_index` and sends a `delivery_requests` message. A status consumer prints `delivery_status` events. |
| dispatcher | `src/dispatcher/app.py` | One asyncio process running three kinds of task: the `scheduler_loop` (autoscale, govern charging/retiring, `advance_deliveries`, `reconcile_stuck_busy`, `assign_round`); `on_request` consumers running `assign_one`; `on_drone_upd` consumers running `advance_for_drone`. Every KV call is an `await`, so all of them interleave. |
| drone_sim | `src/drone_sim/app.py` | One `run_one` loop per drone. Each tick reads the drone, moves it toward its target or charges it, and merges `pos`/`battery`/`at_charge` with a CAS retry loop. It then queues a telemetry event for the dispatcher. |
| kvfront | `src/kvfront/app.py` | Replicates each key on RF backends. Reads take the newest timestamp. CAS goes to the primary. Hints are kept for replicas that are down. Locks are forwarded to the primary. |
| kvstore | `src/kvstore/app.py` | SQLite plus an LRU cache. `db_cas` compares whole documents. Locks are a map from key to expiry: `lock_acquire` succeeds once the expiry has passed, and `lock_release` pops the key whoever holds it. |
| lb, ordergen | `src/lb/app.py`, `src/ordergen/app.py` | A rate-limited proxy, and a load generator. |

A delivery moves `pending → assigned → in_flight → delivered`:
- `assign_one` takes the delivery lock and picks an idle drone. It takes the drone lock, rechecks the drone, claims it (idle→busy), then CASes the delivery to `assigned`.
- The advancement paths CAS it to `in_flight`, switch its leg at the origin and mark it `delivered` at the destination. They then release the drone back to idle.
- Autoscale activates inactive drones and retires idle or charging ones.
- Govern moves charged drones from charging to idle and from retiring to inactive, and sends idle drones with a critical battery to charging.

## Modules

| module | models | state | actions |
|---|---|---|---|
| `DroneFleet` | the shared documents and the KV operations (`kv_cas`, `kv_put`, lock records, `set_drone_idle_if_busy`, `can_complete_mission`) | `drone`, `delivery`, `dlock`, `rlock`, `published` | `LockExpires` (the lock TTL); operators used by the actions of the other modules |
| `DroneSim` | `run_one` of drone_sim | `simPc`, `simTick` per drone | `SimRead` (read, move or charge), `SimMerge` (the CAS merge) |
| `Dispatcher` | all dispatcher tasks | `pc`, `ret`, `asg`, `adv`, `sched`, `reqs` | one action per await of `assign_one`/`pick_drone`, the advancement tail, `advance_for_drone`, autoscale, govern, `advance_deliveries`, reconcile, `assign_round`, `on_request` |
| `Fleet` | the composition, the fairness, the properties | – | `Next` = dispatcher step or simulator step |
| `MCFleet` | model values and the constant operators for TLC | – | – |
| `KVStore` | one key on every kvstore replica | `db` (the SQLite row), `cache` (the LRU entry) | `CacheEvict`; the row and cache operations (`DbPut`, `CachePut`, `DbCasOk`, `Served`) used by KVFront |
| `KVFront` | kvfront's `get_key`, `put_key`, `cas` and `flush_hints`, called by clients the way the dispatcher calls `kv_get`, `kv_cas` and `kv_put` | `now` (the wrap clock), `hints` (`_HINTS`), `loc`/`op`/`nops` per client, `fl` (the flusher's locals) | one action per await of the coordinator and per step of the backend handler it waits on |
| `KVRegister` | what the KV promises for one key: a linearizable register with a weak CAS | `reg`, `aop`, `aseen`, `ret` | `Invoke`, `CasTakesEffect`, `PutTakesEffect`, `GetRespond`, `CasRespond`, `PutRespond` |
| `KV` | the composition, the history variable `seen`, the fairness, the refinement mapping and the properties | `seen` | `KVNext` = a KVFront step with the history update |
| `Gateway` | `create_delivery` of the gateway, one handler per (request, try) | `idem`, `doc`, `index`, `zones`, `published`, `gw` (per handler: `pc`, `did`, `cur`, `tries`, `resp`) | one action per await: `Start`, `ExistingDoc`, `IdemCas`, `WinnerGet`, `ZonesGet`, `ZonesPut`, `DocPut`, `IdxCas`, `IdxGet`, `IdxCas2`, `Publish` |
| `LB` | the lb proxy (global limiter, `one_try`, the retry) over `Gateway`, and the dispatcher's assignment of a pending delivery | `lb`, `now`, `bucket`, `admitted` | `Proxy`, `TryFails`, `Reply`, `Assign`, `ZonesEndpoint` (from `Gateway`), `Tick`, `Quiescent` |
| `MCIngress` | model values and the request-to-key map for TLC | – | – |
| `MCKV` | model values, the replica order and the data set for TLC | – | – |

How the code maps onto the model:
- **Each `await` is a step.** A task's `pc` names its next await. `assign_one` and the per-delivery advancement are procedures shared by several callers. The caller's return label is kept in `ret`.
- **Retry loops.** A read-check-CAS loop whose CAS expects the document read in the same iteration is one atomic step with a `wins` flag. These are `set_drone_busy_if_idle`, `set_drone_idle_if_busy`, the govern loops and autoscale activation. `wins = FALSE` is the loop giving up after all its attempts collided.
- **Writes split from their reads.** A write whose expected or written document was read at an earlier await is a separate step. These are the `kv_put`s of `pick_drone` and of the recheck, the advancement CASes, the govern idle→charging CAS, and the autoscale retire CAS.
- **Abstractions, each stated in a comment at its definition:**
  - The autoscale pending count and `oldest_pending` are one step each, because no delivery ever returns to pending.
  - The simulator's delivery read is merged with its drone read, since the dispatcher changes the leg only while the drone stays busy on that delivery.
  - A simulator tick that would write back exactly what it read is omitted.
  - `reconcile_stuck_busy`'s delivery read is merged with its release, since `delivered` is final.
- **Data.**
  - A position is one of `Charge`, `Away`, `<<d, "origin">>`, `<<d, "destination">>`. These are the places the code tests with `close_enough` and `ARRIVE_EPS_KM`.
  - Battery is a level `0..MaxBattery`.
  - `MissionCost(pos, d)` and `PickupTooFar(pos, d)` are constant operators that stand for the haversine computations.
  - The ranking of candidates (distance bucket, zone, battery, speed) depends only on abstracted data, so any candidate may win. The winner is then rejected if it is too far.
  - Python `round()` is modelled as round-half-to-even (`RoundHalfEven`), and `math.ceil` as `CeilDiv`.
- **The recheck's write (assign_one lines 593–626).** `feas_miss_set` is a Python `set` unless the threshold branch replaced it with `[]`. `kv_put` cannot serialise a set and raises. So a failed recheck below the threshold writes nothing (`RecheckUpdate` returns `NULL`), and the exception is caught by `assign_round` or ends the message handler.

How the KV code maps onto KVStore and KVFront:
- **Each await is a step.** So is each critical section of a backend handler.
  - kvstore's handlers run in FastAPI's thread pool.
  - A miss in `get_key` is two steps: `db_get` under `_db_lock` (`BackendGet`), then `CACHE.put` under the cache lock (`CacheFill`).
  - `put_key` is `db_put`, then `CACHE.put`.
  - `cas` is `db_cas`, then `CACHE.put` (`CasPost`, then `CasCache`).
- **Fan-out.** The fan-out of `get_key` and of `_repair_many` (`asyncio.gather`) lets the replies come in any order. `put_key` and the CAS replication visit the replicas one after the other.
- **Failures.** A request to a replica in `FAILS` may fail: `get_one` answers `None` and `put_one` answers `False`. A failed request never reaches the backend.
- **`flush_hints`.**
  - It iterates each backend's live list, so items appended during the replay are replayed too.
  - `_HINTS[b] = still` or `to_del.append(b)` happens after a backend's last item (`Kept`, `ToDel`).
  - The pops follow the last backend without an await (`PopDeleted`, inside `FlushBackendDone`).
- **Data.** A document is `D0` or `<<c, n>>`, the n-th write of client c. A stored value is the wrapper `[ts, data]`. `wrap()`'s `time.time()` is a counter `now` that grows with every wrap, as on one coordinator's clock.
- **The refinement mapping (KV.Abstract).**
  - The register's value is what the primary serves: its cache entry, else its row (`RegValue`).
  - A write takes effect at the first instant the primary serves it: its cache put, or an eviction between the row write and the cache put (`TookEffect`).
  - A GET may answer any value the register held while it was pending. The history variable `seen` collects these values.
  - `cas` answering False is allowed whenever it did not write: a weak CAS, as the dispatcher retries.

## Runs

| run | cfg | expect | properties | what it shows |
|---|---|---|---|---|
| fleet_safety | `MCFleet.cfg` | pass (403k states) | TypeOK, BusyIffDelivery, ActiveDeliveryHeld, FeasMissMatchesSet | The scheduler alone, racing the simulators, keeps drones and deliveries consistent. |
| fleet_liveness | `MCLive.cfg` | pass | AssignedEventuallyDelivered, DeliveredDroneReleased, RetiringEventuallyInactive | Progress under the fairness below. `SCALE_RATIO = 2` makes the backlog activate both drones, and the empty backlog then retires one. |
| concurrent_assign | `MCRequests.cfg` | pass (842k states) | AssignedOnce, FeasMissMatchesSet, DeliveryMonotone | The scheduler, `on_request` and one `on_drone_upd` consumer act on the same delivery while locks may expire. `delivery_assigned` is still published once, misses are counted once, and `advance_for_drone` with stale reads beside `advance_deliveries` never moves a delivery backwards. The loser's rollback and a failed recheck below `EARLY_CHARGE_THRESHOLD = 2` (no write) fire here. `ActiveDeliveryHeld` and `BusyIffDelivery` are not checked here: with one delivery and threshold 2 the two writes known to break them cannot happen. These are `pick_drone`'s stale write-back (run `stale_pick_put`) and, at threshold 1, the failed recheck writing a busy drone as charging (hazard at dispatcher line 625). |
| lock_release_foreign | `MCLockRelease.cfg` | violation | DroneLockExclusive | A failed drone `lock_acquire` still releases that lock in `finally` (dispatcher 579–581, 651–654; kvstore 476). |
| stale_pick_put | `MCStalePut.cfg` | violation | ActiveDeliveryHeld | `pick_drone`'s stale `kv_put` (line 435) undoes the scheduler's claim. The delivery stays assigned to an idle drone. |
| kv_linearizable | `MCKVLin.cfg` | pass (466k states, symmetry) | KVTypeOK, Linearizable | Two clients, two read-then-CAS rounds each. The secondary fails at times, so hints are queued and replayed, and read-repair is off. The KV then implements `KVRegister`. |
| kv_hints | `MCKVHints.cfg` | pass (511k states) | HintsDrain | Puts run with read-repair on and caches that evict and refill, while either replica fails at times. The hint lists always drain. |
| kv_repair_clobber | `MCKVRepair.cfg` | violation | Linearizable | A GET reads the primary before a CAS and the secondary after it. Its read-repair then writes the older value over the primary, undoing the acknowledged CAS (kvfront 302, 374). |
| kv_cache_fill | `MCKVFill.cfg` | violation | Linearizable | A cache fill of a row read before a CAS lands after the CAS's cache put, so the primary serves the old document again (kvstore 391–396). |
| ingress | `MCIngress.cfg` | pass (3.8M states) | TypeOK, IndexNoDuplicates, RateBound | A keyed and an unkeyed POST through the limiter, with the keyed one retried after a timeout while its first handler runs, and `kv_cas` answering False whether or not it committed. `deliveries_index` never lists a delivery twice: the membership check at gateway 593 stops a re-append after a CAS that committed and answered False, and after the retry that carries the same id. The bucket never admits more than the burst plus the rate over any window. |
| ingress_regress | `MCIngressRegress.cfg` | violation | PendingNeverRegresses | The load balancer retries a keyed POST after a timeout while the first handler still runs. The retry finds the idem anchor without its document, so it goes on under the same id. After the dispatcher assigned the delivery, the first handler's unconditional `kv_put` (gateway line 576) or the retry's writes it back as `pending`, against spec.md invariant 4. |
| kv_hint_lost | `MCKVHintLost.cfg` | violation | HintNotDropped | A hint queued for a backend already in `to_del`, while the flusher awaits another backend, is popped unwritten (kvfront 183–188). |
How the ingress code maps onto Gateway and LB:
- **Each await of `create_delivery` is a step**, named by `gw[h].pc`. A handler `h` is a pair (request, try). Its uuid4 is `h` itself, so the tentative id of a keyed POST and the id of an unkeyed one are distinct per handler.
- **The KV helpers' failures.**
  - `kv_put` swallows every exception: with `PUT_LOST` a write may leave its key unchanged while the handler goes on.
  - `kv_get_opt` lets a transport error escape: with `GET_RAISES` every read may end the handler with 500 (`GetRaised`).
  - `kv_cas` returns False on any exception: `CAS_LOST` says whether the coordinator may have committed (`"after"`) or not (`"before"`) when it did.
- **The `deliveries_index` loop.** `IdxCas` is the first CAS from absent; `IdxGet` reads `cur` (absent read as `[]`) and leaves if the id is in it; `IdxCas2` CASes `cur` to `cur + [id]`; `NextRound` counts the rounds up to `INDEX_TRIES` (40 in the code).
- **The load balancer.**
  - `Proxy` runs `_refill` and `_take` on the global bucket. Tokens are scaled by `RL_RATE_DEN` so that a rate like 0.5 per second is integer arithmetic; time advances in whole seconds (`Tick`).
  - `TryFails` is `one_try` raising: a connect error, or the 5 s timeout while the handler still runs (its handler goes on, marked `lost` only if it had not started). `allow_retry` holds for a POST with an Idempotency-Key, and the retry is a second handler. Otherwise the exception escapes the proxy as 500.
  - `_pick_backend_base`'s round robin is left out: every gateway replica shares the KV, so which one serves a try does not change what it does.
- **The dispatcher** is only `Assign`: a pending delivery that is in the index or was published becomes `assigned`, provided `zones_config` exists (`pick_drone` calls `point_zone` on `get_zcfg()`, which raises when it is missing). Drones are not in this group, so `Assign` stands for an assignment that finds a feasible drone.
- **`zones_config`.** `ZonesGet`/`ZonesPut` are `create_delivery`'s rebuild of a missing config; `ZonesEndpoint` is `GET /zones` (and the gateway's startup), which rebuilds it the same way. The other read endpoints only read, so they change no state.

Together the passing runs fire every action of the fleet's next-state relation, as TLC's coverage report shows. This is not a claim about every branch inside an action. The feasible-again branch of `pick_drone` (the reset at lines 443–447) is known not to be reached: it needs a drone that recorded a miss and later became feasible while idle, which in these bounds takes more deliveries than the configurations hold.

The two KV passing runs together fire every disjunct of `KVNext`.

Every property of a passing run has a mutant in `PROJECT.json`. Each mutant is a plausible bug in the mapped definition: a dropped guard, a missing field, an off-by-one, or a CAS turned into a put. TLC finds the property violated under the run's own cfg.

## Bounds

- **Drones and deliveries.** Two drones and one or two deliveries, all of class `light`, so the class filter is exercised by the code path but never rejects anyone.
- **Battery.** `MaxBattery = 2`, `CRITICAL_BATTERY = 0` and `FULL_AFTER = 2`. A flight costs at most one level per tick. The mission cost is 1 from the charger or the origin and 2 elsewhere. So a drone that has flown one leg can be infeasible, and a drone at 0 is critical.
- **Geometry.** `MCMissionCost` charges 1 from the charger or the origin and 2 elsewhere; `MCPickupTooFar` rejects only a drone parked at d1's destination for d2. The violation run `stale_pick_put` uses `MCMissionCostLong`, which makes d2 infeasible for every drone, so that `pick_drone` writes misses while the scheduler claims a drone.
- **Autoscale.** `BASE_ACTIVE = 1`, `DRONE_POOL_MAX = 2` and `SCALE_RATIO = 4/5`. Two pending deliveries activate both drones, and one pending delivery lets autoscale retire one.
- **Concurrent consumers.** One `on_request` consumer, or two in `MCLockRelease`, and one `on_drone_upd` consumer. With two drones, two deliveries and two consumers the state space reached more than 10 minutes of checking, so each concurrent run fixes the smallest setting in which its interleaving occurs.
- **KV.** One key, two replicas (`RF = 2`), and two clients.
  - Clients make two rounds each where the interleaving needs a second read after a write (`MCKVLin` and the violation runs). `MCKVHints` uses one round of puts, because it turns failures, read-repair and eviction on at once; CAS is checked by `MCKVLin`.
  - `MaxTs` is one timestamp per write. `MCKVHintLost` uses one client, so that the hints are appended in timestamp order and only the pop race can drop one.
  - Symmetry over the clients is used only by the two safety runs. The clients run the same code, and a document names its writer, so permuting the clients maps behaviours onto behaviours.
  - With three clients a run took more than 10 minutes.
- **Ingress.** Two requests, one keyed (`r1`, key `k1`) and one without a key (`r2`), so both entry branches of `create_delivery` and both outcomes of `allow_retry` occur. Each has up to two tries, so four handlers.
  - `INDEX_TRIES = 4` instead of the code's 40, because with CAS failures before commit every extra round multiplies the states. A failed round changes nothing but the handler's round count. So a behaviour of the code's loop maps onto one with fewer rounds that reaches the same KV states, and the smaller bound loses no index outcome.
  - `PUT_LOST` and `GET_RAISES` are off in this run (3.8M states with them off; more than 10M, unfinished, with them on). A lost put leaves a document or `zones_config` unwritten, and a raising read ends a handler with 500. Neither touches `deliveries_index` or the bucket, which is all the run's properties are about.
  - The bucket refills 1/2 token per second with a burst of 1 over `MaxTime = 2` seconds. Then the second request is refused at time 0 and admitted at time 2, and the refill cap matters.
  - `CAS_LOST = {"before", "after"}`: `kv_cas` answers False on any exception (gateway 305–315). With `"before"`, a failed idem CAS that never committed lets the loser go on with its own `tentative_id` (line 564), and TLC finds two documents for one key, against spec.md line 256. The first index CAS failing the same way traps the loop (line 595). Both are recorded as hazards: the project is at its limit of runs, so neither is a violation run.
  - `ingress_regress` uses one keyed request, no limiter and no KV failures: the regression needs only the retry and the dispatcher.
- **Unbounded counters.** `published` counts are unbounded in principle. In every run they are bounded by the number of advancement paths.

## Fairness

These are the assumptions in `Fleet.Fairness`:
- **The scheduler** loops forever with a sleep between rounds, so `SchedStep` is weakly fair.
- **Retry loops the liveness properties rely on.** A retry loop gives up only after a run of CAS collisions, and collisions cannot go on forever. So the winning outcomes of reconcile's release and of the govern loop are strongly fair.
- **Each drone's loop** ticks forever, so its step is weakly fair. `step()` covers a fixed fraction of the remaining distance, so an arrival happens after finitely many ticks. Reading with arrival, and a merge that lands somewhere other than `Away`, are therefore strongly fair.
- **The `on_drone_upd` consumers** get no fairness: telemetry events may be dropped by the bounded queue in drone_sim.
- **`assign_one`** needs no fairness assumption of its own for the liveness properties checked.

These are the assumptions in `KV.Fairness`:
- **Each client's coordinator call** is an asyncio task that the event loop keeps running, so it is weakly fair.
- **The `flush_hints` task** loops forever with a sleep, so its steps are weakly fair.
- **A successful replay** is strongly fair. A replica that is down comes back, so a replay is not failed forever.
- **At the end of a bounded run**, once every client is done and the hints are empty, `Quiescent` lets the system idle without deadlock.

The ingress runs check only safety, so `LB.Spec` has no fairness. A liveness property of assignment would need `Assign` of a published-but-unindexed delivery to be fair, and `on_request` tries such a delivery only once; the scheduler sees only indexed ones. `LB.Quiescent` lets a behaviour stop once every request is answered, every handler has finished and time is at its bound.

## Not modelled, and why

- **The fleet over the replicated KV.** The fleet model still takes each key as one linearizable copy. The KV runs show that the code does not provide that copy: read-repair, cache fills and concurrent puts each break `Linearizable`. The fleet's properties rely on the CAS at the primary, which `kv_repair_clobber` shows a read-repair can undo. Composing the two groups would multiply the state spaces beyond TLC's reach.
- **KV timeouts after the backend applied a request.** The CAS to the primary, or a `put_one`, can time out after the write landed. The model's failed requests never reach the backend. This is listed as a hazard.
- **A kvfront restart**, which loses `_HINTS`. This is listed as a hazard.
- **Several keys and `replica_set`'s hashing.** One key on RF = 2 replicas. Other keys appear only as cache evictions.
- **The LRU's byte and item accounting.** An eviction is any step that drops the key.
- **New deliveries arriving while the fleet runs.** The fleet's deliveries exist in its initial state, and the ingress group's dispatcher is a single `Assign` step. Composing `create_delivery` with the full dispatcher exceeds TLC's reach at these bounds. The gateway's status consumer only prints.
- **ordergen's `main` loop.** A composition of its loop (5 s client timeout, `sent` counted only when `send_one` returns, a new key per order) with `LB` over `Gateway` reached 3.8 million states for one order plus one outside request, and did not finish for two orders. The overshoot of `TOTAL` it would show is recorded as a hazard (ordergen line 197).
- **Head-of-line blocking in `oldest_pending`** (dispatcher line 484). This needs more than `PENDING_SCAN_LIMIT` (500) unassignable deliveries, or a bound lowered to 1 with drones that cannot fly some deliveries, checked with the fleet's liveness properties. Checking those properties over the larger `MCFleet` state space did not finish in 15 minutes.
- **drone_sim's publisher and bounded event queue.** This is covered by giving the telemetry consumers no fairness.
- **The lb's `Retry-After`** (`_retry_after`, line 126 truncates the wait with `int()`). ordergen does not retry on 429, so nothing in the system acts on it.
- **The lb's backend choice** (`_pick_backend_base` and its DNS cache). Every gateway replica shares the KV.
- **ordergen's traffic profile** (rates, bursts, payloads). Each POST is one request of the model, keyed or not; its 5 s timeout and lack of retry are the client side of `LB.TryFails`.
- **`freeze_until`** in the simulator (`drone_sim` line 306). It is only read there and nothing in `src/` writes it, so the frozen branch never runs.

## Plan for later work

1. Late answers in KVFront: a request that times out after the backend applied it, and its effect on `kv_cas` callers.
2. Violation runs for the two hazards of `CAS_LOST = "before"` (a second document for one key, gateway 564; the index trap, gateway 595), once run slots are free.
3. `pick_drone`'s feasible-again reset under a configuration with a third delivery.
