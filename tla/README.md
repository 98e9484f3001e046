# TLA+ models of framego

This directory holds TLA+ models of the concurrent parts of framego (the Go
sources under `src/`), the TLC configurations that check them, and
`PROJECT.json`, the machine-readable index: components, runs, seeded faults
("mutants"), the map from every modelled definition to its source lines,
findings and hazards.

## 1. Inventory

| Component | Source | State | Operations | Concurrency |
|---|---|---|---|---|
| DataCache | `datacache/datacache.go` | `data`, `nextUpdateTime`, `initCutOffTime` under `mu` | `NewDataCache`, `Get`, the load goroutine | any number of Get goroutines; one load goroutine per refresh |
| CacheMap | `datacache/datacachemap.go` | `dataMap` (key to `*CacheItem`) under `mu`; per item `data`, `nextUpdateTime`, `initCutOffTime` under `muItemUpdate`, `evictTime` under `muItemEvict` | `NewCacheMap`, `Get`, `GetMany`, `updateData`, `updateBatch`, `updateEvictTime`, `evictKeys` | callers, load goroutines, one eviction goroutine on a ticker |
| Pool | `pool/pool.go` | `closed`, `active`, token channel `ch`, idle list, `poolConnMap` under `mu` | `Get`, `Put`, `Close`, `get`, `put`, `lazyInit` | any number of goroutines; Dial, Close of a connection and TestOnBorrow run with `mu` released |
| Health runner | `health/runner.go` | `lastStatus`, `runningCheckCycle` (CAS flag), `reportChan` (1 slot) | `Start`, `Stop`, `run`, `runHealthCheck`, `compositeChecker.Check`, `unaryChecker.Check` | a ticker loop starting check cycles; one goroutine per check |
| Health service | `health/service.go` | `statusChans` under `statusReportLock` | `Watch`, `newStatusChan`, `removeStatusChan`, `broadcastStatus`, `Check` | one broadcaster; one goroutine per Watch stream |
| Application lifecycle | `appmgr/app.go`, `serve.go`, `service.go`, `observable.go` | jobs, `chJobs`, wait groups, the app context | `Run`, `serviceImpl.Run`/`Wait`, `serveHttpService`, `serveGrpcService` | job goroutines, server goroutines, shutdown goroutines |
| Unique IDs | `uniqueid/generator.go` | `nodeID`; `lastTime`, `step` under `lock` | `NewGeneratorFromHostName`, `NewGenerator`, `NewID`, `snowflakeID` | callers serialised by the mutex; one generator per process |
| Access control | `grpcex/access_controller.go` | none (the casbin policy is fixed) | `checkAccess`, `checkServiceAccess`, `globMatch`, the two interceptors | one call per goroutine, no shared writes |
| Middleware | `appmgr/middleware.go`, `config.go`, `client.go`, `service.go`, `observable.go` | per applier, `mcs` (name and middleware, in order) | `Apply`, `AddMiddlewareByConfig`, `GetMiddleware`, `parseMiddlewareConfig`, `IsMiddlewareEnabled`, the chain builders | sequential, inside `appImpl.Init` |
| Errors | `errors/error.go` | per error `code`, `cause`, `detail`, cached `grpcStatus`; global `grpcDebugMode` | `New`, `Wrap`, `With`, `WithCode`, `WithGRPCCode`, `GRPCStatus`, `detailProto`, `SetGRPCDebugMode` | none; an error is built and returned by one goroutine |

Everything else (`client/*`, `config`, `log`, `crypto`, `copy`,
`encoding`, `ginex`, the rest of `grpcex` and of the appmgr wiring) is configuration, I/O or
data transformation without concurrent state; `PROJECT.json` lists each with
the reason it is not modelled.

## 2. Plan

Modules, in the order they are built:

1. `DataCache` (done), instantiated by `MCDataCache`.
2. `CacheMap` (done), instantiated by `MCCacheMap`. It shares DataCache's
   time model; a key of CacheMap behaves like a DataCache, and an abstract
   single-flight cache both are to refine (`INSTANCE ... WITH` from an item's
   `next`/`cut`/`data` to the abstract gate) is planned.
3. `Pool` (done), with `MCPool`; its intrusive idle list (done) in
   `IdleList`, refining the sequence view `IdleSeq`, with `MCIdleList`;
   the two composed in `PoolIdle` (done), with `MCPoolIdle`.
4. `Health` (done): the runner, its composite check and the service,
   composed through the report channel, with `MCHealth`.
5. `AppLifecycle` (done), with `MCAppLifecycle`.
6. `UniqueId` (done), with `MCUniqueId`, including how a process derives
   its node ID from its service ID and hostname.
7. `Middleware` (done), with `MCMiddleware`: `Init`'s `Apply` calls.
8. `AccessControl` (done), with `MCAccessControl`: the access_control
   middleware's checker and its glob matcher.
9. `Errors` (done): `errors.Error`'s gRPC status cache and its delegation
   to the cause.
10. Next: the abstract single-flight cache and its refinement by DataCache
   and CacheMap; the health runner's
   `AddCheck` racing a cycle.

The run list holds at most twelve runs: one or two passing runs per module
and the violations that contradict the datacache specification or are the
most serious code bugs. The other violations found while modelling keep
their configuration files (named in each section) and are listed as
hazards.

## 3. Time and fairness (datacache modules)

Time is a global `clock` of ticks (one tick = the 1 ms sleep quantum), capped
by `MaxTime`. A load goroutine started by a call at local time `t` returns
by `t + MaxLoadTime`: `Tick` is disabled while a load is at that deadline.
A call begins only if `clock + WaitTimeout + 1 <= MaxTime`, so its bounded
wait fits before the horizon; at `MaxTime` the `Horizon` step stutters.

A waiting reader's sleep advances its local `now` by one and is enabled only
while `now < clock`: a sleep takes at least one tick of real time, so the
local clock lags, as in the code.

Fairness: weak fairness for each call in progress (the Go scheduler runs a
runnable goroutine), for load completion (callbacks return within
`MaxLoadTime`), for the eviction goroutine and for `Tick`. Beginning a call
is not fair: callers may stop calling.

## 4. DataCache

State: `data` (abstracted to the id of the load that stored it), the two
timestamps, the set of running loads `[id, start]`, and per reader `pc` and
local `now`; `valueSince` and `lastSuccess` are history variables.

| Action | Code |
|---|---|
| `GetBegin` | `now := time.Now()`, read of `nextUpdateTime` under RLock |
| `GetLock` (with `DoUpdate`, `ArmCutOff`, `SpawnLoad`) | the write-locked re-check, `nextUpdateTime = now + retryInterval`, cut-off arming, `go func()` |
| `GetSleep`, `GetReturn` | the polling loop and `return *c.data` |
| `LoadSucceeds`, `LoadFails` (with `Store`) | the load goroutine's three outcomes |

Runs:

* `datacache_basic` (`MCDataCache.cfg`): 2 readers, expiration 2,
  retryInterval 2, waitTimeout 1, uncached errors, no initial data,
  horizon 8, up to 4 loads. Checks `SingleFlight`, `NoWaitOnceLoaded`,
  `NoReloadWithinExpiration`, `GetReturns`. Passes.
* Extra configuration `MCDataCacheErrCached.cfg` (not in the run list):
  initial data, cached errors (expirationOnErr 2). `SingleFlight` and
  `NoWaitOnceLoaded` hold there too.
* `datacache_short_expiry` (`MCDataCacheShortExpiry.cfg`): expiration 1 <
  retryInterval 2. `SingleFlight` is violated: a completion sets
  `nextUpdateTime` to `now + 1`, re-opening the gate while a load started
  from a lagging reader's window is still running, so a third load overlaps.
* Extra configuration `MCDataCacheOverlap.cfg`: loads may take three
  ticks with retryInterval 1. `ValueInLoadOrder` (a stored value never
  replaces one from a later load) is violated: load 1 starts, a retry
  window later load 2 starts, load 2 returns and stores, then load 1
  returns and overwrites it with the older value. spec.md section 9 names
  this an open question, so it is recorded as a hazard, not a finding.

Bounds: two readers are enough for every interleaving of the gate; a horizon
of 8 ticks covers a first load, a failure, a retry and a refresh after
expiration; four loads cover overlapping loads.

## 5. CacheMap

State: `dataMap` maps a key to an item id `<<key, generation>>`; `items` keeps
every item ever created (an evicted item is still used by whoever holds it);
`inflight` is a bag of running loads `[items, owner, sid, start]` (a batch
load names its GetMany caller and that call's number `sid`, standing for its
`updatedStatus`); `mapWriter` is the GetMany caller holding `c.mu` between
its two write-section steps; `ev` is the eviction goroutine; `g[c]` holds each
caller's program counter and locals.

| Action | Code |
|---|---|
| `GetBegin` | `now`, lookup under RLock |
| `GetCreateFound`, `GetCreateNew` | the write-locked re-lookup and creation, `go updateData` |
| `GetRefresh` | the item-locked check-and-set of `nextUpdateTime` |
| `GetSleep`, `GetReturn` | the wait loop, `updateEvictTime`, the read |
| `GetManyBegin` | phase 1 under RLock: evict times, due/missing keys |
| `GetManyLock`, `GetManyUnlock` | phase 2 under Lock: creation, the unlocked-item re-check, the write of `nextUpdateTime`; then spawning |
| `GetManySleep`, `GetManyWoken`, `GetManyReturn` | the status wait and the final read |
| `LoadSucceeds`, `LoadFails` (with `StoreLoad`, `Stored`) | `updateData` and `updateBatch` |
| `EvictSnapshot`, `EvictDelete` | the two halves of `evictKeys` |

Runs:

* `cachemap_get` (`MCCacheMap.cfg`): two callers, one key, Gets only,
  evictTimeout 3, horizon 6, 3 calls. Checks `TypeOK`, `MapSingleFlight`
  and `CallReturns`. Passes.
* `cachemap_batch` (`MCCacheMapBatch.cfg`): Get and GetMany with a batch
  loader and cached errors, horizon 5. Checks `CallReturns`: every Get and
  GetMany wait loop ends, whether the batch succeeds, fails with a cached
  error or is slow. Passes.

The per-item no-wait guarantee of DataCache and the monotonic evict time
are not stated for CacheMap: each would restate one assignment (the min at
lines 107-108, the max at line 213). What those updates can cost across
callers is shown by the eviction configurations below.
* `cachemap_getmany_race`: `MapSingleFlight` violated. GetMany's phase 2
  reads and writes `nextUpdateTime` under `c.mu` only; a Get's refresh
  between the two starts a second load at the same time.
Extra configurations (not in the run list; each shows a property violated,
recorded as a hazard):

* `MCCacheMapLateBatch.cfg`: `GetManyWaitBounded` violated. `updateBatch`
  sets the status cut-off to its completion time even when that is later
  than `now + waitTimeout`; a GetMany whose local clock lags waits longer.
* `MCCacheMapEvictRace.cfg`: `EvictOnlyExpired` violated. A Get returns (and
  refreshes `evictTime`) between `evictKeys`' snapshot and its delete.
* `MCCacheMapEvictGetMany.cfg`: `GetManyNoBlockWhenCached` violated. The same
  window falls between GetMany's phases; the key, which had a value, is
  recreated and the call blocks.

Bounds: one key suffices for every per-item race; a second key adds nothing
to those and multiplies the state space. Three calls let two callers race and
one of them come back after an eviction. The GetMany run keeps horizon 5 so
the liveness check stays within minutes.

## 6. Pool

State: `closed`, `active`, the idle list as a sequence (front first), the
keys of `poolConnMap`, and the token channel `p.ch` as a count of buffered
tokens with "made" and "closed" flags. A connection is a number handed out by
`Dial`; `Nil` is a nil connection. Each client goroutine runs
`conn := Get(); ...; Put(conn)` once per Get (up to `MaxGets` Gets in all).
Every section under `p.mu` is one step; where the code unlocks `p.mu`
(closing a pruned or failed connection, TestOnBorrow, Dial, closing the
connection put evicts) the client has a state of its own, so other clients
and `Close` interleave there.

| Action | Code |
|---|---|
| `GetCall` | `get`'s `lazyInit` (make `p.ch`, fill or close it) |
| `TokenRecv` | `<-p.ch` |
| `GetLocked` (with `Prune`, `Reuse`) | the first `p.mu` section of `get`: the prune loop's first pop, or the idle pop, closed check, ErrPoolExhausted, `p.active++` |
| `PruneClose` | `pc.c.Close(); p.mu.Lock(); p.active--` and the next iteration |
| `BorrowOk`, `BorrowBad` | the borrow test; a success is recorded in `poolConnMap` by `Get` |
| `DialOk`, `DialFailed` | `p.Dial()` and its error path |
| `SkipPut`, `PutLookup` | a client not putting nil; `Put`'s map lookup |
| `PutPush`, `PutClosedPool`, `PutClose` | `put` |
| `Close` | `Close` |

Whether the back idle connection is stale, whether a borrow test fails and
whether Dial fails are nondeterministic choices (the model has no ages).

Runs:

* `pool_wait` (`MCPoolIdle.cfg`, module `MCPoolIdle`, the composition of
  the next section): three clients, MaxActive 2, Wait, MaxIdle 1,
  pruning, borrow tests and dials that may fail, five Gets, `Close` at any
  time. Checks `ActiveAccounting` (p.active = idle + in use, across every
  unlocked window and Close), `TokenConservation` (tokens in `p.ch` plus
  tokens held = MaxActive until Close), `IdleListMirrors` (below) and
  `CallReturns`. Passes with 22,764 distinct states.
* Extra configuration `MCPoolNoWait.cfg`: no Wait, MaxActive 1;
  `ActiveBounded` holds.
* Extra configuration `MCPoolPutNil.cfg` (a hazard): clients put what Get returned, nil
  included. `NoPanic` is violated: a failed dial makes Get return nil and
  `put(nil)` dereferences the nil `*poolConn` on an open pool.

Bounds: three clients against two slots make a Get wait for a token while
the other two hold them; MaxIdle 1 makes a Put evict; five Gets let a
connection be reused after a Put and the pool be closed with clients inside.
Fairness: weak fairness per client for every step inside Get or Put, and for
putting back a held connection (the package's usage contract); `Close` and
starting a Get are not fair.

### The idle list and its refinement

`Pool` treats `p.idle` as a sequence. `IdleList.tla` models what the code
really stores: `idleList.count`, `front`, `back`, and the `next` and `prev`
fields of every `poolConn` (pool.go 377-425). Its actions `pushFront`,
`popFront` and `popBack` copy the pointer updates of the three methods
line by line. `Walk` follows a pointer chain from one end, at most
|Conns| + 1 steps, so that a cycle shows up as a walk that is too long.
`IdleSeq.tla` is the abstract promise: a sequence with insertion at the
front and removal at either end. `Pool.Put` pushes at the front (pool.go
354). `Pool.Get` pops at the front (312). Pruning and the MaxIdle eviction
pop at the back (301, 357).

* `idle_list` (`MCIdleList.cfg`, pass): five connections, every sequence of
  the three operations that the pool could make (a pushed connection is not
  in the list; the pool never pops an empty list). 326 distinct states.
  `WellLinked`: the backward walk is the reverse of the forward walk, its
  length is `count`, and connections outside the list have nil pointers.
  `ImplementsIdleSeq`: with `idle <- Forward`, the list implements
  `IdleSeq!Spec`. This is the refinement that justifies the sequence view
  `Pool` uses. Mutants: `pushFront` without resetting `pc.prev` breaks
  `WellLinked`; `popBack` without unlinking the new back's `next` breaks
  `ImplementsIdleSeq`.

### The pool with its linked idle list

`PoolIdle.tla` composes the two: it extends `Pool`, adds the list's
variables and instantiates `IdleList` as `List` over the pool's
connections. Every pool step is conjoined with `IdleStep`, the list
operation that step's code performs: `get`'s prune loop pops the back
(pool.go 299), its reuse loop pops the front (311), `put` pushes at the
front and, beyond MaxIdle, pops the back in the same critical section
(352-356, `pushFrontEvict`, one step because `p.mu` is held throughout),
and `Close` detaches the list (`count = 0`, `front = back = nil`) but leaves
the poolConns' links for its unlocked walk (`Detach`, 238-247). Which
operation a step made is read off its change to the sequence `idle`.
`IdleListMirrors`: the forward walk is `idle`, the backward walk is its
reverse and `count` is its length, in every reachable state of the pool,
so the pointer chains the prune loop, the reuse loop and Close's walk
follow always agree with what `Pool` reasons about. The refinement of
`idle_list` cannot be stated here as `IdleSeq!Spec`, because `put`'s push
and eviction are one atomic step; the invariant is the composed form.
Mutant: an eviction that does not cut the new back's `next` pointer
(`pushFrontEvictNoUnlink`) breaks `IdleListMirrors`.

## 7. Health

`Health` composes the runner and the gRPC service. State: the runner's
`lastStatus`, `runningCheckCycle`, the registered checks `cl`, `started`
and `stopped`, the number of cycles begun, the tick goroutines not yet at
their CAS (`pending`), whether the cycle's deadline has passed, `reportChan` (a sequence of at most one
status), the cycle's program counter and the composite check's goroutines
(`ck`, `res`, `finalStatus`); the service's `statusChans` (a sequence of
Watch streams, in subscription order), each stream's one-slot channel and
program counter, the broadcaster's program counter, status and range index,
and whether the broadcaster holds `statusReportLock`. A status is
`[state, source]`; an error is identified with the check that returned it.
`seen` records what each stream last sent its client.

| Action | Code |
|---|---|
| `CheckReturns`, `CheckTimesOut`, `WriteState`, `WriteSource` | a composite-check goroutine: `c.Check(ctx)` (its select: the CheckFunc's result, or unknown on `ctx.Done`), the test at line 190, the assignment `finalStatus = status` as two writes |
| `CycleCompare`, `CycleReport` | `runHealthCheck` after `wg.Wait()`: the equality test, `r.lastStatus = status`, the non-blocking send, the deferred CAS |
| `AddCheck`, `Start` | `AddHealthCheck` before `Start`; `Start` setting `runningCheckCycle` and running the first cycle |
| `Deadline` | the cycle's context timing out while a check still runs; a check then may return unknown |
| `Tick`, `CycleCAS`, `Stop` | `run()`'s ticker spawning a cycle goroutine; its CAS (busy: return, else begin a cycle); `Stop` |
| `newStatusChan`, `WatchRecv`, `WatchSend`, `removeStatusChan` | `Watch` and its helpers; `RemoveLoop` is the range loop of `removeStatusChan` |
| `BroadcastRecv`, `BroadcastLock`, `BroadcastSend`, `BroadcastUnlock` | `broadcastStatus` |

`Init` is `NewRunner`'s state; checks are added, then `Start` runs the
first cycle. With `PanicOnError` an unhealthy result panics instead of
being reported. One tick goroutine may wait at its CAS (`MaxPending`), and
`MaxCycles` bounds the cycles begun. Watch streams
subscribe only once `Start` returned a healthy status (`serviceImpl.Run`
registers the health server only then). A panic in a Watch stream ends the
process: every action is disabled once `Crashed`.

Runs:

* `health_watch` (`MCHealth.cfg`, pass): one check, two streams whose
  clients stay, two cycles. `ReportsReachWatchers`: a report in
  `reportChan` reaches every stream subscribed at that time. `CycleEnds`:
  a cycle that began ends and clears `runningCheckCycle` (or the process
  panicked). CheckFuncs need not return, so it rests on the deadline and on
  the `ctx.Done` branch of `unaryChecker.Check`'s select. A select that
  waits on the CheckFunc's channel only (`OutcomeNoDeadline`) breaks it.
* Extra configuration `MCHealthBusy.cfg`: one check, one stream, three
  cycles, the same two properties; it is the bound at which a tick's CAS
  finds a cycle still running (the busy branch), too slow with two streams
  for the run list.
* `health_leave` (`MCHealthLeave.cfg`, pass): two checks whose CheckFuncs
  may hang, `panicOnError`, one stream that may leave, one cycle.
  `CycleEnds` again, for the composite check with two goroutines and the
  panic branch. One cycle is the largest bound at which a leaving stream
  does not hang the broadcaster; `health_watch_deadlock` shows what two
  cycles do. With one stream the removal cannot panic;
  `MCHealthRemovePanic.cfg` below shows what two do.
* Extra configuration `MCHealthComposite.cfg` (not in the run list): `CompositeWorst` violated: a check that timed
  out and an unhealthy one both read `finalStatus` as healthy; their
  two-part writes interleave into `[unhealthy, source of the timed-out
  check]`, or the unknown status simply overwrites the unhealthy one.
* Extra configuration `MCHealthRemovePanic.cfg`: `NoRemovePanic` violated: streams w1, w2
  subscribe; w1's client goes away; the range loop removes w1 at index 0
  and then reads index 1 of a one-element slice.
* `health_watch_deadlock`: `LeaveCompletes` violated (deadlock checking is
  off in this cfg so that TLC reports the stuck state as the liveness
  violation): the stream's send fails, the broadcaster fills its channel
  with one report, then blocks on the next while holding the lock.
* Extra configuration `MCHealthStale.cfg`: `WatchersConverge` violated: Start's report
  (healthy) waits in `reportChan`; the next cycle finds the check
  not healthy (unhealthy, or unknown after its deadline), writes
  `lastStatus` and drops its report; a stream subscribes and sends that
  status, then the broadcaster delivers the old healthy
  report, and the stream shows healthy for good.

Fairness: weak fairness for the cycle, the broadcaster and each Watch
stream, for a composite-check goroutine's two writes and its timeout branch
(`CheckTimesOut`), and for `Start`, the deadline timer and a tick
goroutine's CAS. A CheckFunc returning (`CheckReturns` with a healthy or
unhealthy result) is not fair: it is user code and may hang, which is why
`unaryChecker.Check` selects on the context. Ticks, `Stop` and new Watch calls are not
fair: a tick is a timer, but a bounded number of cycles is what the model
explores, and clients may never call Watch.

## 8. Application lifecycle

`AppLifecycle` models `appImpl.Init`, `appImpl.Run`, `serviceImpl.Run`/`Wait`,
`observableImpl.Run` and both serve functions. State: where Init and Run
are (`rpc`), the jobs and services Init configured,
the started services, each job goroutine, the buffered `chJobs` (the jobs
whose errors it holds) and whether the waiter closed it, `cancelled`
(`a.cancel()`), `sig`, and per server (`<<service, kind>>`, plus the
observable HTTP server) its state, its stop goroutine and, for gRPC, its
Serve goroutine; `wg` is each service's WaitGroup counter.

| Action | Code |
|---|---|
| `AppInit` | `appImpl.Init`: exit 0 when cobra did not run, exit 1 on a failing step, else the configured jobs and services, or with `--job` one job and no service |
| `SpawnJobs` | Run's job loop: `job_not_found` is fatal, else every job goroutine and the waiter start |
| `JobReturn`, `JobSend`, `CloseJobs` | the job goroutine and the waiter (`app.go` 169-194) |
| `StartService` | one iteration of the service loop: `serviceImpl.Run` with its four outcomes |
| `StartObservable` | `a.observable.Run()` and `signal.Notify` |
| `Select`, `WaitAll` | the select and the waits (`app.go` 218-245) |
| `Signal` | SIGINT/SIGTERM, fatal before `signal.Notify` (during Init, the job loop and the service starts) |
| `StopBegin`, `Drained`, `Timeout`, `ServeReturn` | the stop goroutines and gRPC's Serve goroutine (`serve.go`) |

Run `app_lifecycle` (`MCAppLifecycle.cfg`, pass): three job names (j1, j2
registered and configured; j3 only nameable with `--job`, so that mode
reaches the fatal path), jobs that may fail, services s1 (gRPC and HTTP)
and s2 (HTTP only) whose start may fail, the observable server, an Init
that may fail. `CleanExit`: when
Run returns nil every job and server has stopped (an HTTP server may have
abandoned connections at its timeout). `RunReturns`: a signal after startup,
or the end of every job, leads to Run returning, with no fairness on a drain
finishing. Fairness: weak fairness for every goroutine step and timer;
a job returns once its context is cancelled (jobs are expected to honour
`ctx`), which is the only fairness a job gets.

## 9. Unique IDs

`UniqueId` models `NewGeneratorFromHostName`, `NewGenerator`, `NewID` and
`snowflakeID`, with one generator per process. `NodeID(p)` is the
constructor: the service ID is range-checked against
`2^(NodeBits - InstanceIndexBits) - 1`; unless `Debug` is set, the hostname
(a sequence of characters) is cut after its last `-` when that dash is not
its first character (`SelectLastInSeq`), parsed by `Atoi` (an optional
sign and decimal digits, folded with `FoldLeft`) and range-checked; the node
ID is `serviceID << InstanceIndexBits | index` (Bitwise `|`), checked
against `nodeMax`. A process whose constructor fails is not in `Running`
and its callers never take a lock. `NodeIDs` holds each generator's
`nodeID`. The 64-bit word
is scaled to `TimeBits + NodeBits + StepBits` bits (4 + 2 + 1 in the run);
the shift of `lastTime` keeps only its low `TimeBits`, as the uint64 shift
does. XTEA under one key is a permutation of the word; the model uses an
affine permutation and a reserved range `0..MaxReserved`, so the loop in
`NewID` really goes round. The wall clock ticks, may be set back
(`SetBack`), and each loop iteration is one step so the clock can move
inside a call. `Lock` is the mutex; `Iterate` is one iteration.

Run `uniqueid_gen` (`MCUniqueId.cfg`, pass): three processes, with one
instance-index bit: P1 (service 1, host `w-0`, node 2) with callers c1 and
c2, P2 (service 0, host `w-1`, node 1) with c3, and P3 (service 0, host
`w-2`, whose index overflows, so it has no generator) with c4. Clock up to 3
and set back once, five IDs, step overflowing after two IDs per
millisecond. `IdsUnique` (across processes), `PlainIncreasing` (per
process, also across a clock set back) and `NewIDReturns`. The seeded fault
that drops the instance-index check gives P3 node 2, P1's node, and TLC
finds a duplicate ID. Fairness:
strong fairness on taking the lock (Go's mutex starvation mode), weak on
the loop.

Extra configuration `MCUniqueIdRestart.cfg` (specification `SpecRestart` of
`MCUniqueId`, which adds a `Restart` step running the constructor again): a
running process may restart.
`IdsUnique` is violated: P1 issues an ID at millisecond 0, restarts,
the clock is set back to 0, and the new generator issues the same plain ID.
`lastTime` is not persisted, so uniqueness across restarts rests on the
clock never going back past the last ID (nor the borrowed milliseconds of
a burst).

## 10. Middleware

`appImpl.Init` equips every server and client with middlewares from one
`middlewareManager` (`newDefaultMiddlewareManager`, nine middlewares). It
calls `Apply` once per owner, in the order `Order`: `newClientManager` with
a nil service and `clients.grpc.middlewares`, `newService` for each
configured service with the service and its list, and `newObservable` with
a nil service and `["recovery"]`. `Apply` adds context tags, the service
context when the service is not nil, and then one middleware per config
entry; a failing entry is logged with `service.GetName()` and skipped.

`Middleware` keeps the configuration (`cfg`), the owner being applied
(`cur`) and its loop index (`idx`), each applier's `mcs`, the indices logged,
and whether `Init` panicked. A name is a base word and whether it was
written in capitals; `ToLower` drops the capitals. Entries are a string, a
map with a name, a map without one, or another type, as
`parseMiddlewareConfig` tells them apart. `RegisteredHandlers` and
`InternalHandlers` record which of the five handler kinds (gin, unary and
stream server, unary and stream client) each middleware returns non-nil;
`Chain(o, kind)` is the chain `ApplyGin`, `GrpcServerInterceptor` and
`GrpcClientInterceptor` build. `Expected` is a RECURSIVE reference
definition of the middlewares a list yields.

| Action | Code |
|---|---|
| `Init` | the loaded configuration; `Apply`'s prefix for the first owner |
| `AddByConfig` | one iteration of `Apply`'s loop: `AddMiddlewareByConfig`, or its error logged (a panic for a nil service) |
| `ApplyEnd` | `Apply` returns; the next owner's `Apply` adds its prefix |
| `Finished` | `Init` has applied every list, or has panicked |

`MCMiddleware.cfg` (not a run; 135,349 states in about 80 s): one service,
names `metrics`, `recovery` and `nosuch` in either case, up to two entries
per list. The client manager's list holds valid entries; a service's list
may hold anything. Checked: `ApplyNeverPanics`, `MetricsRegisteredIffChained`
(`serviceImpl.Run` registers gRPC metrics exactly when the metrics
interceptor is in the chain, whatever case the name is written in) and
`ApplyMatchesConfig` (each applier holds its prefix and then exactly the
valid entries, in order, and the invalid ones were logged). Storing the
name without `strings.ToLower` breaks the second; stopping at the first bad
entry breaks the third.

`MCMiddlewareNilService.cfg` (not a run) lets the client manager's list hold
any entry: `ApplyNeverPanics` is violated in two states. One unknown or
malformed entry in `clients.grpc.middlewares` makes `Apply` call
`GetName` on the nil service (`middleware.go:63`), so `Init` panics
where a service's bad entry is only logged. The runs are at their cap of
twelve, so both configurations are listed here and in the hazards.
Fairness: weak fairness on the loop; `Init` runs on one goroutine.

## 11. Access control

`AccessControl` models `grpcex.AccessController`, which the access_control
middleware puts in front of a service's gRPC handlers. Names are sequences
of one-character strings. `Exempt` stands for the reflection, channelz and
health services, and `IsExempt` is the `HasPrefix` test on `/name/`.
`MethodName` is the text after the last `/` (`strings.LastIndex`, with
`SelectLastInSeq`). `CheckAccess` is `checkAccess`, returning "ok" or the
error it returns:

* no peer in the context: `peer_not_found_in_context`;
* `inproc`: enforced as `<anonymous>`;
* `tls`: the first certificate's common name, when not empty, then each DNS
  name;
* any other auth type: `auth_type_not_supported`;
* a nil `AuthInfo`: "panic".

`Enforce` is casbin's decision under `defaultCasbinModel`: some policy line
for the subject whose object the method name reaches by role links
(`Linked`, at most `MaxHierarchy` links) or matches by `globMatch`.
`PathMatch` is `path.Match` as a RECURSIVE operator, for patterns without
`[` or `\`. Two abstractions come from libraries rather than from this
repository:

* casbin's role manager uses `globMatch` as its matching function, and the
  model follows its documented behaviour;
* `credentials.TLSInfo` is always the `AuthInfo` of a "tls" peer, so
  `auth_tls_info_not_found` is not reachable and is left out.

The state is each call's result; `Intercept` is the unary or stream
interceptor deciding one call.

`MCAccessControl` has client `n` with three policy lines: `g*` (by pattern),
role `R` (granted to methods matching `*x`) and `s/g` (a service-qualified
object). It makes five calls:

* `n` calling method `g` on services `s` and `t`;
* a client known only by its DNS names;
* an in-process call;
* a TLS call without certificate to the health service.

None of the configurations below is a run, because the run list is at its
cap:

* `MCAccessControl.cfg` (32 states) checks `DecidedByMethodName`: outside
  the exempt services, a decision depends only on the peer and the last
  segment of the method. So a policy cannot tell two services with the same
  method name apart, and an object written as `Service/Method` never
  grants anything. Stripping at the first `/` instead of the last breaks
  it. It also checks `CheckNeverPanics`.
* `MCAccessGlob.cfg` checks `GlobMatchesReference`: `globMatch` agrees with
  a reference matcher (a split of the name into one piece per pattern
  character) on every name over `{a, /}` and pattern over `{a, /, *, ?}` up
  to three characters. A `*` allowed to cross `/` breaks it.
* `MCAccessControlNoCreds.cfg` adds a call on a service built without TLS.
  `newGrpcServerWithChannel` adds transport credentials only when TLS is
  configured (`appmgr/grpc.go:53`), so the peer's `AuthInfo` is nil and
  `checkAccess` calls `AuthType` on it. `CheckNeverPanics` is violated.

## 12. Errors

`Errors` models `errors.Error`. An error is a model value and is its own
message; its detail map is the set of its keys. A cause is `Nil`, another
error, or one of two foreign errors: `ForeignPlain` has no `GRPCStatus`
method, and `ForeignGrpc` (a `status.Error`) has one. A status is a code
and `<<>>` or the one `pb.Error` that `detailProto` builds. `WithDetails` of
a `pb.Error` is taken to succeed.

* `New` and `Wrap` create an error with `InvalidCode`.
* `WithCode` (which also stands for `WithGRPCCode`) and `With` reset the
  error's own cache before changing it.
* `GRPCStatus(e)` returns `Resolve(e)`:
  * the cache, if set;
  * otherwise, when `e` has no code and its cause has `GRPCStatus`
    (`Delegates`), the cause's status;
  * otherwise a new status with the code, or `Unknown`, and
    `detailProto(e)`.
  
  Every error on the delegation chain that had no cache (`Filled`) now
  caches the result, as the nested calls do.
* `detailProto` includes the cause only in debug mode.
* `SetGRPCDebugMode` sets the global flag at any time. `appImpl.Init` calls
  it once, but it is exported.

The variable `last` holds the error and the status of the `GRPCStatus`
call just made.

Neither configuration is a run, because the run list is at its cap. Both
use three errors, one key and one code, so every chain of at most three
errors is reached, in any interleaving of the operations on its members.

* `MCErrors.cfg` (1.1M states, under a minute) checks `OwnStatusCurrent`.
  An error that does not delegate reports its current code, its message
  and every key added, however `With`, `WithCode` and `GRPCStatus` on it
  and on its causes were interleaved. `WithCode` or `With` without its
  cache reset breaks it, in four steps.
* `MCErrorsWrapDetail.cfg` checks `WrapperDetailReported`, the promise of
  the comment on `GRPCStatus` that returning the error adds its detail to
  the response. It is violated in two steps: `Wrap(status.Error, msg)`
  followed by `GRPCStatus` returns the foreign status unchanged. The
  wrapper's message and any `With` detail never reach the client. The same
  holds for a wrapped `*Error` that has no code. Inside the repository,
  the wrappers that reach a gRPC response get a code first
  (`grpcex/validator.go` calls `WithGRPCCode`), so the gap is met by
  handlers in user code that return a wrapper without one.

What the cache leaves out is documented in the comment: a wrapper that has
answered keeps its cause's old status when the cause changes later, and a
cached status does not follow a later change of debug mode.

## 13. Not modelled

Configuration, logging, HTTP/Redis/database/Pulsar wrappers, encoding,
copying and cryptography: they hold no concurrent state, and what could go
wrong in them is data handling that unit tests reach. The XTEA step of
`NewID` is a bijection on 64-bit blocks; its internals are out of TLC's reach
and the uniqueness argument needs only that. `os.Hostname` failing and the XTEA
key check are not modelled, and neither is debug mode in a run: with
`Debug` every instance of a service gets index 0, so two debug instances of
one service share a node ID by design. In `appmgr`, what `Init` builds
(config loading, client managers, gin and gRPC servers) is setup used before
`Run`; `Init`'s control flow and its middleware application are modelled;
`RegisterMiddleware` by user code and what each handler does to a request
are not; a Serve error other than a closed server panics and is
not modelled.
`config.GetStructWithValidation` calls the package-level `GetStruct` rather
than the map's own (`config/stringmap.go:164`); it is stateless and is left
to unit tests.
`GobDeepCopy` (`copy/copy.go`) creates its global codec pool lazily without
synchronisation; two first calls running together may build two pools, so
a codec taken from one can be put into the other. The pool is a
`pool.Pool`, whose `Put` of a connection it never handed out is the nil
dereference listed as a hazard at `pool.go:353`; the lazy initialisation
itself is one racy assignment and is not modelled.
