----------------------------- MODULE DataCache -----------------------------
(***************************************************************************)
(* The single-value cache datacache.DataCache (src/datacache/datacache.go) *)
(*                                                                         *)
(* Time is a global clock of ticks (one tick = the 1 ms sleep quantum of   *)
(* the first-value wait loop).  Every goroutine that calls Get is a        *)
(* Reader with a program counter; every goroutine started by Get to run    *)
(* the load callback is an element of `inflight`.  The value stored in     *)
(* c.data is abstracted to the identity of the load that produced it       *)
(* (Zero for the initial / zero value of T).                               *)
(***************************************************************************)
EXTENDS Integers, FiniteSets

CONSTANTS
    Readers,         \* goroutines that call Get
    Expiration,      \* c.expiration
    ExpirationOnErr, \* c.expirationOnErr (<= 0: an error is not cached)
    RetryInterval,   \* c.retryInterval, after NewDataCache's default
    WaitTimeout,     \* c.waitTimeout, after NewDataCache's clamp to >= 0
    WithInitData,    \* opt.WithInitData || InitData is not the zero value
    MaxLoadTime,     \* bound: a load callback returns within this many ticks
    MaxTime,         \* bound: the clock horizon
    MaxLoads         \* bound: the number of load goroutines spawned

ASSUME /\ Readers # {}
       /\ {Expiration, RetryInterval, MaxLoadTime, MaxLoads} \subseteq Nat \ {0}
       /\ ExpirationOnErr \in Int /\ WaitTimeout \in Nat
       /\ WithInitData \in BOOLEAN
       /\ MaxTime \in Nat

Zero == 0       \* the zero value of T (and opt.InitData)
T0   == 1       \* time.Now() in NewDataCache: never 0, the "unset" sentinel
LoadIds == 1..MaxLoads

VARIABLES
    clock,          \* time.Now()
    data,           \* *c.data: Zero or the id of the load that stored it
    nextUpdateTime, \* c.nextUpdateTime
    initCutOffTime, \* c.initCutOffTime (0 = not yet set)
    inflight,       \* running load goroutines: [id, start = the Get's now]
    nLoads,         \* load goroutines spawned so far (names the next id)
    pc,             \* program counter of each Reader inside Get
    now,            \* the local variable `now` of each Reader's Get
    valueSince,     \* history: time a value first became present (0 = never)
    lastSuccess     \* history: time of the latest successful load (0 = never)

vars == <<clock, data, nextUpdateTime, initCutOffTime, inflight, nLoads,
          pc, now, valueSince, lastSuccess>>

Load == [id : LoadIds, start : 0..MaxTime]

TypeOK ==
    /\ clock \in T0..MaxTime
    /\ data \in {Zero} \cup LoadIds
    /\ nextUpdateTime \in Nat
    /\ initCutOffTime \in Nat
    /\ inflight \subseteq Load
    /\ nLoads \in 0..MaxLoads
    /\ pc \in [Readers -> {"idle", "lock", "wait"}]
    /\ now \in [Readers -> Nat]
    /\ valueSince \in 0..MaxTime
    /\ lastSuccess \in 0..MaxTime

(* NewDataCache: nextUpdateTime is 0 (due at once); initCutOffTime is set  *)
(* to the construction time only when there is initial data.              *)
Init ==
    /\ clock = T0
    /\ data = Zero
    /\ nextUpdateTime = 0
    /\ initCutOffTime = IF WithInitData THEN T0 ELSE 0
    /\ inflight = {}
    /\ nLoads = 0
    /\ pc = [r \in Readers |-> "idle"]
    /\ now = [r \in Readers |-> 0]
    /\ valueSince = IF WithInitData THEN T0 ELSE 0
    /\ lastSuccess = 0

-----------------------------------------------------------------------------
(* Get, first step: now := time.Now(); read c.nextUpdateTime under RLock.  *)
(* A Get is only begun when the horizon leaves room for its bounded wait.  *)
GetBegin(r) ==
    /\ pc[r] = "idle"
    /\ clock + WaitTimeout + 1 <= MaxTime
    /\ now' = [now EXCEPT ![r] = clock]
    /\ pc' = [pc EXCEPT ![r] = IF clock >= nextUpdateTime THEN "lock" ELSE "wait"]
    /\ UNCHANGED <<clock, data, nextUpdateTime, initCutOffTime, inflight,
                   nLoads, valueSince, lastSuccess>>

(* The refresh gate under c.mu.Lock: if still due, advance nextUpdateTime *)
(* by retryInterval and spawn the load goroutine; arm the first-value      *)
(* cut-off if it was never set.                                            *)
\* Seeded fault: the re-check of nextUpdateTime under the write lock is dropped.
DoUpdateNoRecheck(r) == TRUE

DoUpdate(r) == now[r] >= nextUpdateTime

\* Seeded fault: the cut-off is re-armed on every due Get, not only the first.
ArmCutOffAlways(r) == now[r] + WaitTimeout

ArmCutOff(r) == IF initCutOffTime = 0 THEN now[r] + WaitTimeout
                                      ELSE initCutOffTime

SpawnLoad(r) ==
    /\ nLoads < MaxLoads
    /\ nLoads' = nLoads + 1
    /\ inflight' = inflight \cup {[id |-> nLoads + 1, start |-> now[r]]}

GetLock(r) ==
    /\ pc[r] = "lock"
    /\ IF DoUpdate(r)
          THEN /\ nextUpdateTime' = now[r] + RetryInterval
               /\ SpawnLoad(r)
          ELSE UNCHANGED <<nextUpdateTime, inflight, nLoads>>
    /\ initCutOffTime' = ArmCutOff(r)
    /\ pc' = [pc EXCEPT ![r] = "wait"]
    /\ UNCHANGED <<clock, data, now, valueSince, lastSuccess>>

(* The wait loop: leave once now > initCutOffTime and return *c.data;     *)
(* otherwise sleep one quantum and advance the local now by one.           *)
GetReturn(r) ==
    /\ pc[r] = "wait"
    /\ now[r] > initCutOffTime
    /\ pc' = [pc EXCEPT ![r] = "idle"]
    /\ UNCHANGED <<clock, data, nextUpdateTime, initCutOffTime, inflight,
                   nLoads, now, valueSince, lastSuccess>>

\* Seeded fault: the loop sleeps without advancing its local now.
GetSleepNoAdvance(r) ==
    /\ pc[r] = "wait"
    /\ now[r] <= initCutOffTime
    /\ now[r] < clock
    /\ UNCHANGED vars

GetSleep(r) ==
    /\ pc[r] = "wait"
    /\ now[r] <= initCutOffTime
    /\ now[r] < clock
    /\ now' = [now EXCEPT ![r] = now[r] + 1]
    /\ UNCHANGED <<clock, data, nextUpdateTime, initCutOffTime, inflight,
                   nLoads, pc, valueSince, lastSuccess>>

-----------------------------------------------------------------------------
(* The load goroutine after c.loadData() returns.  A stored outcome        *)
(* replaces c.data, sets nextUpdateTime = now + expire and pulls the       *)
(* cut-off back to now.                                                    *)
Store(l, v, expire) ==
    /\ inflight' = inflight \ {l}
    /\ data' = v
    /\ nextUpdateTime' = clock + expire
    /\ initCutOffTime' = IF clock < initCutOffTime THEN clock ELSE initCutOffTime
    /\ valueSince' = IF valueSince = 0 THEN clock ELSE valueSince

\* Seeded fault: a success is kept for expirationOnErr instead of expiration.
LoadSucceedsErrExpire(l) ==
    /\ Store(l, l.id, ExpirationOnErr)
    /\ lastSuccess' = clock
    /\ UNCHANGED <<clock, nLoads, pc, now>>

LoadSucceeds(l) ==
    /\ Store(l, l.id, Expiration)
    /\ lastSuccess' = clock
    /\ UNCHANGED <<clock, nLoads, pc, now>>

(* err != nil: with expirationOnErr <= 0 the goroutine just returns;      *)
(* otherwise whatever the callback returned (zero or not) is stored.       *)
LoadFails(l) ==
    /\ \/ /\ ExpirationOnErr <= 0
          /\ inflight' = inflight \ {l}
          /\ UNCHANGED <<data, nextUpdateTime, initCutOffTime, valueSince>>
       \/ /\ ExpirationOnErr > 0
          /\ \E v \in {Zero, l.id} : Store(l, v, ExpirationOnErr)
    /\ UNCHANGED <<clock, nLoads, pc, now, lastSuccess>>

LoadReturns(l) == LoadSucceeds(l) \/ LoadFails(l)

-----------------------------------------------------------------------------
(* Time advances, but never past the return deadline of a running load.   *)
Tick ==
    /\ clock < MaxTime
    /\ \A l \in inflight : clock < l.start + MaxLoadTime
    /\ clock' = clock + 1
    /\ UNCHANGED <<data, nextUpdateTime, initCutOffTime, inflight, nLoads,
                   pc, now, valueSince, lastSuccess>>

(* The end of the modelled time: the model stutters.                       *)
Horizon ==
    /\ clock = MaxTime
    /\ UNCHANGED vars

Reader(r) == GetBegin(r) \/ GetLock(r) \/ GetReturn(r) \/ GetSleep(r)

Next ==
    \/ \E r \in Readers : Reader(r)
    \/ \E l \in inflight : LoadReturns(l)
    \/ Tick
    \/ Horizon

(* Goroutines that are runnable are eventually scheduled, real time       *)
(* advances, and a load callback eventually returns.                       *)
Fairness ==
    /\ \A r \in Readers : WF_vars(GetLock(r) \/ GetReturn(r) \/ GetSleep(r))
    /\ WF_vars(\E l \in inflight : LoadReturns(l))
    /\ WF_vars(Tick)

Spec == Init /\ [][Next]_vars /\ Fairness

-----------------------------------------------------------------------------
(* Single flight (spec 3, "at most one in-flight refresh per retry        *)
(* interval"): two load goroutines running at the same time were started   *)
(* at least retryInterval apart.  Breaking it takes a Get that passes the  *)
(* gate on a stale check, or a late load that moves nextUpdateTime back.   *)
SingleFlight ==
    \A a, b \in inflight :
        a.id # b.id => (a.start - b.start >= RetryInterval
                        \/ b.start - a.start >= RetryInterval)

(* Once any value (initial data, a success or a cached error) is present, *)
(* a Get that began afterwards never sleeps in the first-value wait loop.  *)
NoWaitOnceLoaded ==
    \A r \in Readers :
        (pc[r] = "wait" /\ valueSince # 0 /\ now[r] > valueSince)
            => now[r] > initCutOffTime

(* Spec 8: after a successful load, no new load goroutine is started      *)
(* before Expiration has passed since that success.                        *)
NoReloadWithinExpiration ==
    [][\A l \in inflight' \ inflight :
          lastSuccess = 0 \/ l.start >= lastSuccess + Expiration]_vars

(* Spec 9 leaves open whether a slower, older refresh may overwrite a     *)
(* newer one: a load goroutine stores its result whenever it returns, with *)
(* no check of the load it replaces.  Stated here as the ordering a reader *)
(* would expect: a stored value never replaces one from a later load.      *)
ValueInLoadOrder ==
    [][data # Zero /\ data' # Zero => data' >= data]_vars

(* Every Get returns, also when every load fails and nothing is cached.   *)
GetReturns ==
    \A r \in Readers : pc[r] # "idle" ~> pc[r] = "idle"

=============================================================================
