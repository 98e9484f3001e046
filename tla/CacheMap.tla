------------------------------ MODULE CacheMap ------------------------------
(***************************************************************************)
(* The keyed cache datacache.CacheMap (src/datacache/datacachemap.go).     *)
(*                                                                         *)
(* Time is a global clock of ticks (the 1 ms sleep quantum).  Each caller  *)
(* goroutine runs Get or GetMany with a program counter and its local      *)
(* variables in g[c]; the load goroutines (updateData, updateBatch) are a  *)
(* bag of running loads; the eviction goroutine is `ev`.  A CacheItem is   *)
(* named <<key, generation>>: a key evicted and accessed again gets a new  *)
(* item, while the old one lives on in whatever still points to it.        *)
(* A cached value is abstracted to Zero (nil / zero V) or Val (loaded).    *)
(*                                                                         *)
(* Locks: c.mu is held across steps only by GetMany between its two write  *)
(* sections (mapWriter); every other c.mu section is one step and needs    *)
(* the lock free.  The per-item locks are never held across steps.         *)
(***************************************************************************)
EXTENDS Integers, FiniteSets, FiniteSetsExt, Bags, BagsExt

CONSTANTS
    Keys,            \* the keys callers ask for
    Callers,         \* goroutines calling Get / GetMany
    Ops,             \* the calls they make: a subset of {"get", "getmany"}
    Expiration,      \* c.expiration
    ExpirationOnErr, \* c.expirationOnErr (<= 0: an error is not cached)
    RetryInterval,   \* c.retryInterval, after the default
    WaitTimeout,     \* c.waitTimeout, after the clamp to >= 0
    EvictTimeoutOpt, \* opt.EvictTimeout
    Batch,           \* c.loadDataBatch != nil
    MaxLoadTime,     \* bound: a load callback returns within this many ticks
    MaxTime,         \* bound: the clock horizon
    MaxCalls         \* bound: Get and GetMany calls begun

ASSUME /\ Ops \subseteq {"get", "getmany"} /\ Ops # {}
       /\ {Expiration, RetryInterval, MaxLoadTime} \subseteq Nat \ {0}
       /\ {WaitTimeout, EvictTimeoutOpt, MaxTime, MaxCalls} \subseteq Nat
       /\ ExpirationOnErr \in Int /\ Batch \in BOOLEAN

(* NewCacheMap lines 70-72: an evict timeout not above expiration is     *)
(* replaced by twice the expiration.                                       *)
evictTimeout == IF EvictTimeoutOpt <= Expiration THEN Expiration * 2
                                                 ELSE EvictTimeoutOpt

Zero == 0                  \* item.data == nil, or a zero V
Val  == 1                  \* a value returned by the load callback
T0   == 1                  \* time.Now() in NewCacheMap
NoCaller == "none"
NoItem == <<>>
MaxGen == MaxCalls         \* a call creates at most one item per key
ItemIds == Keys \X (1..MaxGen)
Key(i) == i[1]

VARIABLES
    clock,      \* time.Now()
    dataMap,    \* c.dataMap: key -> item, or NoItem
    gen,        \* items created so far per key
    items,      \* the CacheItems: [data, next, cut, evict, since]
    inflight,   \* bag of running loads: [items, owner, sid, start]
    mapWriter,  \* the GetMany caller holding c.mu for writing, or NoCaller
    ev,         \* the eviction goroutine: [pc, snap, tick]
    g,          \* each caller's program counter and locals
    nCalls      \* calls begun (a GetMany's number names its updatedStatus)

vars == <<clock, dataMap, gen, items, inflight, mapWriter, ev, g, nCalls>>

(* `since` is history: when a value was first stored in the item.         *)
Item == [data : {Zero, Val}, next : Nat, cut : Nat, evict : Nat, since : Nat]
Load == [items : SUBSET ItemIds, owner : Callers \cup {NoCaller},
         sid : Nat, start : Nat]
Local == [pc : {"idle", "g_create", "g_refresh", "g_wait",
                "m_lock", "m_unlock", "m_wait", "m_final"},
          now : Nat, start : Nat, key : Keys \cup {NoCaller}, item : ItemIds \cup {NoItem},
          keys : SUBSET Keys, pending : SUBSET ItemIds, due : SUBSET ItemIds,
          hasNew : BOOLEAN, missing : BOOLEAN, sid : Nat, scut : Nat]

Unused == [data |-> Zero, next |-> 0, cut |-> 0, evict |-> 0, since |-> 0]
Idle == [pc |-> "idle", now |-> 0, start |-> 0, key |-> NoCaller, item |-> NoItem,
         keys |-> {}, pending |-> {}, due |-> {}, hasNew |-> FALSE,
         missing |-> FALSE, sid |-> 0, scut |-> 0]

TypeOK ==
    /\ clock \in T0..MaxTime
    /\ dataMap \in [Keys -> ItemIds \cup {NoItem}]
    /\ gen \in [Keys -> 0..MaxGen]
    /\ items \in [ItemIds -> Item]
    /\ IsABag(inflight) /\ BagToSet(inflight) \subseteq Load
    /\ mapWriter \in Callers \cup {NoCaller}
    /\ ev \in [pc : {"idle", "delete"}, snap : SUBSET Keys, tick : Nat]
    /\ g \in [Callers -> Local]
    /\ \A c \in Callers : g[c].pc \in {"g_refresh", "g_wait"} => g[c].item \in ItemIds
    /\ nCalls \in 0..MaxCalls

Init ==
    /\ clock = T0
    /\ dataMap = [k \in Keys |-> NoItem]
    /\ gen = [k \in Keys |-> 0]
    /\ items = [i \in ItemIds |-> Unused]
    /\ inflight = EmptyBag
    /\ mapWriter = NoCaller
    /\ ev = [pc |-> "idle", snap |-> {}, tick |-> T0 + evictTimeout]
    /\ g = [c \in Callers |-> Idle]
    /\ nCalls = 0

-----------------------------------------------------------------------------
(* Helpers translating the item updates of the source.                     *)

(* A new CacheItem (Get lines 149-153, GetMany lines 289-293).            *)
NewItem(t) == [Unused EXCEPT !.next = t + RetryInterval,
                             !.evict = t + evictTimeout,
                             !.cut = t + WaitTimeout]

NextItem(k) == <<k, gen[k] + 1>>

(* updateEvictTime: evictTime := max(evictTime, now + evictTimeout).      *)
UpdateEvictTime(rec, t) == [rec EXCEPT !.evict = Max({@, t + evictTimeout})]

(* The item update of updateData / updateBatch after a stored result.     *)
Stored(rec, v, expire) ==
    [rec EXCEPT !.data = v, !.next = clock + expire,
                !.cut = IF clock < @ THEN clock ELSE @,
                !.since = IF @ = 0 THEN clock ELSE @]

Spawn(L) == inflight' = BagAdd(inflight, L)
SingleLoad(i, t) == [items |-> {i}, owner |-> NoCaller, sid |-> 0, start |-> t]

(* A call is begun only when the horizon leaves room for its bounded wait. *)
Begun(c) == clock + WaitTimeout + 1 <= MaxTime /\ g[c].pc = "idle"

-----------------------------------------------------------------------------
(* Get(key), lines 137-143: now := time.Now(); look the key up under      *)
(* c.mu.RLock.                                                             *)
GetBegin(c) ==
    /\ "get" \in Ops /\ Begun(c)
    /\ mapWriter = NoCaller
    /\ nCalls < MaxCalls
    /\ \E k \in Keys :
          g' = [g EXCEPT ![c] = [Idle EXCEPT
                    !.pc = IF dataMap[k] = NoItem THEN "g_create" ELSE "g_refresh",
                    !.now = clock, !.start = clock, !.key = k,
                    !.item = dataMap[k]]]
    /\ nCalls' = nCalls + 1
    /\ UNCHANGED <<clock, dataMap, gen, items, inflight, mapWriter, ev>>

(* Lines 146-161, under c.mu.Lock: another caller created the item.       *)
\* Seeded fault: the double-checked lookup still spawns a load.
GetCreateFoundSpawn(c) ==
    /\ g[c].pc = "g_create" /\ mapWriter = NoCaller
    /\ dataMap[g[c].key] # NoItem
    /\ g' = [g EXCEPT ![c].pc = "g_refresh", ![c].item = dataMap[g[c].key]]
    /\ Spawn(SingleLoad(dataMap[g[c].key], g[c].now))
    /\ UNCHANGED <<clock, dataMap, gen, items, mapWriter, ev, nCalls>>

\* Seeded fault: the re-read under the write lock discards the found item.
GetCreateFoundNoItem(c) ==
    /\ g[c].pc = "g_create" /\ mapWriter = NoCaller
    /\ dataMap[g[c].key] # NoItem
    /\ g' = [g EXCEPT ![c].pc = "g_refresh"]
    /\ UNCHANGED <<clock, dataMap, gen, items, inflight, mapWriter, ev, nCalls>>

GetCreateFound(c) ==
    /\ g[c].pc = "g_create" /\ mapWriter = NoCaller
    /\ dataMap[g[c].key] # NoItem
    /\ g' = [g EXCEPT ![c].pc = "g_refresh", ![c].item = dataMap[g[c].key]]
    /\ UNCHANGED <<clock, dataMap, gen, items, inflight, mapWriter, ev, nCalls>>

(* ... or it is still missing: insert a new item, go c.updateData.        *)
GetCreateNew(c) ==
    LET k == g[c].key
        i == NextItem(k)
    IN /\ g[c].pc = "g_create" /\ mapWriter = NoCaller
       /\ dataMap[k] = NoItem
       /\ gen' = [gen EXCEPT ![k] = @ + 1]
       /\ items' = [items EXCEPT ![i] = NewItem(g[c].now)]
       /\ dataMap' = [dataMap EXCEPT ![k] = i]
       /\ Spawn(SingleLoad(i, g[c].now))
       /\ g' = [g EXCEPT ![c].pc = "g_refresh", ![c].item = i]
       /\ UNCHANGED <<clock, mapWriter, ev, nCalls>>

(* Lines 165-176: if now > nextUpdateTime (read, then re-checked under    *)
(* the item lock) advance it by retryInterval and go c.updateData.         *)
GetRefresh(c) ==
    LET i == g[c].item
        t == g[c].now
    IN /\ g[c].pc = "g_refresh"
       /\ IF t > items[i].next
             THEN /\ items' = [items EXCEPT ![i].next = t + RetryInterval]
                  /\ Spawn(SingleLoad(i, t))
             ELSE UNCHANGED <<items, inflight>>
       /\ g' = [g EXCEPT ![c].pc = "g_wait"]
       /\ UNCHANGED <<clock, dataMap, gen, mapWriter, ev, nCalls>>

(* Lines 179-188: sleep while now <= initCutOffTime, advancing now.       *)
\* Seeded fault: the loop sleeps without advancing its local now.
GetSleepNoAdvance(c) ==
    /\ g[c].pc = "g_wait"
    /\ g[c].now <= items[g[c].item].cut /\ g[c].now < clock
    /\ UNCHANGED vars

GetSleep(c) ==
    /\ g[c].pc = "g_wait"
    /\ g[c].now <= items[g[c].item].cut /\ g[c].now < clock
    /\ g' = [g EXCEPT ![c].now = @ + 1]
    /\ UNCHANGED <<clock, dataMap, gen, items, inflight, mapWriter, ev, nCalls>>

(* Lines 183-200: leave the loop, updateEvictTime with the advanced now,  *)
(* return *item.data.                                                      *)
GetReturn(c) ==
    LET i == g[c].item
    IN /\ g[c].pc = "g_wait"
       /\ g[c].now > items[i].cut
       /\ items' = [items EXCEPT ![i] = UpdateEvictTime(@, g[c].now)]
       /\ g' = [g EXCEPT ![c] = Idle]
       /\ UNCHANGED <<clock, dataMap, gen, inflight, mapWriter, ev, nCalls>>

-----------------------------------------------------------------------------
(* GetMany(keys), lines 254-280, under c.mu.RLock: bump the evict time of *)
(* every present key, read its value, and collect the keys that are       *)
(* missing or due (now > nextUpdateTime).  With none, return.              *)
GetManyBegin(c) ==
    /\ "getmany" \in Ops /\ Begun(c)
    /\ mapWriter = NoCaller
    /\ nCalls < MaxCalls
    /\ \E ks \in SUBSET Keys \ {{}} :
          LET present == {dataMap[k] : k \in {k \in ks : dataMap[k] # NoItem}}
              uncached == {k \in ks : dataMap[k] = NoItem
                                      \/ clock > items[dataMap[k]].next}
          IN /\ items' = [i \in ItemIds |->
                            IF i \in present THEN UpdateEvictTime(items[i], clock)
                                             ELSE items[i]]
             /\ g' = [g EXCEPT ![c] =
                        IF uncached = {} THEN Idle
                        ELSE [Idle EXCEPT !.pc = "m_lock", !.now = clock,
                                          !.start = clock,
                                          !.keys = uncached, !.sid = nCalls + 1,
                                          !.missing = \E k \in ks : dataMap[k] = NoItem
                                                    \/ items[dataMap[k]].since = 0]]
    /\ nCalls' = nCalls + 1
    /\ UNCHANGED <<clock, dataMap, gen, inflight, mapWriter, ev>>

(* Lines 285-301, first half, c.mu.Lock held: create items for missing    *)
(* keys; read nextUpdateTime of the present ones WITHOUT their item lock.  *)
GetManyLock(c) ==
    LET t == g[c].now
        absent == {k \in g[c].keys : dataMap[k] = NoItem}
        present == g[c].keys \ absent
    IN /\ g[c].pc = "m_lock" /\ mapWriter = NoCaller
       /\ mapWriter' = c
       /\ gen' = [k \in Keys |-> IF k \in absent THEN gen[k] + 1 ELSE gen[k]]
       /\ items' = [i \in ItemIds |->
                      IF Key(i) \in absent /\ i = NextItem(Key(i))
                         THEN NewItem(t) ELSE items[i]]
       /\ dataMap' = [k \in Keys |->
                        IF k \in absent THEN NextItem(k) ELSE dataMap[k]]
       /\ g' = [g EXCEPT
                   ![c].pc = "m_unlock",
                   ![c].pending = {NextItem(k) : k \in absent},
                   ![c].due = {dataMap[k] : k \in {k \in present :
                                                     t > items[dataMap[k]].next}},
                   ![c].hasNew = absent # {}]
       /\ UNCHANGED <<clock, inflight, ev, nCalls>>

(* Second half: write nextUpdateTime of the due items, c.mu.Unlock, then  *)
(* lines 304-314: one updateBatch for all, or one updateData per item.     *)
(* Lines 317-328: wait only if some key had no item.                       *)
GetManyUnlock(c) ==
    LET t == g[c].now
        unc == g[c].pending \cup g[c].due
        batchLoad == [items |-> unc, owner |-> c, sid |-> g[c].sid, start |-> t]
    IN /\ g[c].pc = "m_unlock"
       /\ mapWriter' = NoCaller
       /\ items' = [i \in ItemIds |->
                      IF i \in g[c].due THEN [items[i] EXCEPT !.next = t + RetryInterval]
                                        ELSE items[i]]
       /\ inflight' =
             IF unc = {} THEN inflight
             ELSE IF Batch THEN BagAdd(inflight, batchLoad)
             ELSE inflight (+) SetToBag({SingleLoad(i, t) : i \in unc})
       /\ g' = [g EXCEPT ![c] =
                   IF unc = {} THEN Idle
                   ELSE [@ EXCEPT !.pc = IF g[c].hasNew THEN "m_wait" ELSE "m_final",
                                  !.pending = unc, !.due = {},
                                  !.scut = t + WaitTimeout]]
       /\ UNCHANGED <<clock, dataMap, gen, ev, nCalls>>

(* Lines 318-327: the wait on updatedStatus.initCutOffTime.  A late batch *)
(* can move that cut-off up to the horizon, so at the horizon a sleeper's *)
(* local now may still advance.                                            *)
GetManySleep(c) ==
    /\ g[c].pc = "m_wait"
    /\ g[c].now <= g[c].scut /\ (g[c].now < clock \/ clock = MaxTime)
    /\ g' = [g EXCEPT ![c].now = @ + 1]
    /\ UNCHANGED <<clock, dataMap, gen, items, inflight, mapWriter, ev, nCalls>>

GetManyWoken(c) ==
    /\ g[c].pc = "m_wait"
    /\ g[c].now > g[c].scut
    /\ g' = [g EXCEPT ![c].pc = "m_final"]
    /\ UNCHANGED <<clock, dataMap, gen, items, inflight, mapWriter, ev, nCalls>>

(* Lines 331-343: read the values of the refreshed items and return.      *)
GetManyReturn(c) ==
    /\ g[c].pc = "m_final"
    /\ g' = [g EXCEPT ![c] = Idle]
    /\ UNCHANGED <<clock, dataMap, gen, items, inflight, mapWriter, ev, nCalls>>

-----------------------------------------------------------------------------
(* updateData / updateBatch after the callback returns.  A stored result  *)
(* updates every item of the load; a batch also releases its caller's     *)
(* updatedStatus (line 246), unless that GetMany has already returned.     *)
StoreLoad(L, v, expire) ==
    /\ inflight' = BagRemove(inflight, L)
    /\ items' = [i \in ItemIds |->
                   IF i \in L.items THEN Stored(items[i], v, expire) ELSE items[i]]
    /\ g' = IF L.owner # NoCaller /\ g[L.owner].sid = L.sid
               THEN [g EXCEPT ![L.owner].scut = clock]
               ELSE g

LoadSucceeds(L) ==
    /\ StoreLoad(L, Val, Expiration)
    /\ UNCHANGED <<clock, dataMap, gen, mapWriter, ev, nCalls>>

(* err != nil: return at once when errors are not cached; otherwise store *)
(* whatever the callback returned, for expirationOnErr.                    *)
LoadFails(L) ==
    /\ \/ /\ ExpirationOnErr <= 0
          /\ inflight' = BagRemove(inflight, L)
          /\ UNCHANGED <<items, g>>
       \/ /\ ExpirationOnErr > 0
          /\ \E v \in {Zero, Val} : StoreLoad(L, v, ExpirationOnErr)
    /\ UNCHANGED <<clock, dataMap, gen, mapWriter, ev, nCalls>>

LoadReturns(L) == LoadSucceeds(L) \/ LoadFails(L)

-----------------------------------------------------------------------------
(* evictKeys on each tick of the evictTimeout ticker: collect the keys    *)
(* with evictTime < now under c.mu.RLock, then delete them under Lock.    *)
EvictSnapshot ==
    /\ ev.pc = "idle" /\ clock >= ev.tick /\ mapWriter = NoCaller
    /\ ev' = [pc |-> "delete", tick |-> ev.tick + evictTimeout,
              snap |-> {k \in Keys : dataMap[k] # NoItem
                                     /\ items[dataMap[k]].evict < clock}]
    /\ UNCHANGED <<clock, dataMap, gen, items, inflight, mapWriter, g, nCalls>>

EvictDelete ==
    /\ ev.pc = "delete" /\ mapWriter = NoCaller
    /\ dataMap' = [k \in Keys |-> IF k \in ev.snap THEN NoItem ELSE dataMap[k]]
    /\ ev' = [ev EXCEPT !.pc = "idle", !.snap = {}]
    /\ UNCHANGED <<clock, gen, items, inflight, mapWriter, g, nCalls>>

-----------------------------------------------------------------------------
Tick ==
    /\ clock < MaxTime
    /\ \A L \in BagToSet(inflight) : clock < L.start + MaxLoadTime
    /\ clock' = clock + 1
    /\ UNCHANGED <<dataMap, gen, items, inflight, mapWriter, ev, g, nCalls>>

Horizon ==
    /\ clock = MaxTime
    /\ UNCHANGED vars

GetCreate(c) == GetCreateFound(c) \/ GetCreateNew(c)

Caller(c) ==
    \/ GetBegin(c) \/ GetCreate(c) \/ GetRefresh(c) \/ GetSleep(c) \/ GetReturn(c)
    \/ GetManyBegin(c) \/ GetManyLock(c) \/ GetManyUnlock(c)
    \/ GetManySleep(c) \/ GetManyWoken(c) \/ GetManyReturn(c)

Evictor == EvictSnapshot \/ EvictDelete

Next ==
    \/ \E c \in Callers : Caller(c)
    \/ \E L \in BagToSet(inflight) : LoadReturns(L)
    \/ Evictor
    \/ Tick
    \/ Horizon

(* A caller inside Get/GetMany, the eviction goroutine and a running load *)
(* are eventually scheduled; real time advances.  Beginning a call is not *)
(* required.                                                               *)
InCall(c) == Caller(c) /\ g[c].pc # "idle"

Fairness ==
    /\ \A c \in Callers : WF_vars(InCall(c))
    /\ WF_vars(\E L \in BagToSet(inflight) : LoadReturns(L))
    /\ WF_vars(Evictor)
    /\ WF_vars(Tick)

Spec == Init /\ [][Next]_vars /\ Fairness

-----------------------------------------------------------------------------
LoadsOf(i) == {L \in BagToSet(inflight) : i \in L.items}

(* Single flight per item: two load goroutines running at once for the    *)
(* same CacheItem were started at least retryInterval apart (and none is  *)
(* started twice at once).  Get's check-and-set of nextUpdateTime under    *)
(* muItemUpdate is what keeps it; GetMany's phase 2 reads and writes       *)
(* nextUpdateTime holding only c.mu.                                       *)
MapSingleFlight ==
    \A i \in ItemIds : \A L1, L2 \in LoadsOf(i) :
        /\ CopiesIn(L1, inflight) = 1
        /\ L1 # L2 => (L1.start - L2.start >= RetryInterval
                       \/ L2.start - L1.start >= RetryInterval)

(* The evictor removes a key only if its item was not accessed within     *)
(* evictTimeout (evictTime < now when the key is deleted).                 *)
EvictOnlyExpired ==
    [][\A k \in Keys :
          (dataMap[k] # NoItem /\ dataMap'[k] = NoItem)
              => items[dataMap[k]].evict < clock]_vars

(* Spec 4.2: a GetMany blocks for first values at most waitTimeout (plus  *)
(* one quantum): its local now never passes start + waitTimeout + 1 while  *)
(* it waits on the batch status released by updateBatch.                   *)
GetManyWaitBounded ==
    \A c \in Callers :
        g[c].pc = "m_wait" => g[c].now <= g[c].start + WaitTimeout + 1

(* Spec 4.2: GetMany never blocks for keys that already hold a value: it  *)
(* waits only when some requested key held no value when the call began.  *)
GetManyNoBlockWhenCached ==
    \A c \in Callers : g[c].pc = "m_wait" => g[c].missing

(* Every Get and GetMany returns, also when every load fails.              *)
CallReturns ==
    \A c \in Callers : g[c].pc # "idle" ~> g[c].pc = "idle"

=============================================================================
