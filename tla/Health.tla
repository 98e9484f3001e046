------------------------------- MODULE Health -------------------------------
(***************************************************************************)
(* The health runner and the health gRPC service (src/health/runner.go,    *)
(* src/health/service.go) composed through the runner's one-slot report    *)
(* channel.                                                                *)
(*                                                                         *)
(* Runner: a check cycle (runHealthCheck) runs the composite check, whose  *)
(* goroutines, one per registered check, write the shared finalStatus      *)
(* without synchronisation; a Status is three words, so a write is a       *)
(* State step and a Source step.  A cycle that changes the status writes   *)
(* lastStatus and offers it to reportChan without blocking.                *)
(*                                                                         *)
(* Service: broadcastStatus forwards every report to every Watch stream's  *)
(* one-slot channel, blocking on a full one while it holds                 *)
(* statusReportLock; Watch subscribes, forwards what it receives to the    *)
(* client, and unsubscribes when a send to the client fails.  Every        *)
(* section under statusReportLock taken by a Watch stream is one step.     *)
(* A Status is [state, source]; its Error is a function of its source.     *)
(***************************************************************************)
EXTENDS Integers, Sequences, SequencesExt, FiniteSets

CONSTANTS
    Checks,      \* names given to AddCheck
    Watchers,    \* gRPC Watch streams (each one subscribes at most once)
    SendFails,   \* stream.Send may fail (the client went away)
    MaxCycles,   \* bound: check cycles begun, the one Start runs included
    PanicOnError \* runOptions.panicOnError (WithPanicOnError)

ASSUME /\ Checks # {} /\ MaxCycles \in Nat \ {0} /\ SendFails \in BOOLEAN
       /\ PanicOnError \in BOOLEAN

None == "none"                            \* Source "" and Error nil
Healthy == [state |-> "healthy", source |-> None]
Unknown == [state |-> "unknown", source |-> None]   \* NewRunner's lastStatus
StatusSet == [state : {"unknown", "healthy", "unhealthy"},
              source : Checks \cup {None}]
(* unaryChecker.Check: healthy, unhealthy with the check's error, or      *)
(* unknown when the context ends first.                                   *)
\* Bound: tick goroutines that have not yet reached their CAS.
MaxPending == 1

Results(k) == {Healthy, [state |-> "unhealthy", source |-> k],
                        [state |-> "unknown", source |-> k]}

VARIABLES
    lastStatus,  \* r.lastStatus
    running,     \* r.runningCheckCycle
    started,     \* Start has returned and run() loops on the ticker
    stopped,     \* Stop closed r.stop
    cl,          \* r.c.cl: the checks AddCheck has registered
    nCycles,     \* check cycles begun (Start's and those of ticks)
    pending,     \* tick goroutines `go r.runHealthCheck()` not yet at the CAS
    expired,     \* the cycle's context.WithTimeout deadline has passed
    cpc,         \* the cycle goroutine: "none", "checking" or "report"
    ck,          \* each check goroutine of the composite check
    res,         \* each check goroutine's status
    final,       \* the composite check's finalStatus
    reportChan,  \* r.reportChan (capacity 1)
    statusChans, \* s.statusChans: the subscribed Watch streams, in order
    chans,       \* each Watch stream's channel (capacity 1)
    wpc,         \* each Watch stream's program counter
    got,         \* the status a Watch stream received last
    seen,        \* history: the status a Watch stream sent its client last
    bpc,         \* broadcastStatus: "recv", "lock" or "send"
    bstatus,     \* the status broadcastStatus is forwarding
    bidx,        \* the index of its range over s.statusChans
    locked,      \* broadcastStatus holds s.statusReportLock
    serving      \* Start returned a healthy status: serviceImpl.Run serves gRPC

runnerVars == <<lastStatus, running, started, stopped, cl, nCycles, pending, expired,
                cpc, ck, res, final, reportChan>>
serviceVars == <<statusChans, chans, wpc, got, seen, bpc, bstatus, bidx, locked,
                 serving>>
vars == <<runnerVars, serviceVars>>

TypeOK ==
    /\ lastStatus \in StatusSet /\ final \in StatusSet
    /\ running \in BOOLEAN /\ started \in BOOLEAN /\ stopped \in BOOLEAN
    /\ cl \subseteq Checks /\ nCycles \in 0..MaxCycles /\ pending \in 0..MaxPending
    /\ expired \in BOOLEAN
    /\ cpc \in {"none", "checking", "report", "panic"}
    /\ ck \in [Checks -> {"run", "write_state", "write_source", "done"}]
    /\ res \in [Checks -> StatusSet]
    /\ reportChan \in Seq(StatusSet) /\ Len(reportChan) <= 1
    /\ statusChans \in Seq(Watchers)
    /\ chans \in [Watchers -> Seq(StatusSet)]
    /\ \A w \in Watchers : Len(chans[w]) <= 1
    /\ wpc \in [Watchers -> {"idle", "recv", "send", "remove", "done", "panic"}]
    /\ got \in [Watchers -> StatusSet] /\ seen \in [Watchers -> StatusSet]
    /\ bpc \in {"recv", "lock", "send"} /\ bstatus \in StatusSet
    /\ bidx \in Nat /\ locked \in BOOLEAN /\ serving \in BOOLEAN

(* NewRunner (lastStatus unknown, no checks, the flag false) and          *)
(* NewServer, whose broadcastStatus goroutine is running.                  *)
Init ==
    /\ lastStatus = Unknown
    /\ running = FALSE /\ started = FALSE /\ stopped = FALSE
    /\ cl = {} /\ nCycles = 0 /\ pending = 0 /\ expired = FALSE
    /\ cpc = "none"
    /\ ck = [k \in Checks |-> "done"] /\ res = [k \in Checks |-> Healthy]
    /\ final = Healthy
    /\ reportChan = <<>>
    /\ statusChans = <<>>
    /\ chans = [w \in Watchers |-> <<>>]
    /\ wpc = [w \in Watchers |-> "idle"]
    /\ got = [w \in Watchers |-> Unknown] /\ seen = [w \in Watchers |-> Unknown]
    /\ bpc = "recv" /\ bstatus = Healthy /\ bidx = 0 /\ locked = FALSE
    /\ serving = FALSE

(* A run-time panic in a Watch stream, or the runner's panic on an        *)
(* unhealthy status, ends the process: nothing runs on.                    *)
Crashed == cpc = "panic" \/ \E w \in Watchers : wpc[w] = "panic"

-----------------------------------------------------------------------------
(* AddCheck: newUnaryCheck and compositeChecker.AddChecker append to       *)
(* r.c.cl.  serviceImpl calls it (RegisterService, AddHealthCheck) before  *)
(* Run calls Start.                                                        *)
AddCheck(k) ==
    /\ nCycles = 0 /\ k \notin cl
    /\ cl' = cl \cup {k}
    /\ UNCHANGED <<lastStatus, running, started, stopped, nCycles, pending,
                   expired, cpc, ck, res, final, reportChan, serviceVars>>

(* compositeChecker.Check begins: finalStatus = Healthy and, ranging over *)
(* c.cl, one goroutine per registered check.                               *)
BeginCheck ==
    /\ ck' = [k \in Checks |-> IF k \in cl THEN "run" ELSE "done"]
    /\ final' = Healthy

(* Start: runHealthCheck's CAS (nothing else runs a cycle yet) and the    *)
(* first cycle, under a fresh deadline.                                    *)
Start ==
    /\ nCycles = 0
    /\ running' = TRUE /\ cpc' = "checking" /\ nCycles' = 1 /\ expired' = FALSE
    /\ BeginCheck
    /\ UNCHANGED <<lastStatus, started, stopped, cl, pending, res, reportChan,
                   serviceVars>>

\* Seeded fault: the select waits on the CheckFunc's channel only.
OutcomeNoDeadline(k) == Results(k) \ {[state |-> "unknown", source |-> k]}

(* unaryChecker.Check's select: the CheckFunc's result, or, once the      *)
(* cycle's deadline has passed (ctx carries it, so no DefaultTimeout is    *)
(* added), unknown.                                                        *)
Outcome(k) == IF expired THEN Results(k)
              ELSE Results(k) \ {[state |-> "unknown", source |-> k]}

(* compositeChecker.Check, the goroutine of check k: c.Check(ctx) returns *)
(* a status; a status that is not healthy is written to finalStatus if it *)
(* is unhealthy or if finalStatus still reads healthy.                     *)
CheckReturns(k) ==
    /\ ~Crashed
    /\ ck[k] = "run"
    /\ \E r \in Outcome(k) :
          /\ res' = [res EXCEPT ![k] = r]
          /\ ck' = [ck EXCEPT ![k] =
                      IF r.state # "healthy"
                         /\ (r.state = "unhealthy" \/ final.state = "healthy")
                      THEN "write_state" ELSE "done"]
    /\ UNCHANGED <<lastStatus, running, started, stopped, cl, nCycles, pending,
                   expired, cpc, final, reportChan, serviceVars>>

(* The select's <-newCtx.Done() branch: the check returns unknown. A      *)
(* CheckFunc may never return; this branch is what ends the goroutine.     *)
CheckTimesOut(k) ==
    CheckReturns(k) /\ res'[k] = [state |-> "unknown", source |-> k]

(* finalStatus = status, one word group after the other.                  *)
WriteState(k) ==
    /\ ~Crashed
    /\ ck[k] = "write_state"
    /\ final' = [final EXCEPT !.state = res[k].state]
    /\ ck' = [ck EXCEPT ![k] = "write_source"]
    /\ UNCHANGED <<lastStatus, running, started, stopped, cl, nCycles, pending,
                   expired, cpc, res, reportChan, serviceVars>>

WriteSource(k) ==
    /\ ~Crashed
    /\ ck[k] = "write_source"
    /\ final' = [final EXCEPT !.source = res[k].source]
    /\ ck' = [ck EXCEPT ![k] = "done"]
    /\ UNCHANGED <<lastStatus, running, started, stopped, cl, nCycles, pending,
                   expired, cpc, res, reportChan, serviceVars>>

(* The end of a cycle: the deferred CAS of runningCheckCycle back to      *)
(* false; when it was Start's cycle, Start returns r.lastStatus and        *)
(* serviceImpl.Run serves only if that is healthy.                         *)
EndCycle ==
    /\ running' = FALSE /\ cpc' = "none"
    /\ started' = TRUE
    /\ serving' = IF started THEN serving ELSE lastStatus.state = "healthy"

(* runHealthCheck after wg.Wait(): an unchanged status ends the cycle; a  *)
(* new unhealthy one panics when panicOnError is set (before lastStatus is *)
(* written); otherwise it is logged and written to r.lastStatus.           *)
CycleCompare ==
    /\ ~Crashed
    /\ cpc = "checking" /\ \A k \in Checks : ck[k] = "done"
    /\ CASE final = lastStatus ->
               EndCycle /\ UNCHANGED lastStatus
          [] PanicOnError /\ final.state = "unhealthy" ->
               cpc' = "panic" /\ UNCHANGED <<lastStatus, running, started, serving>>
          [] OTHER ->
               /\ lastStatus' = final /\ cpc' = "report"
               /\ UNCHANGED <<running, started, serving>>
    /\ UNCHANGED <<stopped, cl, nCycles, pending, expired, ck, res, final,
                   reportChan, statusChans, chans, wpc, got, seen, bpc, bstatus,
                   bidx, locked>>

(* select { case r.reportChan <- status: default: } -- dropped if full.   *)
CycleReport ==
    /\ ~Crashed
    /\ cpc = "report"
    /\ reportChan' = IF reportChan = <<>> THEN <<lastStatus>> ELSE reportChan
    /\ EndCycle
    /\ UNCHANGED <<lastStatus, stopped, cl, nCycles, pending, expired, ck, res,
                   final, statusChans,
                   chans, wpc, got, seen, bpc, bstatus, bidx, locked>>

(* The cycle's context.WithTimeout(r.opts.timeout) expires while checks  *)
(* are still running.                                                      *)
Deadline ==
    /\ ~Crashed
    /\ cpc = "checking" /\ ~expired /\ \E k \in Checks : ck[k] = "run"
    /\ expired' = TRUE
    /\ UNCHANGED <<lastStatus, running, started, stopped, cl, nCycles, pending, cpc,
                   ck, res, final, reportChan, serviceVars>>

(* run()'s loop: a tick starts `go r.runHealthCheck()`; the loop does not *)
(* wait for it.                                                            *)
Tick ==
    /\ ~Crashed
    /\ started /\ ~stopped /\ pending < MaxPending /\ nCycles < MaxCycles
    /\ pending' = pending + 1
    /\ UNCHANGED <<lastStatus, running, started, stopped, cl, nCycles, expired, cpc,
                   ck, res, final, reportChan, serviceVars>>

(* The tick goroutine's CompareAndSwap(&runningCheckCycle, false, true).   *)
(* It fails while a cycle runs: "health_check_busy", and the tick is lost. *)
(* It succeeds otherwise: a fresh deadline, and the composite check starts *)
(* with finalStatus = Healthy and one goroutine per check.                 *)
CycleCAS ==
    /\ ~Crashed
    /\ pending > 0
    /\ pending' = pending - 1
    /\ IF running
       THEN UNCHANGED <<nCycles, running, cpc, expired, ck, final>>
       ELSE /\ nCycles' = nCycles + 1
            /\ running' = TRUE /\ cpc' = "checking" /\ expired' = FALSE
            /\ BeginCheck
    /\ UNCHANGED <<lastStatus, cl, started, stopped, res, reportChan,
                   serviceVars>>

(* Stop: close(r.stop) ends run()'s loop; spawned cycles run on.           *)
Stop ==
    /\ ~Crashed
    /\ started /\ ~stopped
    /\ stopped' = TRUE
    /\ UNCHANGED <<lastStatus, running, started, cl, nCycles, pending, expired, cpc,
                   ck, res, final, reportChan, serviceVars>>

-----------------------------------------------------------------------------
(* newStatusChan under statusReportLock: append a one-slot channel holding *)
(* r.LastStatus() to s.statusChans.  gRPC serves Watch once Run serves.   *)
newStatusChan(w) ==
    /\ ~Crashed
    /\ wpc[w] = "idle" /\ serving /\ ~locked
    /\ statusChans' = Append(statusChans, w)
    /\ chans' = [chans EXCEPT ![w] = <<lastStatus>>]
    /\ wpc' = [wpc EXCEPT ![w] = "recv"]
    /\ UNCHANGED <<runnerVars, got, seen, bpc, bstatus, bidx, locked, serving>>

(* Watch: `for status := range ch`, then stream.Send; a failed send       *)
(* returns and the deferred removeStatusChan runs.                         *)
WatchRecv(w) ==
    /\ ~Crashed
    /\ wpc[w] = "recv" /\ chans[w] # <<>>
    /\ got' = [got EXCEPT ![w] = Head(chans[w])]
    /\ chans' = [chans EXCEPT ![w] = Tail(@)]
    /\ wpc' = [wpc EXCEPT ![w] = "send"]
    /\ UNCHANGED <<runnerVars, statusChans, seen, bpc, bstatus, bidx, locked,
                   serving>>

WatchSend(w) ==
    /\ ~Crashed
    /\ wpc[w] = "send"
    /\ \/ /\ seen' = [seen EXCEPT ![w] = got[w]]
          /\ wpc' = [wpc EXCEPT ![w] = "recv"]
       \/ /\ SendFails
          /\ wpc' = [wpc EXCEPT ![w] = "remove"]
          /\ UNCHANGED seen
    /\ UNCHANGED <<runnerVars, statusChans, chans, got, bpc, bstatus, bidx,
                   locked, serving>>

(* removeStatusChan's loop `for i := range s.statusChans`: the range is   *)
(* over the length the slice had when the loop began, while a match       *)
(* shortens the slice; an index past the new end is a run-time panic.     *)
(* Result: the new slice, or "panic".                                      *)
RECURSIVE RemoveLoop(_, _, _, _)
RemoveLoop(sl, w, i, n) ==
    IF i > n THEN sl
    ELSE IF i > Len(sl) THEN "panic"
    ELSE IF sl[i] = w THEN RemoveLoop(RemoveAt(sl, i), w, i + 1, n)
    ELSE RemoveLoop(sl, w, i + 1, n)

(* removeStatusChan under statusReportLock, then close(ch).  A panic      *)
(* unwinds through the deferred Unlock and ends the process.              *)
removeStatusChan(w) ==
    /\ ~Crashed
    /\ wpc[w] = "remove" /\ ~locked
    /\ LET r == RemoveLoop(statusChans, w, 1, Len(statusChans))
       IN IF r = "panic"
             THEN wpc' = [wpc EXCEPT ![w] = "panic"] /\ UNCHANGED statusChans
             ELSE wpc' = [wpc EXCEPT ![w] = "done"] /\ statusChans' = r
    /\ UNCHANGED <<runnerVars, chans, got, seen, bpc, bstatus, bidx, locked,
                   serving>>

(* broadcastStatus: receive a report, take statusReportLock, send it to   *)
(* every subscribed channel in order (blocking on a full one), unlock.    *)
BroadcastRecv ==
    /\ ~Crashed
    /\ bpc = "recv" /\ reportChan # <<>>
    /\ bstatus' = Head(reportChan) /\ reportChan' = Tail(reportChan)
    /\ bpc' = "lock"
    /\ UNCHANGED <<lastStatus, running, started, stopped, cl, nCycles, pending,
                   expired, cpc, ck, res,
                   final, statusChans, chans, wpc, got, seen, bidx, locked,
                   serving>>

BroadcastLock ==
    /\ ~Crashed
    /\ bpc = "lock" /\ ~locked
    /\ locked' = TRUE /\ bidx' = 1 /\ bpc' = "send"
    /\ UNCHANGED <<runnerVars, statusChans, chans, wpc, got, seen, bstatus,
                   serving>>

BroadcastSend ==
    /\ ~Crashed
    /\ bpc = "send" /\ bidx <= Len(statusChans)
    /\ chans[statusChans[bidx]] = <<>>
    /\ chans' = [chans EXCEPT ![statusChans[bidx]] = <<bstatus>>]
    /\ bidx' = bidx + 1
    /\ UNCHANGED <<runnerVars, statusChans, wpc, got, seen, bpc, bstatus, locked,
                   serving>>

\* Seeded fault: the loop stops one channel early.
BroadcastUnlockEarly ==
    /\ ~Crashed
    /\ bpc = "send" /\ bidx >= Len(statusChans)
    /\ locked' = FALSE /\ bpc' = "recv"
    /\ UNCHANGED <<runnerVars, statusChans, chans, wpc, got, seen, bstatus, bidx,
                   serving>>

BroadcastUnlock ==
    /\ ~Crashed
    /\ bpc = "send" /\ bidx > Len(statusChans)
    /\ locked' = FALSE /\ bpc' = "recv"
    /\ UNCHANGED <<runnerVars, statusChans, chans, wpc, got, seen, bstatus, bidx,
                   serving>>

-----------------------------------------------------------------------------
(* Nothing is left to do: no cycle can start, no report is pending, the   *)
(* broadcaster and every Watch stream wait on empty channels; or a panic  *)
(* ended the process.                                                      *)
Quiescent ==
    \/ Crashed
    \/ /\ cpc = "none" /\ pending = 0 /\ (stopped \/ nCycles >= MaxCycles)
       /\ reportChan = <<>> /\ bpc = "recv"
       /\ \A w \in Watchers : \/ wpc[w] \in {"idle", "done"}
                              \/ wpc[w] = "recv" /\ chans[w] = <<>>

Runner ==
    \/ \E k \in Checks : AddCheck(k)
    \/ Start
    \/ \E k \in Checks : CheckReturns(k) \/ WriteState(k) \/ WriteSource(k)
    \/ CycleCompare \/ CycleReport \/ Deadline
    \/ Tick \/ CycleCAS \/ Stop

Broadcaster == BroadcastRecv \/ BroadcastLock \/ BroadcastSend \/ BroadcastUnlock

Stream(w) == WatchRecv(w) \/ WatchSend(w) \/ removeStatusChan(w)

Next ==
    \/ Runner \/ Broadcaster
    \/ \E w \in Watchers : newStatusChan(w) \/ Stream(w)
    \/ Quiescent /\ UNCHANGED vars

(* Runnable goroutines are scheduled: the cycle, the broadcaster and the  *)
(* Watch streams; a check goroutine's writes; the deadline timer, and the *)
(* select's ctx.Done branch once it has fired.  A CheckFunc is user code   *)
(* and need never return.  Ticks, Stop and new Watch calls are not         *)
(* required to happen.                                                     *)
Fairness ==
    /\ \A k \in Checks : WF_vars(CheckTimesOut(k) \/ WriteState(k) \/ WriteSource(k))
    /\ WF_vars(Start)
    /\ WF_vars(CycleCompare \/ CycleReport) /\ WF_vars(Deadline)
    /\ WF_vars(CycleCAS)
    /\ WF_vars(Broadcaster)
    /\ \A w \in Watchers : WF_vars(Stream(w))

Spec == Init /\ [][Next]_vars /\ Fairness

-----------------------------------------------------------------------------
(* When the composite check's goroutines are all done (wg.Wait returns),  *)
(* finalStatus is the status one of them returned, and unhealthy whenever *)
(* one of them returned unhealthy, as line 190 intends.                    *)
CompositeWorst ==
    (cpc = "checking" /\ \A k \in Checks : ck[k] = "done") =>
        /\ final \in {res[k] : k \in Checks} \cup {Healthy}
        /\ (\E k \in Checks : res[k].state = "unhealthy") => final.state = "unhealthy"

(* Removing a Watch stream never panics, whatever the other streams do.   *)
NoRemovePanic ==
    \A w \in Watchers : wpc[w] # "panic"

(* A report taken from the runner reaches every stream subscribed at that *)
(* time: the broadcaster, blocked on a slow stream, eventually goes on.   *)
ReportsReachWatchers ==
    \A w \in Watchers : \A st \in UNION {Results(k) : k \in Checks} :
        (reportChan = <<st>> /\ wpc[w] \in {"recv", "send"}) ~> seen[w] = st

(* A Watch stream whose client has gone eventually unsubscribes.          *)
LeaveCompletes ==
    \A w \in Watchers : wpc[w] = "remove" ~> wpc[w] # "remove"

(* A check cycle that has begun eventually ends and clears                *)
(* runningCheckCycle, or the process has panicked, even when CheckFuncs    *)
(* hang: the cycle's deadline makes each unaryChecker.Check return         *)
(* unknown, wg.Wait returns, and the deferred CAS resets the flag, so the  *)
(* runner is not left busy with every later tick dropped.                  *)
CycleEnds == running ~> (~running \/ Crashed)

(* Every stream that stays subscribed eventually shows, and keeps showing,*)
(* the runner's last status.                                               *)
WatchersConverge ==
    <>[](\A w \in Watchers : wpc[w] \in {"recv", "send"} => seen[w] = lastStatus)

====
