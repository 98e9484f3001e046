---------------------------- MODULE AppLifecycle ----------------------------
(***************************************************************************)
(* The run and shutdown of an application: appImpl.Run (app.go), the       *)
(* services' Run and Wait (service.go), the observable service             *)
(* (observable.go) and the server goroutines of serve.go.                  *)
(*                                                                         *)
(* Run starts every job in a goroutine that sends its error, if any, on    *)
(* the buffered channel chJobs; a waiter goroutine closes chJobs once all  *)
(* jobs are done.  Run then starts the services one after the other (in   *)
(* map order, i.e. any order), each serving gRPC and HTTP, then the        *)
(* observable HTTP server, registers for SIGINT/SIGTERM and selects on     *)
(* ctx.Done, chJobs and the signal.  A job error makes Run return it at    *)
(* once; the end of all jobs or a signal cancels ctx, and Run waits for   *)
(* the jobs, every service's WaitGroup and the observable's.               *)
(*                                                                         *)
(* A server's stop goroutine waits for ctx.Done and shuts the server down  *)
(* with a timeout: HTTP Shutdown returns after draining or at the timeout *)
(* (abandoning open connections); gRPC GracefulStop is cut short by Stop   *)
(* at the timeout.  grpc.Server.Serve returns only once the server has     *)
(* fully stopped; its goroutine then calls wg.Done.                        *)
(***************************************************************************)
EXTENDS Integers, FiniteSets, Sequences

CONSTANTS
    Jobs,           \* job names: registered, configured or given on the command line
    Registered,     \* the jobs added with AddJob (before Init)
    ConfiguredJobs, \* a.config.Jobs as read from the configuration
    Services,       \* the configured services
    Endpoints(_),   \* per service, the endpoints configured: a subset of Kinds
    Obs,            \* the observable service
    InitFails,      \* whether a step of Init may fail (or cobra not run the app)
    JobErrs,        \* whether a job may return an error
    StartFails      \* whether a health check or a listen may fail at start

Kinds == {"grpc", "http"}
Servers == UNION {{s} \X Endpoints(s) : s \in Services} \cup {<<Obs, "http">>}
Owner(x) == x[1]
Kind(x) == x[2]
Groups == Services \cup {Obs}               \* owners of a sync.WaitGroup

VARIABLES
    rpc,        \* where the main goroutine is in Init and Run
    cfgJobs,    \* a.config.Jobs after Init
    cfgServices,\* a.services after Init
    started,    \* services whose Run has returned nil
    job,        \* per job goroutine: "none", "running", "sending" or "done"
    chJobs,     \* the errors buffered in chJobs (as the jobs that sent them)
    chClosed,   \* chJobs has been closed by the waiter goroutine
    cancelled,  \* a.cancel() has been called
    sig,        \* a SIGINT/SIGTERM has arrived
    srv,        \* per server: "none", "serving", "draining", "stopped", "abandoned"
    stopper,    \* per server, its stop goroutine: "none", "wait", "stopping", "done"
    serveG,     \* per gRPC server, its Serve goroutine: "none", "serving", "done"
    wg          \* per service (and Obs), the WaitGroup counter

vars == <<rpc, cfgJobs, cfgServices, started, job, chJobs, chClosed, cancelled,
          sig, srv, stopper, serveG, wg>>

RunPC == {"init", "jobs", "services", "select", "wait", "returned", "failed",
          "killed", "exit", "fatal"}
Terminated == rpc \in {"returned", "failed", "killed", "exit", "fatal"}

\* Seeded fault: chJobs one slot smaller than the number of jobs.
JobsCapShort == Cardinality(cfgJobs) - 1

(* make(chan error, len(a.config.Jobs)).                                   *)
JobsCap == Cardinality(cfgJobs)

TypeOK ==
    /\ rpc \in RunPC
    /\ cfgJobs \subseteq Jobs /\ cfgServices \subseteq Services
    /\ started \subseteq cfgServices
    /\ job \in [Jobs -> {"none", "running", "sending", "done"}]
    /\ chJobs \in Seq(Jobs) /\ Len(chJobs) <= JobsCap
    /\ chClosed \in BOOLEAN /\ cancelled \in BOOLEAN /\ sig \in BOOLEAN
    /\ srv \in [Servers -> {"none", "serving", "draining", "stopped", "abandoned"}]
    /\ stopper \in [Servers -> {"none", "wait", "stopping", "done"}]
    /\ serveG \in [Servers -> {"none", "serving", "done"}]
    /\ wg \in [Groups -> 0..2]

(* NewApp and the AddJob calls have run; main calls Init.                  *)
Init ==
    /\ rpc = "init"
    /\ cfgJobs = {} /\ cfgServices = {}
    /\ started = {}
    /\ job = [j \in Jobs |-> "none"]
    /\ chJobs = <<>>
    /\ chClosed = FALSE
    /\ cancelled = FALSE
    /\ sig = FALSE
    /\ srv = [x \in Servers |-> "none"]
    /\ stopper = [x \in Servers |-> "none"]
    /\ serveG = [x \in Servers |-> "none"]
    /\ wg = [g \in Groups |-> 0]

-----------------------------------------------------------------------------
(* Init and the start of Run.                                              *)

(* appImpl.Init: cobra did not run the command (help, version) and        *)
(* os.Exit(0), or a step (config, clients, databases, caches, pulsars,     *)
(* newService) fails and exitWithError exits 1; else the configured jobs   *)
(* and services, or, with a job named on the command line, only that job   *)
(* and no service.                                                          *)
AppInit ==
    /\ rpc = "init"
    /\ \/ InitFails /\ rpc' = "exit" /\ UNCHANGED <<cfgJobs, cfgServices>>
       \/ rpc' = "jobs" /\ cfgJobs' = ConfiguredJobs /\ cfgServices' = Services
       \/ rpc' = "jobs" /\ cfgServices' = {} /\ \E j \in Jobs : cfgJobs' = {j}
    /\ UNCHANGED <<started, job, chJobs, chClosed, cancelled, sig, srv, stopper,
                   serveG, wg>>

(* Run's loop over a.config.Jobs: a name AddJob never registered is        *)
(* log.Fatal (exit 1); otherwise every job runs in its own goroutine, and  *)
(* the waiter goroutine is started.                                        *)
SpawnJobs ==
    /\ rpc = "jobs"
    /\ IF cfgJobs \subseteq Registered
          THEN /\ rpc' = "services"
               /\ job' = [j \in Jobs |-> IF j \in cfgJobs THEN "running" ELSE "none"]
          ELSE rpc' = "fatal" /\ UNCHANGED job
    /\ UNCHANGED <<cfgJobs, cfgServices, started, chJobs, chClosed, cancelled,
                   sig, srv, stopper, serveG, wg>>

-----------------------------------------------------------------------------
(* Jobs.                                                                   *)

(* job(a.ctx) returns, nil or an error.                                    *)
JobReturn(j) ==
    /\ job[j] = "running"
    /\ \/ job' = [job EXCEPT ![j] = "done"]
       \/ JobErrs /\ job' = [job EXCEPT ![j] = "sending"]
    /\ UNCHANGED <<rpc, cfgJobs, cfgServices, started, chJobs, chClosed,
                   cancelled, sig, srv, stopper, serveG, wg>>

(* chJobs <- err, blocking while the buffer is full; then wgJobs.Done().  *)
JobSend(j) ==
    /\ job[j] = "sending"
    /\ Len(chJobs) < JobsCap
    /\ chJobs' = Append(chJobs, j)
    /\ job' = [job EXCEPT ![j] = "done"]
    /\ UNCHANGED <<rpc, cfgJobs, cfgServices, started, chClosed, cancelled, sig,
                   srv, stopper, serveG, wg>>

(* The waiter goroutine (started when there are jobs): wgJobs.Wait(),     *)
(* then close(chJobs).                                                      *)
CloseJobs ==
    /\ rpc \notin {"init", "jobs"}
    /\ cfgJobs # {}
    /\ ~chClosed
    /\ \A j \in cfgJobs : job[j] = "done"
    /\ chClosed' = TRUE
    /\ UNCHANGED <<rpc, cfgJobs, cfgServices, started, job, chJobs, cancelled,
                   sig, srv, stopper, serveG, wg>>

-----------------------------------------------------------------------------
(* Starting the servers.                                                   *)

(* serveGrpcService / serveHttpService after a successful net.Listen, for *)
(* each server of S: it serves and its stop goroutine waits for ctx.Done;  *)
(* for gRPC the Serve goroutine holds the WaitGroup, for HTTP the stop     *)
(* goroutine does.                                                          *)
Serve(S) ==
    /\ srv' = [x \in Servers |-> IF x \in S THEN "serving" ELSE srv[x]]
    /\ stopper' = [x \in Servers |-> IF x \in S THEN "wait" ELSE stopper[x]]
    /\ serveG' = [x \in Servers |-> IF x \in S /\ Kind(x) = "grpc"
                                     THEN "serving" ELSE serveG[x]]

(* The outcomes of serviceImpl.Run: the initial health check fails, the   *)
(* listen of a configured endpoint fails (gRPC is served first), or every  *)
(* configured endpoint serves.                                             *)
Outcomes(s) ==
    {"ok"} \cup IF StartFails THEN {"unhealthy"} \cup Endpoints(s) ELSE {}

(* for name, service := range a.services { err = service.Run() ... }.     *)
(* waitGroup.Add(1) precedes each serve call, so a failed listen leaves    *)
(* the counter raised; an HTTP listen failure leaves gRPC serving.         *)
StartService(s) ==
    /\ rpc = "services"
    /\ s \in cfgServices \ started
    /\ \E o \in Outcomes(s) :
        LET before == IF o = "http" THEN {<<s, "grpc">>} \cap Servers ELSE {}
        IN CASE o = "unhealthy" ->
                  /\ rpc' = "failed"
                  /\ UNCHANGED <<started, srv, stopper, serveG, wg>>
             [] o \in Kinds ->
                  /\ rpc' = "failed"
                  /\ wg' = [wg EXCEPT ![s] = Cardinality(before) + 1]
                  /\ Serve(before)
                  /\ UNCHANGED started
             [] o = "ok" ->
                  /\ wg' = [wg EXCEPT ![s] = Cardinality(Endpoints(s))]
                  /\ Serve({s} \X Endpoints(s))
                  /\ started' = started \cup {s}
                  /\ UNCHANGED rpc
    /\ UNCHANGED <<cfgJobs, cfgServices, job, chJobs, chClosed, cancelled, sig>>

(* a.observable.Run(): waitGroup.Add(1) and serveHttpService; on success  *)
(* Run registers for the stop signals and enters its select.              *)
StartObservable ==
    /\ rpc = "services"
    /\ started = cfgServices
    /\ wg' = [wg EXCEPT ![Obs] = 1]
    /\ \/ StartFails /\ rpc' = "failed" /\ UNCHANGED <<srv, stopper, serveG>>
       \/ rpc' = "select" /\ Serve({<<Obs, "http">>})
    /\ UNCHANGED <<cfgJobs, cfgServices, started, job, chJobs, chClosed,
                   cancelled, sig>>

-----------------------------------------------------------------------------
(* The main goroutine's select and wait.                                   *)

(* select { case <-a.ctx.Done(): ... case err = <-chJobs: ... case <-quit }.*)
(* Only Run itself cancels a.ctx, so the first case is never ready here;  *)
(* a received error makes Run return it without cancelling; the zero       *)
(* value of the closed channel (all jobs done) and a signal cancel ctx.   *)
Select ==
    /\ rpc = "select"
    /\ \/ cancelled /\ rpc' = "wait" /\ UNCHANGED <<chJobs, cancelled>>
       \/ chJobs # <<>> /\ rpc' = "failed" /\ chJobs' = Tail(chJobs)
                        /\ UNCHANGED cancelled
       \/ chJobs = <<>> /\ chClosed /\ rpc' = "wait" /\ cancelled' = TRUE
                        /\ UNCHANGED chJobs
       \/ sig /\ rpc' = "wait" /\ cancelled' = TRUE /\ UNCHANGED chJobs
    /\ UNCHANGED <<cfgJobs, cfgServices, started, job, chClosed, sig, srv, stopper, serveG, wg>>

(* wgJobs.Wait(); service.Wait() for each service; a.observable.Wait().   *)
(* No Add follows the select, so the counters only fall and waiting on    *)
(* them in turn ends when all of them are zero at once.                    *)
WaitAll ==
    /\ rpc = "wait"
    /\ \A j \in cfgJobs : job[j] = "done"
    /\ \A g \in Groups : wg[g] = 0
    /\ rpc' = "returned"
    /\ UNCHANGED <<cfgJobs, cfgServices, started, job, chJobs, chClosed, cancelled, sig, srv,
                   stopper, serveG, wg>>

(* SIGINT or SIGTERM.  Before signal.Notify (during Init, while jobs are *)
(* spawned and services start) Go's default action ends the process;     *)
(* afterwards it is buffered in quit.                                      *)
Signal ==
    /\ ~sig
    /\ rpc \in {"init", "jobs", "services", "select", "wait"}
    /\ sig' = TRUE
    /\ rpc' = IF rpc \in {"select", "wait"} THEN rpc ELSE "killed"
    /\ UNCHANGED <<cfgJobs, cfgServices, started, job, chJobs, chClosed, cancelled, srv, stopper,
                   serveG, wg>>

-----------------------------------------------------------------------------
(* Stopping the servers.                                                   *)

Done(x) == IF Kind(x) = "http" THEN [wg EXCEPT ![Owner(x)] = @ - 1] ELSE wg

(* <-ctx.Done(), then srv.Shutdown / grpcServer.GracefulStop begins: the  *)
(* listener closes and open connections drain.                              *)
StopBegin(x) ==
    /\ stopper[x] = "wait"
    /\ cancelled
    /\ srv' = [srv EXCEPT ![x] = "draining"]
    /\ stopper' = [stopper EXCEPT ![x] = "stopping"]
    /\ UNCHANGED <<rpc, cfgJobs, cfgServices, started, job, chJobs, chClosed, cancelled, sig,
                   serveG, wg>>

(* The connections drained before the timeout: Shutdown returns nil (the  *)
(* HTTP stop goroutine then calls wg.Done) or GracefulStop closes ok.      *)
Drained(x) ==
    /\ stopper[x] = "stopping"
    /\ srv[x] = "draining"
    /\ srv' = [srv EXCEPT ![x] = "stopped"]
    /\ stopper' = [stopper EXCEPT ![x] = "done"]
    /\ wg' = Done(x)
    /\ UNCHANGED <<rpc, cfgJobs, cfgServices, started, job, chJobs, chClosed, cancelled, sig, serveG>>

(* shutdownCtx expires: Shutdown returns its error with connections still *)
(* open (abandoned), or grpcServer.Stop() closes every connection.          *)
Timeout(x) ==
    /\ stopper[x] = "stopping"
    /\ srv[x] = "draining"
    /\ srv' = [srv EXCEPT ![x] = IF Kind(x) = "http" THEN "abandoned" ELSE "stopped"]
    /\ stopper' = [stopper EXCEPT ![x] = "done"]
    /\ wg' = Done(x)
    /\ UNCHANGED <<rpc, cfgJobs, cfgServices, started, job, chJobs, chClosed, cancelled, sig, serveG>>

\* Seeded fault: Serve returns (and wg.Done runs) as soon as the listener
\* closes, before the graceful drain has finished.
ServeReturnEarly(x) ==
    /\ serveG[x] = "serving"
    /\ srv[x] \in {"draining", "stopped"}
    /\ serveG' = [serveG EXCEPT ![x] = "done"]
    /\ wg' = [wg EXCEPT ![Owner(x)] = @ - 1]
    /\ UNCHANGED <<rpc, cfgJobs, cfgServices, started, job, chJobs, chClosed, cancelled, sig, srv,
                   stopper>>

(* grpcServer.Serve returns once the server has stopped; defer wg.Done(). *)
ServeReturn(x) ==
    /\ serveG[x] = "serving"
    /\ srv[x] = "stopped"
    /\ serveG' = [serveG EXCEPT ![x] = "done"]
    /\ wg' = [wg EXCEPT ![Owner(x)] = @ - 1]
    /\ UNCHANGED <<rpc, cfgJobs, cfgServices, started, job, chJobs, chClosed, cancelled, sig, srv,
                   stopper>>

(* Run has returned: the process exits (or, after an error, RunOrExit     *)
(* exits with status 1); the model stutters.                                *)
Exited ==
    /\ Terminated
    /\ UNCHANGED vars

Next ==
    \/ AppInit
    \/ SpawnJobs
    \/ \E j \in Jobs : JobReturn(j) \/ JobSend(j)
    \/ CloseJobs
    \/ \E s \in Services : StartService(s)
    \/ StartObservable
    \/ Select
    \/ WaitAll
    \/ Signal
    \/ \E x \in Servers : StopBegin(x) \/ Drained(x) \/ Timeout(x) \/ ServeReturn(x)
    \/ Exited

(* Every goroutine that can run eventually runs, timers fire, and a job    *)
(* honours the cancellation of its context.  No fairness on Drained (a     *)
(* client may keep a connection open) or on Signal (no one need send it).  *)
Fairness ==
    /\ \A j \in Jobs : WF_vars(cancelled /\ JobReturn(j)) /\ WF_vars(JobSend(j))
    /\ WF_vars(AppInit) /\ WF_vars(SpawnJobs) /\ WF_vars(CloseJobs)
    /\ WF_vars(\E s \in Services : StartService(s)) /\ WF_vars(StartObservable)
    /\ WF_vars(Select) /\ WF_vars(WaitAll)
    /\ \A x \in Servers : WF_vars(StopBegin(x)) /\ WF_vars(Timeout(x))
                         /\ WF_vars(ServeReturn(x))

Spec == Init /\ [][Next]_vars /\ Fairness

-----------------------------------------------------------------------------
(* When Run returns nil ("All Services Stopped"), every job goroutine has   *)
(* ended and every server it started is shut down: no server still        *)
(* accepts or drains, and no stop or Serve goroutine is still running.     *)
(* Depends on Serve returning only after GracefulStop/Stop has finished    *)
(* and on wg.Done following Shutdown in the HTTP stop goroutine.           *)
CleanExit ==
    rpc = "returned" =>
        /\ \A j \in cfgJobs : job[j] = "done"
        /\ \A x \in Servers :
              /\ srv[x] \in {"none", "stopped", "abandoned"}
              /\ stopper[x] \in {"none", "done"}
              /\ serveG[x] \in {"none", "done"}

(* Once a reason to stop exists (a stop signal after startup, or every     *)
(* job has returned), Run eventually returns, even when some client never  *)
(* closes its connection: the shutdown timeouts bound the drains, and no   *)
(* job goroutine stays blocked on chJobs.                                  *)
RunReturns ==
    (sig \/ (cfgJobs # {} /\ \A j \in cfgJobs : job[j] = "done")) ~> Terminated

=============================================================================
