----------------------------- MODULE Middleware -----------------------------
(***************************************************************************)
(* How appImpl.Init equips its clients, services and observable server    *)
(* with middlewares (src/appmgr/middleware.go, config.go, client.go,       *)
(* service.go, observable.go, gin.go, grpc.go).                            *)
(*                                                                         *)
(* Init applies the middleware manager once per owner, in this order:      *)
(* newClientManager (Apply(nil, clients.grpc.middlewares)), newService for *)
(* each configured service (Apply(s, its middlewares)), newObservable      *)
(* (Apply(nil, ["recovery"])).  Apply adds context tags, the service       *)
(* context when the owner is a service, then one middleware per config     *)
(* entry; an entry that does not parse, or names no registered middleware, *)
(* is logged with the owner's name and skipped.  The chains the servers    *)
(* and clients use are the applier's middlewares, in order, that return a  *)
(* handler of that kind.  A name is a base word and whether it is written  *)
(* in capitals; strings.ToLower maps it to the lower-case base.            *)
(***************************************************************************)
EXTENDS Integers, Sequences, SequencesExt

CONSTANTS
    ClientMgr,      \* the owner of newClientManager's applier (service nil)
    Obs,            \* the owner of newObservable's applier (service nil)
    ServiceSeq,     \* a.config.Services, in order
    Bases,          \* the words the configuration uses as middleware names
    Missing,        \* an entry whose name is absent or not a string
    ClientEntries,  \* the config entries clients.grpc.middlewares may hold
    ServiceEntries, \* the config entries a service's middlewares may hold
    MaxEntries      \* bound: entries per config list

Services == ToSet(ServiceSeq)
Order == <<ClientMgr>> \o ServiceSeq \o <<Obs>>
Owners == ToSet(Order)

Names == Bases \X BOOLEAN               \* <<word, written in capitals>>
ToLower(n) == <<n[1], FALSE>>

(* The handlers contextTags and serviceContext return (lines 171-230).    *)
InternalHandlers ==
    [ctxtags |-> {"unary_server", "stream_server"},
     service_context |-> {"gin", "unary_server", "stream_server"}]

(* newDefaultMiddlewareManager's middlewares and the non-nil handlers     *)
(* their GinHandler, GrpcServerInterceptor and GrpcClientInterceptor      *)
(* return (lines 32-44, 232-443).                                          *)
RegisteredHandlers ==
    [context_logger     |-> {"gin", "unary_server", "stream_server"},
     log_request        |-> {"gin", "unary_server", "stream_server"},
     metrics            |-> {"gin", "unary_server", "stream_server",
                             "unary_client", "stream_client"},
     open_tracing       |-> {},
     recovery           |-> {"gin", "unary_server", "stream_server"},
     request_validation |-> {"unary_server", "stream_server", "unary_client"},
     cors               |-> {"gin"},
     compress           |-> {"gin"},
     access_control     |-> {"unary_server", "stream_server"}]

Handlers(m) ==
    IF m \in DOMAIN InternalHandlers THEN InternalHandlers[m]
                                     ELSE RegisteredHandlers[m]

(* GetMiddleware: m.middlewares[strings.ToLower(name)], nil if absent.     *)
Nil == "nil"
GetMiddleware(n) ==
    IF ToLower(n)[1] \in DOMAIN RegisteredHandlers THEN ToLower(n)[1] ELSE Nil

(* A config entry: a string (the name), a map with a "name" string, a map *)
(* without one, or a value of another type.                                *)
Entries ==
    {[type |-> "string", name |-> n] : n \in Names}
    \cup {[type |-> "map", name |-> n] : n \in Names \cup {Missing}}
    \cup {[type |-> "other", name |-> Missing]}

(* parseMiddlewareConfig: the name, or an error.                           *)
ParseConfig(e) ==
    IF e.type = "string" \/ (e.type = "map" /\ e.name # Missing)
    THEN [name |-> e.name, err |-> FALSE]
    ELSE [name |-> Missing, err |-> TRUE]

VARIABLES
    cfg,        \* per owner, the middleware config list Init passes to Apply
    cur,        \* the index in Order of the owner being applied
    idx,        \* entries of its list Apply has handled
    mcs,        \* per owner, ma.mcs: a sequence of [name, m]
    logged,     \* per owner, the indices that logged create_middleware_error
    crashed     \* Init panicked

vars == <<cfg, cur, idx, mcs, logged, crashed>>

TypeOK ==
    /\ cfg \in [Owners -> Seq(Entries)]
    /\ cur \in 1..Len(Order) + 1 /\ idx \in 0..MaxEntries
    /\ mcs \in [Owners -> Seq([name : Names \cup {<<"", FALSE>>}, m : STRING])]
    /\ logged \in [Owners -> SUBSET (1..MaxEntries)]
    /\ crashed \in BOOLEAN

(* The configuration as loaded; the observable always asks for recovery.   *)
(* Apply has just added context tags, and the service context if the       *)
(* owner is a service, to the applier of the first owner.                  *)
Prefix(o) ==
    <<[name |-> <<"", FALSE>>, m |-> "ctxtags"]>>
    \o (IF o \in Services THEN <<[name |-> <<"", FALSE>>, m |-> "service_context"]>>
                          ELSE <<>>)

Init ==
    /\ cfg \in {f \in [Owners -> BoundedSeq(ClientEntries \cup ServiceEntries, MaxEntries)] :
                  /\ ToSet(f[ClientMgr]) \subseteq ClientEntries
                  /\ f[Obs] = <<[type |-> "string", name |-> <<"recovery", FALSE>>]>>
                  /\ \A s \in Services : ToSet(f[s]) \subseteq ServiceEntries}
    /\ cur = 1 /\ idx = 0
    /\ mcs = [o \in Owners |-> IF o = Order[1] THEN Prefix(o) ELSE <<>>]
    /\ logged = [o \in Owners |-> {}]
    /\ crashed = FALSE

Owner == Order[cur]

(* One iteration of Apply's loop over the owner's config list:            *)
(* AddMiddlewareByConfig either appends [strings.ToLower(name), m] or      *)
(* fails, and the failure is logged with service.GetName(), which panics   *)
(* when the owner passed a nil service.                                    *)
AddByConfig ==
    LET o == Owner
        p == ParseConfig(cfg[o][idx + 1])
        m == IF p.err THEN Nil ELSE GetMiddleware(p.name)
    IN /\ ~crashed /\ cur <= Len(Order) /\ idx < Len(cfg[o])
       /\ IF m # Nil
             THEN /\ mcs' = [mcs EXCEPT ![o] = Append(@, [name |-> ToLower(p.name), m |-> m])]
                  /\ idx' = idx + 1
                  /\ UNCHANGED <<logged, crashed>>
          ELSE IF o \in Services
             THEN /\ logged' = [logged EXCEPT ![o] = @ \cup {idx + 1}]
                  /\ idx' = idx + 1
                  /\ UNCHANGED <<mcs, crashed>>
          ELSE /\ crashed' = TRUE
               /\ UNCHANGED <<mcs, idx, logged>>
       /\ UNCHANGED <<cfg, cur>>

(* Apply returns; Init goes on to the next owner, whose Apply starts with *)
(* context tags and, for a service, the service context.                   *)
ApplyEnd ==
    /\ ~crashed /\ cur <= Len(Order) /\ idx = Len(cfg[Owner])
    /\ cur' = cur + 1 /\ idx' = 0
    /\ mcs' = IF cur < Len(Order)
                 THEN [mcs EXCEPT ![Order[cur + 1]] = Prefix(Order[cur + 1])]
                 ELSE mcs
    /\ UNCHANGED <<cfg, logged, crashed>>

(* Init has applied every owner's middlewares, or has panicked.            *)
Finished ==
    /\ crashed \/ cur > Len(Order)
    /\ UNCHANGED vars

Next == AddByConfig \/ ApplyEnd \/ Finished

Spec == Init /\ [][Next]_vars /\ WF_vars(AddByConfig \/ ApplyEnd)

-----------------------------------------------------------------------------
(* What the servers and clients are built with.                           *)

Applied(o) == \E i \in 1..Len(Order) : Order[i] = o /\ i < cur

(* The owner's handlers of one kind, in chain order: ApplyGin's            *)
(* routes.Use calls, and the lists GrpcServerInterceptor and               *)
(* GrpcClientInterceptor chain (nil handlers are skipped).                 *)
Chain(o, kind) == SelectSeq(mcs[o], LAMBDA mc : kind \in Handlers(mc.m))

(* IsMiddlewareEnabled: a non-empty name, lower-cased, is among ma.mcs.   *)
IsMiddlewareEnabled(o, n) ==
    n[1] # "" /\ \E i \in 1..Len(mcs[o]) : mcs[o][i].name = ToLower(n)

(* serviceImpl.Run registers the gRPC server's metrics only when the       *)
(* applier reports "metrics" enabled (service.go line 139).                *)
MetricsRegistered(s) == IsMiddlewareEnabled(s, <<"metrics", FALSE>>)

-----------------------------------------------------------------------------
(* Init never panics while applying middlewares: a bad entry in any        *)
(* middleware list is logged as create_middleware_error and skipped, as    *)
(* Apply's loop intends.                                                   *)
ApplyNeverPanics == ~crashed

(* A service's gRPC metrics are registered exactly when its server chain  *)
(* records them: IsMiddlewareEnabled("metrics") agrees with the metrics    *)
(* interceptor being in the chain, whatever case the configuration writes *)
(* the name in.                                                            *)
MetricsRegisteredIffChained ==
    \A s \in Services :
        Applied(s) =>
            (MetricsRegistered(s) <=>
                \E i \in 1..Len(Chain(s, "unary_server")) :
                    Chain(s, "unary_server")[i].m = "metrics")

(* Reference: the middlewares a config list yields, written directly from *)
(* the entry forms: a string or a map with a name, naming one of the       *)
(* default middlewares in any case.                                        *)
RECURSIVE Expected(_)
Expected(seq) ==
    IF seq = <<>> THEN <<>>
    ELSE LET e == Head(seq)
             ok == e.type \in {"string", "map"} /\ e.name \in Names
                   /\ e.name[1] \in DOMAIN RegisteredHandlers
         IN (IF ok THEN <<[name |-> <<e.name[1], FALSE>>, m |-> e.name[1]]>> ELSE <<>>)
            \o Expected(Tail(seq))

(* Each applied owner's applier holds its prefix and then exactly the      *)
(* valid entries of its list, in order; every other entry was logged.      *)
ApplyMatchesConfig ==
    \A o \in Owners :
        Applied(o) =>
            /\ mcs[o] = Prefix(o) \o Expected(cfg[o])
            /\ logged[o] = {i \in 1..Len(cfg[o]) :
                               Len(Expected(<<cfg[o][i]>>)) = 0}
====
