-------------------------------- MODULE Pool --------------------------------
(***************************************************************************)
(* The connection pool pool.Pool (src/pool/pool.go).                       *)
(*                                                                         *)
(* Each client goroutine runs the usage pattern of the package comment:    *)
(* conn := pool.Get(); ...; pool.Put(conn).  Every section that holds     *)
(* p.mu is one atomic step; the points where the code releases p.mu       *)
(* (Dial, closing a pruned or failed connection, TestOnBorrow, closing    *)
(* the connection put evicts) are client states of their own.             *)
(* A connection is a number, handed out by Dial in order; Nil is a nil     *)
(* io.Closer / *poolConn.  The token channel p.ch is a count of buffered   *)
(* tokens with flags for "made" (lazyInit ran) and "closed".               *)
(***************************************************************************)
EXTENDS Integers, FiniteSets, SequencesExt

CONSTANTS
    Clients,      \* goroutines using the pool
    MaxIdle,      \* p.MaxIdle
    MaxActive,    \* p.MaxActive (0 = no limit)
    Wait,         \* p.Wait
    PruneIdle,    \* p.IdleTimeout > 0: idle connections may be found stale
    BorrowCheck,  \* TestOnBorrow set or MaxConnLifetime > 0: a reuse may fail
    DialFails,    \* p.Dial may return an error
    PutNil,       \* clients Put what Get returned even when it is nil
    MaxGets       \* bound: Get calls in a behaviour

ASSUME /\ {MaxIdle, MaxActive, MaxGets} \subseteq Nat
       /\ {Wait, PruneIdle, BorrowCheck, DialFails, PutNil} \subseteq BOOLEAN

Nil == 0
Conns == 1..MaxGets                 \* each Get dials at most once
WaitLimit == Wait /\ MaxActive > 0  \* get's "p.Wait && p.MaxActive > 0"

VARIABLES
    closed,      \* p.closed
    active,      \* p.active
    chMade,      \* p.ch != nil
    chClosed,    \* close(p.ch) has run
    tokens,      \* tokens buffered in p.ch
    idle,        \* p.idle, front first
    connMap,     \* the keys of p.poolConnMap
    closedConns, \* history: connections whose Close was called
    nDials,      \* connections dialled so far (names the next one)
    nGets,       \* Get calls begun
    pc,          \* each client's program counter
    conn,        \* each client's *poolConn (or the io.Closer it holds)
    budget       \* get's prune loop: iterations left (i < n)

vars == <<closed, active, chMade, chClosed, tokens, idle, connMap, closedConns,
          nDials, nGets, pc, conn, budget>>

PC == {"idle", "token", "get", "prune_close", "borrow", "dial", "hold",
       "put", "put_close", "panic"}

TypeOK ==
    /\ closed \in BOOLEAN /\ chMade \in BOOLEAN /\ chClosed \in BOOLEAN
    /\ active \in Int
    /\ tokens \in 0..MaxActive
    /\ idle \in Seq(Conns)
    /\ connMap \subseteq Conns /\ closedConns \subseteq Conns
    /\ nDials \in 0..MaxGets /\ nGets \in 0..MaxGets
    /\ pc \in [Clients -> PC]
    /\ conn \in [Clients -> Conns \cup {Nil}]
    /\ budget \in [Clients -> Nat]

(* The zero Pool value.                                                   *)
Init ==
    /\ closed = FALSE /\ active = 0
    /\ chMade = FALSE /\ chClosed = FALSE /\ tokens = 0
    /\ idle = <<>> /\ connMap = {} /\ closedConns = {}
    /\ nDials = 0 /\ nGets = 0
    /\ pc = [c \in Clients |-> "idle"]
    /\ conn = [c \in Clients |-> Nil]
    /\ budget = [c \in Clients |-> 0]

Goto(c, l) == pc' = [pc EXCEPT ![c] = l]
SetConn(c, x) == conn' = [conn EXCEPT ![c] = x]

(* `if p.ch != nil && !p.closed { p.ch <- struct{}{} }`                    *)
ReleaseToken == tokens' = IF chMade /\ ~closed THEN tokens + 1 ELSE tokens

-----------------------------------------------------------------------------
(* Get: with Wait and MaxActive, lazyInit makes p.ch under p.mu (full of  *)
(* MaxActive tokens, or closed if the pool already is) and the call then   *)
(* blocks on <-p.ch.                                                       *)
GetCall(c) ==
    /\ pc[c] = "idle" /\ nGets < MaxGets
    /\ nGets' = nGets + 1
    /\ IF WaitLimit /\ ~chMade
          THEN /\ chMade' = TRUE
               /\ chClosed' = closed
               /\ tokens' = IF closed THEN 0 ELSE MaxActive
          ELSE UNCHANGED <<chMade, chClosed, tokens>>
    /\ Goto(c, IF WaitLimit THEN "token" ELSE "get")
    /\ UNCHANGED <<closed, active, idle, connMap, closedConns, nDials, conn, budget>>

(* <-p.ch: take a token; a closed and drained channel yields at once.     *)
TokenRecv(c) ==
    /\ pc[c] = "token"
    /\ tokens > 0 \/ chClosed
    /\ tokens' = IF tokens > 0 THEN tokens - 1 ELSE tokens
    /\ Goto(c, "get")
    /\ UNCHANGED <<closed, active, chMade, chClosed, idle, connMap, closedConns,
                   nDials, nGets, conn, budget>>

(* The rest of get under p.mu once pruning is over, with p.active = a:    *)
(* take the front idle connection, or fail on a closed pool, or fail with *)
(* ErrPoolExhausted, or count a new connection and go dial it.            *)
\* Seeded fault: the ErrPoolExhausted check is dropped.
ReuseNoLimit(c, a) ==
    \/ /\ idle # <<>>
       /\ idle' = Tail(idle) /\ SetConn(c, Head(idle)) /\ active' = a
       /\ Goto(c, "borrow")
    \/ /\ idle = <<>> /\ closed
       /\ SetConn(c, Nil) /\ active' = a /\ Goto(c, "hold") /\ UNCHANGED idle
    \/ /\ idle = <<>> /\ ~closed
       /\ active' = a + 1 /\ SetConn(c, Nil) /\ Goto(c, "dial") /\ UNCHANGED idle

Reuse(c, a) ==
    \/ /\ idle # <<>>
       /\ idle' = Tail(idle) /\ SetConn(c, Head(idle)) /\ active' = a
       /\ Goto(c, "borrow")
    \/ /\ idle = <<>> /\ closed
       /\ SetConn(c, Nil) /\ active' = a /\ Goto(c, "hold") /\ UNCHANGED idle
    \/ /\ idle = <<>> /\ ~closed
       /\ ~Wait /\ MaxActive > 0 /\ a >= MaxActive
       /\ SetConn(c, Nil) /\ active' = a /\ Goto(c, "hold") /\ UNCHANGED idle
    \/ /\ idle = <<>> /\ ~closed
       /\ ~(~Wait /\ MaxActive > 0 /\ a >= MaxActive)
       /\ active' = a + 1 /\ SetConn(c, Nil) /\ Goto(c, "dial") /\ UNCHANGED idle

(* The prune loop under p.mu with k iterations left and p.active = a: the *)
(* back (oldest) idle connection may be stale (its age is not modelled);  *)
(* a stale one is popped and closed with p.mu released.                   *)
Prune(c, k, a) ==
    \/ /\ PruneIdle /\ k > 0 /\ idle # <<>>
       /\ idle' = Front(idle) /\ SetConn(c, Last(idle)) /\ active' = a
       /\ budget' = [budget EXCEPT ![c] = k - 1]
       /\ Goto(c, "prune_close")
    \/ /\ Reuse(c, a)
       /\ budget' = [budget EXCEPT ![c] = 0]

(* p.mu.Lock() after the token: n := p.idle.count, then the loops.        *)
GetLocked(c) ==
    /\ pc[c] = "get"
    /\ Prune(c, Len(idle), active)
    /\ UNCHANGED <<closed, chMade, chClosed, tokens, connMap, closedConns,
                   nDials, nGets>>

\* Seeded fault: the pruned connection is closed but p.active not decremented.
PruneCloseNoDecrement(c) ==
    /\ pc[c] = "prune_close"
    /\ closedConns' = closedConns \cup {conn[c]}
    /\ Prune(c, budget[c], active)
    /\ UNCHANGED <<closed, chMade, chClosed, tokens, connMap, nDials, nGets>>

(* pc.c.Close(); p.mu.Lock(); p.active--; and the loop goes on.           *)
PruneClose(c) ==
    /\ pc[c] = "prune_close"
    /\ closedConns' = closedConns \cup {conn[c]}
    /\ Prune(c, budget[c], active - 1)
    /\ UNCHANGED <<closed, chMade, chClosed, tokens, connMap, nDials, nGets>>

(* TestOnBorrow / MaxConnLifetime with p.mu released.  A good connection  *)
(* is returned, and Get records it in poolConnMap; a bad one is closed,   *)
(* p.active decremented and the next idle connection tried.               *)
BorrowOk(c) ==
    /\ pc[c] = "borrow"
    /\ connMap' = connMap \cup {conn[c]}
    /\ Goto(c, "hold")
    /\ UNCHANGED <<closed, active, chMade, chClosed, tokens, idle, closedConns,
                   nDials, nGets, conn, budget>>

\* Seeded fault: a connection that fails the test goes back to the idle
\* list and get starts over, instead of being closed.
BorrowBadRequeue(c) ==
    /\ pc[c] = "borrow" /\ BorrowCheck
    /\ idle' = <<conn[c]>> \o idle
    /\ SetConn(c, Nil)
    /\ Goto(c, "get")
    /\ UNCHANGED <<closed, active, chMade, chClosed, tokens, connMap, closedConns,
                   nDials, nGets, budget>>

BorrowBad(c) ==
    /\ pc[c] = "borrow" /\ BorrowCheck
    /\ closedConns' = closedConns \cup {conn[c]}
    /\ Reuse(c, active - 1)
    /\ UNCHANGED <<closed, chMade, chClosed, tokens, connMap, nDials, nGets, budget>>

(* p.Dial() with p.mu released.  On success Get records the connection;  *)
(* on failure get undoes p.active++ and gives the token back.             *)
DialOk(c) ==
    /\ pc[c] = "dial"
    /\ nDials' = nDials + 1
    /\ connMap' = connMap \cup {nDials + 1}
    /\ SetConn(c, nDials + 1)
    /\ Goto(c, "hold")
    /\ UNCHANGED <<closed, active, chMade, chClosed, tokens, idle, closedConns,
                   nGets, budget>>

\* Seeded fault: a failed dial keeps the token it took.
DialFailedKeepToken(c) ==
    /\ pc[c] = "dial" /\ DialFails
    /\ active' = active - 1
    /\ Goto(c, "hold")
    /\ UNCHANGED <<closed, chMade, chClosed, tokens, idle, connMap, closedConns,
                   nDials, nGets, conn, budget>>

DialFailed(c) ==
    /\ pc[c] = "dial" /\ DialFails
    /\ active' = active - 1
    /\ ReleaseToken
    /\ Goto(c, "hold")
    /\ UNCHANGED <<closed, chMade, chClosed, idle, connMap, closedConns,
                   nDials, nGets, conn, budget>>

-----------------------------------------------------------------------------
(* After Get: a client that does not Put a nil connection is done.        *)
SkipPut(c) ==
    /\ pc[c] = "hold" /\ conn[c] = Nil /\ ~PutNil
    /\ Goto(c, "idle")
    /\ UNCHANGED <<closed, active, chMade, chClosed, tokens, idle, connMap,
                   closedConns, nDials, nGets, conn, budget>>

(* Put, under p.mu: pc := p.poolConnMap[c]; delete(p.poolConnMap, c).    *)
(* A connection that is not in the map (nil) gives a nil *poolConn.       *)
PutLookup(c) ==
    /\ pc[c] = "hold" /\ (conn[c] # Nil \/ PutNil)
    /\ connMap' = connMap \ {conn[c]}
    /\ SetConn(c, IF conn[c] \in connMap THEN conn[c] ELSE Nil)
    /\ Goto(c, "put")
    /\ UNCHANGED <<closed, active, chMade, chClosed, tokens, idle, closedConns,
                   nDials, nGets, budget>>

(* put(pc, false) under p.mu: on an open pool push the connection to the  *)
(* front (pc.t = now dereferences pc: a nil pc panics) and evict the back *)
(* one beyond MaxIdle; a connection to close is closed with p.mu released.*)
(* Otherwise the token goes back.                                          *)
PutPush(c) ==
    LET pushed == <<conn[c]>> \o idle
    IN /\ pc[c] = "put" /\ ~closed
       /\ IF conn[c] = Nil
             THEN Goto(c, "panic") /\ UNCHANGED <<idle, conn, tokens>>
          ELSE IF Len(pushed) > MaxIdle
             THEN /\ idle' = Front(pushed) /\ SetConn(c, Last(pushed))
                  /\ Goto(c, "put_close") /\ UNCHANGED tokens
          ELSE /\ idle' = pushed /\ SetConn(c, Nil) /\ ReleaseToken
               /\ Goto(c, "idle")
       /\ UNCHANGED <<closed, active, chMade, chClosed, connMap, closedConns,
                      nDials, nGets, budget>>

(* put on a closed pool: the connection (if any) is closed; no token.     *)
PutClosedPool(c) ==
    /\ pc[c] = "put" /\ closed
    /\ Goto(c, IF conn[c] # Nil THEN "put_close" ELSE "idle")
    /\ UNCHANGED <<closed, active, chMade, chClosed, tokens, idle, connMap,
                   closedConns, nDials, nGets, conn, budget>>

(* pc.c.Close(); p.mu.Lock(); p.active--; give the token back.            *)
PutClose(c) ==
    /\ pc[c] = "put_close"
    /\ closedConns' = closedConns \cup {conn[c]}
    /\ active' = active - 1
    /\ ReleaseToken
    /\ SetConn(c, Nil)
    /\ Goto(c, "idle")
    /\ UNCHANGED <<closed, chMade, chClosed, idle, connMap, nDials, nGets, budget>>

(* Close: under p.mu mark the pool closed, drop the idle list from        *)
(* p.active, close p.ch if it was made; then close the idle connections.  *)
(* A second Close returns at once and changes nothing.                    *)
Close ==
    /\ ~closed
    /\ closed' = TRUE
    /\ active' = active - Len(idle)
    /\ idle' = <<>>
    /\ chClosed' = chMade
    /\ closedConns' = closedConns \cup ToSet(idle)
    /\ UNCHANGED <<chMade, tokens, connMap, nDials, nGets, pc, conn, budget>>

(* Every client is done and no Get is left: the model stops.               *)
Finished ==
    /\ nGets = MaxGets /\ \A c \in Clients : pc[c] \in {"idle", "panic"}
    /\ UNCHANGED vars

Client(c) ==
    \/ GetCall(c) \/ TokenRecv(c) \/ GetLocked(c) \/ PruneClose(c)
    \/ BorrowOk(c) \/ BorrowBad(c) \/ DialOk(c) \/ DialFailed(c)
    \/ SkipPut(c) \/ PutLookup(c) \/ PutPush(c) \/ PutClosedPool(c) \/ PutClose(c)

Next == (\E c \in Clients : Client(c)) \/ Close \/ Finished

(* A client inside Get or Put is eventually scheduled, and a client       *)
(* holding a connection eventually puts it back (the package's usage      *)
(* contract).  Starting a Get and closing the pool are not required.      *)
Busy(c) == Client(c) /\ pc[c] \notin {"idle", "panic"}

Spec == Init /\ [][Next]_vars /\ \A c \in Clients : WF_vars(Busy(c))

-----------------------------------------------------------------------------
(* Clients whose Get counted a connection in p.active that is not idle:   *)
(* being dialled, tested, held, put back, or closed before p.active--.    *)
Counted(c) ==
    \/ pc[c] \in {"dial", "borrow", "prune_close", "put_close"}
    \/ pc[c] \in {"hold", "put"} /\ conn[c] # Nil

(* Goroutines past <-p.ch that have not given their token back.           *)
HoldsToken(c) ==
    \/ pc[c] \in {"get", "prune_close", "borrow", "dial", "put_close"}
    \/ pc[c] \in {"hold", "put"} /\ conn[c] # Nil

(* p.active equals the idle connections plus those counted by Get calls   *)
(* and Puts in progress, across every path that releases p.mu between     *)
(* closing a connection and decrementing p.active, and across Close.      *)
ActiveAccounting ==
    active = Len(idle) + Cardinality({c \in Clients : Counted(c)})

(* MaxActive bounds the open connections, with Wait (the token channel)   *)
(* and without it (ErrPoolExhausted).                                     *)
ActiveBounded ==
    MaxActive > 0 => active <= MaxActive

(* With Wait, until Close every one of the MaxActive tokens is either in  *)
(* p.ch or held by a Get/Put in progress: no path loses or duplicates one *)
(* (and a send never blocks while p.mu is held).                           *)
TokenConservation ==
    (chMade /\ ~closed) =>
        tokens + Cardinality({c \in Clients : HoldsToken(c)}) = MaxActive

(* The documented usage `conn := pool.Get(); defer pool.Put(conn)` never  *)
(* panics, although Get may return nil.                                    *)
NoPanic ==
    \A c \in Clients : pc[c] # "panic"

(* Every Get and every Put returns.                                        *)
CallReturns ==
    \A c \in Clients : pc[c] \notin {"idle", "hold", "panic"} ~> pc[c] \in {"idle", "hold"}

=============================================================================
