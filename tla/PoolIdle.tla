------------------------------ MODULE PoolIdle ------------------------------
(***************************************************************************)
(* The pool of Pool.tla with p.idle kept as the doubly-linked idleList of  *)
(* IdleList.tla (src/pool/pool.go): every step of the pool that changes    *)
(* its sequence view of the idle connections also performs, on the list's  *)
(* front, back, count and the poolConns' next/prev pointers, the list      *)
(* operations its code calls:                                               *)
(*   get's prune loop       p.idle.popBack()                  (line 299)   *)
(*   get's reuse loop       p.idle.popFront()                 (line 311)   *)
(*   put                    p.idle.pushFront(pc), then, beyond MaxIdle,    *)
(*                          p.idle.popBack()              (lines 352-356)  *)
(*   Close                  count = 0; front, back = nil  (lines 238-241)  *)
(* Every other step leaves the list alone.  Which operation a step made is *)
(* read off how the sequence changed: a push lengthens it, a push that     *)
(* evicts keeps its length and changes it, and a pop shortens it at the    *)
(* front or at the back (for a one-element list both pops leave the same   *)
(* list state).                                                             *)
(***************************************************************************)
EXTENDS Pool

VARIABLES front, back, count, next, prev

listVars == <<front, back, count, next, prev>>
allVars == <<vars, listVars>>

(* The idle list over the pool's connections, Nil being the nil *poolConn. *)
List == INSTANCE IdleList

\* Seeded fault: the eviction after the push does not cut the new back's
\* next pointer to the evicted connection.
pushFrontEvictNoUnlink(x) ==
    LET nxt == [next EXCEPT ![x] = front]
        prv == IF count = 0 THEN [prev EXCEPT ![x] = Nil]
                            ELSE [prev EXCEPT ![x] = Nil, ![front] = x]
        evicted == IF count = 0 THEN x ELSE back
    IN /\ count' = count
       /\ IF count = 0
             THEN front' = Nil /\ back' = Nil /\ next' = [nxt EXCEPT ![evicted] = Nil]
             ELSE /\ front' = x /\ back' = prv[evicted]
                  /\ next' = [nxt EXCEPT ![evicted] = Nil]
       /\ prev' = [prv EXCEPT ![evicted] = Nil]

(* put on an open pool that ends up above MaxIdle: pushFront(pc) as in    *)
(* IdleList, then pc = l.back; popBack().  `nxt`, `prv` and `evicted`     *)
(* (the code's new pc) are the pointers and the back after the push.      *)
pushFrontEvict(x) ==
    LET nxt == [next EXCEPT ![x] = front]
        prv == IF count = 0 THEN [prev EXCEPT ![x] = Nil]
                            ELSE [prev EXCEPT ![x] = Nil, ![front] = x]
        evicted == IF count = 0 THEN x ELSE back
    IN /\ count' = count
       /\ IF count = 0
             THEN front' = Nil /\ back' = Nil /\ next' = [nxt EXCEPT ![evicted] = Nil]
             ELSE /\ front' = x /\ back' = prv[evicted]
                  /\ next' = [nxt EXCEPT ![prv[evicted]] = Nil, ![evicted] = Nil]
       /\ prev' = [prv EXCEPT ![evicted] = Nil]

(* Close detaches the whole list under p.mu and leaves the poolConns'     *)
(* links in place: its loop walks them (pc = pc.next) after the unlock to  *)
(* close each connection.                                                  *)
Detach ==
    /\ count' = 0 /\ front' = Nil /\ back' = Nil
    /\ UNCHANGED <<next, prev>>

(* The list operation of a pool step, read off its change to idle.        *)
IdleStep ==
    CASE closed' /\ ~closed                -> Detach
      [] idle' = idle                      -> UNCHANGED listVars
      [] Len(idle') = Len(idle) + 1        -> List!pushFront(Head(idle'))
      [] Len(idle') = Len(idle)            -> pushFrontEvict(Head(idle'))
      [] idle' = Tail(idle)                -> List!popFront
      [] OTHER                             -> List!popBack

ComposedInit == Init /\ List!Init

ComposedNext ==
    \/ \E c \in Clients :
          \/ GetCall(c) /\ IdleStep
          \/ TokenRecv(c) /\ IdleStep
          \/ GetLocked(c) /\ IdleStep
          \/ PruneClose(c) /\ IdleStep
          \/ BorrowOk(c) /\ IdleStep
          \/ BorrowBad(c) /\ IdleStep
          \/ DialOk(c) /\ IdleStep
          \/ DialFailed(c) /\ IdleStep
          \/ SkipPut(c) /\ IdleStep
          \/ PutLookup(c) /\ IdleStep
          \/ PutPush(c) /\ IdleStep
          \/ PutClosedPool(c) /\ IdleStep
          \/ PutClose(c) /\ IdleStep
    \/ Close /\ IdleStep
    \/ Finished /\ IdleStep

ComposedSpec ==
    /\ ComposedInit /\ [][ComposedNext]_allVars
    /\ \A c \in Clients : WF_allVars(Busy(c) /\ IdleStep)

-----------------------------------------------------------------------------
(* The pointers the code manipulates by hand always spell out the idle     *)
(* sequence the pool works with: walking next from l.front gives exactly  *)
(* p.idle, walking prev from l.back gives it reversed, and l.count is its  *)
(* length, across prunes, reuses, the push-and-evict of put and Close.     *)
(* get's prune loop bounds itself by count and follows back/prev, the     *)
(* reuse loop follows front/next, and Close's unlocked walk follows next,  *)
(* so any disagreement would drop, repeat or leak a connection.            *)
IdleListMirrors ==
    /\ List!Forward = idle
    /\ List!Backward = Reverse(idle)
    /\ count = Len(idle)

=============================================================================
