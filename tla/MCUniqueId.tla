---------------------------- MODULE MCUniqueId -----------------------------
EXTENDS UniqueId, TLC

CONSTANTS c1, c2, c3, c4, P1, P2, P3

MCCallers == {c1, c2, c3, c4}
MCProcesses == {P1, P2, P3}

(* c1 and c2 share the generator of P1; c3 runs in P2 and c4 in P3.       *)
MCProcessOf(c) == CASE c \in {c1, c2} -> P1 [] c = c3 -> P2 [] c = c4 -> P3

(* Two instances of service 0 and one of service 1, in pods named after    *)
(* their index.  With one instance-index bit, "w-2" overflows it and P3    *)
(* fails to build a generator.                                             *)
MCServiceIDOf(p) == IF p = P1 THEN 1 ELSE 0
MCHostOf(p) == CASE p = P1 -> <<"w", "-", "0">>
                 [] p = P2 -> <<"w", "-", "1">>
                 [] p = P3 -> <<"w", "-", "2">>

(* The process p restarts between calls and runs the constructor again,   *)
(* losing lastTime and step; restarting takes time, so the clock moves on. *)
(* Used only by MCUniqueIdRestart.cfg.                                     *)
Restart(p) ==
    /\ holder[p] = None
    /\ clock < MaxClock
    /\ \E t \in clock+1..MaxClock : clock' = t
    /\ lastTime' = [lastTime EXCEPT ![p] = 0]
    /\ step' = [step EXCEPT ![p] = 0]
    /\ lastPlain' = [lastPlain EXCEPT ![p] = None]
    /\ UNCHANGED <<nBack, holder, pc, issued, nIDs>>

SpecRestart ==
    /\ Init /\ [][Next \/ \E p \in Running : Restart(p)]_vars
    /\ \A c \in Callers : SF_vars(Lock(c)) /\ WF_vars(Iterate(c))

(* A fixed-key block cipher on a 7-bit word: an affine permutation.        *)
MCEncrypt(x) == (5 * x + 7) % 128

=============================================================================
