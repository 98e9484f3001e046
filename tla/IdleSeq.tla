------------------------------ MODULE IdleSeq -------------------------------
(***************************************************************************)
(* What the pool's idle list promises: a sequence of connections, most     *)
(* recently returned first, with insertion at the front and removal at     *)
(* either end.  Pool.tla uses exactly this view of p.idle.                 *)
(***************************************************************************)
EXTENDS Sequences, SequencesExt

CONSTANTS Conns

VARIABLE idle

Init == idle = <<>>

PushFront(c) ==
    /\ c \notin ToSet(idle)
    /\ idle' = <<c>> \o idle

PopFront ==
    /\ idle # <<>>
    /\ idle' = Tail(idle)

PopBack ==
    /\ idle # <<>>
    /\ idle' = Front(idle)

Next == (\E c \in Conns : PushFront(c)) \/ PopFront \/ PopBack

Spec == Init /\ [][Next]_idle

=============================================================================
