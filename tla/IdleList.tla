------------------------------ MODULE IdleList ------------------------------
(***************************************************************************)
(* The doubly-linked idle list of src/pool/pool.go (idleList, poolConn's   *)
(* next/prev pointers, pushFront, popFront, popBack), and its refinement   *)
(* of the sequence view IdleSeq that Pool.tla builds on.                   *)
(*                                                                         *)
(* A poolConn is a model value; its next and prev fields are functions     *)
(* from connections to connections or Nil.  As in Pool, a connection is    *)
(* pushed only while it is not in the list (a fresh dial or one just       *)
(* popped), and the pool pops only a non-empty list (it checks l.front /   *)
(* l.count first).                                                          *)
(***************************************************************************)
EXTENDS Integers, Sequences, SequencesExt

CONSTANTS Conns, Nil

VARIABLES front, back, count, next, prev

vars == <<front, back, count, next, prev>>

Ptr == Conns \cup {Nil}

TypeOK ==
    /\ front \in Ptr /\ back \in Ptr
    /\ count \in 0..Cardinality(Conns)
    /\ next \in [Conns -> Ptr] /\ prev \in [Conns -> Ptr]

(* The connections met following the pointers f from x, at most k of      *)
(* them (k bounds the walk should the pointers form a cycle).              *)
RECURSIVE Walk(_, _, _)
Walk(x, f, k) ==
    IF x = Nil \/ k = 0 THEN <<>> ELSE <<x>> \o Walk(f[x], f, k - 1)

Bound == Cardinality(Conns) + 1

(* The list as seen from front along next, and from back along prev.       *)
Forward == Walk(front, next, Bound)
Backward == Walk(back, prev, Bound)

Init ==
    /\ front = Nil /\ back = Nil /\ count = 0
    /\ next = [c \in Conns |-> Nil] /\ prev = [c \in Conns |-> Nil]

\* Seeded fault: the old front's prev is not pointed at the new element.
pushFrontNoPrev(pc) ==
    /\ pc \notin ToSet(Forward)
    /\ next' = [next EXCEPT ![pc] = front]
    /\ prev' = [prev EXCEPT ![pc] = Nil]
    /\ back' = IF count = 0 THEN pc ELSE back
    /\ front' = pc
    /\ count' = count + 1

(* pushFront: pc.next = l.front; pc.prev = nil; l.back = pc if the list    *)
(* was empty, else l.front.prev = pc; l.front = pc; l.count++.             *)
pushFront(pc) ==
    /\ pc \notin ToSet(Forward)
    /\ next' = [next EXCEPT ![pc] = front]
    /\ prev' = IF count = 0 THEN [prev EXCEPT ![pc] = Nil]
                            ELSE [prev EXCEPT ![pc] = Nil, ![front] = pc]
    /\ back' = IF count = 0 THEN pc ELSE back
    /\ front' = pc
    /\ count' = count + 1

(* popFront: l.count--; an emptied list loses front and back, otherwise   *)
(* pc.next.prev = nil and l.front = pc.next; pc.next, pc.prev = nil.       *)
popFront ==
    LET pc == front IN
    /\ count > 0
    /\ count' = count - 1
    /\ IF count - 1 = 0
       THEN /\ front' = Nil /\ back' = Nil
            /\ prev' = [prev EXCEPT ![pc] = Nil]
       ELSE /\ front' = next[pc] /\ back' = back
            /\ prev' = [prev EXCEPT ![next[pc]] = Nil, ![pc] = Nil]
    /\ next' = [next EXCEPT ![pc] = Nil]

\* Seeded fault: the new back keeps its next pointer to the popped element.
popBackNoUnlink ==
    LET pc == back IN
    /\ count > 0
    /\ count' = count - 1
    /\ IF count - 1 = 0
       THEN /\ front' = Nil /\ back' = Nil
       ELSE /\ back' = prev[pc] /\ front' = front
    /\ next' = [next EXCEPT ![pc] = Nil]
    /\ prev' = [prev EXCEPT ![pc] = Nil]

(* popBack: l.count--; an emptied list loses front and back, otherwise    *)
(* pc.prev.next = nil and l.back = pc.prev; pc.next, pc.prev = nil.        *)
popBack ==
    LET pc == back IN
    /\ count > 0
    /\ count' = count - 1
    /\ IF count - 1 = 0
       THEN /\ front' = Nil /\ back' = Nil
            /\ next' = [next EXCEPT ![pc] = Nil]
       ELSE /\ back' = prev[pc] /\ front' = front
            /\ next' = [next EXCEPT ![prev[pc]] = Nil, ![pc] = Nil]
    /\ prev' = [prev EXCEPT ![pc] = Nil]

Next == (\E c \in Conns : pushFront(c)) \/ popFront \/ popBack

Spec == Init /\ [][Next]_vars

-----------------------------------------------------------------------------
(* The links agree after any sequence of pushes and pops: walking back     *)
(* from l.back along prev meets exactly the connections met walking from  *)
(* l.front along next, in reverse, and l.count is their number.  popBack   *)
(* follows prev and popFront follows next, so a mismatch would make one of *)
(* them drop or resurrect a connection.                                    *)
WellLinked ==
    /\ Backward = Reverse(Forward)
    /\ Len(Forward) = count
    /\ \A c \in Conns : c \notin ToSet(Forward) => next[c] = Nil /\ prev[c] = Nil

(* The linked list implements the idle sequence: under the mapping         *)
(* idle <- the forward walk, each pushFront/popFront/popBack is the        *)
(* corresponding IdleSeq step.                                             *)
Abs == INSTANCE IdleSeq WITH idle <- Forward
ImplementsIdleSeq == Abs!Spec

=============================================================================
