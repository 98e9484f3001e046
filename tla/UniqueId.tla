------------------------------ MODULE UniqueId ------------------------------
(***************************************************************************)
(* The snowflake ID generator of src/uniqueid/generator.go.                *)
(*                                                                         *)
(* Each process builds its generator with NewGeneratorFromHostName: the   *)
(* node ID is the service ID shifted over instanceIndexBits, OR the        *)
(* instance index, read from the hostname after its last '-' (0 in debug  *)
(* mode); a process whose service ID, hostname or index is out of range   *)
(* gets an error and issues no IDs.  A generator holds lastTime and step  *)
(* under g.lock.  NewID takes the lock and loops: snowflakeID reads the    *)
(* wall clock, advances lastTime/step and composes a plain ID, which is    *)
(* XTEA-encrypted; a ciphertext at or below maxReservedId is thrown away   *)
(* and the loop goes round again.  Each loop iteration is one step, so the *)
(* wall clock may move (forward, or backward as an NTP correction does)    *)
(* between two iterations of one call.                                     *)
(*                                                                         *)
(* Widths are scaled down: the 64-bit word is TimeBits + NodeBits +        *)
(* StepBits wide, and lastTime << timeShift drops the bits of lastTime     *)
(* above TimeBits exactly as the uint64 shift drops them above 42 bits.    *)
(* XTEA under a fixed key is a permutation of the word; the model takes    *)
(* an arbitrary permutation Encrypt of 0..Word-1.  A hostname is a         *)
(* sequence of one-character strings.                                      *)
(***************************************************************************)
EXTENDS Integers, FiniteSets, Sequences, SequencesExt
LOCAL INSTANCE Bitwise

CONSTANTS
    Callers,        \* goroutines calling NewID
    Processes,      \* processes, each building one generator
    ProcessOf(_),   \* the process a caller runs in
    ServiceIDOf(_), \* the serviceID a process passes to the constructor
    HostOf(_),      \* os.Hostname() of a process: a sequence of characters
    Debug,          \* the debug flag passed to NewGeneratorFromHostName
    NodeBits, InstanceIndexBits, StepBits, TimeBits,
    Encrypt(_),     \* the block cipher: a permutation of 0..Word-1
    MaxReserved,    \* maxReservedId, scaled to the word
    MaxClock,       \* the wall clock stays in 0..MaxClock (ms since epoch)
    MaxBack,        \* how many times the wall clock may be set back
    MaxIDs          \* how many NewID calls the model makes

Word     == 2 ^ (TimeBits + NodeBits + StepBits)
stepMax  == 2 ^ StepBits - 1          \* -1 ^ (-1 << stepBits)
nodeMax  == 2 ^ NodeBits - 1
timeShift == NodeBits + StepBits
nodeShift == StepBits
None     == -1

(* strconv.Atoi on a short string: an optional sign, then decimal digits; *)
(* None when it does not parse.                                           *)
DigitVal == [d \in {"0", "1", "2", "3", "4", "5", "6", "7", "8", "9"} |->
                CHOOSE v \in 0..9 : ToString(v) = d]
Atoi(str) ==
    LET signed == Len(str) > 0 /\ str[1] \in {"+", "-"}
        digits == IF signed THEN Tail(str) ELSE str
        val    == FoldLeft(LAMBDA acc, d : 10 * acc + DigitVal[d], 0, digits)
    IN IF digits # <<>> /\ ToSet(digits) \subseteq DOMAIN DigitVal
       THEN IF signed /\ str[1] = "-" THEN -val ELSE val
       ELSE None - 1

\* Seeded fault: the instance index is parsed but not range-checked.
InstanceIndexNoCheck(p) ==
    LET h   == HostOf(p)
        k   == SelectLastInSeq(h, LAMBDA ch : ch = "-")
        sfx == IF k > 1 THEN SubSeq(h, k + 1, Len(h)) ELSE h
    IN IF Debug THEN 0
       ELSE IF sfx = <<>> \/ Atoi(sfx) = None - 1 THEN None ELSE Atoi(sfx)

(* NewGeneratorFromHostName's instance index: 0 in debug mode, else the    *)
(* hostname after its last '-' (when that dash is not the first            *)
(* character), parsed and range-checked; None on any error.                *)
InstanceIndex(p) ==
    LET h    == HostOf(p)
        k    == SelectLastInSeq(h, LAMBDA ch : ch = "-")   \* LastIndex + 1
        sfx  == IF k > 1 THEN SubSeq(h, k + 1, Len(h)) ELSE h
        idx  == Atoi(sfx)
        iMax == 2 ^ InstanceIndexBits - 1
    IN IF Debug THEN 0
       ELSE IF sfx = <<>> \/ idx = None - 1 \/ idx < 0 \/ idx > iMax THEN None
       ELSE idx

(* The node ID of process p's generator, or None when                      *)
(* NewGeneratorFromHostName or NewGenerator returns an error.             *)
NodeID(p) ==
    LET sMax == 2 ^ (NodeBits - InstanceIndexBits) - 1
        sid  == ServiceIDOf(p)
        node == (sid * 2 ^ InstanceIndexBits) | InstanceIndex(p)
    IN IF sid < 0 \/ sid > sMax \/ InstanceIndex(p) = None \/ node > nodeMax
       THEN None ELSE node

(* The processes whose generator was built; the others issue no IDs.       *)
Running == {p \in Processes : NodeID(p) # None}

(* g.nodeID of each process's generator, fixed when it was built.         *)
NodeIDs == [p \in Processes |-> NodeID(p)]

VARIABLES
    clock,      \* time.Now().UnixMilli() - epoch
    nBack,      \* how often the clock has been set back
    lastTime,   \* g.lastTime, per process
    step,       \* g.step, per process
    holder,     \* the caller holding g.lock, per process, or None
    pc,         \* "idle" or "loop" (inside NewID, holding the lock)
    issued,     \* every ID NewID has returned
    nIDs,       \* how many IDs NewID has returned
    lastPlain   \* the last plain ID snowflakeID produced, per process

vars == <<clock, nBack, lastTime, step, holder, pc, issued, nIDs, lastPlain>>

TypeOK ==
    /\ clock \in 0..MaxClock
    /\ nBack \in 0..MaxBack
    /\ lastTime \in [Processes -> Nat]
    /\ step \in [Processes -> 0..stepMax]
    /\ holder \in [Processes -> Callers \cup {None}]
    /\ pc \in [Callers -> {"idle", "loop"}]
    /\ issued \subseteq 0..Word-1
    /\ nIDs \in 0..MaxIDs
    /\ lastPlain \in [Processes -> {None} \cup 0..Word-1]

(* NewGenerator: lastTime and step are zero.                               *)
Init ==
    /\ clock \in 0..MaxClock
    /\ nBack = 0
    /\ lastTime = [p \in Processes |-> 0]
    /\ step = [p \in Processes |-> 0]
    /\ holder = [p \in Processes |-> None]
    /\ pc = [c \in Callers |-> "idle"]
    /\ issued = {}
    /\ nIDs = 0
    /\ lastPlain = [p \in Processes |-> None]

(* The plain ID: (lastTime << timeShift) | (nodeID << nodeShift) | step,   *)
(* each shift taken modulo the word.  The three fields occupy disjoint     *)
(* bits (n <= nodeMax, s <= stepMax), so the ORs are sums.                 *)
PlainID(t, n, s) ==
    ((t * 2 ^ timeShift) % Word) + ((n * 2 ^ nodeShift) % Word) + s

\* Seeded fault: a repeated millisecond (now = lastTime) starts step at 0.
AdvanceStrict(p, now) ==
    IF now < lastTime[p]
    THEN IF step[p] + 1 > stepMax THEN <<lastTime[p] + 1, 0>>
                                  ELSE <<lastTime[p], step[p] + 1>>
    ELSE <<now, 0>>

\* Seeded fault: step wraps to 0 without borrowing the next millisecond.
AdvanceNoCarry(p, now) ==
    IF now <= lastTime[p]
    THEN <<lastTime[p], (step[p] + 1) % (stepMax + 1)>>
    ELSE <<now, 0>>

(* snowflakeID: the new <<lastTime, step>> of process p at wall clock now.    *)
Advance(p, now) ==
    IF now <= lastTime[p]
    THEN IF step[p] + 1 > stepMax THEN <<lastTime[p] + 1, 0>>
                                  ELSE <<lastTime[p], step[p] + 1>>
    ELSE <<now, 0>>

(* NewID: g.lock.Lock().                                                   *)
Lock(c) ==
    /\ pc[c] = "idle"
    /\ ProcessOf(c) \in Running
    /\ holder[ProcessOf(c)] = None
    /\ nIDs + Cardinality({d \in Callers : pc[d] = "loop"}) < MaxIDs
    /\ holder' = [holder EXCEPT ![ProcessOf(c)] = c]
    /\ pc' = [pc EXCEPT ![c] = "loop"]
    /\ UNCHANGED <<clock, nBack, lastTime, step, issued, nIDs, lastPlain>>

\* Seeded fault: snowflakeID on a copy of the generator (a value
\* receiver), so lastTime and step are never written back.
IterateLost(c) ==
    LET p      == ProcessOf(c)
        ts     == Advance(p, clock)
        cipher == Encrypt(PlainID(ts[1], NodeIDs[p], ts[2]))
    IN /\ pc[c] = "loop"
       /\ IF cipher > MaxReserved
          THEN /\ issued' = issued \cup {cipher}
               /\ nIDs' = nIDs + 1
               /\ holder' = [holder EXCEPT ![p] = None]
               /\ pc' = [pc EXCEPT ![c] = "idle"]
          ELSE UNCHANGED <<issued, nIDs, holder, pc>>
       /\ UNCHANGED <<clock, nBack, lastTime, step, lastPlain>>

(* One iteration of the loop of NewID: snowflakeID, encrypt, and either    *)
(* return the ciphertext (unlocking) or go round again.                    *)
Iterate(c) ==
    LET p      == ProcessOf(c)
        ts     == Advance(p, clock)
        plain  == PlainID(ts[1], NodeIDs[p], ts[2])
        cipher == Encrypt(plain)
    IN /\ pc[c] = "loop"
       /\ lastTime' = [lastTime EXCEPT ![p] = ts[1]]
       /\ step' = [step EXCEPT ![p] = ts[2]]
       /\ lastPlain' = [lastPlain EXCEPT ![p] = plain]
       /\ IF cipher > MaxReserved
          THEN /\ issued' = issued \cup {cipher}
               /\ nIDs' = nIDs + 1
               /\ holder' = [holder EXCEPT ![p] = None]
               /\ pc' = [pc EXCEPT ![c] = "idle"]
          ELSE UNCHANGED <<issued, nIDs, holder, pc>>
       /\ UNCHANGED <<clock, nBack>>

(* The wall clock advances by a millisecond.                               *)
Tick ==
    /\ clock < MaxClock
    /\ clock' = clock + 1
    /\ UNCHANGED <<nBack, lastTime, step, holder, pc, issued, nIDs, lastPlain>>

(* The wall clock is set back (time.Now is not monotonic in UnixMilli).   *)
SetBack ==
    /\ nBack < MaxBack
    /\ \E t \in 0..clock-1 : clock' = t
    /\ nBack' = nBack + 1
    /\ UNCHANGED <<lastTime, step, holder, pc, issued, nIDs, lastPlain>>

(* Every call has returned: the model stops.                               *)
Done ==
    /\ nIDs = MaxIDs
    /\ \A c \in Callers : pc[c] = "idle"
    /\ UNCHANGED vars

Next ==
    \/ \E c \in Callers : Lock(c)
    \/ \E c \in Callers : Iterate(c)
    \/ Tick
    \/ SetBack
    \/ Done

(* Every goroutine calling NewID eventually gets the lock and finishes.   *)
(* sync.Mutex hands the lock to a waiter that has waited over 1ms          *)
(* (starvation mode), so a waiting caller is eventually served: strong     *)
(* fairness on Lock.  The loop holding the lock runs on.                   *)
Spec ==
    /\ Init /\ [][Next]_vars
    /\ \A c \in Callers : SF_vars(Lock(c)) /\ WF_vars(Iterate(c))

-----------------------------------------------------------------------------
(* No two NewID calls, on any node, return the same ID: every returned     *)
(* ciphertext is new.  Breaks when snowflakeID hands out a plain ID twice  *)
(* (same lastTime and step on one node, or a lastTime that wraps).         *)
IdsUnique == Cardinality(issued) = nIDs

(* In each process the plain IDs snowflakeID produces strictly increase,      *)
(* also when the wall clock is set back and when step overflows.           *)
PlainIncreasing ==
    [][\A p \in Processes :
          lastPlain'[p] # lastPlain[p] /\ lastPlain[p] # None
              => lastPlain'[p] > lastPlain[p]]_vars

(* Every NewID call returns: the reserved-range loop ends.                 *)
NewIDReturns == \A c \in Callers : pc[c] = "loop" ~> pc[c] = "idle"

=============================================================================
