------------------------------- MODULE Errors -------------------------------
(***************************************************************************)
(* errors.Error (src/errors/error.go): an error with a message, a code     *)
(* (InvalidCode until WithCode or WithGRPCCode sets one), an optional      *)
(* cause and a detail map, and the gRPC status GRPCStatus builds from it   *)
(* and caches.  With, WithCode and WithGRPCCode reset the error's own      *)
(* cache.  An error without a code takes its status from a cause that has  *)
(* a GRPCStatus method, and caches that too.                               *)
(*                                                                         *)
(* An error is a model value of Errs and is its own message; a detail map  *)
(* is the set of its keys (values are not told apart).  A cause is an      *)
(* error of Errs or a foreign error: ForeignPlain has no GRPCStatus,       *)
(* ForeignGrpc (a status.Error) returns ForeignStatus.  A status is its   *)
(* code and its details: <<>> or <<the pb.Error detailProto built>>;       *)
(* WithDetails of a pb.Error is taken to succeed.  A pb.Error's cause is   *)
(* likewise <<>> or a one-element sequence.                                *)
(***************************************************************************)
EXTENDS Integers, Sequences, FiniteSets

CONSTANTS
    Errs,           \* the *Error values the program creates
    Keys,           \* the keys With may add
    Codes,          \* the codes WithCode / WithGRPCCode may set
    ForeignPlain,   \* a cause that is not an *Error and has no GRPCStatus
    ForeignGrpc,    \* a cause that is not an *Error and has GRPCStatus
    ForeignCode     \* the code of ForeignGrpc's status

InvalidCode == -1
Unknown == 2                            \* codes.Unknown
Nil == "nil"
Foreign == {ForeignPlain, ForeignGrpc}

VARIABLES
    alloc,      \* the errors New or Wrap has created
    code,       \* e.code
    cause,      \* e.cause: Nil, an error of Errs or a foreign error
    detail,     \* the keys of e.detail
    cache,      \* e.grpcStatus: <<>> (nil) or <<status>>
    debug,      \* grpcDebugMode
    last        \* <<>>, or <<[err, status]>> just returned by GRPCStatus

vars == <<alloc, code, cause, detail, cache, debug, last>>

(* detailProto: the error's message and detail, and in debug mode its      *)
(* cause: an *Error's own detailProto, or a foreign error's message.       *)
RECURSIVE detailProto(_)
detailProto(e) ==
    [error  |-> e,
     detail |-> detail[e],
     cause  |-> IF debug /\ cause[e] # Nil
                THEN IF cause[e] \in Errs THEN <<detailProto(cause[e])>>
                     ELSE <<[error |-> cause[e], detail |-> {}, cause |-> <<>>]>>
                ELSE <<>>]

ForeignStatus == [code |-> ForeignCode, details |-> <<>>]

(* Whether GRPCStatus delegates: no code set and a cause with GRPCStatus. *)
Delegates(e) == code[e] = InvalidCode /\ cause[e] \in Errs \cup {ForeignGrpc}

(* The status GRPCStatus returns: the cache, or the cause's status, or a  *)
(* new one with the code (Unknown when none is set), the message and      *)
(* detailProto.                                                            *)
RECURSIVE Resolve(_)
Resolve(e) ==
    IF cache[e] # <<>> THEN cache[e][1]
    ELSE IF Delegates(e)
         THEN IF cause[e] = ForeignGrpc THEN ForeignStatus ELSE Resolve(cause[e])
    ELSE [code    |-> IF code[e] = InvalidCode THEN Unknown ELSE code[e],
          details |-> <<detailProto(e)>>]

(* The errors whose grpcStatus that call assigns: e, and down the chain    *)
(* of delegating errors to the first one cached or not delegating.         *)
RECURSIVE Filled(_)
Filled(e) ==
    IF cache[e] # <<>> THEN {}
    ELSE IF Delegates(e) /\ cause[e] \in Errs THEN {e} \cup Filled(cause[e])
    ELSE {e}

TypeOK ==
    /\ alloc \subseteq Errs
    /\ code \in [Errs -> Codes \cup {InvalidCode}]
    /\ cause \in [Errs -> Errs \cup Foreign \cup {Nil}]
    /\ detail \in [Errs -> SUBSET Keys]
    /\ \A e \in Errs : Len(cache[e]) <= 1
    /\ debug \in BOOLEAN
    /\ Len(last) <= 1

Init ==
    /\ alloc = {}
    /\ code = [e \in Errs |-> InvalidCode]
    /\ cause = [e \in Errs |-> Nil]
    /\ detail = [e \in Errs |-> {}]
    /\ cache = [e \in Errs |-> <<>>]
    /\ debug = FALSE
    /\ last = <<>>

(* New(message) and Wrap(err, message): a new error without a code.       *)
New(e) ==
    /\ e \notin alloc
    /\ alloc' = alloc \cup {e}
    /\ last' = <<>>
    /\ UNCHANGED <<code, cause, detail, cache, debug>>

Wrap(e, c) ==
    /\ e \notin alloc /\ c \in alloc \cup Foreign
    /\ alloc' = alloc \cup {e}
    /\ cause' = [cause EXCEPT ![e] = c]
    /\ last' = <<>>
    /\ UNCHANGED <<code, detail, cache, debug>>

(* WithCode / WithGRPCCode: reset the cache and set the code.             *)
WithCode(e, k) ==
    /\ e \in alloc
    /\ cache' = [cache EXCEPT ![e] = <<>>]
    /\ code' = [code EXCEPT ![e] = k]
    /\ last' = <<>>
    /\ UNCHANGED <<alloc, cause, detail, debug>>

(* With(key, value): reset the cache and add the key to the detail map.   *)
With(e, key) ==
    /\ e \in alloc
    /\ cache' = [cache EXCEPT ![e] = <<>>]
    /\ detail' = [detail EXCEPT ![e] = @ \cup {key}]
    /\ last' = <<>>
    /\ UNCHANGED <<alloc, code, cause, debug>>

(* GRPCStatus: return Resolve(e); every error on the delegation chain     *)
(* that was not cached now caches it.                                      *)
GRPCStatus(e) ==
    /\ e \in alloc
    /\ cache' = [x \in Errs |-> IF x \in Filled(e) THEN <<Resolve(e)>> ELSE cache[x]]
    /\ last' = <<[err |-> e, status |-> Resolve(e)]>>
    /\ UNCHANGED <<alloc, code, cause, detail, debug>>

SetGRPCDebugMode(b) ==
    /\ debug' = b
    /\ last' = <<>>
    /\ UNCHANGED <<alloc, code, cause, detail, cache>>

Next ==
    \/ \E e \in Errs : New(e) \/ GRPCStatus(e)
    \/ \E e \in Errs, c \in Errs \cup Foreign : Wrap(e, c)
    \/ \E e \in Errs, k \in Codes : WithCode(e, k)
    \/ \E e \in Errs, key \in Keys : With(e, key)
    \/ \E b \in BOOLEAN : SetGRPCDebugMode(b)

Spec == Init /\ [][Next]_vars

-----------------------------------------------------------------------------
(* The status of an error that does not delegate reports what the error    *)
(* holds when GRPCStatus is called: its code (Unknown when none is set),   *)
(* its message and every key With has added, however the calls to With,   *)
(* WithCode and GRPCStatus on it and on its causes were interleaved; the   *)
(* cache never hands back a status its own later changes have outdated.    *)
OwnStatusCurrent ==
    last # <<>> /\ ~Delegates(last[1].err) =>
        LET e == last[1].err
            s == last[1].status
        IN /\ s.code = IF code[e] = InvalidCode THEN Unknown ELSE code[e]
           /\ s.details # <<>>
           /\ s.details[1].error = e
           /\ s.details[1].detail = detail[e]

(* GRPCStatus's comment: returning the error in a gRPC API adds its detail *)
(* (and, in debug mode, its cause) to the details of the response.         *)
WrapperDetailReported ==
    last # <<>> =>
        /\ last[1].status.details # <<>>
        /\ last[1].status.details[1].error = last[1].err
====
