--------------------------- MODULE AccessControl ---------------------------
(***************************************************************************)
(* grpcex.AccessController (src/grpcex/access_controller.go), the checker  *)
(* the access_control middleware puts in front of a service's gRPC         *)
(* handlers.  Each call runs checkAccess on its full method name and its   *)
(* peer: the reflection, channelz and health services pass; otherwise the  *)
(* method name after the last '/' is checked with the casbin enforcer      *)
(* under the peer's identity, "<anonymous>" for an in-process call and     *)
(* the certificate's common name or DNS names for a TLS call.              *)
(*                                                                         *)
(* The default casbin model allows (sub, obj) when a policy line           *)
(* p, sub, pat has g(obj, pat) or globMatch(obj, pat); g is casbin's role  *)
(* relation with globMatch as its matching function, followed up to       *)
(* MaxHierarchy links.  globMatch(key1, key2) is path.Match(key2, key1).   *)
(* Names are sequences of one-character strings.                           *)
(***************************************************************************)
EXTENDS Integers, Sequences, SequencesExt

CONSTANTS
    Exempt,         \* reflection, channelz and health service names
    Anonymous,      \* anonymousServiceName
    Policy,         \* the p lines: <<subject, object pattern>>
    Grouping,       \* the g lines: <<name pattern, role>>
    MaxHierarchy,   \* casbin's role manager follows this many links
    Calls,          \* the calls the server receives
    PeerOf(_),      \* a call's peer.FromContext
    MethodOf(_)     \* a call's info.FullMethod

Slash == "/"

(* path.Match on patterns without '[' or '\': '*' matches a run of         *)
(* non-'/' characters, '?' one non-'/' character, others themselves.       *)
RECURSIVE PathMatch(_, _)
PathMatch(pat, name) ==
    IF pat = <<>> THEN name = <<>>
    ELSE IF Head(pat) = "*"
         THEN \/ PathMatch(Tail(pat), name)
              \/ name # <<>> /\ Head(name) # Slash /\ PathMatch(pat, Tail(name))
    ELSE /\ name # <<>>
         /\ IF Head(pat) = "?" THEN Head(name) # Slash ELSE Head(name) = Head(pat)
         /\ PathMatch(Tail(pat), Tail(name))

globMatch(key1, key2) == PathMatch(key2, key1)

(* g(name, role): name is role, or a g line whose pattern matches name    *)
(* leads to role within d links.                                           *)
RECURSIVE Linked(_, _, _)
Linked(name, role, d) ==
    \/ name = role
    \/ d > 0 /\ \E g \in Grouping : globMatch(name, g[1]) /\ Linked(g[2], role, d - 1)

(* enforcer.Enforce under the default model: some(where p.eft == allow).  *)
Enforce(sub, obj) ==
    \E p \in Policy : p[1] = sub /\ (Linked(obj, p[2], MaxHierarchy) \/ globMatch(obj, p[2]))

(* The method name checkAccess enforces: after the last '/', if any.      *)
MethodName(m) ==
    LET k == SelectLastInSeq(m, LAMBDA ch : ch = Slash)   \* LastIndex + 1
    IN IF k > 0 THEN SubSeq(m, k + 1, Len(m)) ELSE m

IsExempt(m) == \E s \in Exempt : IsPrefix(<<Slash>> \o s \o <<Slash>>, m)

(* A peer: whether the context has one, its AuthInfo ("nil" when the      *)
(* server has no transport credentials), and for TLS the certificate's    *)
(* PeerCertificates, each a common name and a sequence of DNS names.     *)

(* checkAccess: "ok" or the error it returns; "panic" when AuthType is     *)
(* called on a nil AuthInfo.                                               *)
CheckAccess(peer, m) ==
    LET name == MethodName(m)
        cert == Head(peer.certs)
        ids  == (IF cert.cn # <<>> THEN <<cert.cn>> ELSE <<>>) \o cert.dns
    IN CASE IsExempt(m)                    -> "ok"
         [] ~peer.found                    -> "peer_not_found_in_context"
         [] peer.auth = "nil"              -> "panic"
         [] peer.auth = "inproc"           ->
               IF Enforce(Anonymous, name) THEN "ok" ELSE "access_denied"
         [] peer.auth = "tls" /\ peer.certs = <<>> -> "peer_cert_not_found"
         [] peer.auth = "tls"              ->
               IF \E i \in 1..Len(ids) : Enforce(ids[i], name) THEN "ok" ELSE "access_denied"
         [] OTHER                          -> "auth_type_not_supported"

VARIABLES
    result      \* per call: "pending", "ok" (the handler runs) or the error

vars == <<result>>

TypeOK == result \in [Calls -> STRING]

Init == result = [c \in Calls |-> "pending"]

(* UnaryServerInterceptor / StreamServerInterceptor: check the call, then  *)
(* run the handler or return the error.                                    *)
Intercept(c) ==
    /\ result[c] = "pending"
    /\ result' = [result EXCEPT ![c] = CheckAccess(PeerOf(c), MethodOf(c))]

Done == (\A c \in Calls : result[c] # "pending") /\ UNCHANGED vars

Next == (\E c \in Calls : Intercept(c)) \/ Done

Spec == Init /\ [][Next]_vars /\ WF_vars(\E c \in Calls : Intercept(c))

-----------------------------------------------------------------------------
(* Reference: name matches pat when name splits into one piece per         *)
(* pattern character, a '*' piece being any run without '/', a '?' piece   *)
(* one character other than '/', any other piece that character.           *)
RefMatch(pat, name) ==
    \E cut \in [0..Len(pat) -> 0..Len(name)] :
        /\ cut[0] = 0 /\ cut[Len(pat)] = Len(name)
        /\ \A i \in 1..Len(pat) :
              LET piece == SubSeq(name, cut[i - 1] + 1, cut[i])
              IN /\ cut[i - 1] <= cut[i]
                 /\ CASE pat[i] = "*" -> \A j \in 1..Len(piece) : piece[j] # Slash
                      [] pat[i] = "?" -> Len(piece) = 1 /\ piece[1] # Slash
                      [] OTHER        -> piece = <<pat[i]>>

(* globMatch agrees with the reference on every name and pattern of the    *)
(* bounded alphabets: the matcher casbin calls for both the p objects and  *)
(* the g patterns never lets '*' cross a '/'.                              *)
GlobMatchesReference(Names, Patterns) ==
    \A name \in Names, pat \in Patterns : globMatch(name, pat) = RefMatch(pat, name)

(* The last segment of a path: its longest suffix without '/'.             *)
LastSegment(m) ==
    CHOOSE t \in {SubSeq(m, i, Len(m)) : i \in 1..Len(m) + 1} :
        /\ \A j \in 1..Len(t) : t[j] # Slash
        /\ Len(t) = Len(m) \/ m[Len(m) - Len(t)] = Slash

(* The decision for a call that is not exempt depends only on its peer and *)
(* the last segment of its full method name: a policy cannot tell two     *)
(* services that expose the same method name apart, and an object pattern *)
(* that names a service ("Svc/Method") grants nothing.                     *)
DecidedByMethodName ==
    \A a, b \in Calls :
        /\ result[a] # "pending" /\ result[b] # "pending"
        /\ PeerOf(a) = PeerOf(b)
        /\ ~IsExempt(MethodOf(a)) /\ ~IsExempt(MethodOf(b))
        /\ LastSegment(MethodOf(a)) = LastSegment(MethodOf(b))
        => result[a] = result[b]

(* No call makes checkAccess panic: every peer is answered with a result   *)
(* or an error, as each branch of its switch intends.                      *)
CheckNeverPanics == \A c \in Calls : result[c] # "panic"

=============================================================================
