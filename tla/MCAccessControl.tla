------------------------- MODULE MCAccessControl --------------------------
EXTENDS AccessControl, TLC

CONSTANTS c1, c2, c3, c4, c5, c6

(* Client n may call methods starting with g, and names its grant on      *)
(* service s's method g as "s/g" as well; role R covers methods ending in  *)
(* x, and n holds it.  "h" stands for the health service.                  *)
MCExempt == {<<"h">>}
MCPolicy == {<<<<"n">>, <<"g", "*">>>>, <<<<"n">>, <<"s", "/", "g">>>>, <<<<"n">>, <<"R">>>>}
MCGrouping == {<<<<"*", "x">>, <<"R">>>>}

TlsPeer(cn, dns) == [found |-> TRUE, auth |-> "tls", certs |-> <<[cn |-> cn, dns |-> dns]>>]
InprocPeer == [found |-> TRUE, auth |-> "inproc", certs |-> <<>>]
NoCredsPeer == [found |-> TRUE, auth |-> "nil", certs |-> <<>>]

MCCalls == {c1, c2, c3, c4, c6}
MCCallsNoCreds == {c1, c2, c3, c4, c5, c6}
MCPeerOf(c) ==
    CASE c \in {c1, c2} -> TlsPeer(<<"n">>, <<>>)
      [] c = c3         -> TlsPeer(<<>>, <<<<"m">>, <<"n">>>>)
      [] c = c4         -> InprocPeer
      [] c = c5         -> NoCredsPeer
      [] c = c6         -> [found |-> TRUE, auth |-> "tls", certs |-> <<>>]
MCMethodOf(c) ==
    CASE c = c1 -> <<"/", "s", "/", "g">>
      [] c = c2 -> <<"/", "t", "/", "g">>
      [] c = c3 -> <<"/", "t", "/", "a", "x">>
      [] c = c4 -> <<"/", "s", "/", "c">>
      [] c = c5 -> <<"/", "s", "/", "g">>
      [] c = c6 -> <<"/", "h", "/", "c">>

(* Names over {a, /} and patterns over {a, /, *, ?}, up to three long.     *)
GlobNames == BoundedSeq({"a", "/"}, 3)
GlobPatterns == BoundedSeq({"a", "/", "*", "?"}, 3)
GlobOK == GlobMatchesReference(GlobNames, GlobPatterns)

=============================================================================
