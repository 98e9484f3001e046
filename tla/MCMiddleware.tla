---------------------------- MODULE MCMiddleware ----------------------------
(* Model-checking instance of Middleware: the client manager, one service  *)
(* and the observable, with names spelt in either case.                     *)
EXTENDS Middleware, TLC

CONSTANTS clients, obs, s1, missing

MCServiceSeq == <<s1>>
MCBases == {"metrics", "recovery", "nosuch"}

(* Entries naming a registered middleware, as a string or in a map.        *)
ValidEntries ==
    {e \in Entries : e.type \in {"string", "map"} /\ e.name # Missing
                     /\ e.name[1] \in DOMAIN RegisteredHandlers}
=============================================================================
