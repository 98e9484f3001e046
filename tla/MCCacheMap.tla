----------------------------- MODULE MCCacheMap -----------------------------
(* Model-checking instance of CacheMap: callers, keys and the calls they  *)
(* make come from the .cfg files.                                          *)
EXTENDS CacheMap, TLC

CONSTANTS c1, c2, k1, k2

MCCallers == {c1, c2}
MCKeys == {k1, k2}
OneKey == {k1}
GetOnly == {"get"}
BothOps == {"get", "getmany"}

CallerSymmetry == Permutations(MCCallers)
=============================================================================
