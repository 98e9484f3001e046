---------------------------- MODULE MCDataCache ----------------------------
(* Model-checking instance of DataCache: two concurrent Get callers.      *)
EXTENDS DataCache, TLC

\* Readers are interchangeable goroutines.
ReaderSymmetry == Permutations(Readers)
=============================================================================
