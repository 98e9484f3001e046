------------------------------ MODULE MCHealth ------------------------------
(* Model-checking instance of Health: checks and Watch streams are model   *)
(* values given in the .cfg files.                                         *)
EXTENDS Health, TLC

CONSTANTS k1, k2, w1, w2

OneCheck == {k1}
TwoChecks == {k1, k2}
OneWatcher == {w1}
TwoWatchers == {w1, w2}
=============================================================================
