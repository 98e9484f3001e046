------------------------------- MODULE MCPool -------------------------------
(* Model-checking instance of Pool: the clients come from the .cfg files. *)
EXTENDS Pool, TLC

CONSTANTS c1, c2, c3

TwoClients == {c1, c2}
ThreeClients == {c1, c2, c3}

ClientSymmetry == Permutations(ThreeClients)
=============================================================================
