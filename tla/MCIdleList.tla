----------------------------- MODULE MCIdleList -----------------------------
EXTENDS IdleList, TLC

CONSTANTS a, b, c, d, e

MCConns == {a, b, c, d, e}

ConnSymmetry == Permutations(MCConns)

=============================================================================
