---------------------------- MODULE MC_MemberLocks ----------------------------
EXTENDS MemberLocks, TLC

CONSTANTS w1, w2, w3

MCWorkers == {w1, w2, w3}

MCSymmetry == Permutations(MCWorkers)
=============================================================================
