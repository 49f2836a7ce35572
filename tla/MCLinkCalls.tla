---------------------------- MODULE MCLinkCalls -----------------------------
EXTENDS LinkCalls, TLC

CallerSymmetry == Permutations(Callers)
=============================================================================
