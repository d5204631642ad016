----------------------------- MODULE MCNodeLease -----------------------------
EXTENDS NodeLease, TLC

CONSTANTS u1, d1, r1

OneOwner == d1 :> u1
=============================================================================
