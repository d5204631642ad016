----------------------------- MODULE MCAccounts -----------------------------
EXTENDS Accounts, TLC

CONSTANTS a, b, t1, q1, q2

Holders == t1 :> a
TwoRoles == {"owner", "support"}
Symmetry == Permutations({q1, q2})
=============================================================================
