---------------------------- MODULE MCQuotaLease ----------------------------
EXTENDS QuotaLease, TLC

CONSTANTS u1, u2, d1, d2, r1

TwoOwners == d1 :> u1 @@ d2 :> u2
=============================================================================
