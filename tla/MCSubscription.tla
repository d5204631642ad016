--------------------------- MODULE MCSubscription ---------------------------
EXTENDS Subscription, TLC

CONSTANT r1

TwoPlans == {"LITE", "PLUS"}
Prices == "LITE" :> 2 @@ "PLUS" :> 3
Withdrawals == {-1}
=============================================================================
