------------------------------- MODULE Ledger -------------------------------
(***************************************************************************)
(* What the wallet of a user promises: a balance that is never negative,   *)
(* and a ledger to which entries are only ever appended, each under a key  *)
(* of its own and each carrying the balance on from the one before it.     *)
(* Nothing is said of why money moves; Subscription says that, and is      *)
(* shown to implement this.                                                *)
(***************************************************************************)
EXTENDS Integers, Sequences

VARIABLES
  balance,   \* wallets.balance_kopecks
  ledger     \* ledger_entries of the user, oldest first

Init == balance = 0 /\ ledger = <<>>

\* One entry and the balance it leaves, together.
Post ==
  /\ Len(ledger') = Len(ledger) + 1
  /\ LET e == ledger'[Len(ledger')] IN
     /\ ledger' = Append(ledger, e)
     /\ \A i \in DOMAIN ledger : ledger[i].key # e.key
     /\ e.amount # 0
     /\ e.after = balance + e.amount /\ e.after >= 0
     /\ balance' = e.after

Spec == Init /\ [][Post]_<<balance, ledger>>
-----------------------------------------------------------------------------
(* The ledger explains the balance: every entry starts from the balance the *)
(* one before it left, and the last one leaves what the wallet holds.       *)
Audited ==
  /\ \A i \in 1..Len(ledger) :
        ledger[i].after =
          (IF i = 1 THEN 0 ELSE ledger[i - 1].after) + ledger[i].amount
  /\ balance = IF ledger = <<>> THEN 0 ELSE ledger[Len(ledger)].after
=============================================================================
