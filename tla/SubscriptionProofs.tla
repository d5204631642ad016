------------------------- MODULE SubscriptionProofs -------------------------
(***************************************************************************)
(* The wallet of a subscription implements Ledger, whose entries explain   *)
(* its balance; charges buy time; and the node never admits a device       *)
(* beyond the period that was paid for.                                    *)
(***************************************************************************)
EXTENDS Subscription, TLAPS

\* A request that has read the wallet holds its lock, and has read what is there.
ReadersHoldTheLock ==
  /\ arg = [r \in Requests |-> arg[r]]
  /\ \A r \in Requests :
       /\ op[r] \in {"change", "adjust"} => lock = r /\ seen[r] = balance
       /\ op[r] = "change" => arg[r] \in Plans
       /\ op[r] = "adjust" => arg[r] \in Adjustments

\* A trial is short, and what has been found ended has ended.
EndsAreDated ==
  /\ status = "pending_trial" => end = 0
  /\ status \in {"grace", "expired", "suspended"} => end <= now
  /\ plan = "TRIAL" => end <= now + TrialPeriod

\* The key that is made next is new: made keys count the entries, and keys of
\* renewals name ends that have passed.
KeysAreOld ==
  \A i \in 1..Len(ledger), n \in Nat :
    /\ ledger[i].key \in {<<"adjust", n>>, <<"plan", n>>} => n < Len(ledger)
    /\ ledger[i].key = <<"renew", n>> => n < end

\* No command on its way promises more than the end of the period.
CommandsAreOld ==
  \A i \in 1..Len(cmds) : cmds[i].type = "device.upsert" => cmds[i].time <= end

Inv ==
  /\ TypeOK /\ ReadersHoldTheLock /\ EndsAreDated /\ KeysAreOld
  /\ CommandsAreOld /\ AccessIsPaidFor

\* What one change of the wallet is: an entry of amount a under the new key k.
Posting(a, k) ==
  /\ a \in Int /\ a # 0 /\ balance + a >= 0
  /\ k \in KeyKinds \X Nat /\ ~Used(k)
  /\ \A n \in Nat : /\ k \in {<<"adjust", n>>, <<"plan", n>>} => n <= Len(ledger)
                    /\ k = <<"renew", n>> => n < end'
  /\ balance' = balance + a
  /\ ledger' = Append(ledger, Entry(a, balance', k))

\* ProrateUpgrade never asks for a negative amount.
LEMMA CostsAreCounted ==
  ASSUME TypeOK, NEW r \in Requests, op[r] = "change", arg[r] \in Plans
  PROVE  Cost(r) \in Nat
<1>1. Price[arg[r]] \in Nat /\ (plan # "TRIAL" => Price[plan] \in Nat)
  BY PlansArePriced DEF TypeOK
<1>2. CASE Buying(r) /\ Prorated
  <2> DEFINE left == end - now
             remaining == IF left > Period THEN Period ELSE left
             cost == ((Price[arg[r]] - Price[plan]) * remaining) \div Period
  <2>1. remaining \in Int /\ Period \in Nat \ {0}
    BY TimesAreCounted DEF TypeOK
  <2>2. (Price[arg[r]] - Price[plan]) \in Int
    BY <1>1, <1>2 DEF Prorated
  <2>3. (Price[arg[r]] - Price[plan]) * remaining \in Int
    BY <2>1, <2>2
  <2>4. cost \in Int
    <3> DEFINE num == (Price[arg[r]] - Price[plan]) * remaining
    <3> HIDE DEF num
    <3>1. num \div Period \in Int
      BY <2>1, <2>3 DEF num
    <3> QED  BY <3>1 DEF num
  <2>5. ProrateUpgrade(plan, arg[r]) = IF end <= now THEN Price[arg[r]] ELSE IF cost < 0 THEN 0 ELSE cost
    BY DEF ProrateUpgrade
  <2> HIDE DEF cost
  <2> QED  BY <1>1, <1>2, <2>4, <2>5 DEF Cost
<1> QED  BY <1>1, <1>2 DEF Cost

\* A key that counts the entries is new, and so is the key of the next renewal.
LEMMA FreshKeys ==
  ASSUME Inv
  PROVE  /\ \A kind \in {"adjust", "plan"} : ~Used(Fresh(kind))
         /\ ~Used(RenewalKey)
<1>1. DOMAIN ledger = 1..Len(ledger) /\ Len(ledger) \in Nat /\ end \in Nat
  BY DEF Inv, TypeOK
<1>2. KeysAreOld
  BY DEF Inv
<1>3. ASSUME NEW kind \in {"adjust", "plan"}, NEW i \in 1..Len(ledger), ledger[i].key = <<kind, Len(ledger)>>
      PROVE FALSE
  <2>1. ledger[i].key \in {<<"adjust", Len(ledger)>>, <<"plan", Len(ledger)>>} => Len(ledger) < Len(ledger)
    BY <1>1, <1>2 DEF KeysAreOld
  <2>2. ledger[i].key \in {<<"adjust", Len(ledger)>>, <<"plan", Len(ledger)>>}
    BY <1>3
  <2> QED  BY <2>1, <2>2, <1>1
<1>4. ASSUME NEW i \in 1..Len(ledger), ledger[i].key = <<"renew", end>>
      PROVE FALSE
  <2>1. end < end
    BY <1>1, <1>2, <1>4 DEF KeysAreOld
  <2> QED  BY <2>1, <1>1
<1> QED  BY <1>1, <1>3, <1>4 DEF Used, Fresh, RenewalKey

\* Each step that writes the wallet posts one entry; the others leave it.
LEMMA MoneyStep ==
  ASSUME Inv, [Next]_vars
  PROVE  UNCHANGED <<balance, ledger>> \/ \E a, k : Posting(a, k)
<1> USE DEF Inv, moneyVars
<1>0. end \in Nat /\ balance \in Nat /\ Len(ledger) \in Nat /\ Period \in Nat \ {0}
  BY TimesAreCounted DEF TypeOK
<1>1. ASSUME NEW r \in Requests, NEW kind \in {"adjust", "plan"}, NEW a \in Int,
             Write(r, a, kind), seen[r] = balance, a # 0, balance + a >= 0
      PROVE  \E b, k : Posting(b, k)
  <2>1. /\ Fresh(kind) \in KeyKinds \X Nat /\ ~Used(Fresh(kind))
        /\ \A n \in Nat : /\ Fresh(kind) \in {<<"adjust", n>>, <<"plan", n>>} => n <= Len(ledger)
                          /\ Fresh(kind) = <<"renew", n>> => n < end'
    <3>1. Fresh(kind) \in KeyKinds \X Nat
      BY <1>0 DEF Fresh, KeyKinds
    <3>2. ~Used(Fresh(kind))
      BY FreshKeys
    <3>3. ASSUME NEW n \in Nat, Fresh(kind) \in {<<"adjust", n>>, <<"plan", n>>} PROVE n <= Len(ledger)
      BY <1>0, <3>3 DEF Fresh
    <3>4. ASSUME NEW n \in Nat, Fresh(kind) = <<"renew", n>> PROVE n < end'
      BY <3>4 DEF Fresh
    <3> QED  BY <3>1, <3>2, <3>3, <3>4
  <2>2. balance' = balance + a /\ ledger' = Append(ledger, Entry(a, balance', Fresh(kind)))
    BY <1>1 DEF Write
  <2>3. Posting(a, Fresh(kind))
    BY <1>1, <2>1, <2>2 DEF Posting
  <2> QED  BY <2>3
<1>2. ASSUME NEW r \in Requests, AdjustWallet(r) PROVE \E a, k : Posting(a, k)
  <2>1. arg[r] \in Int /\ arg[r] # 0 /\ seen[r] = balance
    BY <1>2, AmountsAreCounted DEF AdjustWallet, ReadersHoldTheLock
  <2> QED  BY <1>1, <1>2, <2>1 DEF AdjustWallet
<1>3. ASSUME NEW r \in Requests, RenewPlan(r) \/ BuyPlan(r) PROVE \E a, k : Posting(a, k)
  <2>1. op[r] = "change" /\ arg[r] \in Plans /\ seen[r] = balance
    BY <1>3 DEF RenewPlan, BuyPlan, Renewing, Buying, ReadersHoldTheLock
  <2>2. Cost(r) \in Nat
    BY <2>1, CostsAreCounted
  <2>3. Cost(r) # 0
    BY <1>3, <2>1, PlansArePriced DEF RenewPlan, BuyPlan, Cost, Buying
  <2>4. seen[r] >= Cost(r) /\ Write(r, -Cost(r), "plan")
    BY <1>3 DEF RenewPlan, BuyPlan
  <2>5. -Cost(r) \in Int /\ -Cost(r) # 0 /\ balance + (-Cost(r)) >= 0
    BY <1>0, <2>1, <2>2, <2>3, <2>4
  <2> QED  BY <1>1, <2>1, <2>4, <2>5
<1>4. ASSUME NEW a \in Credits, NEW n \in Keys, CreditWallet(a, <<"credit", n>>)
      PROVE \E b, k : Posting(b, k)
  <2>1. a \in Nat \ {0} /\ <<"credit", n>> \in KeyKinds \X Nat
    BY AmountsAreCounted DEF KeyKinds
  <2>2. Posting(a, <<"credit", n>>)
    BY <1>0, <1>4, <2>1 DEF CreditWallet, Posting
  <2> QED  BY <2>2
<1>5. CASE LifecycleRenew
  <2>1. CASE ~Due
    BY <1>5, <2>1 DEF LifecycleRenew
  <2>2. CASE Due
    <3> DEFINE c == PriceOf(Target)
    <3>1. c \in Nat \ {0} /\ balance >= c
      BY <2>2, PlansArePriced DEF Due, PriceOf, Target, TypeOK
    <3>2. ~Used(RenewalKey)
      BY FreshKeys
    <3>3. /\ balance' = balance - c /\ end' = end + Period
          /\ ledger' = Append(ledger, Entry(-c, balance', RenewalKey))
      BY <1>5, <2>2, <3>2 DEF LifecycleRenew
    <3> HIDE DEF c
    <3>4. RenewalKey \in KeyKinds \X Nat
      BY <1>0 DEF RenewalKey, KeyKinds
    <3>5. ASSUME NEW n \in Nat
          PROVE /\ RenewalKey \in {<<"adjust", n>>, <<"plan", n>>} => n <= Len(ledger)
                /\ RenewalKey = <<"renew", n>> => n < end'
      BY <1>0, <3>3 DEF RenewalKey
    <3>6. /\ -c \in Int /\ -c # 0 /\ balance + (-c) >= 0 /\ balance' = balance + (-c)
      BY <1>0, <3>1, <3>3
    <3>7. Posting(-c, RenewalKey)
      BY <3>2, <3>3, <3>4, <3>5, <3>6 DEF Posting
    <3> QED  BY <3>7
  <2> QED  BY <2>1, <2>2
<1>6. ASSUME NEW r \in Requests, Request(r), ~AdjustWallet(r), ~RenewPlan(r), ~BuyPlan(r)
      PROVE UNCHANGED <<balance, ledger>>
  BY <1>6 DEF Request, Read, Downgrade, Refuse, ProvisionUserDevices
<1>7. CASE LifecycleBegin \/ LifecycleSweep
  BY <1>7 DEF LifecycleBegin, LifecycleSweep
<1>8. CASE StartTrial \/ Fetch \/ RenewQuotaLeases \/ Resync \/ LeaseExpires \/ Spend
           \/ Deliver \/ Connect \/ Disconnect \/ Tick
  BY <1>8 DEF StartTrial, Fetch, RenewQuotaLeases, Resync, LeaseExpires, Spend, Deliver,
     Connect, Disconnect, Tick
<1>9. CASE UNCHANGED vars
  BY <1>9 DEF vars
<1> QED  BY <1>2, <1>3, <1>4, <1>5, <1>6, <1>7, <1>8, <1>9 DEF Next, Lifecycle

\* No operation brings the end of the period forward.
LEMMA EndStep ==
  ASSUME Inv, [Next]_vars
  PROVE  end' \in Nat /\ end' >= end
<1>0. now \in Nat /\ end \in Nat /\ EndsAreDated /\ Period \in Nat \ {0} /\ TrialPeriod \in Nat
      /\ TrialPeriod <= Period
  BY TimesAreCounted DEF Inv, TypeOK
<1>1. ASSUME NEW r \in Requests, RenewPlan(r) PROVE end' \in Nat /\ end' >= end
  BY <1>0, <1>1 DEF RenewPlan, Later
<1>2. ASSUME NEW r \in Requests, BuyPlan(r) PROVE end' \in Nat /\ end' >= end
  <2>1. CASE Prorated
    BY <1>0, <1>2, <2>1 DEF BuyPlan
  <2>2. CASE ~Prorated
    <3>1. end' = now + Period
      BY <1>2, <2>2 DEF BuyPlan
    <3>2. end = 0 \/ end <= now \/ end <= now + TrialPeriod
      BY <1>0, <2>2 DEF Prorated, EndsAreDated, Inv, TypeOK
    <3> QED  BY <1>0, <3>1, <3>2
  <2> QED  BY <2>1, <2>2
<1>3. CASE LifecycleRenew
  <2>1. end' = end \/ end' = end + Period
    BY <1>3 DEF LifecycleRenew, subVars
  <2> QED  BY <1>0, <2>1
<1>4. CASE StartTrial
  BY <1>0, <1>4 DEF StartTrial, EndsAreDated
<1>5. ASSUME NEW r \in Requests, Request(r), ~RenewPlan(r), ~BuyPlan(r) PROVE end' = end
  BY <1>5 DEF Request, Read, AdjustWallet, Downgrade, Refuse, ProvisionUserDevices, subVars
<1>6. ASSUME LifecycleBegin \/ LifecycleSweep \/ \E a \in Credits, k \in Keys : CreditWallet(a, <<"credit", k>>)
      PROVE end' = end
  BY <1>6 DEF LifecycleBegin, LifecycleSweep, CreditWallet, subVars
<1>7. ASSUME Fetch \/ RenewQuotaLeases \/ Resync \/ LeaseExpires \/ Spend
             \/ Deliver \/ Connect \/ Disconnect \/ Tick
      PROVE end' = end
  BY <1>7 DEF Fetch, RenewQuotaLeases, Resync, LeaseExpires, Spend, Deliver,
     Connect, Disconnect, Tick, subVars
<1>8. ASSUME UNCHANGED vars PROVE end' = end
  BY <1>8 DEF vars, subVars
<1>9. end' = end => end' \in Nat /\ end' >= end
  BY <1>0
<1> QED  BY <1>1, <1>2, <1>3, <1>4, <1>5, <1>6, <1>7, <1>8, <1>9 DEF Next, Lifecycle

\* What is known of an entry that is posted.
LEMMA PostedEntry ==
  ASSUME TypeOK, NEW a, NEW k, Posting(a, k)
  PROVE  /\ balance' \in Nat
         /\ ledger' \in Seq([amount : Int, after : Nat, key : KeyKinds \X Nat])
         /\ Len(ledger') = Len(ledger) + 1 /\ Len(ledger) \in Nat
         /\ ledger'[Len(ledger')] = Entry(a, balance', k)
         /\ \A i \in 1..Len(ledger) : ledger'[i] = ledger[i]
<1> DEFINE e == Entry(a, balance', k)
<1>1. balance' \in Nat
  BY DEF Posting, TypeOK
<1>2. e \in [amount : Int, after : Nat, key : KeyKinds \X Nat]
  BY <1>1 DEF Posting, Entry
<1>3. ledger' = Append(ledger, e) /\ ledger \in Seq([amount : Int, after : Nat, key : KeyKinds \X Nat])
  BY DEF Posting, TypeOK
<1> HIDE DEF e
<1>4. ledger' \in Seq([amount : Int, after : Nat, key : KeyKinds \X Nat])
      /\ Len(ledger') = Len(ledger) + 1 /\ Len(ledger) \in Nat
      /\ ledger'[Len(ledger')] = e /\ \A i \in 1..Len(ledger) : ledger'[i] = ledger[i]
  BY <1>2, <1>3
<1> QED  BY <1>1, <1>4 DEF e

\* An entry, or none, keeps every key that is made next new.
LEMMA KeysStep ==
  ASSUME Inv, [Next]_vars
  PROVE  KeysAreOld'
<1>0. KeysAreOld /\ TypeOK
  BY DEF Inv
<1>1. end \in Nat /\ end' \in Nat /\ end' >= end
  BY <1>0, EndStep DEF TypeOK
<1>2. CASE UNCHANGED <<balance, ledger>>
  BY <1>0, <1>1, <1>2 DEF KeysAreOld
<1>3. ASSUME NEW a, NEW k, Posting(a, k) PROVE KeysAreOld'
  <2>1. Len(ledger') = Len(ledger) + 1 /\ Len(ledger) \in Nat
        /\ ledger'[Len(ledger) + 1].key = k
        /\ \A i \in 1..Len(ledger) : ledger'[i] = ledger[i]
    <3>1. /\ Len(ledger') = Len(ledger) + 1 /\ Len(ledger) \in Nat
          /\ ledger'[Len(ledger')] = Entry(a, balance', k)
          /\ \A i \in 1..Len(ledger) : ledger'[i] = ledger[i]
      BY <1>0, <1>3, PostedEntry
    <3>2. Entry(a, balance', k).key = k
      BY DEF Entry
    <3> QED  BY <3>1, <3>2
  <2>2. \A n \in Nat : /\ k \in {<<"adjust", n>>, <<"plan", n>>} => n <= Len(ledger)
                       /\ k = <<"renew", n>> => n < end'
    BY <1>3 DEF Posting
  <2>3. ASSUME NEW i \in 1..Len(ledger'), NEW n \in Nat
        PROVE /\ ledger'[i].key \in {<<"adjust", n>>, <<"plan", n>>} => n < Len(ledger')
              /\ ledger'[i].key = <<"renew", n>> => n < end'
    <3>1. CASE i = Len(ledger) + 1
      <4>1. ledger'[i].key = k
        BY <2>1, <3>1
      <4> QED  BY <4>1, <2>1, <2>2
    <3>2. CASE i \in 1..Len(ledger)
      <4>1. ledger'[i] = ledger[i]
        BY <2>1, <3>2
      <4>2. /\ ledger[i].key \in {<<"adjust", n>>, <<"plan", n>>} => n < Len(ledger)
            /\ ledger[i].key = <<"renew", n>> => n < end
        BY <1>0, <3>2 DEF KeysAreOld
      <4>3. n < Len(ledger) => n < Len(ledger')
        BY <2>1
      <4>4. n < end => n < end'
        BY <1>1
      <4> QED  BY <4>1, <4>2, <4>3, <4>4
    <3> QED  BY <3>1, <3>2, <2>1
  <2> QED  BY <2>3 DEF KeysAreOld
<1> QED  BY <1>2, <1>3, MoneyStep

\* Whoever reads takes the lock; whoever writes the wallet holds it or finds it free.
LEMMA ReadersStep ==
  ASSUME Inv, [Next]_vars
  PROVE  ReadersHoldTheLock'
<1> USE DEF ReadersHoldTheLock
<1>0. /\ ReadersHoldTheLock /\ op \in [Requests -> {"idle", "change", "adjust", "provision"}]
      /\ seen \in [Requests -> Nat]
  BY DEF Inv, TypeOK
<1>1. ASSUME NEW r \in Requests, NEW p \in Plans, Read(r, "change", p) PROVE ReadersHoldTheLock'
  BY <1>0, <1>1, ActorsAreDistinct DEF Read, moneyVars
<1>2. ASSUME NEW r \in Requests, NEW a \in Adjustments, Read(r, "adjust", a) PROVE ReadersHoldTheLock'
  BY <1>0, <1>2, ActorsAreDistinct DEF Read, moneyVars
<1>3. ASSUME NEW r \in Requests, op[r] \in {"change", "adjust"}, NEW o \in {"idle", "provision"}, Leave(r, o)
      PROVE ReadersHoldTheLock'
  BY <1>0, <1>3 DEF Leave
<1>4. ASSUME NEW r \in Requests, AdjustWallet(r) \/ RenewPlan(r) \/ Downgrade(r) \/ BuyPlan(r) \/ Refuse(r)
      PROVE ReadersHoldTheLock'
  <2>1. op[r] \in {"change", "adjust"} /\ (Leave(r, "idle") \/ Leave(r, "provision"))
    BY <1>4 DEF AdjustWallet, RenewPlan, Downgrade, BuyPlan, Refuse, Renewing, Downgrading, Buying
  <2> QED  BY <1>3, <2>1
<1>5. ASSUME NEW r \in Requests, ProvisionUserDevices(r) PROVE ReadersHoldTheLock'
  BY <1>0, <1>5 DEF ProvisionUserDevices, moneyVars
<1>6. ASSUME lock \in {None, Worker}, UNCHANGED reqVars PROVE ReadersHoldTheLock'
  BY <1>0, <1>6, ActorsAreDistinct DEF reqVars
<1>7. ASSUME NEW a \in Credits, NEW k \in Keys, CreditWallet(a, <<"credit", k>>) PROVE ReadersHoldTheLock'
  BY <1>6, <1>7 DEF CreditWallet
<1>8. ASSUME UNCHANGED <<lock, moneyVars, reqVars>> PROVE ReadersHoldTheLock'
  BY <1>0, <1>8 DEF moneyVars, reqVars
<1>9. CASE LifecycleRenew
  <2>1. CASE Due
    BY <1>6, <1>9, <2>1 DEF LifecycleRenew
  <2>2. CASE ~Due
    BY <1>8, <1>9, <2>2 DEF LifecycleRenew
  <2> QED  BY <2>1, <2>2
<1>10. CASE LifecycleSweep
  BY <1>6, <1>10 DEF LifecycleSweep
<1>11. ASSUME LifecycleBegin \/ StartTrial \/ Fetch \/ RenewQuotaLeases \/ Resync \/ LeaseExpires
              \/ Spend \/ Deliver \/ Connect \/ Disconnect \/ Tick
       PROVE UNCHANGED <<lock, moneyVars, reqVars>>
  BY <1>11 DEF LifecycleBegin, StartTrial, Fetch, RenewQuotaLeases, Resync, LeaseExpires, Spend,
     Deliver, Connect, Disconnect, Tick
<1>12. CASE UNCHANGED vars
  BY <1>8, <1>12 DEF vars
<1> QED
  BY <1>1, <1>2, <1>4, <1>5, <1>7, <1>8, <1>9, <1>10, <1>11, <1>12 DEF Next, Request, Lifecycle

\* A status is set to ended only when the period is over.
LEMMA DatesStep ==
  ASSUME Inv, [Next]_vars
  PROVE  EndsAreDated'
<1> USE DEF EndsAreDated
<1>0. /\ EndsAreDated /\ now \in Nat /\ end \in Nat /\ plan \in Plans \cup {"TRIAL"}
      /\ "TRIAL" \notin Plans /\ TrialPeriod \in Nat /\ Period \in Nat
      /\ pending \in Plans \cup {None} /\ None \notin Plans
  BY PlansArePriced, TimesAreCounted, ActorsAreDistinct DEF Inv, TypeOK
<1>1. ASSUME UNCHANGED <<plan, status, end>>, now' = now \/ now' = now + 1 PROVE EndsAreDated'
  BY <1>0, <1>1
<1>2. ASSUME NEW r \in Requests, RenewPlan(r) PROVE EndsAreDated'
  <2>1. arg[r] \in Plans /\ arg[r] = plan /\ status = "active"
    BY <1>2 DEF RenewPlan, Renewing, Inv, ReadersHoldTheLock
  <2> QED  BY <1>0, <1>2, <2>1 DEF RenewPlan
<1>3. ASSUME NEW r \in Requests, BuyPlan(r) PROVE EndsAreDated'
  <2>1. arg[r] \in Plans
    BY <1>3 DEF BuyPlan, Buying, Inv, ReadersHoldTheLock
  <2> QED  BY <1>0, <1>3, <2>1 DEF BuyPlan
<1>4. CASE LifecycleRenew
  <2>1. CASE Due
    <3>1. Target \in Plans
      BY <1>0, <2>1 DEF Due, Target
    <3> QED  BY <1>0, <1>4, <2>1, <3>1 DEF LifecycleRenew
  <2>2. CASE ~Due
    BY <1>1, <1>4, <2>2 DEF LifecycleRenew, subVars
  <2> QED  BY <2>1, <2>2
<1>5. CASE LifecycleSweep
  BY <1>0, <1>5 DEF LifecycleSweep
<1>6. CASE StartTrial
  BY <1>0, <1>6 DEF StartTrial
<1>7. ASSUME NEW r \in Requests, Request(r), ~RenewPlan(r), ~BuyPlan(r)
      PROVE UNCHANGED <<plan, status, end, now>>
  BY <1>7 DEF Request, Read, AdjustWallet, Downgrade, Refuse, ProvisionUserDevices, subVars
<1>8. ASSUME LifecycleBegin \/ \E a \in Credits, k \in Keys : CreditWallet(a, <<"credit", k>>)
      PROVE UNCHANGED <<plan, status, end, now>>
  BY <1>8 DEF LifecycleBegin, CreditWallet, subVars
<1>9. ASSUME Fetch \/ RenewQuotaLeases \/ Resync \/ LeaseExpires \/ Spend \/ Deliver \/ Connect \/ Disconnect
      PROVE UNCHANGED <<plan, status, end, now>>
  BY <1>9 DEF Fetch, RenewQuotaLeases, Resync, LeaseExpires, Spend, Deliver, Connect, Disconnect, subVars
<1>10. CASE Tick
  BY <1>1, <1>10 DEF Tick, subVars
<1>11. CASE UNCHANGED vars
  BY <1>1, <1>11 DEF vars, subVars
<1> QED
  BY <1>1, <1>2, <1>3, <1>4, <1>5, <1>6, <1>7, <1>8, <1>9, <1>10, <1>11 DEF Next, Lifecycle

Commands == [type : {"device.upsert", "policy.override", "session.kick"}, time : Nat]

\* What the queue may become: no step adds a promise beyond the end.
QueueStep ==
  \/ UNCHANGED cmds
  \/ cmds' = Append(cmds, Upsert)
  \/ \E c \in Commands : c.type # "device.upsert" /\ cmds' = Append(cmds, c)
  \/ cmds # <<>> /\ cmds' = Tail(cmds)

\* Every step changes the queue in one of these ways, and the node's end only
\* to that of the command it takes.
LEMMA QueueSteps ==
  ASSUME Inv, [Next]_vars
  PROVE  /\ QueueStep
         /\ \/ UNCHANGED nodeEnds
            \/ cmds # <<>> /\ nodeEnds' = Head(cmds).time /\ Head(cmds).type = "device.upsert"
<1> USE DEF QueueStep
<1>0. cmds \in Seq(Commands) /\ now \in Nat /\ grace \in Nat /\ GracePeriod \in Nat
  BY TimesAreCounted DEF Inv, TypeOK, Commands
<1>1. CASE LifecycleSweep
  <2>1. grace' \in Nat
    BY <1>0, <1>1 DEF LifecycleSweep
  <2>2. Override(grace') \in Commands /\ Kick \in Commands
        /\ Override(grace').type # "device.upsert" /\ Kick.type # "device.upsert"
    BY <2>1 DEF Override, Kick, Commands
  <2>3. cmds' \in {cmds, cmds \o <<>>, cmds \o <<Override(grace')>>, cmds \o <<Kick>>}
    BY <1>1 DEF LifecycleSweep, Announce
  <2>4. cmds \o <<>> = cmds
    BY <1>0
  <2>5. \A c \in Commands : cmds \o <<c>> = Append(cmds, c)
    BY <1>0
  <2>6. cmds' \in {cmds, Append(cmds, Override(grace')), Append(cmds, Kick)}
    BY <2>2, <2>3, <2>4, <2>5
  <2> QED  BY <1>1, <2>2, <2>6 DEF LifecycleSweep, nodeVars
<1>2. CASE Deliver
  BY <1>2 DEF Deliver
<1>3. CASE Fetch \/ RenewQuotaLeases \/ Resync
  BY <1>3 DEF Fetch, RenewQuotaLeases, Resync, Provision, nodeVars
<1>4. ASSUME NEW r \in Requests, ProvisionUserDevices(r) PROVE QueueStep /\ UNCHANGED nodeEnds
  BY <1>4 DEF ProvisionUserDevices, Provision, nodeVars
<1>5. ASSUME NEW r \in Requests, Request(r), ~ProvisionUserDevices(r) PROVE UNCHANGED <<cmds, nodeEnds>>
  BY <1>5 DEF Request, Read, AdjustWallet, RenewPlan, Downgrade, BuyPlan, Refuse, provVars, nodeVars
<1>6. ASSUME LifecycleBegin \/ LifecycleRenew \/ \E a \in Credits, k \in Keys : CreditWallet(a, <<"credit", k>>)
      PROVE UNCHANGED <<cmds, nodeEnds>>
  BY <1>6 DEF LifecycleBegin, LifecycleRenew, CreditWallet, provVars, nodeVars
<1>7. ASSUME StartTrial \/ LeaseExpires \/ Spend \/ Connect \/ Disconnect \/ Tick
      PROVE UNCHANGED <<cmds, nodeEnds>>
  BY <1>7 DEF StartTrial, LeaseExpires, Spend, Connect, Disconnect, Tick, provVars, nodeVars
<1>8. ASSUME UNCHANGED vars PROVE UNCHANGED <<cmds, nodeEnds>>
  BY <1>8 DEF vars, provVars, nodeVars
<1> QED  BY <1>1, <1>2, <1>3, <1>4, <1>5, <1>6, <1>7, <1>8 DEF Next, Lifecycle

\* Promises stay within the end, which only moves on.
LEMMA CommandsStep ==
  ASSUME Inv, [Next]_vars
  PROVE  cmds' \in Seq(Commands) /\ nodeEnds' \in Nat /\ CommandsAreOld' /\ AccessIsPaidFor'
<1>0. /\ cmds \in Seq(Commands) /\ CommandsAreOld /\ nodeEnds <= end /\ nodeEnds \in Nat
      /\ end \in Nat /\ end' \in Nat /\ end' >= end
  BY EndStep DEF Inv, TypeOK, Commands, AccessIsPaidFor
<1>1. \A i \in 1..Len(cmds) : cmds[i] \in Commands /\ cmds[i].time \in Nat
  <2>1. \A i \in 1..Len(cmds) : cmds[i] \in Commands
    BY <1>0
  <2>2. \A c \in Commands : c.time \in Nat
    BY DEF Commands
  <2> QED  BY <2>1, <2>2
<1>2. Upsert \in Commands /\ Upsert.time = end
  BY <1>0 DEF Upsert, Commands
<1>3. ASSUME NEW c \in Commands, c.type = "device.upsert" => c.time <= end, cmds' = Append(cmds, c)
      PROVE cmds' \in Seq(Commands) /\ CommandsAreOld'
  <2>1. cmds' \in Seq(Commands) /\ Len(cmds') = Len(cmds) + 1 /\ Len(cmds) \in Nat
        /\ cmds'[Len(cmds) + 1] = c /\ \A i \in 1..Len(cmds) : cmds'[i] = cmds[i]
    <3>1. cmds \in Seq(Commands)
      BY <1>0
    <3>2. /\ Append(cmds, c) \in Seq(Commands)
          /\ Len(Append(cmds, c)) = Len(cmds) + 1 /\ Len(cmds) \in Nat
          /\ Append(cmds, c)[Len(cmds) + 1] = c
          /\ \A i \in 1..Len(cmds) : Append(cmds, c)[i] = cmds[i]
      BY <3>1, SMTT(20)
    <3> QED  BY <1>3, <3>2
  <2>2. c.time \in Nat
    BY DEF Commands
  <2>3. ASSUME NEW i \in 1..Len(cmds'), cmds'[i].type = "device.upsert" PROVE cmds'[i].time <= end'
    <3>1. CASE i = Len(cmds) + 1
      <4>1. cmds'[i] = c
        BY <2>1, <3>1
      <4> QED  BY <1>0, <1>3, <2>2, <2>3, <4>1
    <3>2. CASE i \in 1..Len(cmds)
      <4>1. cmds[i].time <= end /\ cmds[i].time \in Nat /\ cmds'[i] = cmds[i]
        BY <1>0, <1>1, <2>1, <2>3, <3>2 DEF CommandsAreOld
      <4> QED  BY <1>0, <4>1
    <3>3. i = Len(cmds) + 1 \/ i \in 1..Len(cmds)
      <4>1. i \in 1..(Len(cmds) + 1)
        BY <2>1
      <4> QED  BY <2>1, <4>1
    <3> QED  BY <3>1, <3>2, <3>3
  <2> QED  BY <2>1, <2>3 DEF CommandsAreOld
<1>4. ASSUME UNCHANGED cmds PROVE cmds' \in Seq(Commands) /\ CommandsAreOld'
  BY <1>0, <1>1, <1>4 DEF CommandsAreOld
<1>5. ASSUME cmds # <<>>, cmds' = Tail(cmds) PROVE cmds' \in Seq(Commands) /\ CommandsAreOld'
  <2>1. cmds' \in Seq(Commands) /\ Len(cmds') = Len(cmds) - 1 /\ Len(cmds) \in Nat
        /\ \A i \in 1..Len(cmds') : cmds'[i] = cmds[i + 1]
    BY <1>0, <1>5
  <2>2. ASSUME NEW i \in 1..Len(cmds'), cmds'[i].type = "device.upsert" PROVE cmds'[i].time <= end'
    <3>1. i + 1 \in 1..Len(cmds) /\ cmds'[i] = cmds[i + 1]
      BY <2>1
    <3>2. cmds[i + 1].time <= end /\ cmds[i + 1].time \in Nat
      BY <1>0, <1>1, <2>2, <3>1 DEF CommandsAreOld
    <3> QED  BY <1>0, <3>1, <3>2
  <2> QED  BY <2>1, <2>2 DEF CommandsAreOld
<1>6. cmds' \in Seq(Commands) /\ CommandsAreOld'
  BY <1>0, <1>2, <1>3, <1>4, <1>5, QueueSteps DEF QueueStep
<1>7. nodeEnds' \in Nat /\ nodeEnds' <= end'
  <2>1. CASE UNCHANGED nodeEnds
    BY <1>0, <2>1
  <2>2. CASE cmds # <<>> /\ nodeEnds' = Head(cmds).time /\ Head(cmds).type = "device.upsert"
    <3>1. 1 \in 1..Len(cmds) /\ Head(cmds) = cmds[1]
      BY <1>0, <2>2
    <3>2. cmds[1].time <= end /\ cmds[1].time \in Nat
      BY <1>0, <1>1, <2>2, <3>1 DEF CommandsAreOld
    <3> QED  BY <1>0, <2>2, <3>1, <3>2
  <2> QED  BY <2>1, <2>2, QueueSteps
<1> QED  BY <1>6, <1>7 DEF AccessIsPaidFor

\* The part of TypeOK that does not follow from the lemmas above.
SmallTypes ==
  /\ now \in Nat /\ lock \in Requests \cup {Worker, None}
  /\ plan \in Plans \cup {"TRIAL"} /\ pending \in Plans \cup {None}
  /\ status \in {"pending_trial", "active", "grace", "expired", "suspended"}
  /\ grace \in Nat /\ spent \in BOOLEAN
  /\ op \in [Requests -> {"idle", "change", "adjust", "provision"}]
  /\ seen \in [Requests -> Nat]
  /\ worker \in {"idle", "renew", "sweep"} /\ last \in Nat
  /\ missed \in BOOLEAN /\ assigned \in BOOLEAN /\ leased \in BOOLEAN
  /\ override \in Nat /\ online \in BOOLEAN

\* Each step keeps these types.
LEMMA SmallTypesStep ==
  ASSUME Inv, [Next]_vars
  PROVE  SmallTypes'
<1> USE DEF SmallTypes
<1>0. SmallTypes /\ balance \in Nat /\ GracePeriod \in Nat /\ Window \in Nat
  BY TimesAreCounted DEF Inv, TypeOK
<1>l. ASSUME NEW r \in Requests, Leave(r, "idle")
      PROVE  /\ lock' \in Requests \cup {Worker, None} /\ seen' \in [Requests -> Nat]
             /\ op' \in [Requests -> {"idle", "change", "adjust", "provision"}]
  BY <1>0, <1>l DEF Leave
<1>1. ASSUME NEW r \in Requests, NEW o \in {"change", "adjust"}, NEW a, Read(r, o, a) PROVE SmallTypes'
  BY <1>0, <1>1 DEF Read, subVars, workVars, provVars, nodeVars
<1>2. ASSUME NEW r \in Requests, AdjustWallet(r) \/ Refuse(r) PROVE SmallTypes'
  <2>1. Leave(r, "idle") /\ UNCHANGED <<now, subVars, workVars, provVars, nodeVars>>
    BY <1>2 DEF AdjustWallet, Refuse
  <2> QED  BY <1>0, <1>l, <2>1 DEF subVars, workVars, provVars, nodeVars
<1>3. ASSUME NEW r \in Requests, RenewPlan(r) PROVE SmallTypes'
  <2>1. /\ Leave(r, "idle") /\ pending' = None /\ grace' = 0 /\ spent' \in {spent, FALSE}
        /\ UNCHANGED <<now, plan, status, workVars, provVars, nodeVars>>
    BY <1>3 DEF RenewPlan
  <2>2. spent' \in BOOLEAN
    BY <1>0, <2>1
  <2> QED  BY <1>0, <1>l, <2>1, <2>2 DEF workVars, provVars, nodeVars
<1>4. ASSUME NEW r \in Requests, Downgrade(r) PROVE SmallTypes'
  <2>1. arg[r] \in Plans
    BY <1>4 DEF Downgrade, Downgrading, Inv, ReadersHoldTheLock
  <2> QED  BY <1>0, <1>4, <2>1 DEF Downgrade, Leave, workVars, provVars, nodeVars
<1>5. ASSUME NEW r \in Requests, BuyPlan(r) PROVE SmallTypes'
  <2>1. arg[r] \in Plans
    BY <1>5 DEF BuyPlan, Buying, Inv, ReadersHoldTheLock
  <2> QED  BY <1>0, <1>5, <2>1 DEF BuyPlan, Leave, workVars, provVars, nodeVars
<1>6. ASSUME NEW r \in Requests, ProvisionUserDevices(r) PROVE SmallTypes'
  <2>1. leased' \in BOOLEAN
    BY <1>0, <1>6 DEF ProvisionUserDevices, Provision
  <2>2. op' \in [Requests -> {"idle", "change", "adjust", "provision"}]
    BY <1>0, <1>6 DEF ProvisionUserDevices
  <2> QED  BY <1>0, <1>6, <2>1, <2>2 DEF ProvisionUserDevices, subVars, workVars, nodeVars
<1>7. ASSUME NEW a \in Credits, NEW k \in Keys, CreditWallet(a, <<"credit", k>>) PROVE SmallTypes'
  BY <1>0, <1>7 DEF CreditWallet, subVars, reqVars, workVars, provVars, nodeVars
<1>8. CASE LifecycleBegin
  BY <1>0, <1>8 DEF LifecycleBegin, subVars, reqVars, provVars, nodeVars
<1>9. CASE LifecycleRenew
  <2>1. CASE ~Due
    BY <1>0, <1>9, <2>1 DEF LifecycleRenew, subVars, reqVars, provVars, nodeVars
  <2>2. CASE Due
    <3>1. plan' \in Plans \cup {"TRIAL"} /\ pending' \in Plans \cup {None}
      BY <1>0, <1>9, <2>2 DEF LifecycleRenew, Target
    <3>2. grace' = 0 /\ spent' = FALSE /\ status' = "active" /\ lock' = Worker /\ worker' = "sweep"
      BY <1>9, <2>2 DEF LifecycleRenew
    <3>3. UNCHANGED <<now, reqVars, last, missed, provVars, nodeVars>>
      BY <1>9 DEF LifecycleRenew
    <3> QED  BY <1>0, <3>1, <3>2, <3>3 DEF reqVars, provVars, nodeVars
  <2> QED  BY <2>1, <2>2
<1>10. CASE LifecycleSweep
  <2>1. status' \in {"pending_trial", "active", "grace", "expired", "suspended"} /\ grace' \in Nat
    BY <1>0, <1>10 DEF LifecycleSweep
  <2>2. missed' \in BOOLEAN
    <3>1. missed' = missed \/ missed' = (now - last > Window)
      BY <1>10 DEF LifecycleSweep
    <3>2. (now - last > Window) \in BOOLEAN
      OBVIOUS
    <3> QED  BY <1>0, <3>1, <3>2
  <2> QED  BY <1>0, <1>10, <2>1, <2>2 DEF LifecycleSweep, reqVars, nodeVars
<1>11. CASE StartTrial \/ Spend
  <2>1. spent' \in BOOLEAN /\ status' \in {"pending_trial", "active", "grace", "expired", "suspended"}
    BY <1>0, <1>11 DEF StartTrial, Spend
  <2>2. UNCHANGED <<now, lock, plan, pending, grace, reqVars, workVars, provVars, nodeVars>>
    BY <1>11 DEF StartTrial, Spend
  <2> QED  BY <1>0, <2>1, <2>2 DEF reqVars, workVars, provVars, nodeVars
<1>12. CASE Fetch \/ RenewQuotaLeases
  BY <1>0, <1>12 DEF Fetch, RenewQuotaLeases, Provision, subVars, reqVars, workVars, nodeVars
<1>13. CASE Resync \/ LeaseExpires
  <2>1. leased' \in BOOLEAN /\ assigned' \in BOOLEAN
    BY <1>0, <1>13 DEF Resync, LeaseExpires
  <2>2. UNCHANGED <<now, lock, subVars, reqVars, workVars, nodeVars>>
    BY <1>13 DEF Resync, LeaseExpires
  <2> QED  BY <1>0, <2>1, <2>2 DEF subVars, reqVars, workVars, nodeVars
<1>14. CASE Deliver
  <2>1. cmds # <<>> => Head(cmds).time \in Nat
    <3>1. cmds \in Seq(Commands)
      BY DEF Inv, TypeOK, Commands
    <3>2. cmds # <<>> => Head(cmds) \in Commands
      BY <3>1
    <3> QED  BY <3>2 DEF Commands
  <2>2. /\ override' \in Nat /\ online' \in BOOLEAN
    BY <1>0, <1>14, <2>1 DEF Deliver
  <2>3. UNCHANGED <<now, lock, subVars, reqVars, workVars, assigned, leased>>
    BY <1>14 DEF Deliver
  <2> QED  BY <1>0, <2>2, <2>3 DEF subVars, reqVars, workVars
<1>15. CASE Connect \/ Disconnect \/ Tick
  <2>1. now' \in Nat /\ online' \in BOOLEAN /\ override' \in Nat
    <3>1. CASE Connect \/ Disconnect
      BY <1>0, <3>1 DEF Connect, Disconnect
    <3>2. CASE Tick
      BY <1>0, <3>2 DEF Tick, nodeVars
    <3> QED  BY <1>15, <3>1, <3>2
  <2>2. UNCHANGED <<lock, subVars, reqVars, workVars, provVars>>
    BY <1>15 DEF Connect, Disconnect, Tick
  <2> QED  BY <1>0, <2>1, <2>2 DEF subVars, reqVars, workVars, provVars
<1>16. CASE UNCHANGED vars
  <2>1. UNCHANGED <<now, lock, subVars, reqVars, workVars, provVars, nodeVars>>
    BY <1>16 DEF vars
  <2> QED  BY <1>0, <2>1 DEF subVars, reqVars, workVars, provVars, nodeVars
<1> QED
  BY <1>1, <1>2, <1>3, <1>4, <1>5, <1>6, <1>7, <1>8, <1>9, <1>10, <1>11, <1>12, <1>13, <1>14,
     <1>15, <1>16 DEF Next, Request, Lifecycle

\* The invariant is inductive.
LEMMA InvHolds == Spec => []Inv
<1>1. Init => Inv
  <2> SUFFICES ASSUME Init PROVE Inv
    OBVIOUS
  <2>1. TypeOK
    <3>1. balance \in Nat /\ ledger \in Seq([amount : Int, after : Nat, key : KeyKinds \X Nat])
      BY DEF Init
    <3>2. cmds \in Seq([type : {"device.upsert", "policy.override", "session.kick"}, time : Nat])
      BY DEF Init
    <3>3. SmallTypes
      BY DEF Init, SmallTypes
    <3> QED  BY <3>1, <3>2, <3>3 DEF Init, SmallTypes, TypeOK
  <2>2. ReadersHoldTheLock /\ EndsAreDated /\ KeysAreOld /\ CommandsAreOld /\ AccessIsPaidFor
    <3>1. ReadersHoldTheLock
      BY DEF Init, ReadersHoldTheLock
    <3>2. EndsAreDated /\ AccessIsPaidFor
      BY TimesAreCounted DEF Init, EndsAreDated, AccessIsPaidFor
    <3>3. KeysAreOld /\ CommandsAreOld
      BY DEF Init, KeysAreOld, CommandsAreOld
    <3> QED  BY <3>1, <3>2, <3>3
  <2> QED  BY <2>1, <2>2 DEF Inv
<1>2. Inv /\ [Next]_vars => Inv'
  <2> SUFFICES ASSUME Inv, [Next]_vars PROVE Inv'
    OBVIOUS
  <2>1. balance' \in Nat /\ ledger' \in Seq([amount : Int, after : Nat, key : KeyKinds \X Nat])
    <3>1. TypeOK
      BY DEF Inv
    <3>2. CASE UNCHANGED <<balance, ledger>>
      BY <3>1, <3>2 DEF TypeOK
    <3>3. ASSUME NEW a, NEW k, Posting(a, k)
          PROVE balance' \in Nat /\ ledger' \in Seq([amount : Int, after : Nat, key : KeyKinds \X Nat])
      BY <3>1, <3>3, PostedEntry
    <3> QED  BY <3>2, <3>3, MoneyStep
  <2>2. TypeOK'
    BY <2>1, EndStep, CommandsStep, SmallTypesStep DEF SmallTypes, TypeOK, Commands
  <2> QED  BY <2>2, ReadersStep, DatesStep, KeysStep, CommandsStep DEF Inv
<1> QED  BY <1>1, <1>2, PTL DEF Spec

(* The types of the subscription hold whatever the plans, prices, periods   *)
(* and numbers of requests are; in particular no sequence of plan changes,  *)
(* adjustments and renewals makes the balance negative.                     *)
THEOREM SubscriptionTypeCorrect == Spec => []TypeOK
<1>1. Inv => TypeOK
  BY DEF Inv
<1> QED  BY <1>1, InvHolds, PTL

(* The node never admits a device beyond the period that was paid for,      *)
(* however late its commands are (provisionDevice sends period_ends_at).    *)
THEOREM NodeAdmitsWhatIsPaid == Spec => []AccessIsPaidFor
<1>1. Inv => AccessIsPaidFor
  BY DEF Inv
<1> QED  BY <1>1, InvHolds, PTL

(* Refinement: every step of the subscription is a posting of the abstract  *)
(* ledger or leaves it alone, so money moves only with an entry that        *)
(* accounts for it (changePlan, adjustWallet, creditWallet,                 *)
(* subscriptionLifecycle).                                                  *)
THEOREM SubscriptionImplementsLedger == Spec => WalletIsALedger
<1>1. Init => L!Init
  BY DEF Init, L!Init
<1>2. Inv /\ [Next]_vars => [L!Post]_<<balance, ledger>>
  <2> SUFFICES ASSUME Inv, [Next]_vars, NEW a, NEW k, Posting(a, k) PROVE L!Post
    BY MoneyStep
  <2> DEFINE e == ledger'[Len(ledger')]
  <2>1. e = Entry(a, balance', k) /\ Len(ledger') = Len(ledger) + 1
    BY PostedEntry DEF Inv
  <2>2. e.amount = a /\ e.after = balance' /\ e.key = k
    BY <2>1 DEF Entry
  <2>3. ledger' = Append(ledger, e)
    BY <2>1 DEF Posting
  <2>4. \A i \in DOMAIN ledger : ledger[i].key # e.key
    BY <2>2 DEF Posting, Used
  <2>5. e.amount # 0 /\ e.after = balance + e.amount /\ e.after >= 0 /\ balance' = e.after
    BY <2>2 DEF Posting
  <2> QED  BY <2>1, <2>3, <2>4, <2>5 DEF L!Post
<1> QED  BY <1>1, <1>2, InvHolds, PTL DEF Spec, WalletIsALedger, L!Spec

LedgerInv == L!Audited /\ \E S : ledger \in Seq(S)

\* Read from its first entry to its last, a ledger that is only posted to ends
\* at the balance of the wallet: what every implementation of Ledger inherits.
LEMMA LedgerExplainsBalance == L!Spec => []L!Audited
<1>1. L!Init => LedgerInv
  <2> SUFFICES ASSUME L!Init PROVE LedgerInv
    OBVIOUS
  <2>1. ledger \in Seq({})
    BY DEF L!Init
  <2>2. L!Audited
    BY DEF L!Init, L!Audited
  <2> QED  BY <2>1, <2>2 DEF LedgerInv
<1>2. LedgerInv /\ [L!Post]_<<balance, ledger>> => LedgerInv'
  <2> SUFFICES ASSUME LedgerInv, [L!Post]_<<balance, ledger>> PROVE LedgerInv'
    OBVIOUS
  <2>1. CASE UNCHANGED <<balance, ledger>>
    BY <2>1 DEF LedgerInv, L!Audited
  <2>2. CASE L!Post
    <3> DEFINE e == ledger'[Len(ledger')]
               n == Len(ledger)
    <3>1. PICK S : ledger \in Seq(S)
      BY DEF LedgerInv
    <3>2. /\ ledger' = Append(ledger, e) /\ Len(ledger') = n + 1
          /\ e.after = balance + e.amount /\ balance' = e.after
      BY <2>2 DEF L!Post
    <3> HIDE DEF e
    <3>3. ledger \in Seq(S \cup {e})
      BY <3>1
    <3>4. ledger' \in Seq(S \cup {e}) /\ n \in Nat /\ ledger' # <<>>
      BY <3>2, <3>3
    <3>5. /\ ledger'[n + 1] = e
          /\ \A i \in 1..n : ledger'[i] = ledger[i]
      BY <3>2, <3>3
    <3>6. balance = IF n = 0 THEN 0 ELSE ledger[n].after
      BY <3>1 DEF LedgerInv, L!Audited
    <3>7. ASSUME NEW i \in 1..Len(ledger')
          PROVE  ledger'[i].after = (IF i = 1 THEN 0 ELSE ledger'[i - 1].after) + ledger'[i].amount
      <4>1. CASE i = n + 1
        BY <4>1, <3>2, <3>4, <3>5, <3>6
      <4>2. CASE i \in 1..n
        <5>1. ledger[i].after = (IF i = 1 THEN 0 ELSE ledger[i - 1].after) + ledger[i].amount
          BY <4>2 DEF LedgerInv, L!Audited
        <5>2. i # 1 => i - 1 \in 1..n
          BY <4>2, <3>4
        <5> QED  BY <4>2, <5>1, <5>2, <3>5
      <4> QED  BY <4>1, <4>2, <3>2, <3>4
    <3>8. balance' = IF ledger' = <<>> THEN 0 ELSE ledger'[Len(ledger')].after
      BY <3>2, <3>4, <3>5
    <3> QED  BY <3>4, <3>7, <3>8 DEF LedgerInv, L!Audited
  <2> QED  BY <2>1, <2>2
<1>3. LedgerInv => L!Audited
  BY DEF LedgerInv
<1> QED  BY <1>1, <1>2, <1>3, PTL DEF L!Spec

(* The entries of a user explain the balance of the wallet, entry by entry, *)
(* although four operations write both (ledger_entries.balance_after,       *)
(* wallets.balance_kopecks).                                                *)
THEOREM BalanceIsExplained == Spec => []L!Audited
BY SubscriptionImplementsLedger, LedgerExplainsBalance, PTL DEF WalletIsALedger

(* No plan is charged for without service to come, except for a period that *)
(* has ended and that the worker has not found ended yet (changePlan,       *)
(* subscriptionLifecycle).                                                  *)
THEOREM ChargesBuyTime == Spec => ChargeBuysTime
<1> DEFINE New == DOMAIN ledger' \ DOMAIN ledger
           Bought == \A i \in New : ledger'[i].key[1] \in {"plan", "renew"}
                       => end' > now \/ (status = "active" /\ end <= now)
<1>1. Inv /\ [Next]_vars => [Bought]_vars
  <2> SUFFICES ASSUME Inv, Next, NEW i \in New, ledger'[i].key[1] \in {"plan", "renew"}
               PROVE  end' > now \/ (status = "active" /\ end <= now)
    OBVIOUS
  <2>0. /\ now \in Nat /\ end \in Nat /\ Period \in Nat \ {0}
        /\ ledger \in Seq([amount : Int, after : Nat, key : KeyKinds \X Nat])
    BY TimesAreCounted DEF Inv, TypeOK
  <2>1. ASSUME NEW a, NEW b, NEW k, ledger' = Append(ledger, Entry(a, b, k))
        PROVE  ledger'[i].key = k
    <3>1. i = Len(ledger) + 1
      BY <2>0, <2>1
    <3>2. ledger'[i] = Entry(a, b, k)
      BY <2>0, <2>1, <3>1
    <3>3. Entry(a, b, k).key = k
      BY DEF Entry
    <3> QED  BY ONLY <3>2, <3>3
  <2>2. ASSUME NEW r \in Requests, AdjustWallet(r) PROVE FALSE
    <3>1. ledger' = Append(ledger, Entry(arg[r], balance', <<"adjust", Len(ledger)>>))
      BY <2>2 DEF AdjustWallet, Write, Fresh
    <3>2. ledger'[i].key = <<"adjust", Len(ledger)>>
      BY ONLY <2>1, <3>1
    <3>3. ledger'[i].key[1] = "adjust"
      BY ONLY <3>2
    <3> QED  BY <3>3
  <2>3. ASSUME NEW a \in Credits, NEW k \in Keys, CreditWallet(a, <<"credit", k>>) PROVE FALSE
    <3>1. ledger' = Append(ledger, Entry(a, balance', <<"credit", k>>))
      BY <2>3 DEF CreditWallet
    <3>2. ledger'[i].key = <<"credit", k>>
      BY ONLY <2>1, <3>1
    <3>3. ledger'[i].key[1] = "credit"
      BY ONLY <3>2
    <3> QED  BY <3>3
  <2>4. ASSUME NEW r \in Requests, RenewPlan(r) PROVE end' > now
    <3>1. end' = Later(now, end) + Period
      BY <2>4 DEF RenewPlan
    <3> QED  BY <2>0, <3>1 DEF Later
  <2>5. ASSUME NEW r \in Requests, BuyPlan(r) PROVE end' > now \/ (status = "active" /\ end <= now)
    <3>1. end' = IF Prorated THEN end ELSE now + Period
      BY <2>5 DEF BuyPlan
    <3> QED  BY <2>0, <3>1 DEF Prorated
  <2>6. CASE LifecycleRenew
    <3>1. Due
      BY <2>6 DEF LifecycleRenew, moneyVars
    <3> QED  BY <3>1 DEF Due
  <2>7. ASSUME UNCHANGED ledger PROVE FALSE
    BY <2>7
  <2>8. ASSUME NEW r \in Requests,
               \/ \E p \in Plans : Read(r, "change", p)
               \/ \E a \in Adjustments : Read(r, "adjust", a)
               \/ Downgrade(r) \/ Refuse(r) \/ ProvisionUserDevices(r)
        PROVE  UNCHANGED ledger
    BY <2>8 DEF Read, Downgrade, Refuse, ProvisionUserDevices, moneyVars
  <2>9. ASSUME \/ LifecycleBegin \/ LifecycleSweep \/ StartTrial \/ Fetch \/ RenewQuotaLeases
               \/ Resync \/ LeaseExpires \/ Spend \/ Deliver \/ Connect \/ Disconnect \/ Tick
        PROVE  UNCHANGED ledger
    BY <2>9 DEF LifecycleBegin, LifecycleSweep, StartTrial, Fetch, RenewQuotaLeases, Resync,
         LeaseExpires, Spend, Deliver, Connect, Disconnect, Tick, moneyVars
  <2> QED
    BY <2>2, <2>3, <2>4, <2>5, <2>6, <2>7, <2>8, <2>9 DEF Next, Request, Lifecycle
<1>2. Spec => [][Bought]_vars
  BY <1>1, InvHolds, PTL DEF Spec
<1> QED  BY <1>2 DEF ChargeBuysTime
=============================================================================
