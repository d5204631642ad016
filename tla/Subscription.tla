---------------------------- MODULE Subscription ----------------------------
(***************************************************************************)
(* The subscription and the wallet of one user with one device:            *)
(* `changePlan`, `adjustWallet` and `creditWallet`, the transaction        *)
(* `subscriptionLifecycle` that runs every minute, and what the device's   *)
(* node learns of it through commands.  Time is counted in minutes.        *)
(*                                                                         *)
(* The channel is CommandChannel's concern and the size of leases          *)
(* QuotaLease's: here commands arrive in order, and quota is either used   *)
(* up or not.                                                              *)
(***************************************************************************)
EXTENDS Integers, Sequences

CONSTANTS
  Requests,      \* wallet and plan requests in flight
  Plans,         \* the paid plans
  Price,         \* plans.price_kopecks
  Period,        \* paidPeriod, 30 days
  TrialPeriod,   \* trialDuration, 3 days
  GracePeriod,   \* 24 hours
  Window,        \* the 2 minutes in which an event of the life cycle is sent
  Credits, Adjustments,   \* amounts of creditWallet and adjustWallet
  Keys,          \* idempotency keys chosen by callers of creditWallet
  Worker, None,
  MaxTime, MaxEntries, MaxQueue   \* bounds

ASSUME PlansArePriced == Price \in [Plans -> Nat \ {0}] /\ "TRIAL" \notin Plans
ASSUME TimesAreCounted ==
  /\ Period \in Nat \ {0} /\ TrialPeriod \in Nat \ {0}
  /\ GracePeriod \in Nat \ {0} /\ Window \in Nat \ {0}
  /\ TrialPeriod <= Period
ASSUME AmountsAreCounted ==
  Credits \subseteq Nat \ {0} /\ Adjustments \subseteq Int \ {0} /\ Keys \subseteq Nat
ASSUME ActorsAreDistinct ==
  Worker \notin Requests /\ None \notin Requests \cup {Worker} \cup Plans

VARIABLES
  now,
  plan, pending, status,   \* subscriptions.plan_code, pending_plan_code, status
  end, grace,              \* period_ends_at, grace_ends_at; 0: NULL
  spent,                   \* used_bytes >= quota_bytes
  balance, ledger,
  lock,                    \* who holds the row locks of subscription and wallet
  op, arg, seen,           \* of each request: its state, argument, balance read
  worker, last,            \* the worker's state, now() of its last round
  missed,                  \* history: the last end was found more than Window late
  assigned, leased,        \* a row of node_assignments, an unexpired lease
  cmds,                    \* node_commands not yet applied
  nodeEnds, override,      \* on the node: subscription_ends, override_expires
  online                   \* on the node: the device has a session

moneyVars == <<balance, ledger>>
subVars == <<plan, pending, status, end, grace, spent>>
reqVars == <<op, arg, seen>>
workVars == <<worker, last, missed>>
provVars == <<assigned, leased, cmds>>
nodeVars == <<nodeEnds, override, online>>
vars == <<now, lock, moneyVars, subVars, reqVars, workVars, provVars, nodeVars>>

Init ==
  /\ now = 1 /\ lock = None
  /\ plan = "TRIAL" /\ pending = None /\ status = "pending_trial"
  /\ end = 0 /\ grace = 0 /\ spent = FALSE
  /\ balance = 0 /\ ledger = <<>>
  /\ op = [r \in Requests |-> "idle"] /\ arg = [r \in Requests |-> None]
  /\ seen = [r \in Requests |-> 0]
  /\ worker = "idle" /\ last = 1 /\ missed = FALSE
  /\ assigned = FALSE /\ leased = FALSE /\ cmds = <<>>
  /\ nodeEnds = 0 /\ override = 0 /\ online = FALSE

\* The wallet of the abstract ledger is the rows of wallets and ledger_entries.
L == INSTANCE Ledger WITH balance <- balance, ledger <- ledger

PriceOf(p) == IF p = "TRIAL" THEN 0 ELSE Price[p]
Later(s, t) == IF s > t THEN s ELSE t

Used(key) == \E i \in DOMAIN ledger : ledger[i].key = key
Entry(amount, after, key) == [amount |-> amount, after |-> after, key |-> key]
KeyKinds == {"credit", "adjust", "plan", "renew"}
Fresh(kind) == <<kind, Len(ledger)>>   \* a prefix and uuid.NewString
-----------------------------------------------------------------------------
(* Requests *)

\* Mutant: the rows are read without FOR UPDATE.
ReadUnlocked(r, o, a) ==
  /\ op[r] = "idle" /\ Len(ledger) < MaxEntries
  /\ op' = [op EXCEPT ![r] = o] /\ arg' = [arg EXCEPT ![r] = a]
  /\ seen' = [seen EXCEPT ![r] = balance]
  /\ UNCHANGED <<now, lock, moneyVars, subVars, workVars, provVars, nodeVars>>

\* SELECT ... FOR UPDATE: the rows stay as they were read until the end of
\* the transaction.
Read(r, o, a) ==
  /\ op[r] = "idle" /\ lock = None /\ Len(ledger) < MaxEntries
  /\ lock' = r
  /\ op' = [op EXCEPT ![r] = o] /\ arg' = [arg EXCEPT ![r] = a]
  /\ seen' = [seen EXCEPT ![r] = balance]
  /\ UNCHANGED <<now, moneyVars, subVars, workVars, provVars, nodeVars>>

\* The transaction ends, and r goes on in state o.
Leave(r, o) ==
  /\ lock' = IF lock = r THEN None ELSE lock
  /\ op' = [op EXCEPT ![r] = o]
  /\ arg' = [arg EXCEPT ![r] = None] /\ seen' = [seen EXCEPT ![r] = 0]

\* The wallet and the ledger are written from the balance that was read.
Write(r, amount, kind) ==
  /\ balance' = seen[r] + amount
  /\ ledger' = Append(ledger, Entry(amount, balance', Fresh(kind)))

AdjustWallet(r) ==
  /\ op[r] = "adjust" /\ seen[r] + arg[r] >= 0
  /\ Write(r, arg[r], "adjust") /\ Leave(r, "idle")
  /\ UNCHANGED <<now, subVars, workVars, provVars, nodeVars>>

\* creditWallet: one UPDATE, and an INSERT that fails when the key is known.
CreditWallet(amount, key) ==
  /\ lock = None /\ Len(ledger) < MaxEntries
  /\ ~Used(key)
  /\ balance' = balance + amount
  /\ ledger' = Append(ledger, Entry(amount, balance', key))
  /\ UNCHANGED <<now, lock, subVars, reqVars, workVars, provVars, nodeVars>>

\* ProrateUpgrade: the difference in price for what is left of the period.
ProrateUpgrade(current, next) ==
  IF end <= now THEN Price[next]
  ELSE LET left == end - now
           remaining == IF left > Period THEN Period ELSE left
           cost == ((Price[next] - Price[current]) * remaining) \div Period IN
       IF cost < 0 THEN 0 ELSE cost

Renewing(r) == op[r] = "change" /\ arg[r] = plan /\ status = "active"
Downgrading(r) ==
  op[r] = "change" /\ status = "active" /\ Price[arg[r]] < PriceOf(plan)
Buying(r) == op[r] = "change" /\ ~Renewing(r) /\ ~Downgrading(r)

\* Mutant: a period that is over is upgraded too.
ProratedAnyway == plan # "TRIAL"

\* An upgrade keeps the period, and costs what is left of it.
Prorated ==
  status = "active" /\ plan # "TRIAL"

Cost(r) ==
  IF Buying(r) /\ Prorated THEN ProrateUpgrade(plan, arg[r]) ELSE Price[arg[r]]

\* The plan the user has: another period and its quota, which a user who went
\* on beyond the old one may have used already.  Nothing is sent to the node.
RenewPlan(r) ==
  /\ Renewing(r) /\ seen[r] >= Cost(r)
  /\ Write(r, -Cost(r), "plan") /\ Leave(r, "idle")
  /\ end' = Later(now, end) + Period
  /\ pending' = None /\ grace' = 0 /\ spent' \in {spent, FALSE}
  /\ UNCHANGED <<now, plan, status, workVars, provVars, nodeVars>>

\* A cheaper plan: from the next renewal on.
Downgrade(r) ==
  /\ Downgrading(r) /\ Leave(r, "idle")
  /\ pending' = arg[r]
  /\ UNCHANGED <<now, moneyVars, plan, status, end, grace, spent, workVars, provVars, nodeVars>>

\* A dearer plan for the rest of the period, or a new period of any plan.  An
\* entry of nothing violates a CHECK of ledger_entries.  used_bytes is reset
\* after a trial only: what a plan bought in Grace or later is worth depends
\* on what was used before it.
BuyPlan(r) ==
  /\ Buying(r) /\ seen[r] >= Cost(r) /\ Cost(r) # 0
  /\ Write(r, -Cost(r), "plan") /\ Leave(r, "provision")
  /\ end' = IF Prorated THEN end ELSE now + Period
  /\ plan' = arg[r] /\ pending' = None /\ status' = "active" /\ grace' = 0
  /\ spent' \in IF plan = "TRIAL" THEN {FALSE}
                ELSE IF Prorated THEN {spent, FALSE} ELSE BOOLEAN
  /\ UNCHANGED <<now, workVars, provVars, nodeVars>>

\* Too little money, or an upgrade that costs nothing.
Refuse(r) ==
  /\ \/ op[r] = "adjust" /\ seen[r] + arg[r] < 0
     \/ (Renewing(r) \/ Buying(r)) /\ (seen[r] < Cost(r) \/ Cost(r) = 0)
  /\ Leave(r, "idle")
  /\ UNCHANGED <<now, moneyVars, subVars, workVars, provVars, nodeVars>>
-----------------------------------------------------------------------------
(* subscriptionLifecycle *)

Target == IF pending = None THEN plan ELSE pending

Due ==
  /\ plan # "TRIAL" /\ status = "active" /\ end <= now
  /\ balance >= PriceOf(Target)

LifecycleBegin ==
  /\ worker = "idle" /\ worker' = "renew"
  /\ UNCHANGED <<now, lock, moneyVars, subVars, reqVars, last, missed, provVars, nodeVars>>

RenewalKey == <<"renew", end>>

\* The first statement: whoever can pay has another period.  A key that is
\* known is passed over (ON CONFLICT DO NOTHING), the rest is not.
LifecycleRenew ==
  /\ worker = "renew" /\ worker' = "sweep"
  /\ IF Due
     THEN /\ lock = None /\ lock' = Worker
          /\ balance' = balance - PriceOf(Target)
          /\ ledger' = IF Used(RenewalKey) THEN ledger
                       ELSE Append(ledger, Entry(-PriceOf(Target), balance', RenewalKey))
          /\ plan' = Target /\ pending' = None /\ end' = end + Period
          /\ grace' = 0 /\ spent' = FALSE /\ status' = "active"
     ELSE UNCHANGED <<lock, moneyVars, subVars>>
  /\ UNCHANGED <<now, reqVars, last, missed, provVars, nodeVars>>

\* Mutant: the node is told of the end of the Grace.
UpsertUntilGrace == [type |-> "device.upsert", time |-> Later(end, grace)]

\* period_ends_at is sent as the end of the subscription, in Grace too.
Upsert ==
  [type |-> "device.upsert", time |-> end]

Override(t) == [type |-> "policy.override", time |-> t]
Kick == [type |-> "session.kick", time |-> 0]

Ended(s) == s \in {"expired", "suspended"}

\* Mutant: the end of a Grace is looked up in period_ends_at.
EndOfPeriod == end

\* COALESCE(grace_ends_at, period_ends_at)
EndOfService ==
  IF grace # 0 THEN grace ELSE end

\* The commands queued for a device in state s whose Grace ends at g.
Announce(s, g) ==
  IF s = "grace" /\ g > now + GracePeriod - Window THEN <<Override(g)>>
  ELSE IF /\ Ended(s) /\ EndOfService > now - Window
          /\ \A i \in DOMAIN cmds : cmds[i] # Kick
  THEN <<Kick>> ELSE <<>>

\* The other statements: whoever could not pay enters Grace, a trial and a
\* Grace end, and the node is told.  They wait for a row that is locked.
LifecycleSweep ==
  /\ worker = "sweep" /\ lock \in {None, Worker} /\ Len(cmds) < MaxQueue
  /\ worker' = "idle" /\ lock' = None /\ last' = now
  /\ status' = IF status = "active" /\ end <= now
               THEN IF plan = "TRIAL" THEN "expired" ELSE "grace"
               ELSE IF status = "grace" /\ grace <= now THEN "suspended" ELSE status
  /\ grace' = IF status = "active" /\ status' = "grace" THEN now + GracePeriod ELSE grace
  /\ cmds' = IF assigned THEN cmds \o Announce(status', grace') ELSE cmds
  /\ missed' = IF status' = status THEN missed ELSE now - last > Window
  /\ UNCHANGED <<now, moneyVars, plan, pending, end, spent, reqVars, assigned, leased, nodeVars>>
-----------------------------------------------------------------------------
(* What reaches the node *)

\* provisionDevice
Provision ==
  /\ lock = None /\ status \in {"active", "grace"} /\ (leased \/ ~spent)
  /\ Len(cmds) < MaxQueue
  /\ cmds' = Append(cmds, Upsert) /\ leased' = TRUE

\* changePlan provisions after its commit; a failure is only logged.
ProvisionUserDevices(r) ==
  /\ op[r] = "provision" /\ op' = [op EXCEPT ![r] = "idle"]
  /\ \/ assigned /\ Provision
     \/ UNCHANGED <<cmds, leased>>
  /\ UNCHANGED <<now, lock, moneyVars, subVars, arg, seen, workVars, assigned, nodeVars>>

\* subscriptionDocument starts the trial at the first fetch that binds ...
StartTrial ==
  /\ lock = None /\ status = "pending_trial"
  /\ status' = "active" /\ end' = now + TrialPeriod
  /\ UNCHANGED <<now, lock, moneyVars, plan, pending, grace, spent, reqVars, workVars, provVars, nodeVars>>

\* ... and assigns and provisions the device at every fetch.
Fetch ==
  /\ Provision /\ assigned' = TRUE
  /\ UNCHANGED <<now, lock, moneyVars, subVars, reqVars, workVars, nodeVars>>

\* Mutant: a renewed lease is sent without the device.
RenewBareLeases ==
  /\ assigned /\ ~leased /\ ~spent /\ lock = None
  /\ status \in {"active", "grace"} /\ leased' = TRUE
  /\ UNCHANGED <<now, lock, moneyVars, subVars, reqVars, workVars, assigned, cmds, nodeVars>>

RenewQuotaLeases ==
  /\ assigned /\ ~leased /\ Provision
  /\ UNCHANGED <<now, lock, moneyVars, subVars, reqVars, workVars, assigned, nodeVars>>

\* queueDeviceResync, when the node connects (in two steps in DeviceSync).
Resync ==
  /\ assigned /\ status \in {"active", "grace"} /\ Len(cmds) < MaxQueue
  /\ cmds' = Append(cmds, Upsert)
  /\ UNCHANGED <<now, lock, moneyVars, subVars, reqVars, workVars, assigned, leased, nodeVars>>

LeaseExpires ==
  /\ leased /\ leased' = FALSE
  /\ UNCHANGED <<now, lock, moneyVars, subVars, reqVars, workVars, assigned, cmds, nodeVars>>

\* NodeHub.usage charges the last byte of the quota.
Spend ==
  /\ lock = None /\ status \in {"active", "grace"} /\ ~spent /\ spent' = TRUE
  /\ UNCHANGED <<now, lock, moneyVars, plan, pending, status, end, grace, reqVars, workVars, provVars, nodeVars>>

\* The node handles its oldest command.
Deliver ==
  /\ cmds # <<>> /\ cmds' = Tail(cmds)
  /\ LET c == Head(cmds) IN
     /\ nodeEnds' = IF c.type = "device.upsert" THEN c.time ELSE nodeEnds
     /\ override' = IF c.type = "policy.override" /\ c.time > now THEN c.time ELSE override
     /\ online' = (online /\ c # Kick)
  /\ UNCHANGED <<now, lock, moneyVars, subVars, reqVars, workVars, assigned, leased>>

\* Mutant: any subscription the node knows of is good enough.
AuthenticatedOnce == nodeEnds # 0

\* What Authenticate asks of the subscription; NodeLease has its other
\* conditions.  Nothing ends a session but a kick or the device.
Authenticated ==
  nodeEnds > now

Connect ==
  /\ ~online /\ Authenticated /\ online' = TRUE
  /\ UNCHANGED <<now, lock, moneyVars, subVars, reqVars, workVars, provVars, nodeEnds, override>>

Disconnect ==
  /\ online /\ online' = FALSE
  /\ UNCHANGED <<now, lock, moneyVars, subVars, reqVars, workVars, provVars, nodeEnds, override>>

\* A round of the worker takes less than a minute.
Tick ==
  /\ now < MaxTime /\ worker = "idle" /\ now' = now + 1
  /\ UNCHANGED <<lock, moneyVars, subVars, reqVars, workVars, provVars, nodeVars>>
-----------------------------------------------------------------------------
Request(r) ==
  \/ \E p \in Plans : Read(r, "change", p)
  \/ \E a \in Adjustments : Read(r, "adjust", a)
  \/ AdjustWallet(r) \/ RenewPlan(r) \/ Downgrade(r) \/ BuyPlan(r) \/ Refuse(r)
  \/ ProvisionUserDevices(r)

Lifecycle == LifecycleBegin \/ LifecycleRenew \/ LifecycleSweep

Next ==
  \/ \E r \in Requests : Request(r)
  \/ \E a \in Credits, k \in Keys : CreditWallet(a, <<"credit", k>>)
  \/ Lifecycle
  \/ StartTrial \/ Fetch \/ RenewQuotaLeases \/ Resync \/ LeaseExpires \/ Spend
  \/ Deliver \/ Connect \/ Disconnect \/ Tick

Spec == Init /\ [][Next]_vars

(* The workers' tickers go on, transactions end, row locks are granted in   *)
(* turn, leases expire and commands are delivered (CommandChannel,          *)
(* EveryCommandSettles).                                                    *)
FairSpec ==
  /\ Spec
  /\ WF_vars(Deliver) /\ WF_vars(LeaseExpires)
  /\ WF_vars(LifecycleBegin) /\ SF_vars(LifecycleRenew \/ LifecycleSweep)
  /\ SF_vars(RenewQuotaLeases)
  /\ \A r \in Requests :
      WF_vars(AdjustWallet(r) \/ RenewPlan(r) \/ Downgrade(r) \/ BuyPlan(r)
              \/ Refuse(r) \/ ProvisionUserDevices(r))
-----------------------------------------------------------------------------
TypeOK ==
  /\ now \in Nat /\ lock \in Requests \cup {Worker, None}
  /\ plan \in Plans \cup {"TRIAL"} /\ pending \in Plans \cup {None}
  /\ status \in {"pending_trial", "active", "grace", "expired", "suspended"}
  /\ end \in Nat /\ grace \in Nat /\ spent \in BOOLEAN
  /\ balance \in Nat
  /\ ledger \in Seq([amount : Int, after : Nat, key : KeyKinds \X Nat])
  /\ op \in [Requests -> {"idle", "change", "adjust", "provision"}]
  /\ seen \in [Requests -> Nat]
  /\ worker \in {"idle", "renew", "sweep"} /\ last \in Nat
  /\ missed \in BOOLEAN /\ assigned \in BOOLEAN /\ leased \in BOOLEAN
  /\ cmds \in Seq([type : {"device.upsert", "policy.override", "session.kick"}, time : Nat])
  /\ nodeEnds \in Nat /\ override \in Nat /\ online \in BOOLEAN

(* The wallet keeps its promise (Ledger): however plan changes, adjustments, *)
(* credits with repeated keys and automatic renewals meet, every change of   *)
(* the balance is one new entry that accounts for it (changePlan,            *)
(* adjustWallet, creditWallet, subscriptionLifecycle).                       *)
WalletIsALedger == L!Spec

(* The node never admits a device beyond the period its owner has paid for,  *)
(* however late the commands that tell it of changes are: no operation on    *)
(* the subscription brings its end forward.                                  *)
AccessIsPaidFor == nodeEnds <= end

(* Money taken for a plan leaves the user with service to come.  The        *)
(* exception: a period that has ended, and that the worker has not found    *)
(* ended yet, is renewed into the past or upgraded at its full price.       *)
ChargeBuysTime ==
  [][\A i \in DOMAIN ledger' \ DOMAIN ledger : ledger'[i].key[1] \in {"plan", "renew"}
       => end' > now \/ (status = "active" /\ end <= now)]_vars

(* When a trial or a Grace ends, the sessions of the device end: the kick    *)
(* is queued only in the round that follows the end by less than Window, so  *)
(* a worker that pauses for longer leaves them open.                         *)
EndedIsDisconnected ==
  (Ended(status) /\ ~missed) ~> (~online \/ ~Ended(status) \/ missed)

(* A subscription that is paid for and has quota left reaches the node, even *)
(* when the operation that extended it has sent nothing (automatic renewal,  *)
(* RenewPlan): the lease expires, and its renewal sends the subscription.    *)
PaidReachesNode ==
  (status = "active" /\ assigned /\ ~spent)
    ~> (nodeEnds = end \/ status # "active" \/ spent)
=============================================================================
