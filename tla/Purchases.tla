----------------------------- MODULE Purchases ------------------------------
(***************************************************************************)
(* What wallets are spent on: sticker packs (modules/store) and            *)
(* subscriptions (modules/subscriptions).  Each handler checks, charges    *)
(* and records in separate statements.  The wallet repository is           *)
(* AtomicLedger, which WalletRepo implements.                              *)
(***************************************************************************)
EXTENDS AtomicLedger, FiniteSets

CONSTANTS
    Procs,      \* HTTP requests that can run at the same time
    Packs,      \* sticker packs on sale
    PackPrice,  \* price_inr of each, 0 for a free one
    Premium,    \* those with is_premium
    Tiers,      \* tiers of the plans on sale, "free" among them
    TierPrice,  \* price_inr and price_usd of each plan: numbers
    MaxCalls,   \* bound: debits that commit
    MaxSubs,    \* bound: subscription rows
    MaxFaults   \* bound: restarts, lost connections, failing statements

ASSUME PurchasesAssumption ==
    /\ MaxCalls \in Nat /\ MaxSubs \in Nat /\ MaxFaults \in Nat
    /\ Ids = 1..MaxCalls
    /\ Premium \subseteq Packs /\ PackPrice \in [Packs -> Amounts \cup {0}]
    /\ "free" \in Tiers /\ TierPrice \in [Tiers -> [{"INR", "USD"} -> Amounts \cup {0}]]
    /\ Packs \cap Tiers = {}

VARIABLES
    owned,      \* sticker_pack_purchases
    downloads,  \* sticker_packs.download_count
    active,     \* the subscription of each user whose status is 'active'
    subs,       \* number of subscription rows ever: the id of the latest
    pc,         \* where each handler stands
    task,       \* what it was asked to do, and the subscription it found
    charged,    \* history: what each debit was for
    subscribed, \* history: the tiers a user has had
    disturbed,  \* history: users with two requests at work at the same time, or
                \* with one that broke off after it had charged
    calls,      \* number of debits made: the id of the latest
    faults      \* number of faults so far

store == <<owned, downloads, active, subs, subscribed>>
vars == <<tables, store, pc, task, charged, disturbed, calls, faults>>

\* A row of subscriptions.  id 0: there is none.  cancelled: cancelled_at is
\* set.  over: current_period_end has passed.
NoSub == [id |-> 0, tier |-> "free", cancelled |-> FALSE, over |-> FALSE]
Subs == [id : 0..MaxSubs, tier : Tiers, cancelled : BOOLEAN, over : BOOLEAN]

NoTask == [user |-> "", what |-> "", price |-> 0, found |-> 0]

Init ==
    /\ LedgerInit
    /\ owned = {}
    /\ downloads = [k \in Packs |-> 0]
    /\ active = [u \in Users |-> NoSub]
    /\ subs = 0
    /\ pc = [p \in Procs |-> "idle"]
    /\ task = [p \in Procs |-> NoTask]
    /\ charged = {}
    /\ disturbed = {}
    /\ subscribed = {}
    /\ calls = 0 /\ faults = 0

TypeOK ==
    /\ LedgerTypeOK
    /\ owned \subseteq Users \X Packs
    /\ downloads \in [Packs -> Nat]
    /\ active \in [Users -> Subs] /\ subs \in 0..MaxSubs
    /\ pc \in [Procs -> {"idle", "premium", "charge", "record", "count", "renew",
                         "replace", "insert"}]
    /\ \A p \in Procs : pc[p] # "idle" =>
          /\ task[p].user \in Users /\ task[p].what \in Packs \cup Tiers
          /\ task[p].price \in Amounts \cup {0} /\ task[p].found \in 0..MaxSubs
    /\ charged \subseteq [id : Ids, user : Users, what : Packs \cup Tiers]
    /\ subscribed \subseteq Users \X Tiers
    /\ disturbed \subseteq Users
    /\ calls \in 0..MaxCalls /\ faults \in 0..MaxFaults

-----------------------------------------------------------------------------
Goto(p, label) == pc' = [pc EXCEPT ![p] = label]

\* Variant with a fault: no return after res.json.
AnswerGoesOn(p) == UNCHANGED pc /\ task' = [task EXCEPT ![p] = NoTask]

Answer(p) == Goto(p, "idle") /\ task' = [task EXCEPT ![p] = NoTask]

User(p) == task[p].user
What(p) == task[p].what

Busy(u) == \E p \in Procs : pc[p] # "idle" /\ User(p) = u

\* History: a request of u begins; handlers S break off.
Begin(u) == disturbed' = IF Busy(u) THEN disturbed \cup {u} ELSE disturbed

BreakOff(S) ==
    disturbed' = disturbed \cup
        {User(p) : p \in {q \in S : pc[q] \in {"record", "count", "replace", "insert"}}}

\* Where a purchase goes when nothing more has to be checked.
ToPay(price) == IF price > 0 THEN "charge" ELSE "record"

\* Variant with a fault: any active subscription will do.
HasAnyTier(u) == active[u].id # 0

\* status = 'active' AND tier IN ('premium', 'business'): the period is not
\* looked at.
HasPremium(u) == active[u].id # 0 /\ active[u].tier # "free"

\* Variant with a fault: no look at what is owned.
PurchaseAgain(p, u, k) ==
    /\ pc[p] = "idle"
    /\ task' = [task EXCEPT ![p] = [user |-> u, what |-> k, price |-> PackPrice[k],
                                    found |-> 0]]
    /\ Goto(p, IF k \in Premium THEN "premium" ELSE ToPay(PackPrice[k]))
    /\ Begin(u)
    /\ UNCHANGED <<tables, store, charged, calls, faults>>

(* POST /stickers/:packId/purchase, up to the SELECT of what is owned. *)
Purchase(p, u, k) ==
    /\ pc[p] = "idle" /\ <<u, k>> \notin owned
    /\ task' = [task EXCEPT ![p] = [user |-> u, what |-> k, price |-> PackPrice[k],
                                    found |-> 0]]
    /\ Goto(p, IF k \in Premium THEN "premium" ELSE ToPay(PackPrice[k]))
    /\ Begin(u)
    /\ UNCHANGED <<tables, store, charged, calls, faults>>

(* Its SELECT of a premium subscription. *)
CheckPremium(p) ==
    /\ pc[p] = "premium"
    /\ IF HasPremium(User(p)) THEN Goto(p, ToPay(task[p].price)) /\ UNCHANGED task
                              ELSE Answer(p)
    /\ UNCHANGED <<tables, store, charged, disturbed, calls, faults>>

(* POST /subscribe, up to the SELECT of the active subscription.  A plan   *)
(* of price 0, and any plan with paymentSource 'gateway', is not charged.  *)
(* The caller's currency, anything but INR being USD, picks the number     *)
(* that debit() takes from the wallet, which is kept in INR.               *)
Subscribe(p, u, tier, source, currency) ==
    /\ pc[p] = "idle"
    /\ active[u].id = 0 \/ active[u].tier # tier
    /\ task' = [task EXCEPT ![p] = [user |-> u, what |-> tier,
                                    price |-> TierPrice[tier][currency], found |-> active[u].id]]
    /\ Goto(p, IF source = "wallet" /\ TierPrice[tier][currency] > 0 THEN "renew"
               ELSE IF active[u].id # 0 THEN "replace" ELSE "insert")
    /\ Begin(u)
    /\ UNCHANGED <<tables, store, charged, calls, faults>>

\* debit() commits; charged remembers what for.
Debited(p) ==
    /\ pc[p] \in {"charge", "renew"}
    /\ calls < MaxCalls /\ calls' = calls + 1
    /\ Debit(User(p), task[p].price, calls')
    /\ charged' = charged \cup {[id |-> calls', user |-> User(p), what |-> What(p)]}

\* Variant with a fault: the subscription it found is not cancelled first.
ChargeThenInsert(p) ==
    /\ Debited(p)
    /\ Goto(p, IF pc[p] = "charge" THEN "record" ELSE "insert")
    /\ UNCHANGED <<store, task, disturbed, faults>>

Charge(p) ==
    /\ Debited(p)
    /\ Goto(p, IF pc[p] = "charge" THEN "record"
               ELSE IF task[p].found # 0 THEN "replace" ELSE "insert")
    /\ UNCHANGED <<store, task, disturbed, faults>>

(* INSUFFICIENT_BALANCE or WALLET_FROZEN; getOrCreateWallet has left a row. *)
ChargeRefused(p) ==
    /\ pc[p] \in {"charge", "renew"}
    /\ balance[User(p)] < task[p].price \/ frozen[User(p)]
    /\ Open(User(p))
    /\ Answer(p)
    /\ UNCHANGED <<store, charged, disturbed, calls, faults>>

(* INSERT INTO sticker_pack_purchases ... ON CONFLICT DO NOTHING. *)
Record(p) ==
    /\ pc[p] = "record"
    /\ owned' = owned \cup {<<User(p), What(p)>>}
    /\ Goto(p, "count")
    /\ UNCHANGED <<tables, downloads, active, subs, subscribed, task, charged, disturbed, calls, faults>>

(* UPDATE sticker_packs SET download_count = download_count + 1. *)
Count(p) ==
    /\ pc[p] = "count"
    /\ downloads' = [downloads EXCEPT ![What(p)] = @ + 1]
    /\ Answer(p)
    /\ UNCHANGED <<tables, owned, active, subs, subscribed, charged, disturbed, calls, faults>>

(* UPDATE subscriptions SET status = 'cancelled' of the one it had found. *)
Replace(p) ==
    /\ pc[p] = "replace"
    /\ active' = IF active[User(p)].id = task[p].found
                 THEN [active EXCEPT ![User(p)] = NoSub] ELSE active
    /\ Goto(p, "insert")
    /\ UNCHANGED <<tables, owned, downloads, subs, subscribed, task, charged, disturbed, calls, faults>>

(* INSERT INTO subscriptions; the unique index idx_subscriptions_user_active *)
(* lets a user have one active row.                                          *)
InsertSub(p) ==
    LET u == User(p)
    IN  /\ pc[p] = "insert" /\ active[u].id = 0 /\ subs < MaxSubs
        /\ subs' = subs + 1
        /\ active' = [active EXCEPT ![u] = [id |-> subs + 1, tier |-> What(p),
                                            cancelled |-> FALSE, over |-> FALSE]]
        /\ subscribed' = subscribed \cup {<<u, What(p)>>}
        /\ Answer(p)
        /\ UNCHANGED <<tables, owned, downloads, charged, disturbed, calls, faults>>

InsertRefused(p) ==
    /\ pc[p] = "insert" /\ active[User(p)].id # 0
    /\ Answer(p)
    /\ UNCHANGED <<tables, store, charged, disturbed, calls, faults>>

(* POST /cancel: sets cancelled_at, the status stays 'active'. *)
Cancel(u) ==
    /\ HasPremium(u)
    /\ active' = [active EXCEPT ![u].cancelled = TRUE]
    /\ UNCHANGED <<tables, owned, downloads, subs, subscribed, pc, task, charged, disturbed, calls, faults>>

(* Time passes; no code looks at current_period_end. *)
PeriodEnds(u) ==
    /\ active[u].id # 0
    /\ active' = [active EXCEPT ![u].over = TRUE]
    /\ UNCHANGED <<tables, owned, downloads, subs, subscribed, pc, task, charged, disturbed, calls, faults>>

-----------------------------------------------------------------------------
Fault == faults < MaxFaults /\ faults' = faults + 1

(* The connection breaks after COMMIT: the user was charged, the handler   *)
(* throws.                                                                 *)
ChargeUnconfirmed(p) ==
    /\ Fault /\ Debited(p)
    /\ disturbed' = disturbed \cup {User(p)}
    /\ Answer(p)
    /\ UNCHANGED store

(* A statement fails: next(err), and nothing before it is undone. *)
QueryFails(p) ==
    /\ Fault /\ pc[p] # "idle"
    /\ BreakOff({p})
    /\ Answer(p)
    /\ UNCHANGED <<tables, store, charged, calls>>

(* The server restarts. *)
Crash ==
    /\ Fault
    /\ BreakOff(Procs)
    /\ pc' = [p \in Procs |-> "idle"]
    /\ task' = [p \in Procs |-> NoTask]
    /\ UNCHANGED <<tables, store, charged, calls>>

\* An operator freezes or thaws a wallet.
Wallets ==
    /\ \E u \in Users : SetFrozen(u, ~ frozen[u])
    /\ UNCHANGED <<store, pc, task, charged, disturbed, calls, faults>>

Next ==
    \/ \E p \in Procs, u \in Users :
          \/ \E k \in Packs : Purchase(p, u, k)
          \/ \E tier \in Tiers, source \in {"wallet", "gateway"}, currency \in {"INR", "USD"} :
                Subscribe(p, u, tier, source, currency)
    \/ \E p \in Procs :
          \/ CheckPremium(p) \/ Charge(p) \/ ChargeRefused(p) \/ Record(p) \/ Count(p)
          \/ Replace(p) \/ InsertSub(p) \/ InsertRefused(p)
          \/ ChargeUnconfirmed(p) \/ QueryFails(p)
    \/ \E u \in Users : Cancel(u) \/ PeriodEnds(u)
    \/ Crash
    \/ Wallets

Spec == Init /\ [][Next]_vars

-----------------------------------------------------------------------------
Charges(u, x) == {c \in charged : c.user = u /\ c.what = x}

(* A pack with a price belongs only to users who were charged for it, and  *)
(* a premium pack only to users who have had a paid tier, however requests *)
(* interleave or break off.                                                *)
OwnedWasEarned ==
    \A u \in Users, k \in Packs : <<u, k>> \in owned =>
        /\ PackPrice[k] > 0 => Charges(u, k) # {}
        /\ k \in Premium => \E tier \in Tiers \ {"free"} : <<u, tier>> \in subscribed

\* Users whose requests came one after the other and were not cut off.
Undisturbed == {u \in Users \ disturbed : ~ Busy(u)}

(* A pack is charged once, but for overlapping or broken-off requests. *)
ChargedOnce ==
    \A u \in Undisturbed, k \in Packs : Cardinality(Charges(u, k)) <= 1

(* Every charge has its pack or its subscription, but for overlapping or   *)
(* broken-off requests: no refusal comes after the money.                  *)
ChargedIsServed ==
    \A c \in charged : c.user \in Undisturbed => <<c.user, c.what>> \in owned \cup subscribed

(* A plan with a price is active only for users who paid for it. *)
SubscriberPaid ==
    \A u \in Users :
        active[u].id # 0 /\ TierPrice[active[u].tier]["INR"] > 0 => Charges(u, active[u].tier) # {}

=============================================================================
