--------------------------- MODULE PurchasesProofs ---------------------------
(***************************************************************************)
(* Proofs about sticker packs and subscriptions: for every number of       *)
(* requests, users, packs, plans, restarts and failing statements.         *)
(***************************************************************************)
EXTENDS Purchases, AtomicLedgerProofs, FiniteSetTheorems

-----------------------------------------------------------------------------
PackLabels == {"premium", "charge", "record", "count"}
PlanLabels == {"renew", "replace", "insert"}
Labels == {"idle"} \cup PackLabels \cup PlanLabels

Tasks == [user : Users \cup {""}, what : Packs \cup Tiers \cup {""},
          price : Amounts \cup {0}, found : 0..MaxSubs]

HandlersTyped == pc \in [Procs -> Labels] /\ task \in [Procs -> Tasks]

RestTyped ==
    /\ owned \subseteq Users \X Packs
    /\ downloads \in [Packs -> Nat]
    /\ active \in [Users -> Subs] /\ subs \in 0..MaxSubs
    /\ charged \subseteq [id : Ids, user : Users, what : Packs \cup Tiers]
    /\ subscribed \subseteq Users \X Tiers
    /\ disturbed \subseteq Users
    /\ calls \in 0..MaxCalls /\ faults \in 0..MaxFaults

\* The user has had a paid tier; somebody was charged, among ch, for x.
HadTier(sb, u) == \E tier \in Tiers \ {"free"} : <<u, tier>> \in sb
ChargedFor(ch, u, x) == \E c \in ch : c.user = u /\ c.what = x

(* What a handler relies on when it goes on after an await: at l, with     *)
(* task t, when ch has been charged and sb subscribed to.                  *)
Claim(ch, sb, l, t) ==
    /\ l \in PackLabels => t.user \in Users /\ t.what \in Packs /\ t.price = PackPrice[t.what]
    /\ l \in PlanLabels => t.user \in Users /\ t.what \in Tiers
    /\ l \in {"charge", "renew"} => t.price \in Amounts
    /\ l \in {"charge", "record"} /\ t.what \in Premium => HadTier(sb, t.user)
    /\ l = "record" /\ PackPrice[t.what] > 0 => ChargedFor(ch, t.user, t.what)

Claims == \A p \in Procs : Claim(charged, subscribed, pc[p], task[p])

\* An active subscription is one the user has had.
ActiveWasHad == \A u \in Users : active[u].id # 0 => <<u, active[u].tier>> \in subscribed

(* OwnedWasEarned, with the charges it speaks of named.                    *)
Earned ==
    \A u \in Users, k \in Packs : <<u, k>> \in owned =>
        /\ PackPrice[k] > 0 => ChargedFor(charged, u, k)
        /\ k \in Premium => HadTier(subscribed, u)

LEMMA EarnedIsOwnedWasEarned == Earned <=> OwnedWasEarned
<1>1. \A u \in Users, k \in Packs : ChargedFor(charged, u, k) <=> Charges(u, k) # {}
  BY DEF ChargedFor, Charges
<1> QED BY <1>1 DEF Earned, OwnedWasEarned, HadTier

LEMMA TypeFollows ==
    ASSUME LedgerTypeOK, HandlersTyped, RestTyped, Claims
    PROVE  TypeOK
<1>1. pc \in [Procs -> {"idle", "premium", "charge", "record", "count", "renew",
                         "replace", "insert"}]
  BY DEF HandlersTyped, Labels, PackLabels, PlanLabels
<1>2. ASSUME NEW p \in Procs, pc[p] # "idle"
      PROVE  /\ task[p].user \in Users /\ task[p].what \in Packs \cup Tiers
             /\ task[p].price \in Amounts \cup {0} /\ task[p].found \in 0..MaxSubs
  <2>1. task[p].price \in Amounts \cup {0} /\ task[p].found \in 0..MaxSubs
    BY DEF HandlersTyped, Tasks
  <2>2. pc[p] \in PackLabels \/ pc[p] \in PlanLabels
    BY <1>2 DEF HandlersTyped, Labels
  <2> QED BY <2>1, <2>2 DEF Claims, Claim
<1> QED BY <1>1, <1>2 DEF TypeOK, RestTyped

\* Charges and subscriptions are never taken back.
Growing == charged \subseteq charged' /\ subscribed \subseteq subscribed'

LEMMA ClaimStays ==
    ASSUME NEW ch, NEW sb, NEW ch2, NEW sb2, NEW l, NEW t,
           Claim(ch, sb, l, t), ch \subseteq ch2, sb \subseteq sb2
    PROVE  Claim(ch2, sb2, l, t)
<1>1. HadTier(sb, t.user) => HadTier(sb2, t.user)
  BY DEF HadTier
<1>2. ChargedFor(ch, t.user, t.what) => ChargedFor(ch2, t.user, t.what)
  BY DEF ChargedFor
<1> QED BY <1>1, <1>2 DEF Claim

\* A handler goes on at l with task t.
Moves(p, l, t) == pc' = [pc EXCEPT ![p] = l] /\ task' = [task EXCEPT ![p] = t]

LEMMA MovesTo ==
    ASSUME HandlersTyped, NEW p \in Procs, NEW l, NEW t, Moves(p, l, t)
    PROVE  /\ pc'[p] = l /\ task'[p] = t
           /\ \A q \in Procs \ {p} : pc'[q] = pc[q] /\ task'[q] = task[q]
  BY DEF HandlersTyped, Moves

LEMMA GotoMoves ==
    ASSUME HandlersTyped, NEW p \in Procs, NEW l, Goto(p, l), UNCHANGED task
    PROVE  Moves(p, l, task[p]) /\ task[p] \in Tasks
  BY DEF HandlersTyped, Moves, Goto

LEMMA AnswerMoves ==
    ASSUME HandlersTyped, NEW p \in Procs, Answer(p)
    PROVE  Moves(p, "idle", NoTask)
  BY DEF Moves, Answer, Goto

LEMMA MoveKeeps ==
    ASSUME HandlersTyped, Claims, Growing,
           NEW p \in Procs, NEW l \in Labels, NEW t \in Tasks, Moves(p, l, t),
           Claim(charged', subscribed', l, t)
    PROVE  HandlersTyped' /\ Claims'
<1>1. HandlersTyped'
  BY DEF HandlersTyped, Moves
<1>2. ASSUME NEW q \in Procs PROVE Claim(charged', subscribed', pc'[q], task'[q])
  <2>1. CASE q = p
    BY <2>1, MovesTo
  <2>2. CASE q # p
    <3>1. Claim(charged', subscribed', pc[q], task[q])
      BY ClaimStays DEF Claims, Growing
    <3>2. pc'[q] = pc[q] /\ task'[q] = task[q]
      BY <2>2, MovesTo
    <3> QED BY <3>1, <3>2
  <2> QED BY <2>1, <2>2
<1> QED BY <1>1, <1>2 DEF Claims

LEMMA NoTaskTyped == NoTask \in Tasks /\ "idle" \in Labels
  BY PurchasesAssumption DEF NoTask, Tasks, Labels

LEMMA AnswerKeeps ==
    ASSUME HandlersTyped, Claims, Growing, NEW p \in Procs, Answer(p)
    PROVE  HandlersTyped' /\ Claims'
<1>1. Claim(charged', subscribed', "idle", NoTask)
  BY DEF Claim, PackLabels, PlanLabels
<1> QED BY <1>1, NoTaskTyped, AnswerMoves, MoveKeeps

LEMMA HandlersStay ==
    ASSUME HandlersTyped, Claims, Growing, UNCHANGED <<pc, task>>
    PROVE  HandlersTyped' /\ Claims'
<1>1. ASSUME NEW q \in Procs PROVE Claim(charged', subscribed', pc'[q], task'[q])
  BY ClaimStays DEF Claims, Growing
<1> QED BY <1>1 DEF HandlersTyped, Claims

-----------------------------------------------------------------------------
LEMMA NextId ==
    ASSUME RestTyped, calls < MaxCalls
    PROVE  calls + 1 \in Ids /\ calls + 1 \in 0..MaxCalls
  BY PurchasesAssumption DEF RestTyped

LEMMA FaultCounted == RestTyped /\ Fault => faults' \in 0..MaxFaults
  BY PurchasesAssumption DEF RestTyped, Fault

\* What debit() leaves when it commits.
LEMMA Committed ==
    ASSUME HandlersTyped, RestTyped, Claims, NEW p \in Procs, Debited(p)
    PROVE  /\ calls' \in Ids /\ calls' \in 0..MaxCalls
           /\ User(p) \in Users /\ What(p) \in Packs \cup Tiers /\ task[p].price \in Amounts
           /\ Debit(User(p), task[p].price, calls')
           /\ charged' = charged \cup {[id |-> calls', user |-> User(p), what |-> What(p)]}
           /\ charged' \subseteq [id : Ids, user : Users, what : Packs \cup Tiers]
           /\ ChargedFor(charged', User(p), What(p))
<1>1. calls' = calls + 1 /\ calls < MaxCalls /\ pc[p] \in {"charge", "renew"}
  BY DEF Debited
<1>2. calls' \in Ids /\ calls' \in 0..MaxCalls
  BY <1>1, NextId
<1>3. User(p) \in Users /\ What(p) \in Packs \cup Tiers /\ task[p].price \in Amounts
  BY <1>1 DEF Claims, Claim, PackLabels, PlanLabels, User, What
<1> DEFINE c == [id |-> calls', user |-> User(p), what |-> What(p)]
<1>4. charged' = charged \cup {c}
  BY DEF Debited
<1>5. c \in [id : Ids, user : Users, what : Packs \cup Tiers]
  BY <1>2, <1>3
<1>6. c.user = User(p) /\ c.what = What(p)
  OBVIOUS
<1> HIDE DEF c
<1>7. ChargedFor(charged', User(p), What(p))
  BY <1>4, <1>6 DEF ChargedFor
<1>8. charged' \subseteq [id : Ids, user : Users, what : Packs \cup Tiers]
  BY <1>4, <1>5 DEF RestTyped
<1>9. Debit(User(p), task[p].price, calls')
  BY DEF Debited
<1> QED BY <1>2, <1>3, <1>4, <1>7, <1>8, <1>9 DEF c

(* What any step of these handlers does to the wallets is one step of the  *)
(* atomic ledger, or none.                                                 *)
LEMMA StepOfLedger ==
    HandlersTyped /\ RestTyped /\ Claims /\ [Next]_vars => [LedgerNext]_tables
<1> SUFFICES ASSUME HandlersTyped, RestTyped, Claims, [Next]_vars PROVE [LedgerNext]_tables
  OBVIOUS
<1>1. ASSUME NEW p \in Procs, Debited(p) PROVE LedgerNext
  BY <1>1, Committed DEF LedgerNext
<1>2. ASSUME NEW p \in Procs, Charge(p) \/ ChargeUnconfirmed(p) PROVE LedgerNext
  BY <1>1, <1>2 DEF Charge, ChargeUnconfirmed
<1>3. ASSUME NEW p \in Procs, ChargeRefused(p) PROVE LedgerNext
  <2>1. User(p) \in Users
    BY <1>3 DEF ChargeRefused, Claims, Claim, PackLabels, PlanLabels, User
  <2> QED BY <1>3, <2>1 DEF ChargeRefused, LedgerNext
<1>4. CASE Wallets
  <2>1. PICK u \in Users : SetFrozen(u, ~ frozen[u])
    BY <1>4 DEF Wallets
  <2>2. (~ frozen[u]) \in BOOLEAN
    OBVIOUS
  <2> QED BY <2>1, <2>2 DEF LedgerNext
<1>5. ASSUME NEW p \in Procs, NEW u \in Users,
             (\E k \in Packs : Purchase(p, u, k)) \/
             \E tier \in Tiers, source \in {"wallet", "gateway"}, currency \in {"INR", "USD"} :
                Subscribe(p, u, tier, source, currency)
      PROVE  UNCHANGED tables
  BY <1>5 DEF Purchase, Subscribe
<1>6. ASSUME NEW p \in Procs, CheckPremium(p) \/ Record(p) \/ Count(p) \/ Replace(p)
                              \/ InsertSub(p) \/ InsertRefused(p) \/ QueryFails(p)
      PROVE  UNCHANGED tables
  BY <1>6 DEF CheckPremium, Record, Count, Replace, InsertSub, InsertRefused, QueryFails
<1>7. ASSUME NEW u \in Users, Cancel(u) \/ PeriodEnds(u) PROVE UNCHANGED tables
  BY <1>7 DEF Cancel, PeriodEnds
<1>8. CASE Crash
  BY <1>8 DEF Crash
<1>9. CASE UNCHANGED vars
  BY <1>9 DEF vars
<1> QED BY <1>2, <1>3, <1>4, <1>5, <1>6, <1>7, <1>8, <1>9 DEF Next

-----------------------------------------------------------------------------
\* The invariant without the wallets, which StepOfLedger takes care of.
Honest == HandlersTyped /\ RestTyped /\ Claims /\ ActiveWasHad /\ Earned

LEMMA InitHonest == Init => Honest
<1> SUFFICES ASSUME Init PROVE Honest
  OBVIOUS
<1>1. HandlersTyped
  BY NoTaskTyped DEF Init, HandlersTyped
<1>2. Claims
  BY DEF Init, Claims, Claim, PackLabels, PlanLabels
<1>3. NoSub \in Subs /\ NoSub.id = 0
  BY PurchasesAssumption DEF NoSub, Subs
<1>4. RestTyped /\ ActiveWasHad
  BY <1>3, PurchasesAssumption DEF Init, RestTyped, ActiveWasHad
<1>5. Earned
  BY DEF Init, Earned
<1> QED BY <1>1, <1>2, <1>4, <1>5 DEF Honest

\* Steps that write no store row.
LEMMA QuietKeeps ==
    ASSUME Honest, UNCHANGED store, charged \subseteq charged'
    PROVE  Growing /\ ActiveWasHad' /\ Earned'
<1>1. /\ owned' = owned /\ active' = active /\ subscribed' = subscribed
      /\ \A u, k : ChargedFor(charged, u, k) => ChargedFor(charged', u, k)
  BY DEF store, ChargedFor
<1> QED BY <1>1 DEF Honest, Growing, ActiveWasHad, Earned

LEMMA BeginTyped ==
    ASSUME RestTyped, NEW u \in Users, Begin(u)
    PROVE  disturbed' \subseteq Users /\ disturbed \subseteq disturbed'
  BY DEF RestTyped, Begin

LEMMA BreakOffTyped ==
    ASSUME RestTyped, Claims, NEW S \in SUBSET Procs, BreakOff(S)
    PROVE  disturbed' \subseteq Users
<1>1. ASSUME NEW q \in S, pc[q] \in {"record", "count", "replace", "insert"}
      PROVE  User(q) \in Users
  BY <1>1 DEF Claims, Claim, PackLabels, PlanLabels, User
<1> QED BY <1>1 DEF BreakOff, RestTyped

\* A price that is to be paid is an amount.
LEMMA ToPayClaims ==
    ASSUME NEW k \in Packs
    PROVE  /\ ToPay(PackPrice[k]) = "charge" => PackPrice[k] \in Amounts
           /\ ToPay(PackPrice[k]) = "record" => ~ (PackPrice[k] > 0)
           /\ ToPay(PackPrice[k]) \in {"charge", "record"}
<1>1. PackPrice[k] \in Amounts \cup {0}
  BY PurchasesAssumption
<1> QED BY <1>1 DEF ToPay

LEMMA PurchaseKeeps ==
    ASSUME Honest, NEW p \in Procs, NEW u \in Users, NEW k \in Packs, Purchase(p, u, k)
    PROVE  Honest'
<1> DEFINE t == [user |-> u, what |-> k, price |-> PackPrice[k], found |-> 0]
           l == IF k \in Premium THEN "premium" ELSE ToPay(PackPrice[k])
<1>1. Growing /\ ActiveWasHad' /\ Earned'
  BY QuietKeeps DEF Purchase
<1>2. Moves(p, l, t)
  BY DEF Moves, Purchase, Goto
<1>3. t \in Tasks
  <2>1. PackPrice[k] \in Amounts \cup {0} /\ 0 \in 0..MaxSubs
    BY PurchasesAssumption
  <2> QED BY <2>1 DEF Tasks
<1>4. l \in Labels /\ Claim(charged', subscribed', l, t)
  BY ToPayClaims DEF Labels, PackLabels, PlanLabels, Claim
<1>5. HandlersTyped' /\ Claims'
  <2> HIDE DEF l, t
  <2> QED BY <1>1, <1>2, <1>3, <1>4, MoveKeeps DEF Honest
<1>6. RestTyped'
  BY BeginTyped DEF Purchase, store, Honest, RestTyped
<1> QED BY <1>1, <1>5, <1>6 DEF Honest

LEMMA CheckPremiumKeeps ==
    ASSUME Honest, NEW p \in Procs, CheckPremium(p)
    PROVE  Honest'
<1>1. Growing /\ ActiveWasHad' /\ Earned'
  BY QuietKeeps DEF CheckPremium
<1>2. HandlersTyped' /\ Claims'
  <2>1. CASE Answer(p)
    BY <1>1, <2>1, AnswerKeeps DEF Honest
  <2>2. CASE HasPremium(User(p)) /\ Goto(p, ToPay(task[p].price)) /\ UNCHANGED task
    <3> DEFINE l == ToPay(task[p].price)
    <3>1. User(p) \in Users /\ What(p) \in Packs /\ task[p].price = PackPrice[What(p)]
      BY DEF CheckPremium, Honest, Claims, Claim, PackLabels, User, What
    <3>2. HadTier(subscribed', User(p))
      <4>1. active[User(p)].tier \in Tiers \ {"free"}
        BY <2>2, <3>1 DEF HasPremium, Honest, RestTyped, Subs
      <4>2. <<User(p), active[User(p)].tier>> \in subscribed
        BY <2>2, <3>1 DEF HasPremium, Honest, ActiveWasHad
      <4> QED BY <1>1, <4>1, <4>2 DEF HadTier, Growing
    <3>3. l \in Labels /\ Claim(charged', subscribed', l, task[p])
      BY <3>1, <3>2, ToPayClaims DEF Labels, PackLabels, PlanLabels, Claim, User, What
    <3>4. Moves(p, l, task[p]) /\ task[p] \in Tasks
      BY <2>2, GotoMoves DEF Honest
    <3> QED BY <1>1, <3>3, <3>4, MoveKeeps DEF Honest
  <2> QED BY <2>1, <2>2 DEF CheckPremium
<1>3. RestTyped'
  BY DEF CheckPremium, store, Honest, RestTyped
<1> QED BY <1>1, <1>2, <1>3 DEF Honest

LEMMA SubscribeKeeps ==
    ASSUME Honest, NEW p \in Procs, NEW u \in Users, NEW tier \in Tiers, NEW source,
           NEW currency \in {"INR", "USD"},
           Subscribe(p, u, tier, source, currency)
    PROVE  Honest'
<1> DEFINE t == [user |-> u, what |-> tier, price |-> TierPrice[tier][currency], found |-> active[u].id]
           l == IF source = "wallet" /\ TierPrice[tier][currency] > 0 THEN "renew"
                ELSE IF active[u].id # 0 THEN "replace" ELSE "insert"
<1>1. Growing /\ ActiveWasHad' /\ Earned'
  BY QuietKeeps DEF Subscribe
<1>2. Moves(p, l, t)
  BY DEF Moves, Subscribe, Goto
<1>3. t \in Tasks /\ TierPrice[tier][currency] \in Amounts \cup {0}
  <2>1. active[u].id \in 0..MaxSubs
    BY DEF Honest, RestTyped, Subs
  <2>2. TierPrice[tier][currency] \in Amounts \cup {0}
    <3>1. TierPrice[tier] \in [{"INR", "USD"} -> Amounts \cup {0}]
      BY PurchasesAssumption
    <3> QED BY <3>1
  <2>3. t \in Tasks
    <3> HIDE DEF Honest
    <3>1. u \in Users \cup {""} /\ tier \in Packs \cup Tiers \cup {""}
      OBVIOUS
    <3> QED BY <3>1, <2>1, <2>2 DEF Tasks
  <2> QED BY <2>2, <2>3
<1>4. l \in Labels /\ Claim(charged', subscribed', l, t)
  BY <1>3 DEF Labels, PackLabels, PlanLabels, Claim
<1>5. HandlersTyped' /\ Claims'
  <2> HIDE DEF l, t
  <2> QED BY <1>1, <1>2, <1>3, <1>4, MoveKeeps DEF Honest
<1>6. RestTyped'
  BY BeginTyped DEF Subscribe, store, Honest, RestTyped
<1> QED BY <1>1, <1>5, <1>6 DEF Honest

LEMMA ChargeKeeps ==
    ASSUME Honest, NEW p \in Procs, Charge(p)
    PROVE  Honest'
<1> DEFINE l == IF pc[p] = "charge" THEN "record"
                ELSE IF task[p].found # 0 THEN "replace" ELSE "insert"
<1>1. /\ calls' \in 0..MaxCalls /\ charged \subseteq charged'
      /\ charged' \subseteq [id : Ids, user : Users, what : Packs \cup Tiers]
      /\ ChargedFor(charged', User(p), What(p))
  BY Committed DEF Charge, Honest
<1>2. Growing /\ ActiveWasHad' /\ Earned'
  BY <1>1, QuietKeeps DEF Charge
<1>3. Moves(p, l, task[p]) /\ task[p] \in Tasks
  BY GotoMoves DEF Charge, Honest
<1>4. l \in Labels /\ Claim(charged', subscribed', l, task[p])
  <2>1. Claim(charged', subscribed', pc[p], task[p])
    BY <1>2, ClaimStays DEF Honest, Claims, Growing
  <2>2. pc[p] \in {"charge", "renew"}
    BY DEF Charge, Debited
  <2> QED BY <1>1, <2>1, <2>2 DEF Labels, PackLabels, PlanLabels, Claim, User, What
<1>5. HandlersTyped' /\ Claims'
  <2> HIDE DEF l
  <2> QED BY <1>2, <1>3, <1>4, MoveKeeps DEF Honest
<1>6. RestTyped'
  BY <1>1 DEF Charge, store, Honest, RestTyped
<1> QED BY <1>2, <1>5, <1>6 DEF Honest

LEMMA ChargeUnconfirmedKeeps ==
    ASSUME Honest, NEW p \in Procs, ChargeUnconfirmed(p)
    PROVE  Honest'
<1>1. /\ calls' \in 0..MaxCalls /\ charged \subseteq charged' /\ User(p) \in Users
      /\ charged' \subseteq [id : Ids, user : Users, what : Packs \cup Tiers]
  BY Committed DEF ChargeUnconfirmed, Honest
<1>2. Growing /\ ActiveWasHad' /\ Earned'
  BY <1>1, QuietKeeps DEF ChargeUnconfirmed
<1>3. HandlersTyped' /\ Claims'
  BY <1>2, AnswerKeeps DEF ChargeUnconfirmed, Honest
<1>4. RestTyped'
  BY <1>1, FaultCounted DEF ChargeUnconfirmed, store, Honest, RestTyped
<1> QED BY <1>2, <1>3, <1>4 DEF Honest

\* Answers that write nothing to the store.
LEMMA ChargeRefusedKeeps ==
    ASSUME Honest, NEW p \in Procs, ChargeRefused(p) \/ InsertRefused(p)
    PROVE  Honest'
<1>1. Answer(p) /\ UNCHANGED <<store, charged, disturbed, calls, faults>>
  BY DEF ChargeRefused, InsertRefused
<1>2. Growing /\ ActiveWasHad' /\ Earned'
  BY <1>1, QuietKeeps
<1>3. HandlersTyped' /\ Claims'
  BY <1>1, <1>2, AnswerKeeps DEF Honest
<1>4. RestTyped'
  BY <1>1 DEF store, Honest, RestTyped
<1> QED BY <1>2, <1>3, <1>4 DEF Honest

(* A pack is recorded by a handler that has been through the checks and    *)
(* the charge.                                                             *)
LEMMA RecordKeeps ==
    ASSUME Honest, NEW p \in Procs, Record(p)
    PROVE  Honest'
<1>1. /\ User(p) \in Users /\ What(p) \in Packs
      /\ PackPrice[What(p)] > 0 => ChargedFor(charged, User(p), What(p))
      /\ What(p) \in Premium => HadTier(subscribed, User(p))
  BY DEF Record, Honest, Claims, Claim, PackLabels, User, What
<1>2. /\ owned' = owned \cup {<<User(p), What(p)>>} /\ charged' = charged
      /\ subscribed' = subscribed /\ active' = active
  BY DEF Record
<1>3. Growing /\ ActiveWasHad'
  BY <1>2 DEF Growing, ActiveWasHad, Honest
<1>4. Earned'
  BY <1>1, <1>2 DEF Honest, Earned
<1>5. HandlersTyped' /\ Claims'
  <2>1. Moves(p, "count", task[p]) /\ task[p] \in Tasks
    BY GotoMoves DEF Record, Honest
  <2>2. "count" \in Labels /\ Claim(charged', subscribed', "count", task[p])
    BY DEF Record, Honest, Claims, Claim, Labels, PackLabels, PlanLabels
  <2> QED BY <1>3, <2>1, <2>2, MoveKeeps DEF Honest
<1>6. RestTyped'
  BY <1>1, <1>2 DEF Record, Honest, RestTyped
<1> QED BY <1>3, <1>4, <1>5, <1>6 DEF Honest

LEMMA CountKeeps ==
    ASSUME Honest, NEW p \in Procs, Count(p)
    PROVE  Honest'
<1>1. UNCHANGED <<owned, active, subscribed, charged>>
  BY DEF Count
<1>2. Growing /\ ActiveWasHad' /\ Earned'
  BY <1>1 DEF Growing, Honest, ActiveWasHad, Earned
<1>3. HandlersTyped' /\ Claims'
  BY <1>2, AnswerKeeps DEF Count, Honest
<1>4. downloads' \in [Packs -> Nat]
  <2>1. What(p) \in Packs
    BY DEF Count, Honest, Claims, Claim, PackLabels, What
  <2>2. downloads[What(p)] + 1 \in Nat /\ downloads \in [Packs -> Nat]
    BY <2>1 DEF Honest, RestTyped
  <2> QED BY <2>1, <2>2 DEF Count
<1>5. RestTyped'
  BY <1>1, <1>4 DEF Count, Honest, RestTyped
<1> QED BY <1>2, <1>3, <1>5 DEF Honest

\* active is written; what is there was had.
LEMMA ActiveKeeps ==
    ASSUME Honest, NEW sub \in Subs, NEW u \in Users,
           active' = [active EXCEPT ![u] = sub],
           sub.id # 0 => <<u, sub.tier>> \in subscribed',
           subscribed \subseteq subscribed', UNCHANGED <<owned, charged>>
    PROVE  active' \in [Users -> Subs] /\ Growing /\ ActiveWasHad' /\ Earned'
<1>1. active' \in [Users -> Subs] /\ Growing
  BY DEF Honest, RestTyped, Growing
<1>2. ActiveWasHad'
  <2>1. ASSUME NEW v \in Users, active'[v].id # 0
        PROVE  <<v, active'[v].tier>> \in subscribed'
    <3>1. CASE v = u
      <4>1. active'[v] = sub
        BY <3>1 DEF Honest, RestTyped
      <4> QED BY <2>1, <3>1, <4>1
    <3>2. CASE v # u
      <4>1. active'[v] = active[v]
        BY <3>2 DEF Honest, RestTyped
      <4> QED BY <2>1, <4>1 DEF Honest, ActiveWasHad
    <3> QED BY <3>1, <3>2
  <2> QED BY <2>1 DEF ActiveWasHad
<1>3. Earned'
  <2>1. \A v \in Users : HadTier(subscribed, v) => HadTier(subscribed', v)
    BY DEF HadTier
  <2> QED BY <2>1 DEF Honest, Earned
<1> QED BY <1>1, <1>2, <1>3

\* The same for a row that stays as it is but for its flags.
LEMMA SubTyped == NoSub \in Subs /\ NoSub.id = 0
  BY PurchasesAssumption DEF NoSub, Subs

LEMMA ReplaceKeeps ==
    ASSUME Honest, NEW p \in Procs, Replace(p)
    PROVE  Honest'
<1>1. User(p) \in Users /\ What(p) \in Tiers
  BY DEF Replace, Honest, Claims, Claim, PlanLabels, User, What
<1>2. active' \in [Users -> Subs] /\ Growing /\ ActiveWasHad' /\ Earned'
  <2>1. CASE active' = [active EXCEPT ![User(p)] = NoSub]
    BY <1>1, <2>1, SubTyped, ActiveKeeps DEF Replace
  <2>2. CASE active' = active
    BY <2>2 DEF Replace, Honest, RestTyped, Growing, ActiveWasHad, Earned
  <2> QED BY <2>1, <2>2 DEF Replace
<1>3. HandlersTyped' /\ Claims'
  <2>1. Moves(p, "insert", task[p]) /\ task[p] \in Tasks
    BY GotoMoves DEF Replace, Honest
  <2>2. "insert" \in Labels /\ Claim(charged', subscribed', "insert", task[p])
    BY <1>1 DEF Claim, Labels, PackLabels, PlanLabels, User, What
  <2> QED BY <1>2, <2>1, <2>2, MoveKeeps DEF Honest
<1>4. RestTyped'
  BY <1>2 DEF Replace, Honest, RestTyped
<1> QED BY <1>2, <1>3, <1>4 DEF Honest

LEMMA InsertSubKeeps ==
    ASSUME Honest, NEW p \in Procs, InsertSub(p)
    PROVE  Honest'
<1> DEFINE sub == [id |-> subs + 1, tier |-> What(p), cancelled |-> FALSE, over |-> FALSE]
<1>1. User(p) \in Users /\ What(p) \in Tiers
  BY DEF InsertSub, Honest, Claims, Claim, PlanLabels, User, What
<1>2. subs' = subs + 1 /\ subs' \in 0..MaxSubs
  BY PurchasesAssumption DEF InsertSub, Honest, RestTyped
<1>3. sub \in Subs /\ sub.tier = What(p)
  BY <1>1, <1>2 DEF Subs
<1>4. /\ active' = [active EXCEPT ![User(p)] = sub]
      /\ subscribed' = subscribed \cup {<<User(p), What(p)>>}
      /\ UNCHANGED <<owned, charged>>
  BY DEF InsertSub
<1> HIDE DEF sub
<1>5. active' \in [Users -> Subs] /\ Growing /\ ActiveWasHad' /\ Earned'
  BY <1>1, <1>3, <1>4, ActiveKeeps
<1>6. HandlersTyped' /\ Claims'
  BY <1>5, AnswerKeeps DEF InsertSub, Honest
<1>7. RestTyped'
  BY <1>1, <1>2, <1>4, <1>5 DEF InsertSub, Honest, RestTyped
<1> QED BY <1>5, <1>6, <1>7 DEF Honest

LEMMA SubChanges ==
    ASSUME Honest, NEW u \in Users, Cancel(u) \/ PeriodEnds(u)
    PROVE  Honest' /\ \A v \in Users : active'[v].id = active[v].id
<1>1. PICK sub \in Subs : /\ active' = [active EXCEPT ![u] = sub]
                          /\ sub.id = active[u].id /\ sub.tier = active[u].tier
  <2>1. active[u] \in Subs
    BY DEF Honest, RestTyped
  <2>2. CASE Cancel(u)
    <3> DEFINE sub == [active[u] EXCEPT !.cancelled = TRUE]
    <3>1. sub \in Subs /\ sub.id = active[u].id /\ sub.tier = active[u].tier
      BY <2>1 DEF Subs
    <3>2. active' = [active EXCEPT ![u] = sub]
      BY <2>2 DEF Cancel
    <3> QED BY <3>1, <3>2
  <2>3. CASE PeriodEnds(u)
    <3> DEFINE sub == [active[u] EXCEPT !.over = TRUE]
    <3>1. sub \in Subs /\ sub.id = active[u].id /\ sub.tier = active[u].tier
      BY <2>1 DEF Subs
    <3>2. active' = [active EXCEPT ![u] = sub]
      BY <2>3 DEF PeriodEnds
    <3> QED BY <3>1, <3>2
  <2> QED BY <2>2, <2>3
<1>2. UNCHANGED <<owned, downloads, subs, subscribed, pc, task, charged, disturbed, calls, faults>>
  BY DEF Cancel, PeriodEnds
<1>3. sub.id # 0 => <<u, sub.tier>> \in subscribed'
  BY <1>1, <1>2 DEF Honest, ActiveWasHad
<1>4. active' \in [Users -> Subs] /\ Growing /\ ActiveWasHad' /\ Earned'
  BY <1>1, <1>2, <1>3, ActiveKeeps
<1>5. HandlersTyped' /\ Claims'
  BY <1>2, <1>4, HandlersStay DEF Honest
<1>6. RestTyped'
  BY <1>2, <1>4 DEF Honest, RestTyped
<1>7. \A v \in Users : active'[v].id = active[v].id
  BY <1>1 DEF Honest, RestTyped
<1> QED BY <1>4, <1>5, <1>6, <1>7 DEF Honest

LEMMA QueryFailsKeeps ==
    ASSUME Honest, NEW p \in Procs, QueryFails(p)
    PROVE  Honest'
<1>1. Growing /\ ActiveWasHad' /\ Earned'
  BY QuietKeeps DEF QueryFails
<1>2. HandlersTyped' /\ Claims'
  BY <1>1, AnswerKeeps DEF QueryFails, Honest
<1>3. disturbed' \subseteq Users /\ faults' \in 0..MaxFaults
  BY BreakOffTyped, FaultCounted DEF QueryFails, Honest
<1>4. RestTyped'
  BY <1>3 DEF QueryFails, store, Honest, RestTyped
<1> QED BY <1>1, <1>2, <1>4 DEF Honest

(* A restart forgets every handler, and with it every claim. *)
LEMMA CrashKeeps ==
    ASSUME Honest, Crash
    PROVE  Honest'
<1>1. Growing /\ ActiveWasHad' /\ Earned'
  BY QuietKeeps DEF Crash
<1>2. HandlersTyped' /\ Claims'
  BY NoTaskTyped DEF Crash, HandlersTyped, Claims, Claim, PackLabels, PlanLabels
<1>3. disturbed' \subseteq Users /\ faults' \in 0..MaxFaults
  BY BreakOffTyped, FaultCounted DEF Crash, Honest
<1>4. RestTyped'
  BY <1>3 DEF Crash, store, Honest, RestTyped
<1> QED BY <1>1, <1>2, <1>4 DEF Honest

LEMMA IdleKeeps ==
    ASSUME Honest, UNCHANGED <<store, pc, task, charged, disturbed, calls, faults>>
    PROVE  Honest'
<1>1. Growing /\ ActiveWasHad' /\ Earned'
  BY QuietKeeps
<1>2. HandlersTyped' /\ Claims'
  BY <1>1, HandlersStay DEF Honest
<1>3. RestTyped'
  BY DEF store, Honest, RestTyped
<1> QED BY <1>1, <1>2, <1>3 DEF Honest

LEMMA NextHonest == Honest /\ [Next]_vars => Honest'
<1> SUFFICES ASSUME Honest, [Next]_vars PROVE Honest'
  OBVIOUS
<1>1. ASSUME NEW p \in Procs, NEW u \in Users,
             (\E k \in Packs : Purchase(p, u, k)) \/
             \E tier \in Tiers, source \in {"wallet", "gateway"}, currency \in {"INR", "USD"} :
                Subscribe(p, u, tier, source, currency)
      PROVE  Honest'
  BY <1>1, PurchaseKeeps, SubscribeKeeps
<1>2. ASSUME NEW p \in Procs, CheckPremium(p) \/ Charge(p) \/ ChargeRefused(p) \/ Record(p)
                              \/ Count(p)
      PROVE  Honest'
  BY <1>2, CheckPremiumKeeps, ChargeKeeps, ChargeRefusedKeeps, RecordKeeps, CountKeeps
<1>3. ASSUME NEW p \in Procs, Replace(p) \/ InsertSub(p) \/ InsertRefused(p)
                              \/ ChargeUnconfirmed(p) \/ QueryFails(p)
      PROVE  Honest'
  BY <1>3, ReplaceKeeps, InsertSubKeeps, ChargeRefusedKeeps, ChargeUnconfirmedKeeps,
     QueryFailsKeeps
<1>4. ASSUME NEW u \in Users, Cancel(u) \/ PeriodEnds(u) PROVE Honest'
  BY <1>4, SubChanges
<1>5. CASE Crash
  BY <1>5, CrashKeeps
<1>6. CASE Wallets \/ UNCHANGED vars
  BY <1>6, IdleKeeps DEF Wallets, vars
<1> QED BY <1>1, <1>2, <1>3, <1>4, <1>5, <1>6 DEF Next

-----------------------------------------------------------------------------
(* ChargedOnce and ChargedIsServed, made inductive: an undisturbed user    *)
(* has one request at work at most; what was charged is there or is on its *)
(* way; and what that request found before it charged still holds.         *)
Working(p, u) == pc[p] # "idle" /\ User(p) = u

Served(u, x) == <<u, x>> \in owned \cup subscribed

\* Labels between the charge and what was paid for.
Paying == {"record", "replace", "insert"}

InOrder(u) ==
    /\ \A p, q \in Procs : Working(p, u) /\ Working(q, u) => p = q
    /\ \A c, d \in charged : c.user = u /\ d.user = u /\ c.what = d.what /\ c.what \in Packs => c = d
    /\ \A c \in charged : c.user = u =>
          Served(u, c.what) \/ \E p \in Procs : Working(p, u) /\ pc[p] \in Paying /\ What(p) = c.what
    /\ \A p \in Procs : Working(p, u) =>
          /\ pc[p] \in {"premium", "charge"} => ~ ChargedFor(charged, u, What(p))
          /\ pc[p] \in {"renew", "replace"} => active[u].id = task[p].found
          /\ pc[p] = "insert" => active[u].id = 0

AllInOrder == \A u \in Users \ disturbed : InOrder(u)

LEMMA InOrderTells ==
    ASSUME Honest, AllInOrder
    PROVE  ChargedOnce /\ ChargedIsServed
<1>1. \A u \in Undisturbed : u \in Users /\ InOrder(u) /\ \A p \in Procs : ~ Working(p, u)
  BY DEF AllInOrder, Undisturbed, Busy, Working
<1>2. ASSUME NEW u \in Undisturbed, NEW k \in Packs
      PROVE  Cardinality(Charges(u, k)) <= 1
  <2>1. CASE Charges(u, k) = {}
    BY <2>1, FS_EmptySet
  <2>2. CASE Charges(u, k) # {}
    <3>1. PICK c : c \in Charges(u, k)
      BY <2>2
    <3>2. \A d \in Charges(u, k) : d = c
      BY <1>1, <3>1 DEF Charges, InOrder
    <3>3. Charges(u, k) = {c}
      BY <3>1, <3>2
    <3> QED BY <3>3, FS_Singleton
  <2> QED BY <2>1, <2>2
<1>3. ASSUME NEW c \in charged, c.user \in Undisturbed
      PROVE  <<c.user, c.what>> \in owned \cup subscribed
  BY <1>1, <1>3 DEF InOrder, Served
<1> QED BY <1>2, <1>3 DEF ChargedOnce, ChargedIsServed

\* What u has been charged, and what he has, is as before or more of it.
SameUser(u) ==
    /\ active'[u].id = active[u].id
    /\ owned \subseteq owned' /\ subscribed \subseteq subscribed'
    /\ {c \in charged' : c.user = u} = {c \in charged : c.user = u}

LEMMA StandsStill ==
    ASSUME NEW u \in Users, InOrder(u), SameUser(u), UNCHANGED <<pc, task>>
    PROVE  InOrder(u)'
<1>1. \A c : (c \in charged' /\ c.user = u) <=> (c \in charged /\ c.user = u)
  BY DEF SameUser
<1>2. \A x : ChargedFor(charged', u, x) <=> ChargedFor(charged, u, x)
  BY <1>1 DEF ChargedFor
<1> QED BY <1>1, <1>2 DEF SameUser, InOrder, Working, Served, User, What

\* A request that is not u's goes on.
LEMMA Others ==
    ASSUME HandlersTyped, NEW p \in Procs, NEW l, NEW t, Moves(p, l, t),
           NEW u \in Users, InOrder(u), SameUser(u), ~ Working(p, u), l = "idle" \/ t.user # u
    PROVE  InOrder(u)'
<1>1. \A c : (c \in charged' /\ c.user = u) <=> (c \in charged /\ c.user = u)
  BY DEF SameUser
<1>2. \A x : ChargedFor(charged', u, x) <=> ChargedFor(charged, u, x)
  BY <1>1 DEF ChargedFor
<1>3. \A q \in Procs \ {p} : pc'[q] = pc[q] /\ task'[q] = task[q]
  BY MovesTo
<1>4. ~ (pc'[p] # "idle" /\ task'[p].user = u)
  BY MovesTo
<1>5. \A q \in Procs : /\ Working(q, u)' <=> Working(q, u)
                       /\ Working(q, u) => pc'[q] = pc[q] /\ task'[q] = task[q]
  BY <1>3, <1>4 DEF Working, User
<1>6. \A c \in charged' : c.user = u => Served(u, c.what)' \/
         \E q \in Procs : Working(q, u)' /\ pc'[q] \in Paying /\ What(q)' = c.what
  <2>1. ASSUME NEW c \in charged', c.user = u
        PROVE  Served(u, c.what)' \/
               \E q \in Procs : Working(q, u)' /\ pc'[q] \in Paying /\ What(q)' = c.what
    <3>1. CASE Served(u, c.what)
      BY <3>1 DEF Served, SameUser
    <3>2. CASE ~ Served(u, c.what)
      <4>1. PICK q \in Procs : Working(q, u) /\ pc[q] \in Paying /\ What(q) = c.what
        BY <1>1, <2>1, <3>2 DEF InOrder
      <4> QED BY <1>5, <4>1 DEF What
    <3> QED BY <3>1, <3>2
  <2> QED BY <2>1
<1>7. \A q, r \in Procs : Working(q, u)' /\ Working(r, u)' => q = r
  BY <1>5 DEF InOrder
<1>8. \A c, d \in charged' :
         c.user = u /\ d.user = u /\ c.what = d.what /\ c.what \in Packs => c = d
  BY <1>1 DEF InOrder
<1>9. ASSUME NEW q \in Procs, Working(q, u)'
      PROVE  /\ pc'[q] \in {"premium", "charge"} => ~ ChargedFor(charged', u, What(q)')
             /\ pc'[q] \in {"renew", "replace"} => active'[u].id = task'[q].found
             /\ pc'[q] = "insert" => active'[u].id = 0
  BY <1>2, <1>5, <1>9 DEF InOrder, SameUser, What
<1> QED BY <1>6, <1>7, <1>8, <1>9 DEF InOrder

\* The only request of u goes on, or begins.
LEMMA Mine ==
    ASSUME HandlersTyped, NEW p \in Procs, NEW l, NEW t, Moves(p, l, t), NEW u \in Users,
           \A q \in Procs \ {p} : ~ Working(q, u),
           l = "idle" \/ t.user = u,
           \A c, d \in charged' :
              c.user = u /\ d.user = u /\ c.what = d.what /\ c.what \in Packs => c = d,
           \A c \in charged' : c.user = u =>
              Served(u, c.what)' \/ (l \in Paying /\ t.what = c.what),
           l \in {"premium", "charge"} => ~ ChargedFor(charged', u, t.what),
           l \in {"renew", "replace"} => active'[u].id = t.found,
           l = "insert" => active'[u].id = 0
    PROVE  InOrder(u)'
<1>1. /\ pc'[p] = l /\ task'[p] = t
      /\ \A q \in Procs \ {p} : pc'[q] = pc[q] /\ task'[q] = task[q]
  BY MovesTo
<1>2. \A q \in Procs : pc'[q] # "idle" /\ task'[q].user = u => q = p
  BY <1>1 DEF Working, User
<1>3. ASSUME NEW c \in charged', c.user = u
      PROVE  Served(u, c.what)' \/
             \E q \in Procs : pc'[q] # "idle" /\ task'[q].user = u /\ pc'[q] \in Paying
                              /\ task'[q].what = c.what
  BY <1>1, <1>3 DEF Paying
<1> QED BY <1>1, <1>2, <1>3 DEF InOrder, Working, User, What

\* With u's only request at work, nobody else is; what it has not charged for
\* itself is there.
LEMMA Alone ==
    ASSUME NEW u \in Users, InOrder(u), NEW p \in Procs, Working(p, u)
    PROVE  /\ \A q \in Procs \ {p} : ~ Working(q, u)
           /\ \A c \in charged : c.user = u =>
                 Served(u, c.what) \/ (pc[p] \in Paying /\ What(p) = c.what)
  BY DEF InOrder

LEMMA Untouched ==
    ASSUME NEW u \in Users, UNCHANGED <<owned, active, subscribed, charged>>
    PROVE  SameUser(u)
  BY DEF SameUser

\* A request that answers, and has no charge under way.
LEMMA AnswerInOrder ==
    ASSUME HandlersTyped, NEW p \in Procs, Answer(p), NEW u \in Users, InOrder(u),
           UNCHANGED <<owned, active, subscribed, charged>>,
           Working(p, u) => pc[p] \notin Paying
    PROVE  InOrder(u)'
<1>1. Moves(p, "idle", NoTask)
  BY AnswerMoves
<1>2. CASE Working(p, u)
  <2>1. \A q \in Procs \ {p} : ~ Working(q, u)
    BY <1>2, Alone
  <2>2. \A c \in charged' : c.user = u => Served(u, c.what)'
    BY <1>2, Alone DEF Served
  <2>3. \A c, d \in charged' :
           c.user = u /\ d.user = u /\ c.what = d.what /\ c.what \in Packs => c = d
    BY DEF InOrder
  <2> QED BY <1>1, <2>1, <2>2, <2>3, Mine
<1>3. CASE ~ Working(p, u)
  BY <1>1, <1>3, Untouched, Others
<1> QED BY <1>2, <1>3

LEMMA BeginSays ==
    ASSUME NEW u \in Users, Begin(u), u \notin disturbed'
    PROVE  \A p \in Procs : ~ Working(p, u)
  BY DEF Begin, Busy, Working

(* A request begins and finds what it finds: nothing of u is under way.    *)
LEMMA BeginInOrder ==
    ASSUME Honest, NEW p \in Procs, pc[p] = "idle", NEW l, NEW t, Moves(p, l, t),
           t.user \in Users, Begin(t.user), UNCHANGED <<owned, active, subscribed, charged>>,
           t.what \in Packs => <<t.user, t.what>> \notin owned,
           l \in {"premium", "charge"} => t.what \in Packs,
           l \in {"renew", "replace"} => active[t.user].id = t.found,
           l = "insert" => active[t.user].id = 0,
           NEW u \in Users \ disturbed', InOrder(u)
    PROVE  InOrder(u)'
<1>1. CASE t.user = u
  <2>1. \A q \in Procs : ~ Working(q, u)
    BY <1>1, BeginSays
  <2>2. \A c \in charged : c.user = u => Served(u, c.what)
    BY <2>1 DEF InOrder
  <2>3. t.what \in Packs => ~ ChargedFor(charged, u, t.what)
    BY <1>1, <2>2, PurchasesAssumption DEF ChargedFor, Served, Honest, RestTyped
  <2>4. /\ \A c \in charged' : c.user = u => Served(u, c.what)'
        /\ \A c, d \in charged' :
              c.user = u /\ d.user = u /\ c.what = d.what /\ c.what \in Packs => c = d
    BY <2>2 DEF Served, InOrder
  <2> QED BY <1>1, <2>1, <2>3, <2>4, Mine DEF Honest
<1>2. CASE t.user # u
  <2>1. ~ Working(p, u)
    BY DEF Working
  <2> QED BY <1>2, <2>1, Untouched, Others DEF Honest
<1> QED BY <1>1, <1>2

LEMMA PurchaseInOrder ==
    ASSUME Honest, NEW p \in Procs, NEW v \in Users, NEW k \in Packs, Purchase(p, v, k),
           NEW u \in Users \ disturbed', InOrder(u)
    PROVE  InOrder(u)'
<1> DEFINE t == [user |-> v, what |-> k, price |-> PackPrice[k], found |-> 0]
           l == IF k \in Premium THEN "premium" ELSE ToPay(PackPrice[k])
<1>1. Moves(p, l, t) /\ UNCHANGED <<owned, active, subscribed, charged>>
  BY DEF Moves, Purchase, Goto, store
<1>2. /\ t.user = v /\ t.what = k /\ l \in {"premium", "charge", "record"}
      /\ <<v, k>> \notin owned /\ pc[p] = "idle" /\ Begin(v)
  BY ToPayClaims DEF Purchase
<1> HIDE DEF t, l
<1> QED BY <1>1, <1>2, BeginInOrder

LEMMA SubscribeInOrder ==
    ASSUME Honest, NEW p \in Procs, NEW v \in Users, NEW tier \in Tiers, NEW source,
           NEW currency \in {"INR", "USD"},
           Subscribe(p, v, tier, source, currency), NEW u \in Users \ disturbed', InOrder(u)
    PROVE  InOrder(u)'
<1> DEFINE t == [user |-> v, what |-> tier, price |-> TierPrice[tier][currency], found |-> active[v].id]
           l == IF source = "wallet" /\ TierPrice[tier][currency] > 0 THEN "renew"
                ELSE IF active[v].id # 0 THEN "replace" ELSE "insert"
<1>1. Moves(p, l, t) /\ UNCHANGED <<owned, active, subscribed, charged>>
  BY DEF Moves, Subscribe, Goto, store
<1>2. /\ t.user = v /\ t.what = tier /\ t.found = active[v].id /\ tier \notin Packs
      /\ l \in {"renew", "replace", "insert"} /\ (l = "insert" => active[v].id = 0)
      /\ pc[p] = "idle" /\ Begin(v)
  BY PurchasesAssumption DEF Subscribe
<1> HIDE DEF t, l
<1> QED BY <1>1, <1>2, BeginInOrder

LEMMA CheckPremiumInOrder ==
    ASSUME Honest, NEW p \in Procs, CheckPremium(p), NEW u \in Users, InOrder(u)
    PROVE  InOrder(u)'
<1>1. pc[p] = "premium" /\ UNCHANGED <<owned, active, subscribed, charged>>
  BY DEF CheckPremium, store
<1>2. CASE Answer(p)
  BY <1>1, <1>2, AnswerInOrder DEF Honest, Paying
<1>3. CASE Goto(p, ToPay(task[p].price)) /\ UNCHANGED task
  <2> DEFINE l == ToPay(task[p].price)
  <2>1. Moves(p, l, task[p])
    BY <1>3, GotoMoves DEF Honest
  <2>2. l \in {"charge", "record"}
    BY DEF ToPay
  <2> HIDE DEF l
  <2>3. CASE Working(p, u)
    <3>1. /\ \A q \in Procs \ {p} : ~ Working(q, u)
          /\ \A c \in charged' : c.user = u => Served(u, c.what)'
      BY <1>1, <2>3, Alone DEF Paying, Served
    <3>2. ~ ChargedFor(charged', u, task[p].what) /\ task[p].user = u
      BY <1>1, <2>3 DEF InOrder, What, Working, User
    <3>3. \A c, d \in charged' :
             c.user = u /\ d.user = u /\ c.what = d.what /\ c.what \in Packs => c = d
      BY <1>1 DEF InOrder
    <3> QED BY <2>1, <2>2, <3>1, <3>2, <3>3, Mine DEF Honest
  <2>4. CASE ~ Working(p, u)
    <3>1. task[p].user # u
      BY <1>1, <2>4 DEF Working, User
    <3> QED BY <1>1, <2>1, <2>4, <3>1, Untouched, Others DEF Honest
  <2> QED BY <2>3, <2>4
<1> QED BY <1>2, <1>3 DEF CheckPremium

(* A debit adds one charge, of the user whose request made it.             *)
LEMMA OthersUncharged ==
    ASSUME Honest, NEW p \in Procs, Debited(p), NEW u \in Users, User(p) # u,
           UNCHANGED <<owned, active, subscribed>>
    PROVE  SameUser(u)
<1> DEFINE c == [id |-> calls', user |-> User(p), what |-> What(p)]
<1>1. charged' = charged \cup {c}
  BY DEF Debited
<1>2. c.user # u
  OBVIOUS
<1> HIDE DEF c
<1> QED BY <1>1, <1>2 DEF SameUser

LEMMA ChargeInOrder ==
    ASSUME Honest, NEW p \in Procs, Charge(p), NEW u \in Users, InOrder(u)
    PROVE  InOrder(u)'
<1> DEFINE l == IF pc[p] = "charge" THEN "record"
                ELSE IF task[p].found # 0 THEN "replace" ELSE "insert"
           new == [id |-> calls', user |-> User(p), what |-> What(p)]
<1>1. /\ pc[p] \in {"charge", "renew"} /\ UNCHANGED <<owned, active, subscribed>>
      /\ Moves(p, l, task[p]) /\ charged' = charged \cup {new}
  BY GotoMoves DEF Charge, Debited, store, Honest
<1>2. new.user = User(p) /\ new.what = What(p)
  OBVIOUS
<1> HIDE DEF new
<1>3. CASE Working(p, u)
  <2>1. /\ \A q \in Procs \ {p} : ~ Working(q, u)
        /\ \A c \in charged : c.user = u => Served(u, c.what)
    BY <1>1, <1>3, Alone DEF Paying
  <2>2. User(p) = u /\ task[p].user = u /\ task[p].what = What(p)
    BY <1>3 DEF Working, User, What
  <2>3. What(p) \in Packs => ~ ChargedFor(charged, u, What(p))
    <3>1. What(p) \in Packs => pc[p] = "charge"
      BY <1>1, PurchasesAssumption DEF Honest, Claims, Claim, PlanLabels, What
    <3> QED BY <1>3, <3>1 DEF InOrder
  <2>4. \A c, d \in charged' :
           c.user = u /\ d.user = u /\ c.what = d.what /\ c.what \in Packs => c = d
    BY <1>1, <1>2, <2>3 DEF InOrder, ChargedFor
  <2>5. l \in Paying /\ \A c \in charged' : c.user = u => Served(u, c.what)' \/ task[p].what = c.what
    BY <1>1, <1>2, <2>1, <2>2 DEF Paying, Served
  <2>6. /\ l = "replace" => active'[u].id = task[p].found
        /\ l = "insert" => active'[u].id = 0
        /\ l \notin {"premium", "charge", "renew"}
    BY <1>1, <1>3 DEF InOrder
  <2> HIDE DEF l
  <2> QED BY <1>1, <2>1, <2>2, <2>4, <2>5, <2>6, Mine DEF Honest
<1>4. CASE ~ Working(p, u)
  <2>1. User(p) # u /\ task[p].user # u
    BY <1>1, <1>4 DEF Working, User
  <2>2. SameUser(u)
    BY <1>1, <2>1, OthersUncharged DEF Charge
  <2> HIDE DEF l
  <2> QED BY <1>1, <1>4, <2>1, <2>2, Others DEF Honest
<1> QED BY <1>3, <1>4

LEMMA ChargeUnconfirmedInOrder ==
    ASSUME Honest, NEW p \in Procs, ChargeUnconfirmed(p),
           NEW u \in Users \ disturbed', InOrder(u)
    PROVE  InOrder(u)'
<1>1. User(p) # u /\ ~ Working(p, u)
  BY DEF ChargeUnconfirmed, Working
<1>2. SameUser(u)
  BY <1>1, OthersUncharged DEF ChargeUnconfirmed, store
<1>3. Moves(p, "idle", NoTask)
  BY AnswerMoves DEF ChargeUnconfirmed, Honest
<1> QED BY <1>1, <1>2, <1>3, Others DEF Honest

LEMMA RecordInOrder ==
    ASSUME Honest, NEW p \in Procs, Record(p), NEW u \in Users, InOrder(u)
    PROVE  InOrder(u)'
<1>1. /\ pc[p] = "record" /\ owned' = owned \cup {<<User(p), What(p)>>}
      /\ UNCHANGED <<active, subscribed, charged>> /\ Moves(p, "count", task[p])
  BY GotoMoves DEF Record, Honest
<1>2. CASE Working(p, u)
  <2>1. \A q \in Procs \ {p} : ~ Working(q, u)
    BY <1>2, Alone
  <2>2. \A c \in charged' : c.user = u => Served(u, c.what)'
    BY <1>1, <1>2, Alone DEF Served, Working
  <2>3. \A c, d \in charged' :
           c.user = u /\ d.user = u /\ c.what = d.what /\ c.what \in Packs => c = d
    BY <1>1 DEF InOrder
  <2>4. task[p].user = u
    BY <1>2 DEF Working, User
  <2> QED BY <1>1, <2>1, <2>2, <2>3, <2>4, Mine DEF Honest
<1>3. CASE ~ Working(p, u)
  <2>1. SameUser(u) /\ task[p].user # u
    BY <1>1, <1>3 DEF SameUser, Working, User
  <2> QED BY <1>1, <1>3, <2>1, Others DEF Honest
<1> QED BY <1>2, <1>3

LEMMA ReplaceInOrder ==
    ASSUME Honest, NEW p \in Procs, Replace(p), NEW u \in Users, InOrder(u)
    PROVE  InOrder(u)'
<1>1. /\ pc[p] = "replace" /\ UNCHANGED <<owned, subscribed, charged>>
      /\ active' = IF active[User(p)].id = task[p].found
                   THEN [active EXCEPT ![User(p)] = NoSub] ELSE active
      /\ Moves(p, "insert", task[p])
  BY GotoMoves DEF Replace, Honest
<1>2. CASE Working(p, u)
  <2>1. /\ \A q \in Procs \ {p} : ~ Working(q, u)
        /\ \A c \in charged' : c.user = u => Served(u, c.what)' \/ task[p].what = c.what
    BY <1>1, <1>2, Alone DEF Served, What
  <2>2. \A c, d \in charged' :
           c.user = u /\ d.user = u /\ c.what = d.what /\ c.what \in Packs => c = d
    BY <1>1 DEF InOrder
  <2>3. active'[u].id = 0
    <3>1. active[u].id = task[p].found /\ User(p) = u
      BY <1>1, <1>2 DEF InOrder, Working
    <3>2. active'[u] = NoSub
      BY <1>1, <3>1 DEF Honest, RestTyped
    <3> QED BY <3>2, SubTyped
  <2>4. task[p].user = u /\ "insert" \in Paying
    BY <1>2 DEF Working, User, Paying
  <2> QED BY <1>1, <2>1, <2>2, <2>3, <2>4, Mine DEF Honest
<1>3. CASE ~ Working(p, u)
  <2>1. User(p) # u /\ task[p].user # u
    BY <1>1, <1>3 DEF Working, User
  <2>2. SameUser(u)
    BY <1>1, <2>1 DEF SameUser, Honest, RestTyped
  <2> QED BY <1>1, <1>3, <2>1, <2>2, Others DEF Honest
<1> QED BY <1>2, <1>3

LEMMA InsertSubInOrder ==
    ASSUME Honest, NEW p \in Procs, InsertSub(p), NEW u \in Users, InOrder(u)
    PROVE  InOrder(u)'
<1>1. /\ pc[p] = "insert" /\ UNCHANGED <<owned, charged>>
      /\ subscribed' = subscribed \cup {<<User(p), What(p)>>}
      /\ Moves(p, "idle", NoTask)
  BY AnswerMoves DEF InsertSub, Honest
<1>2. CASE Working(p, u)
  <2>1. \A q \in Procs \ {p} : ~ Working(q, u)
    BY <1>2, Alone
  <2>2. \A c \in charged' : c.user = u => Served(u, c.what)'
    BY <1>1, <1>2, Alone DEF Served, Working
  <2>3. \A c, d \in charged' :
           c.user = u /\ d.user = u /\ c.what = d.what /\ c.what \in Packs => c = d
    BY <1>1 DEF InOrder
  <2> QED BY <1>1, <2>1, <2>2, <2>3, Mine DEF Honest
<1>3. CASE ~ Working(p, u)
  <2>1. User(p) # u
    BY <1>1, <1>3 DEF Working
  <2>2. SameUser(u)
    BY <1>1, <2>1 DEF InsertSub, SameUser, Honest, RestTyped
  <2> QED BY <1>1, <1>3, <2>2, Others DEF Honest
<1> QED BY <1>2, <1>3

(* The unique index never refuses the INSERT of an undisturbed user.       *)
LEMMA InsertRefusedInOrder ==
    ASSUME Honest, NEW p \in Procs, InsertRefused(p), NEW u \in Users, InOrder(u)
    PROVE  InOrder(u)'
<1>1. ~ Working(p, u)
  BY DEF InsertRefused, InOrder, Working
<1> QED BY <1>1, AnswerInOrder DEF InsertRefused, store, Honest

LEMMA CrashInOrder ==
    ASSUME Honest, Crash, NEW u \in Users \ disturbed', InOrder(u)
    PROVE  InOrder(u)'
<1>1. \A q \in Procs : Working(q, u) => pc[q] \notin Paying
  BY DEF Crash, BreakOff, Working, Paying
<1>2. \A c \in charged : c.user = u => Served(u, c.what)
  BY <1>1 DEF InOrder
<1>3. /\ \A q \in Procs : pc'[q] = "idle"
      /\ UNCHANGED <<owned, active, subscribed, charged>>
  BY DEF Crash, store
<1>4. \A q \in Procs : ~ Working(q, u)'
  BY <1>3 DEF Working
<1>5. \A c \in charged' : c.user = u => Served(u, c.what)'
  BY <1>2, <1>3 DEF Served
<1>6. \A c, d \in charged' :
         c.user = u /\ d.user = u /\ c.what = d.what /\ c.what \in Packs => c = d
  BY <1>3 DEF InOrder
<1> QED BY <1>4, <1>5, <1>6 DEF InOrder

LEMMA DisturbedGrows == Honest /\ [Next]_vars => disturbed \subseteq disturbed'
<1> SUFFICES ASSUME Honest, [Next]_vars PROVE disturbed \subseteq disturbed'
  OBVIOUS
<1>1. ASSUME NEW p \in Procs, NEW u \in Users,
             (\E k \in Packs : Purchase(p, u, k)) \/
             \E tier \in Tiers, source \in {"wallet", "gateway"}, currency \in {"INR", "USD"} :
                Subscribe(p, u, tier, source, currency)
      PROVE  disturbed \subseteq disturbed'
  BY <1>1 DEF Purchase, Subscribe, Begin
<1>2. ASSUME NEW p \in Procs, CheckPremium(p) \/ Charge(p) \/ ChargeRefused(p) \/ Record(p)
                              \/ Count(p) \/ Replace(p) \/ InsertSub(p) \/ InsertRefused(p)
                              \/ ChargeUnconfirmed(p) \/ QueryFails(p)
      PROVE  disturbed \subseteq disturbed'
  BY <1>2 DEF CheckPremium, Charge, ChargeRefused, Record, Count, Replace, InsertSub,
              InsertRefused, ChargeUnconfirmed, QueryFails, BreakOff
<1>3. ASSUME NEW u \in Users, Cancel(u) \/ PeriodEnds(u) PROVE disturbed \subseteq disturbed'
  BY <1>3 DEF Cancel, PeriodEnds
<1>4. CASE Crash \/ Wallets \/ UNCHANGED vars
  BY <1>4 DEF Crash, Wallets, vars, BreakOff
<1> QED BY <1>1, <1>2, <1>3, <1>4 DEF Next

LEMMA NextInOrder == Honest /\ AllInOrder /\ [Next]_vars => AllInOrder'
<1> SUFFICES ASSUME Honest, AllInOrder, [Next]_vars, NEW u \in Users \ disturbed'
             PROVE  InOrder(u)'
  BY DEF AllInOrder
<1>1. InOrder(u)
  BY DisturbedGrows DEF AllInOrder
<1>2. ASSUME NEW p \in Procs, NEW v \in Users,
             (\E k \in Packs : Purchase(p, v, k)) \/
             \E tier \in Tiers, source \in {"wallet", "gateway"}, currency \in {"INR", "USD"} :
                Subscribe(p, v, tier, source, currency)
      PROVE  InOrder(u)'
  BY <1>1, <1>2, PurchaseInOrder, SubscribeInOrder
<1>3. ASSUME NEW p \in Procs, CheckPremium(p) \/ Charge(p) \/ Record(p) \/ Replace(p)
                              \/ InsertSub(p) \/ InsertRefused(p) \/ ChargeUnconfirmed(p)
      PROVE  InOrder(u)'
  BY <1>1, <1>3, CheckPremiumInOrder, ChargeInOrder, RecordInOrder, ReplaceInOrder,
     InsertSubInOrder, InsertRefusedInOrder, ChargeUnconfirmedInOrder
<1>4. ASSUME NEW p \in Procs, ChargeRefused(p) \/ Count(p) \/ QueryFails(p)
      PROVE  InOrder(u)'
  <2>1. Answer(p) /\ UNCHANGED <<owned, active, subscribed, charged>>
    BY <1>4 DEF ChargeRefused, Count, QueryFails, store
  <2>2. Working(p, u) => pc[p] \notin Paying
    BY <1>4 DEF ChargeRefused, Count, QueryFails, BreakOff, Paying, Working
  <2> QED BY <1>1, <2>1, <2>2, AnswerInOrder DEF Honest
<1>5. ASSUME NEW v \in Users, Cancel(v) \/ PeriodEnds(v) PROVE InOrder(u)'
  <2>1. SameUser(u)
    BY <1>5, SubChanges DEF Cancel, PeriodEnds, SameUser
  <2>2. UNCHANGED <<pc, task>>
    BY <1>5 DEF Cancel, PeriodEnds
  <2> QED BY <1>1, <2>1, <2>2, StandsStill
<1>6. CASE Crash
  BY <1>1, <1>6, CrashInOrder
<1>7. CASE Wallets \/ UNCHANGED vars
  <2>1. UNCHANGED <<owned, active, subscribed, charged>> /\ UNCHANGED <<pc, task>>
    BY <1>7 DEF Wallets, vars, store
  <2> QED BY <1>1, <2>1, Untouched, StandsStill
<1> QED BY <1>2, <1>3, <1>4, <1>5, <1>6, <1>7 DEF Next

-----------------------------------------------------------------------------
LEMMA Inductive == Spec => [](Books /\ Honest /\ AllInOrder)
<1>1. Init => Books /\ Honest /\ AllInOrder
  <2>1. Init => AllInOrder
    BY DEF Init, AllInOrder, InOrder, Working
  <2> QED BY <2>1, InitBooks, InitHonest DEF Init
<1>2. Books /\ Honest /\ AllInOrder /\ [Next]_vars => (Books /\ Honest /\ AllInOrder)'
  <2>1. Books /\ Honest /\ [Next]_vars => Books'
    BY StepOfLedger, NextBooks DEF Honest
  <2> QED BY <2>1, NextHonest, NextInOrder
<1> QED BY <1>1, <1>2, PTL DEF Spec

(* Packs, subscriptions, their handlers and wallets keep their types. *)
THEOREM PurchasesTypeOK == Spec => []TypeOK
<1>1. Books /\ Honest => TypeOK
  BY TypeFollows DEF Books, Honest
<1> QED BY <1>1, Inductive, PTL

(* However purchases interleave or break off, a pack belongs only to users *)
(* who were charged its price and had the tier it asks for.                *)
THEOREM PurchasesOwnedWasEarned == Spec => []OwnedWasEarned
<1>1. Honest => OwnedWasEarned
  BY EarnedIsOwnedWasEarned DEF Honest
<1> QED BY <1>1, Inductive, PTL

(* A user whose requests never overlapped and were not cut off after a     *)
(* charge was never charged twice for a pack.                              *)
THEOREM PurchasesChargedOnce == Spec => []ChargedOnce
<1>1. Honest /\ AllInOrder => ChargedOnce
  BY InOrderTells
<1> QED BY <1>1, Inductive, PTL

(* Nor was he charged for anything he did not get: what he was charged for *)
(* is never refused afterwards.                                            *)
THEOREM PurchasesChargedIsServed == Spec => []ChargedIsServed
<1>1. Honest /\ AllInOrder => ChargedIsServed
  BY InOrderTells
<1> QED BY <1>1, Inductive, PTL

(* Purchases use the wallets only through the operations the repository    *)
(* offers, with arguments it can take: never an amount of 0.               *)
THEOREM PurchasesUseLedger == Spec => LedgerSpec
<1>1. Init => LedgerInit
  BY DEF Init
<1>2. Honest /\ [Next]_vars => [LedgerNext]_tables
  BY StepOfLedger DEF Honest
<1> QED BY <1>1, <1>2, Inductive, PTL DEF Spec, LedgerSpec

(* So purchases never overdraw a wallet. *)
THEOREM PurchasesKeepBooks == Spec => []Books
  BY PurchasesUseLedger, LedgerKeepsBooks, PTL
=============================================================================
