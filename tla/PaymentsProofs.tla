---------------------------- MODULE PaymentsProofs ----------------------------
(***************************************************************************)
(* Proofs about add-money, its callback and withdraw: for every number of  *)
(* requests, orders, callbacks, restarts and failing statements.           *)
(***************************************************************************)
EXTENDS Payments, AtomicLedgerProofs, FiniteSetTheorems

\* A handler at work has an order, and what it knows of the payment is true:
\* a signature, and the answer of the provider it acts on.
PaidFirst ==
    \A p \in Procs :
        /\ pc[p] # "idle" => serving[p] \in Orders
        /\ signed[p] => serving[p] \in paid
        /\ pc[p] \in {"capture", "credit"} => serving[p] \in paid

-----------------------------------------------------------------------------
\* The id a credit or debit gets is one of Ids.
LEMMA NextId ==
    ASSUME TypeOK, calls < MaxCalls
    PROVE  calls + 1 \in Ids /\ calls + 1 \in 0..MaxCalls
  BY PaymentsAssumption DEF TypeOK

\* Leaving room for the credits leaves room for the withdrawal itself.
LEMMA RoomForCredits ==
    ASSUME TypeOK, calls + Cardinality(Orders) * Cardinality(Procs) < MaxCalls
    PROVE  calls < MaxCalls
<1> DEFINE m == Cardinality(Orders)
           n == Cardinality(Procs)
<1>1. m \in Nat /\ n \in Nat
  BY PaymentsAssumption, FS_CardinalityType
<1> HIDE DEF m, n
<1>2. m * n \in Nat
  BY <1>1
<1>3. calls \in Nat /\ MaxCalls \in Nat /\ calls + m * n < MaxCalls
  BY PaymentsAssumption DEF TypeOK, m, n
<1> QED BY <1>2, <1>3

(* What any step of the payment handlers does to the wallets is one step   *)
(* of the atomic ledger, or none.                                          *)
LEMMA StepOfLedger == TypeOK /\ PaidFirst /\ [Next]_vars => [LedgerNext]_tables
<1> SUFFICES ASSUME TypeOK, PaidFirst, [Next]_vars PROVE [LedgerNext]_tables
  OBVIOUS
<1>1. ASSUME NEW p \in Procs, NEW o \in Orders, AddMoney(p, o) PROVE LedgerNext
  <2>1. orders[o].owner \in Users
    BY DEF TypeOK
  <2> QED BY <1>1, <2>1 DEF AddMoney, LedgerNext
<1>2. ASSUME NEW p \in Procs, CreditWallet(p) PROVE LedgerNext
  <2>1. /\ Order(p).owner \in Users /\ Order(p).amount \in Amounts
    BY <1>2 DEF CreditWallet, TypeOK, PaidFirst, Order
  <2>2. calls' = calls + 1 /\ calls < MaxCalls /\ Credit(Order(p).owner, Order(p).amount, calls')
    BY <1>2 DEF CreditWallet
  <2>3. calls' \in Ids
    BY <2>2, NextId
  <2> QED BY <2>1, <2>2, <2>3 DEF LedgerNext
<1>3. ASSUME NEW u \in Users, NEW a \in Amounts, Withdraw(u, a) PROVE LedgerNext
  <2>1. calls < MaxCalls /\ calls' = calls + 1 /\ Debit(u, a, calls')
    BY <1>3, RoomForCredits DEF Withdraw
  <2>2. calls' \in Ids
    BY <2>1, NextId
  <2> QED BY <2>1, <2>2 DEF LedgerNext
<1>4. ASSUME Wallets PROVE LedgerNext
  <2>1. CASE \E u \in Users \ wallets : Open(u)
    BY <2>1 DEF LedgerNext
  <2>2. CASE \E u \in Freezable : SetFrozen(u, ~ frozen[u])
    <3>1. PICK u \in Freezable : SetFrozen(u, ~ frozen[u])
      BY <2>2
    <3>2. u \in Users /\ (~ frozen[u]) \in BOOLEAN
      BY PaymentsAssumption
    <3> QED BY <3>1, <3>2 DEF LedgerNext
  <2> QED BY <1>4, <2>1, <2>2 DEF Wallets
<1>5. ASSUME NEW p \in Procs, Handle(p), ~ CreditWallet(p) PROVE UNCHANGED tables
  BY <1>5 DEF Handle, PlaceOrder, CreateOrder, Verify, VerifyThrows, Capture, Fail, CreditRefused
<1>6. ASSUME NEW p \in Procs, NEW o \in Orders, NEW sig \in BOOLEAN, Callback(p, o, sig)
      PROVE  UNCHANGED tables
  BY <1>6 DEF Callback
<1>7. ASSUME NEW p \in Procs, QueryFails(p) PROVE UNCHANGED tables
  BY <1>7 DEF QueryFails
<1>8. ASSUME NEW o \in Orders, CustomerPays(o) PROVE UNCHANGED tables
  BY <1>8 DEF CustomerPays
<1>9. ASSUME Crash PROVE UNCHANGED tables
  BY <1>9 DEF Crash
<1>10. CASE UNCHANGED vars
  BY <1>10 DEF vars
<1> QED BY <1>1, <1>2, <1>3, <1>4, <1>5, <1>6, <1>7, <1>8, <1>9, <1>10 DEF Next

-----------------------------------------------------------------------------
Labels == {"idle", "ordering", "insert", "verify", "capture", "credit", "fail"}

HandlersTyped ==
    /\ pc \in [Procs -> Labels]
    /\ serving \in [Procs -> Orders \cup {NoOrder}]
    /\ signed \in [Procs -> BOOLEAN]

(* A handler that moves to a step whose claims about the payment are true  *)
(* leaves every handler's claims true.                                     *)
LEMMA GotoKeeps ==
    ASSUME HandlersTyped, PaidFirst, paid \subseteq paid',
           NEW p \in Procs, NEW label \in Labels, NEW o \in Orders \cup {NoOrder},
           NEW sig \in BOOLEAN, Goto(p, label, o, sig),
           label # "idle" => o \in Orders,
           sig => o \in paid,
           label \in {"capture", "credit"} => o \in paid
    PROVE  HandlersTyped' /\ PaidFirst'
<1>1. HandlersTyped'
  BY DEF HandlersTyped, Goto
<1>2. ASSUME NEW q \in Procs
      PROVE  /\ pc'[q] # "idle" => serving'[q] \in Orders
             /\ signed'[q] => serving'[q] \in paid'
             /\ pc'[q] \in {"capture", "credit"} => serving'[q] \in paid'
  <2>1. CASE q = p
    <3>1. pc'[q] = label /\ serving'[q] = o /\ signed'[q] = sig
      BY <2>1 DEF HandlersTyped, Goto
    <3> QED BY <3>1
  <2>2. CASE q # p
    <3>1. pc'[q] = pc[q] /\ serving'[q] = serving[q] /\ signed'[q] = signed[q]
      BY <2>2 DEF HandlersTyped, Goto
    <3> QED BY <3>1 DEF PaidFirst
  <2> QED BY <2>1, <2>2
<1> QED BY <1>1, <1>2 DEF PaidFirst

LEMMA AnswerKeeps ==
    ASSUME HandlersTyped, PaidFirst, paid \subseteq paid', NEW p \in Procs, Answer(p)
    PROVE  HandlersTyped' /\ PaidFirst'
<1>1. "idle" \in Labels /\ NoOrder \in Orders \cup {NoOrder} /\ FALSE \in BOOLEAN
  BY DEF Labels
<1>2. Goto(p, "idle", NoOrder, FALSE)
  BY DEF Answer
<1> QED BY <1>1, <1>2, GotoKeeps

\* Going on to a step that claims no payment, or one that is known.
LEMMA GoOnKeeps ==
    ASSUME HandlersTyped, PaidFirst, paid \subseteq paid', NEW p \in Procs,
           NEW label \in Labels, GoOn(p, label), serving[p] \in Orders,
           label \in {"capture", "credit"} => serving[p] \in paid
    PROVE  HandlersTyped' /\ PaidFirst'
<1>1. signed[p] \in BOOLEAN /\ (signed[p] => serving[p] \in paid)
  BY DEF HandlersTyped, PaidFirst
<1>2. Goto(p, label, serving[p], signed[p])
  BY DEF GoOn
<1> QED BY <1>1, <1>2, GotoKeeps

\* Handlers that stand still while more orders are paid.
LEMMA HandlersStay ==
    ASSUME HandlersTyped, PaidFirst, paid \subseteq paid', UNCHANGED handlers
    PROVE  HandlersTyped' /\ PaidFirst'
  BY DEF HandlersTyped, PaidFirst, handlers

\* What TypeOK says of the rest.
OrderRow == [owner : Users, amount : Amounts, currency : Currencies, status : Statuses,
             at : {"nowhere", "stub", "razorpay", "stripe"}]

RestTyped ==
    /\ orders \in [Orders -> OrderRow]
    /\ keys \in Settings
    /\ currency \in [Users -> Currencies]
    /\ paid \subseteq Orders
    /\ creditedBy \in [Orders -> SUBSET Ids]
    /\ raced \subseteq Orders /\ cut \subseteq Orders
    /\ calls \in 0..MaxCalls /\ faults \in 0..MaxFaults

LEMMA TypeParts == TypeOK <=> LedgerTypeOK /\ HandlersTyped /\ RestTyped
  BY DEF TypeOK, HandlersTyped, RestTyped, Labels, OrderRow

(* Setting the status of an order leaves well-formed rows, and touches no  *)
(* other row.                                                              *)
LEMMA SetStatusKeeps ==
    ASSUME RestTyped, NEW o \in Orders, NEW s \in Statuses, SetStatus(o, s)
    PROVE  /\ orders' \in [Orders -> OrderRow]
           /\ orders'[o].status = s
           /\ \A r \in Orders \ {o} : orders'[r] = orders[r]
<1>1. orders[o] \in OrderRow
  BY DEF RestTyped
<1>2. orders' = [orders EXCEPT ![o] = [orders[o] EXCEPT !.status = s]]
  BY DEF SetStatus
<1>3. [orders[o] EXCEPT !.status = s] \in OrderRow /\ [orders[o] EXCEPT !.status = s].status = s
  BY <1>1 DEF OrderRow
<1> QED BY <1>2, <1>3 DEF RestTyped

(* What the handlers that break off were at work on is an order. *)
LEMMA BreakOffTyped ==
    ASSUME HandlersTyped, PaidFirst, cut \subseteq Orders, NEW S \in SUBSET Procs, BreakOff(S)
    PROVE  cut' \subseteq Orders
<1>1. ASSUME NEW q \in S, pc[q] = "credit" PROVE serving[q] \in Orders
  BY <1>1 DEF PaidFirst
<1> QED BY <1>1 DEF BreakOff

-----------------------------------------------------------------------------
\* The invariant without the wallets, which StepOfLedger takes care of.
Paying == HandlersTyped /\ RestTyped /\ PaidFirst /\ CreditWasPaid

LEMMA InitPaying == Init => Paying
<1> SUFFICES ASSUME Init PROVE Paying
  OBVIOUS
<1> USE PaymentsAssumption DEF Init
<1>1. HandlersTyped /\ PaidFirst
  BY DEF HandlersTyped, PaidFirst, Labels
<1>2. orders \in [Orders -> OrderRow] /\ \A o \in Orders : orders[o].status = "absent"
  BY DEF OrderRow, Statuses
<1>3. RestTyped
  BY <1>2 DEF RestTyped
<1> QED BY <1>1, <1>2, <1>3 DEF Paying, CreditWasPaid

\* Steps that leave the orders and their credits alone.
LEMMA SameOrdersKeep ==
    ASSUME Paying, paid \subseteq paid', UNCHANGED <<orders, creditedBy>>
    PROVE  CreditWasPaid'
  BY DEF Paying, CreditWasPaid

LEMMA AddMoneyKeeps ==
    ASSUME Paying, NEW p \in Procs, NEW o \in Orders, AddMoney(p, o)
    PROVE  Paying'
<1>1. HandlersTyped' /\ PaidFirst'
  <2>1. "ordering" \in Labels /\ FALSE \in BOOLEAN /\ Goto(p, "ordering", o, FALSE)
        /\ paid \subseteq paid'
    BY DEF Labels, AddMoney
  <2> QED BY <2>1, GotoKeeps DEF Paying
<1>2. currency' \in [Users -> Currencies]
  <2>1. orders[o] \in OrderRow /\ currency \in [Users -> Currencies]
    BY DEF Paying, RestTyped
  <2>2. orders[o].currency \in Currencies
    BY <2>1 DEF OrderRow
  <2> QED BY <2>1, <2>2 DEF AddMoney
<1>3. RestTyped'
  BY <1>2 DEF AddMoney, Paying, RestTyped
<1> QED BY <1>1, <1>3, SameOrdersKeep DEF AddMoney, Paying

LEMMA PlaceOrderKeeps ==
    ASSUME Paying, NEW p \in Procs, PlaceOrder(p)
    PROVE  Paying'
<1> DEFINE o == serving[p]
<1>1. o \in Orders /\ orders[o] \in OrderRow
  BY DEF PlaceOrder, Paying, PaidFirst, RestTyped
<1>2. HandlersTyped' /\ PaidFirst'
  <2>1. "insert" \in Labels /\ GoOn(p, "insert") /\ paid \subseteq paid'
    BY DEF Labels, PlaceOrder
  <2> QED BY <1>1, <2>1, GoOnKeeps DEF Paying
<1>3. Checkout(o) \in {"nowhere", "stub", "razorpay", "stripe"}
  BY DEF Checkout, Gateway
<1>4. /\ orders' \in [Orders -> OrderRow]
      /\ \A r \in Orders : orders'[r].status = orders[r].status
  <2> DEFINE row == [orders[o] EXCEPT !.at = Checkout(o)]
  <2>1. orders' = [orders EXCEPT ![o] = row]
    BY DEF PlaceOrder
  <2>2. row \in OrderRow /\ row.status = orders[o].status
    BY <1>1, <1>3 DEF OrderRow
  <2> HIDE DEF row
  <2> QED BY <1>1, <2>1, <2>2 DEF Paying, RestTyped
<1>5. RestTyped'
  BY <1>4 DEF PlaceOrder, Paying, RestTyped
<1>6. CreditWasPaid'
  BY <1>4 DEF PlaceOrder, Paying, CreditWasPaid
<1> QED BY <1>2, <1>5, <1>6 DEF Paying

(* The three statements that set a status: 'created' and 'failed' claim    *)
(* nothing, 'captured' is set by a handler whose order is paid.            *)
LEMMA StatusKeeps ==
    ASSUME Paying, NEW o \in Orders, NEW s \in Statuses, SetStatus(o, s),
           s = "captured" => o \in paid,
           UNCHANGED <<keys, currency, paid, creditedBy, raced, cut, calls, faults>>
    PROVE  RestTyped' /\ CreditWasPaid'
<1>1. /\ orders' \in [Orders -> OrderRow]
      /\ orders'[o].status = s
      /\ \A r \in Orders \ {o} : orders'[r] = orders[r]
  BY SetStatusKeeps DEF Paying
<1>2. RestTyped'
  BY <1>1 DEF Paying, RestTyped
<1>3. ASSUME NEW r \in Orders, creditedBy'[r] # {} \/ orders'[r].status = "captured"
      PROVE  r \in paid'
  BY <1>1, <1>3 DEF Paying, CreditWasPaid
<1> QED BY <1>2, <1>3 DEF CreditWasPaid

LEMMA CreateOrderKeeps ==
    ASSUME Paying, NEW p \in Procs, CreateOrder(p)
    PROVE  Paying'
<1>1. serving[p] \in Orders /\ "created" \in Statuses
  BY DEF CreateOrder, Paying, PaidFirst, Statuses
<1>2. HandlersTyped' /\ PaidFirst'
  BY AnswerKeeps DEF CreateOrder, Paying
<1>3. RestTyped' /\ CreditWasPaid'
  BY <1>1, StatusKeeps DEF CreateOrder
<1> QED BY <1>2, <1>3 DEF Paying

LEMMA FailKeeps ==
    ASSUME Paying, NEW p \in Procs, Fail(p)
    PROVE  Paying'
<1>1. serving[p] \in Orders /\ "failed" \in Statuses
  BY DEF Fail, Paying, PaidFirst, Statuses
<1>2. HandlersTyped' /\ PaidFirst'
  BY AnswerKeeps DEF Fail, Paying
<1>3. RestTyped' /\ CreditWasPaid'
  BY <1>1, StatusKeeps DEF Fail
<1> QED BY <1>2, <1>3 DEF Paying

LEMMA CaptureKeeps ==
    ASSUME Paying, NEW p \in Procs, Capture(p)
    PROVE  Paying'
<1>1. serving[p] \in Orders /\ serving[p] \in paid /\ "captured" \in Statuses
  BY DEF Capture, Paying, PaidFirst, Statuses
<1>2. HandlersTyped' /\ PaidFirst'
  <2>1. "credit" \in Labels /\ GoOn(p, "credit") /\ paid \subseteq paid'
    BY DEF Labels, Capture
  <2> QED BY <1>1, <2>1, GoOnKeeps DEF Paying
<1>3. RestTyped' /\ CreditWasPaid'
  BY <1>1, StatusKeeps DEF Capture
<1> QED BY <1>2, <1>3 DEF Paying

LEMMA CallbackKeeps ==
    ASSUME Paying, NEW p \in Procs, NEW o \in Orders, NEW sig \in BOOLEAN, Callback(p, o, sig)
    PROVE  Paying'
<1>1. HandlersTyped' /\ PaidFirst'
  <2>1. "verify" \in Labels /\ Goto(p, "verify", o, sig) /\ paid \subseteq paid'
        /\ (sig => o \in paid)
    BY DEF Labels, Callback
  <2> QED BY <2>1, GotoKeeps DEF Paying
<1>2. RestTyped'
  BY DEF Callback, Begin, Paying, RestTyped
<1> QED BY <1>1, <1>2, SameOrdersKeep DEF Callback, Paying

(* Neither gateway verifies an order that was not paid: Razorpay's         *)
(* signature exists only for a paid one, Stripe is asked.                  *)
LEMMA VerifyKeeps ==
    ASSUME Paying, NEW p \in Procs, Verify(p)
    PROVE  Paying'
<1>1. serving[p] \in Orders /\ (Verified(p) => serving[p] \in paid)
  BY DEF Verify, Paying, PaidFirst, Verified, VerifiedByRazorpay, VerifiedByStripe
<1> DEFINE next == IF Verified(p) THEN "capture" ELSE "fail"
<1>2. HandlersTyped' /\ PaidFirst'
  <2>1. next \in Labels /\ GoOn(p, next) /\ paid \subseteq paid'
        /\ (next \in {"capture", "credit"} => serving[p] \in paid)
    BY <1>1 DEF Labels, Verify
  <2> HIDE DEF next
  <2> QED BY <1>1, <2>1, GoOnKeeps DEF Paying
<1>3. RestTyped'
  BY DEF Verify, Paying, RestTyped
<1> QED BY <1>2, <1>3, SameOrdersKeep DEF Verify, Paying

LEMMA VerifyThrowsKeeps ==
    ASSUME Paying, NEW p \in Procs, VerifyThrows(p)
    PROVE  Paying'
<1>1. HandlersTyped' /\ PaidFirst'
  BY AnswerKeeps DEF VerifyThrows, Paying
<1>2. RestTyped'
  BY DEF VerifyThrows, Paying, RestTyped
<1> QED BY <1>1, <1>2, SameOrdersKeep DEF VerifyThrows, Paying

(* The credit goes to an order whose capture was allowed. *)
LEMMA CreditWalletKeeps ==
    ASSUME Paying, TypeOK, NEW p \in Procs, CreditWallet(p)
    PROVE  Paying'
<1> DEFINE o == serving[p]
<1>1. o \in Orders /\ o \in paid
  BY DEF CreditWallet, Paying, PaidFirst
<1>2. HandlersTyped' /\ PaidFirst'
  BY AnswerKeeps DEF CreditWallet, Paying
<1>3. calls' \in Ids /\ calls' \in 0..MaxCalls
  BY NextId DEF CreditWallet
<1>4. creditedBy' = [creditedBy EXCEPT ![o] = creditedBy[o] \cup {calls'}]
  BY DEF CreditWallet
<1>5. RestTyped'
  BY <1>1, <1>3, <1>4 DEF CreditWallet, Paying, RestTyped
<1>6. CreditWasPaid'
  BY <1>1, <1>4 DEF CreditWallet, Paying, RestTyped, CreditWasPaid
<1> QED BY <1>2, <1>5, <1>6 DEF Paying

LEMMA CreditRefusedKeeps ==
    ASSUME Paying, NEW p \in Procs, CreditRefused(p)
    PROVE  Paying'
<1>1. HandlersTyped' /\ PaidFirst'
  BY AnswerKeeps DEF CreditRefused, Paying
<1>2. cut' \subseteq Orders
  BY BreakOffTyped DEF CreditRefused, Paying, RestTyped
<1>3. RestTyped'
  BY <1>2 DEF CreditRefused, Paying, RestTyped
<1> QED BY <1>1, <1>3, SameOrdersKeep DEF CreditRefused, Paying

LEMMA CustomerPaysKeeps ==
    ASSUME Paying, NEW o \in Orders, CustomerPays(o)
    PROVE  Paying'
<1>1. HandlersTyped' /\ PaidFirst'
  BY HandlersStay DEF CustomerPays, Paying
<1>2. RestTyped'
  BY DEF CustomerPays, Paying, RestTyped
<1> QED BY <1>1, <1>2, SameOrdersKeep DEF CustomerPays, Paying

LEMMA WithdrawKeeps ==
    ASSUME Paying, TypeOK, NEW u \in Users, NEW a \in Amounts, Withdraw(u, a)
    PROVE  Paying'
<1>1. HandlersTyped' /\ PaidFirst'
  BY HandlersStay DEF Withdraw, Paying
<1>2. calls' \in 0..MaxCalls
  BY RoomForCredits, NextId DEF Withdraw
<1>3. RestTyped'
  BY <1>2 DEF Withdraw, Paying, RestTyped
<1> QED BY <1>1, <1>3, SameOrdersKeep DEF Withdraw, Paying

LEMMA FaultCounted == RestTyped /\ Fault => faults' \in 0..MaxFaults
  BY PaymentsAssumption DEF RestTyped, Fault

LEMMA QueryFailsKeeps ==
    ASSUME Paying, NEW p \in Procs, QueryFails(p)
    PROVE  Paying'
<1>1. HandlersTyped' /\ PaidFirst'
  BY AnswerKeeps DEF QueryFails, Paying
<1>2. cut' \subseteq Orders /\ faults' \in 0..MaxFaults
  BY BreakOffTyped, FaultCounted DEF QueryFails, Paying, RestTyped
<1>3. RestTyped'
  BY <1>2 DEF QueryFails, Paying, RestTyped
<1> QED BY <1>1, <1>3, SameOrdersKeep DEF QueryFails, Paying

(* A restart forgets every handler, and with it every claim. *)
LEMMA CrashKeeps ==
    ASSUME Paying, Crash
    PROVE  Paying'
<1>1. HandlersTyped' /\ PaidFirst'
  BY DEF Crash, HandlersTyped, PaidFirst, Labels
<1>2. cut' \subseteq Orders /\ faults' \in 0..MaxFaults
  BY BreakOffTyped, FaultCounted DEF Crash, Paying, RestTyped
<1>3. RestTyped'
  BY <1>2 DEF Crash, Paying, RestTyped
<1> QED BY <1>1, <1>3, SameOrdersKeep DEF Crash, Paying

LEMMA WalletsKeeps ==
    ASSUME Paying, Wallets
    PROVE  Paying'
<1>1. HandlersTyped' /\ PaidFirst'
  BY HandlersStay DEF Wallets, Paying
<1>2. RestTyped'
  BY DEF Wallets, Paying, RestTyped
<1> QED BY <1>1, <1>2, SameOrdersKeep DEF Wallets, Paying

LEMMA NextPaying == Paying /\ TypeOK /\ [Next]_vars => Paying'
<1> SUFFICES ASSUME Paying, TypeOK, [Next]_vars PROVE Paying'
  OBVIOUS
<1>1. ASSUME NEW p \in Procs, NEW o \in Orders,
             AddMoney(p, o) \/ \E sig \in BOOLEAN : Callback(p, o, sig)
      PROVE  Paying'
  BY <1>1, AddMoneyKeeps, CallbackKeeps
<1>2. ASSUME NEW p \in Procs, Handle(p) PROVE Paying'
  BY <1>2, PlaceOrderKeeps, CreateOrderKeeps, VerifyKeeps, VerifyThrowsKeeps, CaptureKeeps,
     FailKeeps, CreditWalletKeeps, CreditRefusedKeeps DEF Handle
<1>3. ASSUME NEW p \in Procs, QueryFails(p) PROVE Paying'
  BY <1>3, QueryFailsKeeps
<1>4. CASE Crash \/ Wallets
  BY <1>4, CrashKeeps, WalletsKeeps
<1>5. ASSUME NEW o \in Orders, CustomerPays(o) PROVE Paying'
  BY <1>5, CustomerPaysKeeps
<1>6. ASSUME NEW u \in Users, NEW a \in Amounts, Withdraw(u, a) PROVE Paying'
  BY <1>6, WithdrawKeeps
<1>7. CASE UNCHANGED vars
  <2>1. UNCHANGED handlers /\ paid \subseteq paid'
    BY <1>7 DEF vars
  <2>2. HandlersTyped' /\ PaidFirst'
    BY <2>1, HandlersStay DEF Paying
  <2>3. RestTyped' /\ CreditWasPaid'
    BY <1>7 DEF vars, Paying, RestTyped, CreditWasPaid
  <2> QED BY <2>2, <2>3 DEF Paying
<1> QED BY <1>1, <1>2, <1>3, <1>4, <1>5, <1>6, <1>7 DEF Next

-----------------------------------------------------------------------------
(* StatusTellsCredit, made inductive: an order that two callbacks did not  *)
(* meet over, and whose credit was not cut off, is in the hands of one     *)
(* handler at most, and how far that is says whether it is credited.       *)
CreditedOnce(o) == \E id \in Ids : creditedBy[o] = {id}

\* The status of an order while a handler stands at the label.
StatusAt(label) ==
    IF label \in {"ordering", "insert"} THEN "absent"
    ELSE IF label \in {"verify", "capture", "fail"} THEN "created" ELSE "captured"

OneHandler(o) ==
    /\ \A p, q \in Procs : serving[p] = o /\ serving[q] = o => p = q
    /\ \A p \in Procs : serving[p] = o =>
          pc[p] # "idle" /\ orders[o].status = StatusAt(pc[p]) /\ creditedBy[o] = {}
    /\ (\A p \in Procs : serving[p] # o) =>
          IF orders[o].status = "captured" THEN CreditedOnce(o) ELSE creditedBy[o] = {}

Undisturbed == \A o \in Orders \ (raced \cup cut) : OneHandler(o)

LEMMA UndisturbedTells == Undisturbed => StatusTellsCredit
<1> SUFFICES ASSUME Undisturbed, NEW o \in Orders \ (raced \cup cut),
                    \A p \in Procs : serving[p] # o
             PROVE  Cardinality(creditedBy[o]) = IF orders[o].status = "captured" THEN 1 ELSE 0
  BY DEF StatusTellsCredit
<1>1. IF orders[o].status = "captured" THEN CreditedOnce(o) ELSE creditedBy[o] = {}
  BY DEF Undisturbed, OneHandler
<1>2. CASE orders[o].status = "captured"
  <2>1. PICK id \in Ids : creditedBy[o] = {id}
    BY <1>1, <1>2 DEF CreditedOnce
  <2> QED BY <1>2, <2>1, FS_Singleton
<1>3. CASE orders[o].status # "captured"
  BY <1>1, <1>3, FS_EmptySet
<1> QED BY <1>2, <1>3

\* The order's status and credits are what they were.
SameOrder(o) == orders'[o].status = orders[o].status /\ creditedBy'[o] = creditedBy[o]

LEMMA StandsStill ==
    ASSUME NEW o \in Orders, OneHandler(o), SameOrder(o), UNCHANGED handlers
    PROVE  OneHandler(o)'
  BY DEF SameOrder, OneHandler, CreditedOnce, handlers

\* A handler that has nothing to do with o, before and after.
LEMMA Elsewhere ==
    ASSUME HandlersTyped, NEW p \in Procs, NEW l, NEW s, NEW sig, Goto(p, l, s, sig),
           NEW o \in Orders, OneHandler(o), SameOrder(o), serving[p] # o, s # o
    PROVE  OneHandler(o)'
<1>1. pc'[p] = l /\ serving'[p] = s
  BY DEF HandlersTyped, Goto
<1>2. \A q \in Procs \ {p} : pc'[q] = pc[q] /\ serving'[q] = serving[q]
  BY DEF HandlersTyped, Goto
<1> QED BY <1>1, <1>2 DEF SameOrder, OneHandler, CreditedOnce

\* Nobody has o, or p alone; p goes on with it, its status as it should be.
LEMMA Takes ==
    ASSUME HandlersTyped, NEW p \in Procs, NEW l, NEW o \in Orders, NEW sig, Goto(p, l, o, sig),
           \A q \in Procs \ {p} : serving[q] # o,
           l # "idle", orders'[o].status = StatusAt(l), creditedBy'[o] = {}
    PROVE  OneHandler(o)'
<1>1. pc'[p] = l /\ serving'[p] = o
  BY DEF HandlersTyped, Goto
<1>2. \A q \in Procs \ {p} : pc'[q] = pc[q] /\ serving'[q] = serving[q]
  BY DEF HandlersTyped, Goto
<1> QED BY <1>1, <1>2 DEF OneHandler

\* The one handler that has o answers.
LEMMA Leaves ==
    ASSUME HandlersTyped, NEW p \in Procs, Answer(p), NEW o \in Orders,
           serving[p] = o, OneHandler(o),
           IF orders'[o].status = "captured" THEN CreditedOnce(o)' ELSE creditedBy'[o] = {}
    PROVE  OneHandler(o)'
<1>1. serving'[p] = NoOrder /\ NoOrder # o
  BY PaymentsAssumption DEF HandlersTyped, Answer, Goto
<1>2. \A q \in Procs \ {p} : serving'[q] = serving[q]
  BY DEF HandlersTyped, Answer, Goto
<1>3. \A q \in Procs : serving'[q] # o
  BY <1>1, <1>2 DEF OneHandler
<1> QED BY <1>3 DEF OneHandler, CreditedOnce

LEMMA AnswerElsewhere ==
    ASSUME HandlersTyped, NEW p \in Procs, Answer(p), NEW o \in Orders, OneHandler(o),
           SameOrder(o), serving[p] # o
    PROVE  OneHandler(o)'
<1>1. NoOrder # o
  BY PaymentsAssumption
<1> QED BY <1>1, Elsewhere DEF Answer

\* A handler answers before it has captured: nothing was written to o.
LEMMA AnswerEarly ==
    ASSUME HandlersTyped, NEW p \in Procs, Answer(p), NEW o \in Orders, OneHandler(o),
           SameOrder(o), serving[p] = o => pc[p] # "credit", pc[p] \in Labels
    PROVE  OneHandler(o)'
<1>1. CASE serving[p] = o
  <2>1. orders[o].status # "captured" /\ creditedBy[o] = {}
    BY <1>1 DEF OneHandler, StatusAt, Labels
  <2> QED BY <1>1, <2>1, Leaves DEF SameOrder
<1>2. CASE serving[p] # o
  BY <1>2, AnswerElsewhere
<1> QED BY <1>1, <1>2

LEMMA BeginSays ==
    ASSUME NEW o \in Orders, Begin(o), o \notin raced'
    PROVE  \A p \in Procs : serving[p] # o
  BY DEF Begin

LEMMA AddMoneyOne ==
    ASSUME Paying, NEW p \in Procs, NEW s \in Orders, AddMoney(p, s),
           NEW o \in Orders, OneHandler(o)
    PROVE  OneHandler(o)'
<1>1. /\ Goto(p, "ordering", s, FALSE) /\ SameOrder(o) /\ pc[p] = "idle"
      /\ orders[s].status = "absent" /\ \A q \in Procs : serving[q] # s
  BY DEF AddMoney, SameOrder
<1>2. CASE s = o
  <2>1. creditedBy[o] = {}
    BY <1>1, <1>2 DEF OneHandler
  <2>2. "ordering" # "idle" /\ StatusAt("ordering") = "absent"
    BY DEF StatusAt
  <2> QED BY <1>1, <1>2, <2>1, <2>2, Takes DEF SameOrder, Paying
<1>3. CASE s # o
  <2>1. serving[p] # o
    BY <1>1 DEF OneHandler
  <2> QED BY <1>1, <1>3, <2>1, Elsewhere DEF Paying
<1> QED BY <1>2, <1>3

LEMMA CallbackOne ==
    ASSUME Paying, NEW p \in Procs, NEW s \in Orders, NEW sig \in BOOLEAN, Callback(p, s, sig),
           NEW o \in Orders \ raced', OneHandler(o)
    PROVE  OneHandler(o)'
<1>1. /\ Goto(p, "verify", s, sig) /\ SameOrder(o) /\ pc[p] = "idle"
      /\ orders[s].status = "created" /\ Begin(s)
  BY DEF Callback, SameOrder
<1>2. CASE s = o
  <2>1. \A q \in Procs : serving[q] # o
    BY <1>1, <1>2, BeginSays
  <2>2. creditedBy[o] = {}
    BY <1>1, <1>2, <2>1 DEF OneHandler
  <2>3. "verify" # "idle" /\ StatusAt("verify") = "created"
    BY DEF StatusAt
  <2> QED BY <1>1, <1>2, <2>1, <2>2, <2>3, Takes DEF SameOrder, Paying
<1>3. CASE s # o
  <2>1. serving[p] # o
    BY <1>1 DEF OneHandler
  <2> QED BY <1>1, <1>3, <2>1, Elsewhere DEF Paying
<1> QED BY <1>2, <1>3

\* p goes on to l, with the order it has; nobody's credits change.
LEMMA GoOnOne ==
    ASSUME Paying, NEW p \in Procs, NEW l, GoOn(p, l), NEW o \in Orders, OneHandler(o),
           serving[p] \in Orders, l # "idle", creditedBy' = creditedBy,
           serving[p] = o => orders'[o].status = StatusAt(l),
           serving[p] # o => orders'[o].status = orders[o].status
    PROVE  OneHandler(o)'
<1>1. Goto(p, l, serving[p], signed[p])
  BY DEF GoOn
<1>2. CASE serving[p] = o
  <2>1. creditedBy'[o] = {} /\ \A q \in Procs \ {p} : serving[q] # o
    BY <1>2 DEF OneHandler
  <2> QED BY <1>1, <1>2, <2>1, Takes DEF Paying
<1>3. CASE serving[p] # o
  BY <1>1, <1>3, Elsewhere DEF SameOrder, Paying
<1> QED BY <1>2, <1>3

LEMMA PlaceOrderOne ==
    ASSUME Paying, NEW p \in Procs, PlaceOrder(p), NEW o \in Orders, OneHandler(o)
    PROVE  OneHandler(o)'
<1>1. /\ pc[p] = "ordering" /\ GoOn(p, "insert") /\ serving[p] \in Orders
      /\ creditedBy' = creditedBy
  BY DEF PlaceOrder, Paying, PaidFirst
<1>2. orders'[o].status = orders[o].status
  BY DEF PlaceOrder, Paying, RestTyped, OrderRow
<1>3. serving[p] = o => orders'[o].status = StatusAt("insert")
  BY <1>1, <1>2 DEF OneHandler, StatusAt
<1> QED BY <1>1, <1>2, <1>3, GoOnOne

\* Setting a status and answering.
LEMMA StatusOne ==
    ASSUME Paying, NEW p \in Procs, serving[p] \in Orders, NEW st \in {"created", "failed"},
           SetStatus(serving[p], st), Answer(p), creditedBy' = creditedBy,
           NEW o \in Orders, OneHandler(o)
    PROVE  OneHandler(o)'
<1>1. /\ orders'[serving[p]].status = st
      /\ \A r \in Orders \ {serving[p]} : orders'[r] = orders[r]
  BY SetStatusKeeps DEF Paying, Statuses
<1>2. CASE serving[p] = o
  <2>1. creditedBy[o] = {}
    BY <1>2 DEF OneHandler
  <2> QED BY <1>1, <1>2, <2>1, Leaves DEF Paying
<1>3. CASE serving[p] # o
  BY <1>1, <1>3, AnswerElsewhere DEF SameOrder, Paying
<1> QED BY <1>2, <1>3

LEMMA CaptureOne ==
    ASSUME Paying, NEW p \in Procs, Capture(p), NEW o \in Orders, OneHandler(o)
    PROVE  OneHandler(o)'
<1>1. /\ GoOn(p, "credit") /\ serving[p] \in Orders /\ creditedBy' = creditedBy
      /\ SetStatus(serving[p], "captured") /\ "captured" \in Statuses
  BY DEF Capture, Paying, PaidFirst, Statuses
<1>2. /\ orders'[serving[p]].status = "captured"
      /\ \A r \in Orders \ {serving[p]} : orders'[r] = orders[r]
  BY <1>1, SetStatusKeeps DEF Paying
<1>3. StatusAt("credit") = "captured" /\ "credit" # "idle"
  BY DEF StatusAt
<1> QED BY <1>1, <1>2, <1>3, GoOnOne

LEMMA VerifyOne ==
    ASSUME Paying, NEW p \in Procs, Verify(p), NEW o \in Orders, OneHandler(o)
    PROVE  OneHandler(o)'
<1> DEFINE next == IF Verified(p) THEN "capture" ELSE "fail"
<1>1. /\ pc[p] = "verify" /\ GoOn(p, next) /\ serving[p] \in Orders
      /\ creditedBy' = creditedBy /\ orders' = orders
  BY DEF Verify, Paying, PaidFirst
<1>2. next # "idle" /\ StatusAt(next) = "created" /\ StatusAt("verify") = "created"
  BY DEF StatusAt
<1> HIDE DEF next
<1>3. serving[p] = o => orders'[o].status = StatusAt(next)
  BY <1>1, <1>2 DEF OneHandler
<1> QED BY <1>1, <1>2, <1>3, GoOnOne

(* The credit: the order was captured by this handler and by nobody else.  *)
LEMMA CreditWalletOne ==
    ASSUME Paying, TypeOK, NEW p \in Procs, CreditWallet(p), NEW o \in Orders, OneHandler(o)
    PROVE  OneHandler(o)'
<1>1. /\ pc[p] = "credit" /\ Answer(p) /\ orders' = orders /\ calls' \in Ids
      /\ creditedBy' = [creditedBy EXCEPT ![serving[p]] = creditedBy[serving[p]] \cup {calls'}]
  BY NextId DEF CreditWallet
<1>2. CASE serving[p] = o
  <2>1. orders[o].status = "captured" /\ creditedBy[o] = {}
    BY <1>1, <1>2 DEF OneHandler, StatusAt
  <2>2. creditedBy'[o] = {calls'}
    BY <1>1, <1>2, <2>1 DEF Paying, RestTyped
  <2>3. CreditedOnce(o)'
    BY <1>1, <2>2 DEF CreditedOnce
  <2> QED BY <1>1, <1>2, <2>1, <2>3, Leaves DEF Paying
<1>3. CASE serving[p] # o
  <2>1. SameOrder(o)
    BY <1>1, <1>3 DEF SameOrder, Paying, RestTyped
  <2> QED BY <1>1, <1>3, <2>1, AnswerElsewhere DEF Paying
<1> QED BY <1>2, <1>3

LEMMA CrashOne ==
    ASSUME Paying, Crash, NEW o \in Orders \ cut', OneHandler(o)
    PROVE  OneHandler(o)'
<1>1. \A q \in Procs : serving[q] = o => pc[q] # "credit"
  BY DEF Crash, BreakOff
<1>2. IF orders[o].status = "captured" THEN CreditedOnce(o) ELSE creditedBy[o] = {}
  <2>1. ASSUME NEW q \in Procs, serving[q] = o
        PROVE  orders[o].status # "captured" /\ creditedBy[o] = {}
    BY <1>1, <2>1 DEF OneHandler, StatusAt, Paying, HandlersTyped, Labels
  <2> QED BY <2>1 DEF OneHandler
<1>3. \A q \in Procs : serving'[q] # o
  BY PaymentsAssumption DEF Crash
<1>4. orders' = orders /\ creditedBy' = creditedBy
  BY DEF Crash
<1> QED BY <1>2, <1>3, <1>4 DEF OneHandler, CreditedOnce

LEMMA DisturbedGrows == Paying /\ [Next]_vars => raced \cup cut \subseteq raced' \cup cut'
<1> SUFFICES ASSUME Paying, [Next]_vars PROVE raced \subseteq raced' /\ cut \subseteq cut'
  OBVIOUS
<1> DEFINE Grow == raced \subseteq raced' /\ cut \subseteq cut'
<1>1. ASSUME NEW p \in Procs, NEW o \in Orders,
             AddMoney(p, o) \/ \E sig \in BOOLEAN : Callback(p, o, sig)
      PROVE  Grow
  BY <1>1 DEF AddMoney, Callback, Begin
<1>2. ASSUME NEW p \in Procs, Handle(p) PROVE Grow
  BY <1>2 DEF Handle, PlaceOrder, CreateOrder, Verify, VerifyThrows, Capture, Fail,
              CreditWallet, CreditRefused, BreakOff
<1>3. ASSUME NEW p \in Procs, QueryFails(p) PROVE Grow
  BY <1>3 DEF QueryFails, BreakOff
<1>4. CASE Crash \/ Wallets
  BY <1>4 DEF Crash, Wallets, BreakOff
<1>5. ASSUME NEW o \in Orders, CustomerPays(o) PROVE Grow
  BY <1>5 DEF CustomerPays
<1>6. ASSUME NEW u \in Users, NEW a \in Amounts, Withdraw(u, a) PROVE Grow
  BY <1>6 DEF Withdraw
<1>7. CASE UNCHANGED vars
  BY <1>7 DEF vars
<1> QED BY <1>1, <1>2, <1>3, <1>4, <1>5, <1>6, <1>7 DEF Next

LEMMA NextUndisturbed == Paying /\ TypeOK /\ Undisturbed /\ [Next]_vars => Undisturbed'
<1> SUFFICES ASSUME Paying, TypeOK, Undisturbed, [Next]_vars,
                    NEW o \in Orders \ (raced' \cup cut')
             PROVE  OneHandler(o)'
  BY DEF Undisturbed
<1>1. OneHandler(o)
  BY DisturbedGrows DEF Undisturbed
<1>2. HandlersTyped /\ \A p \in Procs : pc[p] \in Labels
  BY DEF Paying, HandlersTyped
<1>3. ASSUME NEW p \in Procs, NEW s \in Orders,
             AddMoney(p, s) \/ \E sig \in BOOLEAN : Callback(p, s, sig)
      PROVE  OneHandler(o)'
  BY <1>1, <1>3, AddMoneyOne, CallbackOne
<1>4. ASSUME NEW p \in Procs, PlaceOrder(p) \/ Verify(p) \/ Capture(p) \/ CreditWallet(p)
      PROVE  OneHandler(o)'
  BY <1>1, <1>4, PlaceOrderOne, VerifyOne, CaptureOne, CreditWalletOne
<1>5. ASSUME NEW p \in Procs, CreateOrder(p) \/ Fail(p) PROVE OneHandler(o)'
  <2>1. serving[p] \in Orders /\ Answer(p) /\ creditedBy' = creditedBy
    BY <1>5 DEF CreateOrder, Fail, Paying, PaidFirst
  <2>2. SetStatus(serving[p], "created") \/ SetStatus(serving[p], "failed")
    BY <1>5 DEF CreateOrder, Fail
  <2> QED BY <1>1, <2>1, <2>2, StatusOne
<1>6. ASSUME NEW p \in Procs, VerifyThrows(p) \/ CreditRefused(p) \/ QueryFails(p)
      PROVE  OneHandler(o)'
  <2>1. Answer(p) /\ SameOrder(o)
    BY <1>6 DEF VerifyThrows, CreditRefused, QueryFails, SameOrder
  <2>2. serving[p] = o => pc[p] # "credit"
    BY <1>6 DEF VerifyThrows, CreditRefused, QueryFails, BreakOff
  <2> QED BY <1>1, <1>2, <2>1, <2>2, AnswerEarly
<1>7. CASE Crash
  BY <1>1, <1>7, CrashOne
<1>8. ASSUME SameOrder(o) /\ UNCHANGED handlers PROVE OneHandler(o)'
  BY <1>1, <1>8, StandsStill
<1>9. ASSUME NEW s \in Orders, CustomerPays(s) PROVE OneHandler(o)'
  BY <1>8, <1>9 DEF CustomerPays, SameOrder
<1>10. ASSUME NEW u \in Users, NEW a \in Amounts, Withdraw(u, a) PROVE OneHandler(o)'
  BY <1>8, <1>10 DEF Withdraw, SameOrder
<1>11. CASE Wallets \/ UNCHANGED vars
  BY <1>8, <1>11 DEF Wallets, vars, SameOrder
<1> QED BY <1>3, <1>4, <1>5, <1>6, <1>7, <1>9, <1>10, <1>11 DEF Next, Handle

-----------------------------------------------------------------------------
(* Wallets and handlers together: Paying needs the ids of credits to be    *)
(* fresh names, the wallets need the orders to name users and amounts.     *)
LEMMA Inductive == Spec => [](Books /\ Paying /\ Undisturbed)
<1>1. Init => Books /\ Paying /\ Undisturbed
  <2>1. Init => Undisturbed
    BY PaymentsAssumption DEF Init, Undisturbed, OneHandler
  <2> QED BY <2>1, InitBooks, InitPaying DEF Init
<1>2. Books /\ Paying /\ Undisturbed /\ [Next]_vars => (Books /\ Paying /\ Undisturbed)'
  <2> SUFFICES ASSUME Books, Paying, Undisturbed, [Next]_vars
               PROVE  (Books /\ Paying /\ Undisturbed)'
    OBVIOUS
  <2>1. TypeOK /\ PaidFirst
    BY TypeParts DEF Books, Paying
  <2>2. Books'
    BY <2>1, StepOfLedger, NextBooks
  <2>3. Paying' /\ Undisturbed'
    BY <2>1, NextPaying, NextUndisturbed
  <2> QED BY <2>2, <2>3
<1> QED BY <1>1, <1>2, PTL DEF Spec

(* Orders, handlers, wallets and their ledgers keep their types. *)
THEOREM PaymentsTypeOK == Spec => []TypeOK
<1>1. Books /\ Paying => TypeOK
  BY TypeParts DEF Books, Paying
<1> QED BY <1>1, Inductive, PTL

(* Whatever callbacks arrive, signed or not, and wherever handlers stop or *)
(* the server restarts with other credentials, only a paid order is        *)
(* captured or credited.                                                   *)
THEOREM PaymentsCreditWasPaid == Spec => []CreditWasPaid
<1>1. Books /\ Paying => CreditWasPaid
  BY DEF Paying
<1> QED BY <1>1, Inductive, PTL

(* Nothing but two callbacks that meet over an order, or a handler cut off *)
(* between capture and credit, makes the status of an order differ from    *)
(* what was added for it, or adds it twice.                                *)
THEOREM PaymentsStatusTellsCredit == Spec => []StatusTellsCredit
  BY UndisturbedTells, Inductive, PTL

(* Payments and withdrawals use the wallets only through the operations    *)
(* the wallet repository offers, with arguments it can take.               *)
THEOREM PaymentsUseLedger == Spec => LedgerSpec
<1>1. Init => LedgerInit
  BY DEF Init
<1>2. Books /\ Paying /\ [Next]_vars => [LedgerNext]_tables
  BY TypeParts, StepOfLedger DEF Books, Paying
<1> QED BY <1>1, <1>2, Inductive, PTL DEF Spec, LedgerSpec

(* So adding and withdrawing money never overdraws a wallet, and the       *)
(* ledger goes on explaining its balance.                                  *)
THEOREM PaymentsKeepBooks == Spec => []Books
  BY PaymentsUseLedger, LedgerKeepsBooks, PTL
=============================================================================
