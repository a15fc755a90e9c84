------------------------------ MODULE Payments ------------------------------
(***************************************************************************)
(* modules/wallet/adapters/http/routes.ts: money enters a wallet through a *)
(* payment order (add-money and its callback) and leaves it through        *)
(* withdraw.  services/payment-gateway.ts decides whether an order was     *)
(* paid.  The wallet repository is AtomicLedger, which WalletRepo          *)
(* implements.                                                             *)
(***************************************************************************)
EXTENDS AtomicLedger, FiniteSets

CONSTANTS
    Procs,      \* HTTP requests that can run at the same time
    Orders,     \* rows of payment_orders
    NoOrder,    \* what a handler that works on none has
    Currencies, \* what body.currency may name; "INR" is the default
    Settings,   \* sets of gateways whose credentials a deployment may have
    Freezable,  \* the users whose wallet an operator may freeze
    MaxCalls,   \* bound: credits and debits that commit
    MaxFaults   \* bound: restarts, lost connections, failing statements

ASSUME PaymentsAssumption ==
    /\ IsFiniteSet(Procs) /\ IsFiniteSet(Orders)
    /\ MaxCalls \in Nat /\ MaxFaults \in Nat
    /\ Ids = 1..MaxCalls /\ NoOrder \notin Orders
    /\ "INR" \in Currencies /\ Freezable \subseteq Users
    /\ Settings \subseteq SUBSET {"razorpay", "stripe"}

VARIABLES
    orders,     \* payment_orders: owner, amount, currency, status; where the
                \* customer can pay (the gateway that made provider_order_id)
    keys,       \* the gateways with credentials in the environment
    currency,   \* wallets.currency, "INR" where there is no row yet
    paid,       \* the orders the customer has paid at the provider
    pc,         \* where each handler stands
    serving,    \* the order it works on
    signed,     \* the callback carries the provider's signature
    creditedBy, \* history: the credits each order caused
    raced,      \* history: orders two callbacks were at work on at one time
    cut,        \* history: orders captured by a handler that broke off then
    calls,      \* number of credits and debits made: the id of the latest
    faults      \* number of faults so far

handlers == <<pc, serving, signed>>
vars == <<tables, orders, keys, currency, paid, handlers, creditedBy, raced, cut, calls, faults>>

Statuses == {"absent", "created", "captured", "failed"}

Init ==
    /\ LedgerInit
    /\ orders \in [Orders -> [owner : Users, amount : Amounts, currency : Currencies,
                              status : {"absent"}, at : {"nowhere"}]]
    /\ keys \in Settings
    /\ currency = [u \in Users |-> "INR"]
    /\ paid = {}
    /\ pc = [p \in Procs |-> "idle"]
    /\ serving = [p \in Procs |-> NoOrder]
    /\ signed = [p \in Procs |-> FALSE]
    /\ creditedBy = [o \in Orders |-> {}]
    /\ raced = {} /\ cut = {}
    /\ calls = 0 /\ faults = 0

TypeOK ==
    /\ LedgerTypeOK
    /\ orders \in [Orders -> [owner : Users, amount : Amounts, currency : Currencies,
                              status : Statuses,
                              at : {"nowhere", "stub", "razorpay", "stripe"}]]
    /\ keys \in Settings
    /\ currency \in [Users -> Currencies]
    /\ paid \subseteq Orders
    /\ pc \in [Procs -> {"idle", "ordering", "insert", "verify", "capture", "credit", "fail"}]
    /\ serving \in [Procs -> Orders \cup {NoOrder}]
    /\ signed \in [Procs -> BOOLEAN]
    /\ creditedBy \in [Orders -> SUBSET Ids]
    /\ raced \subseteq Orders /\ cut \subseteq Orders
    /\ calls \in 0..MaxCalls /\ faults \in 0..MaxFaults

-----------------------------------------------------------------------------
\* p starts, or goes on to, a step of its handler.
Goto(p, label, o, sig) ==
    /\ pc' = [pc EXCEPT ![p] = label]
    /\ serving' = [serving EXCEPT ![p] = o]
    /\ signed' = [signed EXCEPT ![p] = sig]

\* p goes on with the order it has.
GoOn(p, label) == Goto(p, label, serving[p], signed[p])

\* p answers, with a result or an error.
Answer(p) == Goto(p, "idle", NoOrder, FALSE)

Order(p) == orders[serving[p]]

\* History: a callback sets to work on o; handlers S break off.
Begin(o) == raced' = IF \E p \in Procs : serving[p] = o THEN raced \cup {o} ELSE raced

BreakOff(S) == cut' = cut \cup {serving[p] : p \in {q \in S : pc[q] = "credit"}}

SetStatus(o, s) == orders' = [orders EXCEPT ![o].status = s]

\* getGatewayForCurrency; the order's row names it.
Gateway(o) == IF orders[o].currency = "INR" THEN "razorpay" ELSE "stripe"

(* POST /add-money: getOrCreateWallet gives a new wallet the currency of   *)
(* the request, an old one keeps its own; then the provider is asked for   *)
(* an order.                                                               *)
AddMoney(p, o) ==
    /\ pc[p] = "idle" /\ orders[o].status = "absent"
    /\ \A q \in Procs : serving[q] # o      \* a new order each time
    /\ Open(orders[o].owner)
    /\ currency' = IF orders[o].owner \in wallets THEN currency
                   ELSE [currency EXCEPT ![orders[o].owner] = orders[o].currency]
    /\ Goto(p, "ordering", o, FALSE)
    /\ UNCHANGED <<orders, keys, paid, creditedBy, raced, cut, calls, faults>>

\* createOrder of either gateway: without credentials it asks the stub.
Checkout(o) == IF Gateway(o) \in keys THEN Gateway(o) ELSE "stub"

PlaceOrder(p) ==
    /\ pc[p] = "ordering"
    /\ orders' = [orders EXCEPT ![serving[p]].at = Checkout(serving[p])]
    /\ GoOn(p, "insert")
    /\ UNCHANGED <<tables, keys, currency, paid, creditedBy, raced, cut, calls, faults>>

(* INSERT INTO payment_orders, and the customer is shown the checkout. *)
CreateOrder(p) ==
    /\ pc[p] = "insert"
    /\ SetStatus(serving[p], "created")
    /\ Answer(p)
    /\ UNCHANGED <<tables, keys, currency, paid, creditedBy, raced, cut, calls, faults>>

(* The customer pays at the provider, at any time after. *)
CustomerPays(o) ==
    /\ o \notin paid /\ orders[o].status # "absent" /\ orders[o].at # "stub"
    /\ paid' = paid \cup {o}
    /\ UNCHANGED <<tables, orders, keys, currency, handlers, creditedBy, raced, cut, calls, faults>>

\* Variant with a fault: the status of the order is not looked at.
CallbackAny(p, o, sig) ==
    /\ pc[p] = "idle" /\ orders[o].status # "absent"
    /\ sig => o \in paid
    /\ Goto(p, "verify", o, sig)
    /\ Begin(o)
    /\ UNCHANGED <<tables, orders, keys, currency, paid, creditedBy, cut, calls, faults>>

(* POST /add-money/callback, from the app or the provider, once or more:   *)
(* SELECT the order, whose status must still be 'created'.  A signature is *)
(* optional and can be right only for an order that was paid.              *)
Callback(p, o, sig) ==
    /\ pc[p] = "idle" /\ orders[o].status = "created"
    /\ sig => o \in paid
    /\ Goto(p, "verify", o, sig)
    /\ Begin(o)
    /\ UNCHANGED <<tables, orders, keys, currency, paid, creditedBy, cut, calls, faults>>

\* Variant with a fault: the stub gateway, which verifies everything.
VerifiedByStub(p) == TRUE

\* verifyPayment of Razorpay compares the signature of the callback, that of
\* Stripe looks up whether the intent has succeeded.
VerifiedByRazorpay(p) == "razorpay" \in keys /\ signed[p]
VerifiedByStripe(p) == "stripe" \in keys /\ serving[p] \in paid

\* getPaymentGateway(order.provider).verifyPayment(...)
Verified(p) == IF Gateway(serving[p]) = "razorpay" THEN VerifiedByRazorpay(p) ELSE VerifiedByStripe(p)

\* Stripe does not know an intent the stub has made up.
Unknown(o) == orders[o].at = "stub" /\ Gateway(o) = "stripe" /\ "stripe" \in keys

Verify(p) ==
    /\ pc[p] = "verify" /\ ~ Unknown(serving[p])
    /\ GoOn(p, IF Verified(p) THEN "capture" ELSE "fail")
    /\ UNCHANGED <<tables, orders, keys, currency, paid, creditedBy, raced, cut, calls, faults>>

(* retrieve throws: next(err), and the order stays as it is. *)
VerifyThrows(p) ==
    /\ pc[p] = "verify" /\ Unknown(serving[p])
    /\ Answer(p)
    /\ UNCHANGED <<tables, orders, keys, currency, paid, creditedBy, raced, cut, calls, faults>>

\* Variant with a fault: the handler answers before it credits.
CaptureOnly(p) ==
    /\ pc[p] = "capture"
    /\ SetStatus(serving[p], "captured")
    /\ Answer(p)
    /\ UNCHANGED <<tables, keys, currency, paid, creditedBy, raced, cut, calls, faults>>

(* UPDATE payment_orders SET status = 'captured' WHERE id = $3. *)
Capture(p) ==
    /\ pc[p] = "capture"
    /\ SetStatus(serving[p], "captured")
    /\ GoOn(p, "credit")
    /\ UNCHANGED <<tables, keys, currency, paid, creditedBy, raced, cut, calls, faults>>

\* Variant with a fault: a status that payment_status does not have.
FailAsDeclined(p) ==
    /\ pc[p] = "fail"
    /\ SetStatus(serving[p], "declined")
    /\ Answer(p)
    /\ UNCHANGED <<tables, keys, currency, paid, creditedBy, raced, cut, calls, faults>>

(* UPDATE payment_orders SET status = 'failed' WHERE id = $2. *)
Fail(p) ==
    /\ pc[p] = "fail"
    /\ SetStatus(serving[p], "failed")
    /\ Answer(p)
    /\ UNCHANGED <<tables, keys, currency, paid, creditedBy, raced, cut, calls, faults>>

(* credit() of the order's amount; its answer may be lost (see Faults).    *)
CreditWallet(p) ==
    LET o == Order(p)
    IN  /\ pc[p] = "credit" /\ calls < MaxCalls
        /\ calls' = calls + 1
        /\ Credit(o.owner, o.amount, calls')
        /\ creditedBy' = [creditedBy EXCEPT ![serving[p]] = @ \cup {calls'}]
        /\ Answer(p)
        /\ UNCHANGED <<orders, keys, currency, paid, raced, cut, faults>>

(* WALLET_FROZEN: next(err); the order stays captured. *)
CreditRefused(p) ==
    /\ pc[p] = "credit" /\ frozen[Order(p).owner]
    /\ Answer(p)
    /\ BreakOff({p})
    /\ UNCHANGED <<tables, orders, keys, currency, paid, creditedBy, raced, calls, faults>>

(* POST /withdraw: a debit, and "processing" is answered; no code pays the *)
(* money out.                                                              *)
Withdraw(u, a) ==
    /\ calls + Cardinality(Orders) * Cardinality(Procs) < MaxCalls  \* room for credits
    /\ calls' = calls + 1
    /\ Debit(u, a, calls')
    /\ UNCHANGED <<orders, keys, currency, paid, handlers, creditedBy, raced, cut, faults>>

-----------------------------------------------------------------------------
Fault == faults < MaxFaults /\ faults' = faults + 1

(* A statement or the provider fails: next(err), nothing is undone. *)
QueryFails(p) ==
    /\ Fault /\ pc[p] # "idle"
    /\ BreakOff({p})
    /\ Answer(p)
    /\ UNCHANGED <<tables, orders, keys, currency, paid, creditedBy, raced, calls>>

(* The server restarts, perhaps with other credentials: handlers are       *)
(* forgotten, what was committed stays.                                    *)
Crash ==
    /\ Fault
    /\ keys' \in Settings
    /\ BreakOff(Procs)
    /\ pc' = [p \in Procs |-> "idle"]
    /\ serving' = [p \in Procs |-> NoOrder]
    /\ signed' = [p \in Procs |-> FALSE]
    /\ UNCHANGED <<tables, orders, currency, paid, creditedBy, raced, calls>>

\* getOrCreateWallet of another request (currency 'INR'), and a freeze.
Wallets ==
    /\ \/ \E u \in Users \ wallets : Open(u)
       \/ \E u \in Freezable : SetFrozen(u, ~ frozen[u])
    /\ UNCHANGED <<orders, keys, currency, paid, handlers, creditedBy, raced, cut, calls, faults>>

Handle(p) ==
    \/ PlaceOrder(p) \/ CreateOrder(p) \/ Verify(p) \/ VerifyThrows(p)
    \/ Capture(p) \/ Fail(p) \/ CreditWallet(p) \/ CreditRefused(p)

Next ==
    \/ \E p \in Procs :
          \/ \E o \in Orders : AddMoney(p, o) \/ \E sig \in BOOLEAN : Callback(p, o, sig)
          \/ Handle(p) \/ QueryFails(p)
    \/ \E o \in Orders : CustomerPays(o)
    \/ \E u \in Users, a \in Amounts : Withdraw(u, a)
    \/ Crash
    \/ Wallets

Spec == Init /\ [][Next]_vars

(* The event loop goes on with every handler whose await has resolved. *)
FairSpec == Spec /\ \A p \in Procs : WF_vars(Handle(p))

-----------------------------------------------------------------------------
(* No wallet is credited for an order nobody paid, and no such order is    *)
(* captured, whatever callbacks arrive and wherever handlers stop.         *)
CreditWasPaid ==
    \A o \in Orders : creditedBy[o] # {} \/ orders[o].status = "captured" => o \in paid

(* An order that was captured is credited in the end, unless a fault or a  *)
(* freeze cut its handler off.                                             *)
CapturedIsCredited ==
    \A o \in Orders : orders[o].status = "captured" ~> creditedBy[o] # {} \/ o \in cut

(* A payment order adds its money once. *)
CreditedAtMostOnce == \A o \in Orders : Cardinality(creditedBy[o]) <= 1

(* The status of an order says whether its money was added, and it was     *)
(* added once, unless two callbacks met over it or one was cut off before  *)
(* the credit: nothing else adds money twice, loses it or hides it.        *)
StatusTellsCredit ==
    \A o \in Orders \ (raced \cup cut) :
        (\A p \in Procs : serving[p] # o) =>
            Cardinality(creditedBy[o]) = IF orders[o].status = "captured" THEN 1 ELSE 0

(* A wallet is credited in its own currency. *)
CreditedInItsCurrency ==
    \A o \in Orders : creditedBy[o] # {} => orders[o].currency = currency[orders[o].owner]
=============================================================================
