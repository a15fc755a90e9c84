----------------------------- MODULE Transfers ------------------------------
(***************************************************************************)
(* modules/transfers/adapters/http/routes.ts: sending money, asking for    *)
(* money, accepting and declining what was asked for.  The handlers of     *)
(* concurrent requests interleave at every await; the wallet repository is *)
(* AtomicLedger, which WalletRepo implements.                              *)
(***************************************************************************)
EXTENDS AtomicLedger, FiniteSets

CONSTANTS
    Procs,      \* HTTP requests that can run at the same time
    Asks,       \* rows of p2p_transfers with transfer_type 'request'
    NoAsk,      \* what a handler that serves no such row has
    MaxCalls,   \* bound: transfers that commit
    MaxFaults   \* bound: restarts, lost connections, failing statements

ASSUME TransfersAssumption ==
    /\ MaxCalls \in Nat /\ MaxFaults \in Nat
    /\ Ids = 1..MaxCalls /\ NoAsk \notin Asks

VARIABLES
    ask,        \* the request rows: their terms and status
    messages,   \* chat messages: the requests and transfers they announce
    pc,         \* where each handler stands
    terms,      \* the transfer a handler was asked to make
    serving,    \* the request it creates or accepts, if it does
    made,       \* the transfer it made, 0 if none
    paidFor,    \* history: the transfers made on behalf of each request
    disturbed,  \* history: requests on which two handlers were at work at the
                \* same time, or whose handler broke off after it had paid
    calls,      \* number of transfers made: the id of the latest
    faults      \* number of faults so far

handlers == <<pc, terms, serving, made>>
vars == <<tables, ask, messages, handlers, paidFor, disturbed, calls, faults>>

Statuses == {"absent", "pending", "completed", "declined"}

Terms == [payer : Users, payee : Users, amount : Amounts]
NoTerms == [payer |-> NoAsk, payee |-> NoAsk, amount |-> 0]

Init ==
    /\ LedgerInit
    /\ ask = [r \in Asks |-> [status |-> "absent", terms |-> NoTerms]]
    /\ messages = {}
    /\ pc = [p \in Procs |-> "idle"]
    /\ terms = [p \in Procs |-> NoTerms]
    /\ serving = [p \in Procs |-> NoAsk]
    /\ made = [p \in Procs |-> 0]
    /\ paidFor = [r \in Asks |-> {}]
    /\ disturbed = {}
    /\ calls = 0 /\ faults = 0

TypeOK ==
    /\ LedgerTypeOK
    /\ ask \in [Asks -> [status : Statuses, terms : Terms \cup {NoTerms}]]
    /\ messages \subseteq Asks \cup Ids
    /\ pc \in [Procs -> {"idle", "paying", "message", "closing"}]
    /\ terms \in [Procs -> Terms \cup {NoTerms}]
    /\ serving \in [Procs -> Asks \cup {NoAsk}]
    /\ made \in [Procs -> Ids \cup {0}]
    /\ paidFor \in [Asks -> SUBSET Ids]
    /\ disturbed \subseteq Asks
    /\ calls \in 0..MaxCalls /\ faults \in 0..MaxFaults

-----------------------------------------------------------------------------
\* p starts, or goes on to, a step of its handler.
Goto(p, label, t, r, id) ==
    /\ pc' = [pc EXCEPT ![p] = label]
    /\ terms' = [terms EXCEPT ![p] = t]
    /\ serving' = [serving EXCEPT ![p] = r]
    /\ made' = [made EXCEPT ![p] = id]

\* p answers, with a result or an error: nothing of the handler is left.
Answer(p) == Goto(p, "idle", NoTerms, NoAsk, 0)

\* An accept is at work on r.
Accepting(r) == \E p \in Procs : serving[p] = r /\ pc[p] \in {"paying", "closing"}

\* History: someone sets to work on r; handlers S break off.
Begin(r) == disturbed' = IF Accepting(r) THEN disturbed \cup {r} ELSE disturbed

BreakOff(S) == disturbed' = disturbed \cup {serving[p] : p \in {q \in S : pc[q] = "closing"}}

\* Variant with a fault: the message is written though the row was not.
RequestUnwritten(p, r, t) ==
    /\ pc[p] = "idle" /\ ask[r].status = "absent"
    /\ Goto(p, "message", NoTerms, r, 0)
    /\ UNCHANGED <<tables, ask, messages, paidFor, disturbed, calls, faults>>

(* POST /request: the row, then a chat message if a chat is named.  Nothing *)
(* stops a user from asking himself.                                        *)
Request(p, r, t) ==
    /\ pc[p] = "idle" /\ ask[r].status = "absent"
    /\ ask' = [ask EXCEPT ![r] = [status |-> "pending", terms |-> t]]
    /\ Goto(p, "message", NoTerms, r, 0) \/ UNCHANGED handlers
    /\ UNCHANGED <<tables, messages, paidFor, disturbed, calls, faults>>

(* POST /:id/decline: one UPDATE ... WHERE status = 'pending'. *)
Decline(p, r) ==
    /\ pc[p] = "idle" /\ ask[r].status = "pending"
    /\ ask' = [ask EXCEPT ![r].status = "declined"]
    /\ Begin(r)
    /\ UNCHANGED <<tables, messages, handlers, paidFor, calls, faults>>

(* POST /send, up to the call of atomicTransfer. *)
Send(p, t) ==
    /\ pc[p] = "idle" /\ t.payer # t.payee
    /\ Goto(p, "paying", t, NoAsk, 0)
    /\ UNCHANGED <<tables, ask, messages, paidFor, disturbed, calls, faults>>

\* Variant with a fault: the SELECT does not look at the status.
AcceptAny(p, r) ==
    /\ pc[p] = "idle" /\ ask[r].status # "absent"
    /\ Goto(p, "paying", ask[r].terms, r, 0)
    /\ Begin(r)
    /\ UNCHANGED <<tables, ask, messages, paidFor, calls, faults>>

(* POST /:id/accept: SELECT ... AND status = 'pending'. *)
Accept(p, r) ==
    /\ pc[p] = "idle" /\ ask[r].status = "pending"
    /\ Goto(p, "paying", ask[r].terms, r, 0)
    /\ Begin(r)
    /\ UNCHANGED <<tables, ask, messages, paidFor, calls, faults>>

\* atomicTransfer commits; paidFor remembers for which request.
Transferred(p) ==
    LET t == terms[p]
        r == serving[p]
    IN  /\ pc[p] = "paying" /\ calls < MaxCalls
        /\ calls' = calls + 1
        /\ Move(t.payer, t.payee, t.amount, calls')
        /\ paidFor' = IF r = NoAsk THEN paidFor
                      ELSE [paidFor EXCEPT ![r] = @ \cup {calls'}]

(* atomicTransfer succeeds: an accept goes on to its UPDATE, a send to its *)
(* chat message if it names a chat.                                        *)
Pay(p) ==
    /\ Transferred(p)
    /\ UNCHANGED disturbed
    /\ \/ serving[p] # NoAsk /\ Goto(p, "closing", terms[p], serving[p], calls')
       \/ serving[p] = NoAsk /\ Goto(p, "message", NoTerms, NoAsk, calls')
       \/ serving[p] = NoAsk /\ Answer(p)
    /\ UNCHANGED <<ask, messages, faults>>

\* Variant with a fault: the refusal is swallowed and the request closed.
PayIgnored(p) ==
    /\ pc[p] = "paying" /\ serving[p] # NoAsk
    /\ balance[terms[p].payer] < terms[p].amount
    /\ Goto(p, "closing", terms[p], serving[p], 0)
    /\ UNCHANGED <<tables, ask, messages, paidFor, disturbed, calls, faults>>

(* INSUFFICIENT_BALANCE and WALLET_FROZEN: rolled back and answered.  The  *)
(* getOrCreateWallet of the payer has left a row.                          *)
PayRefused(p) ==
    /\ pc[p] = "paying"
    /\ \/ balance[terms[p].payer] < terms[p].amount
       \/ frozen[terms[p].payer] \/ frozen[terms[p].payee]
    /\ Open(terms[p].payer)
    /\ Answer(p)
    /\ UNCHANGED <<ask, messages, paidFor, disturbed, calls, faults>>

(* UPDATE p2p_transfers SET status = 'completed' WHERE id = $1. *)
Close(p) ==
    /\ pc[p] = "closing"
    /\ ask' = [ask EXCEPT ![serving[p]].status = "completed"]
    /\ Answer(p)
    /\ UNCHANGED <<tables, messages, paidFor, disturbed, calls, faults>>

\* What a message announces; and a variant with a fault, always a transfer.
SubjectMade(p) == made[p]

Subject(p) == IF serving[p] # NoAsk THEN serving[p] ELSE made[p]

(* INSERT INTO messages. *)
Announce(p) ==
    /\ pc[p] = "message"
    /\ messages' = messages \cup {Subject(p)}
    /\ Answer(p)
    /\ UNCHANGED <<tables, ask, paidFor, disturbed, calls, faults>>

-----------------------------------------------------------------------------
Fault == faults < MaxFaults /\ faults' = faults + 1

(* The connection breaks after COMMIT: money moved, the handler throws. *)
PayUnconfirmed(p) ==
    /\ Fault /\ Transferred(p)
    /\ disturbed' = IF serving[p] = NoAsk THEN disturbed ELSE disturbed \cup {serving[p]}
    /\ Answer(p)
    /\ UNCHANGED <<ask, messages>>

(* A statement fails: next(err), and nothing before it is undone. *)
QueryFails(p) ==
    /\ Fault /\ pc[p] # "idle"
    /\ BreakOff({p})
    /\ Answer(p)
    /\ UNCHANGED <<tables, ask, messages, paidFor, calls>>

(* The server restarts: handlers are forgotten, what was committed stays. *)
Crash ==
    /\ Fault
    /\ BreakOff(Procs)
    /\ pc' = [p \in Procs |-> "idle"]
    /\ terms' = [p \in Procs |-> NoTerms]
    /\ serving' = [p \in Procs |-> NoAsk]
    /\ made' = [p \in Procs |-> 0]
    /\ UNCHANGED <<tables, ask, messages, paidFor, calls>>

\* getOrCreateWallet of any request, and an operator's freeze.
Wallets ==
    /\ \E u \in Users : (u \notin wallets /\ Open(u)) \/ SetFrozen(u, ~ frozen[u])
    /\ UNCHANGED <<ask, messages, handlers, paidFor, disturbed, calls, faults>>

Next ==
    \/ \E p \in Procs :
          \/ \E t \in Terms : Send(p, t) \/ \E r \in Asks : Request(p, r, t)
          \/ \E r \in Asks : Accept(p, r) \/ Decline(p, r)
          \/ Pay(p) \/ PayRefused(p) \/ Close(p) \/ Announce(p)
          \/ PayUnconfirmed(p) \/ QueryFails(p)
    \/ Crash
    \/ Wallets

Spec == Init /\ [][Next]_vars

-----------------------------------------------------------------------------
(* A request marked completed was paid: its payer's money went to whoever  *)
(* asked, in the amount asked for.                                         *)
CompletedWasPaid ==
    \A r \in Asks : ask[r].status = "completed" =>
        \E t \in transfers : /\ t.id \in paidFor[r]
                             /\ t.sender = ask[r].terms.payer
                             /\ t.receiver = ask[r].terms.payee
                             /\ t.amount = ask[r].terms.amount

(* A request is paid at most once. *)
PaidAtMostOnce == \A r \in Asks : Cardinality(paidFor[r]) <= 1

(* The status of a request says whether it was paid, and it was paid once, *)
(* unless two handlers met over it or one broke off after paying: only     *)
(* overlaps and faults can charge twice, or charge for a declined request. *)
StatusTellsPayment ==
    \A r \in Asks \ disturbed :
        ~ Accepting(r) =>
            Cardinality(paidFor[r]) = IF ask[r].status = "completed" THEN 1 ELSE 0

(* No chat message announces a request or a payment that does not exist,   *)
(* wherever a handler stops.                                               *)
MessagesTellTheTruth ==
    \A m \in messages : \/ m \in Asks /\ ask[m].status # "absent"
                        \/ \E t \in transfers : t.id = m
=============================================================================
