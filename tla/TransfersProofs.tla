--------------------------- MODULE TransfersProofs ---------------------------
(***************************************************************************)
(* Proofs about sending, asking for, accepting and declining money: for    *)
(* every number of requests, asks, transfers, restarts and failing         *)
(* statements.                                                             *)
(***************************************************************************)
EXTENDS Transfers, AtomicLedgerProofs, FiniteSetTheorems

-----------------------------------------------------------------------------
Labels == {"idle", "paying", "message", "closing"}

HandlersTyped ==
    /\ pc \in [Procs -> Labels]
    /\ terms \in [Procs -> Terms \cup {NoTerms}]
    /\ serving \in [Procs -> Asks \cup {NoAsk}]
    /\ made \in [Procs -> Ids \cup {0}]

RestTyped ==
    /\ ask \in [Asks -> [status : Statuses, terms : Terms \cup {NoTerms}]]
    /\ messages \subseteq Asks \cup Ids
    /\ paidFor \in [Asks -> SUBSET Ids]
    /\ disturbed \subseteq Asks
    /\ calls \in 0..MaxCalls /\ faults \in 0..MaxFaults

LEMMA TypeParts == TypeOK <=> LedgerTypeOK /\ HandlersTyped /\ RestTyped
  BY DEF TypeOK, HandlersTyped, RestTyped, Labels

\* Transfer t was made for a request whose row is a, by what paid records.
Settles(t, a, paid) ==
    /\ t.id \in paid /\ t.sender = a.terms.payer
    /\ t.receiver = a.terms.payee /\ t.amount = a.terms.amount

\* A request row is there, with what was asked for.
Asked(a) == a.status # "absent" /\ a.terms \in Terms

\* What a handler relies on when it goes on after an await: with request rows
\* as, transfers trs and records paid it stands at l with terms t, for request
\* r, having made transfer i.
Claim(as, trs, paid, l, t, r, i) ==
    /\ l = "paying" => /\ t \in Terms
                       /\ r \in Asks => Asked(as[r]) /\ as[r].terms = t
    /\ l = "closing" => /\ r \in Asks /\ Asked(as[r])
                        /\ \E x \in trs : Settles(x, as[r], paid[r])
    /\ l = "message" => IF r \in Asks THEN Asked(as[r])
                        ELSE i \in Ids /\ \E x \in trs : x.id = i

Claims == \A p \in Procs : Claim(ask, transfers, paidFor, pc[p], terms[p], serving[p], made[p])

(* Rows that are there keep their terms and do not go away, transfers and  *)
(* the records of what they paid only grow.                                *)
Grows(as, trs, paid, as2, trs2, paid2) ==
    /\ trs \subseteq trs2
    /\ \A r \in Asks : /\ paid[r] \subseteq paid2[r]
                       /\ as[r].status # "absent" =>
                             as2[r].status # "absent" /\ as2[r].terms = as[r].terms

\* CompletedWasPaid and MessagesTellTheTruth, of any rows and transfers.
Completed(as, trs, paid) ==
    \A r \in Asks : as[r].status = "completed" => \E t \in trs : Settles(t, as[r], paid[r])

Truthful(as, trs, ms) ==
    \A m \in ms : \/ m \in Asks /\ as[m].status # "absent"
                  \/ \E t \in trs : t.id = m

LEMMA Named ==
    /\ CompletedWasPaid <=> Completed(ask, transfers, paidFor)
    /\ MessagesTellTheTruth <=> Truthful(ask, transfers, messages)
  BY DEF CompletedWasPaid, Completed, Settles, MessagesTellTheTruth, Truthful

(* No claim is falsified by what other handlers do. *)
LEMMA ClaimStays ==
    ASSUME NEW as, NEW trs, NEW paid, NEW as2, NEW trs2, NEW paid2,
           NEW l, NEW t, NEW r, NEW i,
           Claim(as, trs, paid, l, t, r, i), Grows(as, trs, paid, as2, trs2, paid2)
    PROVE  Claim(as2, trs2, paid2, l, t, r, i)
<1>1. CASE l = "paying"
  BY <1>1 DEF Claim, Grows, Asked
<1>2. CASE l = "closing"
  BY <1>2 DEF Claim, Grows, Asked, Settles
<1>3. CASE l = "message"
  BY <1>3 DEF Claim, Grows, Asked
<1> QED BY <1>1, <1>2, <1>3 DEF Claim

LEMMA MessagesStay ==
    ASSUME NEW as, NEW trs, NEW paid, NEW as2, NEW trs2, NEW paid2, NEW ms,
           Truthful(as, trs, ms), Grows(as, trs, paid, as2, trs2, paid2)
    PROVE  Truthful(as2, trs2, ms)
  BY DEF Truthful, Grows

\* The rows, the transfers and the records only grow in this step.
Growing == Grows(ask, transfers, paidFor, ask', transfers', paidFor')

(* A handler that moves to a step whose claim holds leaves every claim     *)
(* true.                                                                   *)
LEMMA GotoKeeps ==
    ASSUME HandlersTyped, Claims, Growing,
           NEW p \in Procs, NEW l \in Labels, NEW t \in Terms \cup {NoTerms},
           NEW r \in Asks \cup {NoAsk}, NEW i \in Ids \cup {0}, Goto(p, l, t, r, i),
           Claim(ask', transfers', paidFor', l, t, r, i)
    PROVE  HandlersTyped' /\ Claims'
<1>1. HandlersTyped'
  BY DEF HandlersTyped, Goto
<1>2. ASSUME NEW q \in Procs
      PROVE  Claim(ask', transfers', paidFor', pc'[q], terms'[q], serving'[q], made'[q])
  <2>1. CASE q = p
    <3>1. pc'[q] = l /\ terms'[q] = t /\ serving'[q] = r /\ made'[q] = i
      BY <2>1 DEF HandlersTyped, Goto
    <3> QED BY <3>1
  <2>2. CASE q # p
    <3>1. /\ pc'[q] = pc[q] /\ terms'[q] = terms[q]
          /\ serving'[q] = serving[q] /\ made'[q] = made[q]
      BY <2>2 DEF HandlersTyped, Goto
    <3>2. Claim(ask, transfers, paidFor, pc[q], terms[q], serving[q], made[q])
      BY DEF Claims
    <3>3. Claim(ask', transfers', paidFor', pc[q], terms[q], serving[q], made[q])
      BY <3>2, ClaimStays DEF Growing
    <3> QED BY <3>1, <3>3
  <2> QED BY <2>1, <2>2
<1> QED BY <1>1, <1>2 DEF Claims

\* An idle handler claims nothing.
LEMMA AnswerKeeps ==
    ASSUME HandlersTyped, Claims, Growing, NEW p \in Procs, Answer(p)
    PROVE  HandlersTyped' /\ Claims'
<1>1. /\ "idle" \in Labels /\ NoTerms \in Terms \cup {NoTerms}
      /\ NoAsk \in Asks \cup {NoAsk} /\ 0 \in Ids \cup {0}
  BY DEF Labels
<1>2. Claim(ask', transfers', paidFor', "idle", NoTerms, NoAsk, 0)
  BY DEF Claim
<1> QED BY <1>1, <1>2, GotoKeeps DEF Answer

LEMMA HandlersStay ==
    ASSUME HandlersTyped, Claims, Growing, UNCHANGED handlers
    PROVE  HandlersTyped' /\ Claims'
<1>1. pc' = pc /\ terms' = terms /\ serving' = serving /\ made' = made
  BY DEF handlers
<1>2. ASSUME NEW q \in Procs
      PROVE  Claim(ask', transfers', paidFor', pc'[q], terms'[q], serving'[q], made'[q])
  <2>1. Claim(ask', transfers', paidFor', pc[q], terms[q], serving[q], made[q])
    BY ClaimStays DEF Claims, Growing
  <2> QED BY <1>1, <2>1
<1> QED BY <1>1, <1>2 DEF HandlersTyped, Claims

-----------------------------------------------------------------------------
LEMMA NextId ==
    ASSUME RestTyped, calls < MaxCalls
    PROVE  calls + 1 \in Ids /\ calls + 1 \in 0..MaxCalls
  BY TransfersAssumption DEF RestTyped

\* What atomicTransfer leaves when it commits.
LEMMA Committed ==
    ASSUME HandlersTyped, RestTyped, Claims, NEW p \in Procs, Transferred(p)
    PROVE  /\ calls' \in Ids /\ calls' \in 0..MaxCalls
           /\ terms[p] \in Terms
           /\ Move(terms[p].payer, terms[p].payee, terms[p].amount, calls')
           /\ transfers \subseteq transfers'
           /\ \E x \in transfers' : /\ x.id = calls' /\ x.sender = terms[p].payer
                                    /\ x.receiver = terms[p].payee /\ x.amount = terms[p].amount
           /\ serving[p] \notin Asks => paidFor' = paidFor
           /\ serving[p] \in Asks =>
                 paidFor' = [paidFor EXCEPT ![serving[p]] = paidFor[serving[p]] \cup {calls'}]
<1>1. calls' = calls + 1 /\ calls < MaxCalls /\ pc[p] = "paying"
  BY DEF Transferred
<1>2. calls' \in Ids /\ calls' \in 0..MaxCalls
  BY <1>1, NextId
<1>3. terms[p] \in Terms
  BY <1>1 DEF Claims, Claim
<1>4. Move(terms[p].payer, terms[p].payee, terms[p].amount, calls')
  BY DEF Transferred
<1>5. transfers' = transfers \cup {[id |-> calls', sender |-> terms[p].payer,
                                    receiver |-> terms[p].payee, amount |-> terms[p].amount]}
  BY <1>4 DEF Move
<1>6. serving[p] \notin Asks <=> serving[p] = NoAsk
  BY TransfersAssumption DEF HandlersTyped
<1>7. paidFor' = IF serving[p] = NoAsk THEN paidFor
                 ELSE [paidFor EXCEPT ![serving[p]] = paidFor[serving[p]] \cup {calls'}]
  BY DEF Transferred
<1>8. \E x \in transfers' : /\ x.id = calls' /\ x.sender = terms[p].payer
                            /\ x.receiver = terms[p].payee /\ x.amount = terms[p].amount
  <2> DEFINE x == [id |-> calls', sender |-> terms[p].payer,
                   receiver |-> terms[p].payee, amount |-> terms[p].amount]
  <2>1. x \in transfers'
    BY <1>5
  <2> QED BY <2>1
<1>9. /\ serving[p] \notin Asks => paidFor' = paidFor
      /\ serving[p] \in Asks =>
            paidFor' = [paidFor EXCEPT ![serving[p]] = paidFor[serving[p]] \cup {calls'}]
  BY <1>6, <1>7
<1> QED BY <1>2, <1>3, <1>4, <1>5, <1>8, <1>9

(* What any step of the transfer handlers does to the wallets is one step  *)
(* of the atomic ledger, or none.                                          *)
LEMMA StepOfLedger ==
    HandlersTyped /\ RestTyped /\ Claims /\ [Next]_vars => [LedgerNext]_tables
<1> SUFFICES ASSUME HandlersTyped, RestTyped, Claims, [Next]_vars PROVE [LedgerNext]_tables
  OBVIOUS
<1>1. ASSUME NEW p \in Procs, Transferred(p) PROVE LedgerNext
  <2>1. /\ calls' \in Ids /\ terms[p] \in Terms
        /\ Move(terms[p].payer, terms[p].payee, terms[p].amount, calls')
    BY <1>1, Committed
  <2>2. terms[p].payer \in Users /\ terms[p].payee \in Users /\ terms[p].amount \in Amounts
    BY <2>1 DEF Terms
  <2> QED BY <2>1, <2>2 DEF LedgerNext
<1>2. ASSUME NEW p \in Procs, Pay(p) \/ PayUnconfirmed(p) PROVE LedgerNext
  BY <1>1, <1>2 DEF Pay, PayUnconfirmed
<1>3. ASSUME NEW p \in Procs, PayRefused(p) PROVE LedgerNext
  <2>1. terms[p] \in Terms
    BY <1>3 DEF PayRefused, Claims, Claim
  <2>2. terms[p].payer \in Users
    BY <2>1 DEF Terms
  <2> QED BY <1>3, <2>2 DEF PayRefused, LedgerNext
<1>4. ASSUME Wallets PROVE LedgerNext
  <2>1. PICK u \in Users : (u \notin wallets /\ Open(u)) \/ SetFrozen(u, ~ frozen[u])
    BY <1>4 DEF Wallets
  <2>2. (~ frozen[u]) \in BOOLEAN
    OBVIOUS
  <2> QED BY <2>1, <2>2 DEF LedgerNext
<1>5. ASSUME NEW p \in Procs, \E t \in Terms : Send(p, t) \/ \E r \in Asks : Request(p, r, t)
      PROVE  UNCHANGED tables
  BY <1>5 DEF Send, Request
<1>6. ASSUME NEW p \in Procs, \E r \in Asks : Accept(p, r) \/ Decline(p, r)
      PROVE  UNCHANGED tables
  BY <1>6 DEF Accept, Decline
<1>7. ASSUME NEW p \in Procs, Close(p) \/ Announce(p) \/ QueryFails(p) PROVE UNCHANGED tables
  BY <1>7 DEF Close, Announce, QueryFails
<1>8. CASE Crash
  BY <1>8 DEF Crash
<1>9. CASE UNCHANGED vars
  BY <1>9 DEF vars
<1> QED BY <1>2, <1>3, <1>4, <1>5, <1>6, <1>7, <1>8, <1>9 DEF Next

-----------------------------------------------------------------------------
\* Rows that are there have their terms.
RowsAsked == \A r \in Asks : ask[r].status # "absent" => Asked(ask[r])

\* What the request rows and the messages say is true.
Truth == RowsAsked /\ CompletedWasPaid /\ MessagesTellTheTruth

\* The invariant without the wallets, which StepOfLedger takes care of.
Honest == HandlersTyped /\ RestTyped /\ Claims /\ Truth

LEMMA InitHonest == Init => Honest
<1> SUFFICES ASSUME Init PROVE Honest
  OBVIOUS
<1> USE TransfersAssumption DEF Init
<1>1. HandlersTyped
  BY DEF HandlersTyped, Labels
<1>2. Claims
  BY DEF Claims, Claim
<1>3. RestTyped
  BY DEF RestTyped, Statuses
<1>4. Truth
  BY DEF Truth, RowsAsked, CompletedWasPaid, MessagesTellTheTruth
<1> QED BY <1>1, <1>2, <1>3, <1>4 DEF Honest

\* Steps that write no request row, no transfer and no message.
LEMMA QuietKeeps ==
    ASSUME Truth, UNCHANGED <<ask, transfers, paidFor, messages>>
    PROVE  Growing /\ Truth'
<1>1. Growing
  BY DEF Growing, Grows
<1>2. CompletedWasPaid'
  BY DEF Truth, CompletedWasPaid
<1>3. MessagesTellTheTruth' /\ RowsAsked'
  BY DEF Truth, MessagesTellTheTruth, RowsAsked
<1> QED BY <1>1, <1>2, <1>3 DEF Truth

\* Somebody sets to work on r; handlers break off.
LEMMA BeginTyped ==
    ASSUME RestTyped, NEW r \in Asks, Begin(r)
    PROVE  disturbed' \subseteq Asks
  BY DEF RestTyped, Begin

LEMMA BreakOffTyped ==
    ASSUME RestTyped, Claims, NEW S \in SUBSET Procs, BreakOff(S)
    PROVE  disturbed' \subseteq Asks
<1>1. ASSUME NEW q \in S, pc[q] = "closing" PROVE serving[q] \in Asks
  BY <1>1 DEF Claims, Claim
<1> QED BY <1>1 DEF BreakOff, RestTyped

LEMMA FaultCounted == RestTyped /\ Fault => faults' \in 0..MaxFaults
  BY TransfersAssumption DEF RestTyped, Fault

LEMMA RequestKeeps ==
    ASSUME Honest, NEW p \in Procs, NEW r \in Asks, NEW t \in Terms, Request(p, r, t)
    PROVE  Honest'
<1>1. ask[r].status = "absent" /\ UNCHANGED <<tables, messages, paidFor, disturbed, calls, faults>>
  BY DEF Request
<1>2. ask' = [ask EXCEPT ![r] = [status |-> "pending", terms |-> t]]
  BY DEF Request
<1>3. /\ ask' \in [Asks -> [status : Statuses, terms : Terms \cup {NoTerms}]]
      /\ Asked(ask'[r]) /\ ask'[r].status = "pending"
      /\ \A s \in Asks \ {r} : ask'[s] = ask[s]
  BY <1>2 DEF Honest, RestTyped, Statuses, Asked
<1>4. RestTyped'
  BY <1>1, <1>3 DEF Honest, RestTyped
<1>5. Growing
  BY <1>1, <1>3 DEF Growing, Grows, tables
<1>6. HandlersTyped' /\ Claims'
  <2>1. CASE UNCHANGED handlers
    BY <1>5, <2>1, HandlersStay DEF Honest
  <2>2. CASE Goto(p, "message", NoTerms, r, 0)
    <3>1. Claim(ask', transfers', paidFor', "message", NoTerms, r, 0)
      BY <1>3 DEF Claim
    <3>2. "message" \in Labels /\ NoTerms \in Terms \cup {NoTerms} /\ 0 \in Ids \cup {0}
      BY DEF Labels
    <3> QED BY <1>5, <2>2, <3>1, <3>2, GotoKeeps DEF Honest
  <2> QED BY <2>1, <2>2 DEF Request
<1>7. CompletedWasPaid'
  BY <1>1, <1>3 DEF Honest, Truth, CompletedWasPaid, tables
<1>8. MessagesTellTheTruth'
  BY <1>1, <1>5, MessagesStay, Named DEF Honest, Truth, MessagesTellTheTruth, Truthful, Growing, Grows
<1>9. RowsAsked'
  BY <1>3 DEF Honest, Truth, RowsAsked
<1> QED BY <1>4, <1>6, <1>7, <1>8, <1>9 DEF Honest, Truth

\* A request row that is there gets another status.
LEMMA StatusKeeps ==
    ASSUME Honest, NEW r \in Asks, NEW s \in {"completed", "declined"},
           ask[r].status # "absent", ask' = [ask EXCEPT ![r].status = s],
           s = "completed" => \E t \in transfers : Settles(t, ask[r], paidFor[r]),
           UNCHANGED <<transfers, paidFor, messages>>
    PROVE  /\ ask' \in [Asks -> [status : Statuses, terms : Terms \cup {NoTerms}]]
           /\ Growing /\ Truth'
<1>1. ask[r] \in [status : Statuses, terms : Terms \cup {NoTerms}]
  BY DEF Honest, RestTyped
<1>2. /\ ask' \in [Asks -> [status : Statuses, terms : Terms \cup {NoTerms}]]
      /\ ask'[r].status = s /\ ask'[r].terms = ask[r].terms
      /\ \A q \in Asks \ {r} : ask'[q] = ask[q]
  <2> DEFINE row == [ask[r] EXCEPT !.status = s]
  <2>1. ask' = [ask EXCEPT ![r] = row]
    OBVIOUS
  <2>2. /\ row \in [status : Statuses, terms : Terms \cup {NoTerms}]
        /\ row.status = s /\ row.terms = ask[r].terms
    BY <1>1 DEF Statuses
  <2> HIDE DEF row
  <2> QED BY <2>1, <2>2 DEF Honest, RestTyped
<1>3. Growing
  BY <1>2 DEF Growing, Grows
<1>4. CompletedWasPaid'
  <2>1. ASSUME NEW q \in Asks, ask'[q].status = "completed"
        PROVE  \E t \in transfers : Settles(t, ask'[q], paidFor[q])
    <3>1. CASE q = r
      BY <1>2, <2>1, <3>1 DEF Settles
    <3>2. CASE q # r
      BY <1>2, <2>1, <3>2, Named DEF Honest, Truth, Completed
    <3> QED BY <3>1, <3>2
  <2> QED BY <2>1 DEF CompletedWasPaid, Settles
<1>5. MessagesTellTheTruth'
  BY <1>3, MessagesStay, Named DEF Honest, Truth, MessagesTellTheTruth, Truthful, Growing
<1>6. RowsAsked'
  BY <1>2 DEF Honest, Truth, RowsAsked, Asked
<1> QED BY <1>2, <1>3, <1>4, <1>5, <1>6 DEF Truth

LEMMA DeclineKeeps ==
    ASSUME Honest, NEW p \in Procs, NEW r \in Asks, Decline(p, r)
    PROVE  Honest'
<1>1. /\ ask' \in [Asks -> [status : Statuses, terms : Terms \cup {NoTerms}]]
      /\ Growing /\ Truth'
  BY StatusKeeps DEF Decline, tables
<1>2. HandlersTyped' /\ Claims'
  BY <1>1, HandlersStay DEF Decline, Honest
<1>3. RestTyped'
  BY <1>1, BeginTyped DEF Decline, Honest, RestTyped
<1> QED BY <1>1, <1>2, <1>3 DEF Honest

LEMMA SendKeeps ==
    ASSUME Honest, NEW p \in Procs, NEW t \in Terms, Send(p, t)
    PROVE  Honest'
<1>1. Growing /\ Truth'
  BY QuietKeeps DEF Send, Honest, tables
<1>2. HandlersTyped' /\ Claims'
  <2>1. Claim(ask', transfers', paidFor', "paying", t, NoAsk, 0)
    BY TransfersAssumption DEF Claim
  <2>2. "paying" \in Labels /\ 0 \in Ids \cup {0} /\ Goto(p, "paying", t, NoAsk, 0)
    BY DEF Labels, Send
  <2> QED BY <1>1, <2>1, <2>2, GotoKeeps DEF Honest
<1>3. RestTyped'
  BY DEF Send, Honest, RestTyped
<1> QED BY <1>1, <1>2, <1>3 DEF Honest

LEMMA AcceptKeeps ==
    ASSUME Honest, NEW p \in Procs, NEW r \in Asks, Accept(p, r)
    PROVE  Honest'
<1>1. Growing /\ Truth'
  BY QuietKeeps DEF Accept, Honest, tables
<1>2. HandlersTyped' /\ Claims'
  <2>1. Asked(ask[r]) /\ ask[r].terms \in Terms
    BY DEF Accept, Honest, Truth, RowsAsked, Asked
  <2>2. Claim(ask', transfers', paidFor', "paying", ask[r].terms, r, 0)
    BY <2>1 DEF Claim, Accept
  <2>3. "paying" \in Labels /\ 0 \in Ids \cup {0} /\ Goto(p, "paying", ask[r].terms, r, 0)
    BY DEF Labels, Accept
  <2> QED BY <1>1, <2>1, <2>2, <2>3, GotoKeeps DEF Honest
<1>3. RestTyped'
  BY BeginTyped DEF Accept, Honest, RestTyped
<1> QED BY <1>1, <1>2, <1>3 DEF Honest

(* A transfer commits: its record joins those of the request it was made   *)
(* for, with that request's terms.                                         *)
LEMMA CommitKeeps ==
    ASSUME Honest, NEW p \in Procs, Transferred(p), UNCHANGED <<ask, messages>>
    PROVE  /\ Growing /\ Truth'
           /\ paidFor' \in [Asks -> SUBSET Ids]
           /\ serving[p] \in Asks =>
                 /\ Asked(ask'[serving[p]])
                 /\ \E x \in transfers' : Settles(x, ask'[serving[p]], paidFor'[serving[p]])
<1> DEFINE r == serving[p]
<1>1. /\ calls' \in Ids /\ transfers \subseteq transfers'
      /\ \E x \in transfers' : /\ x.id = calls' /\ x.sender = terms[p].payer
                               /\ x.receiver = terms[p].payee /\ x.amount = terms[p].amount
      /\ r \notin Asks => paidFor' = paidFor
      /\ r \in Asks => paidFor' = [paidFor EXCEPT ![r] = paidFor[r] \cup {calls'}]
  BY Committed DEF Honest
<1>2. paidFor' \in [Asks -> SUBSET Ids] /\ \A q \in Asks : paidFor[q] \subseteq paidFor'[q]
  <2>1. CASE r \in Asks
    BY <1>1, <2>1 DEF Honest, RestTyped
  <2>2. CASE r \notin Asks
    BY <1>1, <2>2 DEF Honest, RestTyped
  <2> QED BY <2>1, <2>2
<1>3. Growing
  BY <1>1, <1>2 DEF Growing, Grows
<1>4. ASSUME r \in Asks
      PROVE  Asked(ask'[r]) /\ \E x \in transfers' : Settles(x, ask'[r], paidFor'[r])
  <2>1. Asked(ask[r]) /\ ask[r].terms = terms[p] /\ calls' \in paidFor'[r]
    BY <1>1, <1>4 DEF Honest, Claims, Claim, Transferred, RestTyped
  <2> QED BY <1>1, <2>1 DEF Settles
<1>5. CompletedWasPaid'
  BY <1>1, <1>2, Named DEF Honest, Truth, CompletedWasPaid, Completed, Settles
<1>6. MessagesTellTheTruth'
  BY <1>3, MessagesStay, Named DEF Honest, Truth, MessagesTellTheTruth, Truthful, Growing
<1>7. RowsAsked'
  BY DEF Honest, Truth, RowsAsked
<1> QED BY <1>2, <1>3, <1>4, <1>5, <1>6, <1>7 DEF Truth

LEMMA PayKeeps ==
    ASSUME Honest, NEW p \in Procs, Pay(p)
    PROVE  Honest'
<1>1. /\ calls' \in Ids /\ calls' \in 0..MaxCalls /\ terms[p] \in Terms
      /\ \E x \in transfers' : x.id = calls'
  BY Committed DEF Honest, Pay
<1>2. /\ Growing /\ Truth' /\ paidFor' \in [Asks -> SUBSET Ids]
      /\ serving[p] \in Asks =>
            /\ Asked(ask'[serving[p]])
            /\ \E x \in transfers' : Settles(x, ask'[serving[p]], paidFor'[serving[p]])
  BY CommitKeeps DEF Pay
<1>3. RestTyped'
  BY <1>1, <1>2 DEF Pay, Honest, RestTyped
<1>4. HandlersTyped' /\ Claims'
  <2>1. CASE serving[p] # NoAsk /\ Goto(p, "closing", terms[p], serving[p], calls')
    <3>1. serving[p] \in Asks /\ "closing" \in Labels /\ calls' \in Ids \cup {0}
      BY <1>1, <2>1 DEF Honest, HandlersTyped, Labels
    <3>2. Claim(ask', transfers', paidFor', "closing", terms[p], serving[p], calls')
      BY <1>2, <3>1 DEF Claim
    <3> QED BY <1>1, <1>2, <2>1, <3>1, <3>2, GotoKeeps DEF Honest
  <2>2. CASE Goto(p, "message", NoTerms, NoAsk, calls')
    <3>1. "message" \in Labels /\ calls' \in Ids \cup {0}
      BY <1>1 DEF Labels
    <3>2. Claim(ask', transfers', paidFor', "message", NoTerms, NoAsk, calls')
      BY <1>1, TransfersAssumption DEF Claim
    <3> QED BY <1>1, <1>2, <2>2, <3>1, <3>2, GotoKeeps DEF Honest
  <2>3. CASE Answer(p)
    BY <1>2, <2>3, AnswerKeeps DEF Honest
  <2> QED BY <2>1, <2>2, <2>3 DEF Pay
<1> QED BY <1>2, <1>3, <1>4 DEF Honest

LEMMA PayUnconfirmedKeeps ==
    ASSUME Honest, NEW p \in Procs, PayUnconfirmed(p)
    PROVE  Honest'
<1>1. calls' \in 0..MaxCalls /\ faults' \in 0..MaxFaults
  BY Committed, FaultCounted DEF Honest, PayUnconfirmed
<1>2. Growing /\ Truth' /\ paidFor' \in [Asks -> SUBSET Ids]
  BY CommitKeeps DEF PayUnconfirmed
<1>3. disturbed' \subseteq Asks
  BY DEF PayUnconfirmed, Honest, HandlersTyped, RestTyped
<1>4. RestTyped'
  BY <1>1, <1>2, <1>3 DEF PayUnconfirmed, Honest, RestTyped
<1>5. HandlersTyped' /\ Claims'
  BY <1>2, AnswerKeeps DEF PayUnconfirmed, Honest
<1> QED BY <1>2, <1>4, <1>5 DEF Honest

LEMMA PayRefusedKeeps ==
    ASSUME Honest, NEW p \in Procs, PayRefused(p)
    PROVE  Honest'
<1>1. Growing /\ Truth'
  BY QuietKeeps DEF PayRefused, Open, Honest
<1>2. HandlersTyped' /\ Claims'
  BY <1>1, AnswerKeeps DEF PayRefused, Honest
<1>3. RestTyped'
  BY DEF PayRefused, Honest, RestTyped
<1> QED BY <1>1, <1>2, <1>3 DEF Honest

(* A request is marked completed by a handler that has paid it. *)
LEMMA CloseKeeps ==
    ASSUME Honest, NEW p \in Procs, Close(p)
    PROVE  Honest'
<1> DEFINE r == serving[p]
<1>1. /\ r \in Asks /\ ask[r].status # "absent"
      /\ \E t \in transfers : Settles(t, ask[r], paidFor[r])
  BY DEF Close, Honest, Claims, Claim, Asked
<1>2. /\ ask' \in [Asks -> [status : Statuses, terms : Terms \cup {NoTerms}]]
      /\ Growing /\ Truth'
  BY <1>1, StatusKeeps DEF Close, tables
<1>3. HandlersTyped' /\ Claims'
  BY <1>2, AnswerKeeps DEF Close, Honest
<1>4. RestTyped'
  BY <1>2 DEF Close, Honest, RestTyped
<1> QED BY <1>2, <1>3, <1>4 DEF Honest

LEMMA AnnounceKeeps ==
    ASSUME Honest, NEW p \in Procs, Announce(p)
    PROVE  Honest'
<1>1. /\ Subject(p) \in Asks \cup Ids
      /\ \/ Subject(p) \in Asks /\ ask[Subject(p)].status # "absent"
         \/ \E t \in transfers : t.id = Subject(p)
  <2>1. serving[p] \in Asks <=> serving[p] # NoAsk
    BY TransfersAssumption DEF Honest, HandlersTyped
  <2>2. IF serving[p] \in Asks THEN Asked(ask[serving[p]])
        ELSE made[p] \in Ids /\ \E x \in transfers : x.id = made[p]
    BY DEF Announce, Honest, Claims, Claim
  <2> QED BY <2>1, <2>2 DEF Subject, Asked
<1>2. messages' = messages \cup {Subject(p)} /\ UNCHANGED <<ask, transfers, paidFor>>
  BY DEF Announce, tables
<1>3. Growing
  BY <1>2 DEF Growing, Grows
<1>4. Truth'
  <2>1. MessagesTellTheTruth'
    BY <1>1, <1>2 DEF Honest, Truth, MessagesTellTheTruth
  <2>2. CompletedWasPaid' /\ RowsAsked'
    BY <1>2 DEF Honest, Truth, CompletedWasPaid, RowsAsked
  <2> QED BY <2>1, <2>2 DEF Truth
<1>5. HandlersTyped' /\ Claims'
  BY <1>3, AnswerKeeps DEF Announce, Honest
<1>6. RestTyped'
  BY <1>1, <1>2 DEF Announce, Honest, RestTyped
<1> QED BY <1>4, <1>5, <1>6 DEF Honest

LEMMA QueryFailsKeeps ==
    ASSUME Honest, NEW p \in Procs, QueryFails(p)
    PROVE  Honest'
<1>1. Growing /\ Truth'
  BY QuietKeeps DEF QueryFails, Honest, tables
<1>2. HandlersTyped' /\ Claims'
  BY <1>1, AnswerKeeps DEF QueryFails, Honest
<1>3. disturbed' \subseteq Asks /\ faults' \in 0..MaxFaults
  BY BreakOffTyped, FaultCounted DEF QueryFails, Honest
<1>4. RestTyped'
  BY <1>3 DEF QueryFails, Honest, RestTyped
<1> QED BY <1>1, <1>2, <1>4 DEF Honest

(* A restart forgets every handler, and with it every claim. *)
LEMMA CrashKeeps ==
    ASSUME Honest, Crash
    PROVE  Honest'
<1>1. Growing /\ Truth'
  BY QuietKeeps DEF Crash, Honest, tables
<1>2. HandlersTyped' /\ Claims'
  BY DEF Crash, HandlersTyped, Claims, Claim, Labels
<1>3. disturbed' \subseteq Asks /\ faults' \in 0..MaxFaults
  BY BreakOffTyped, FaultCounted DEF Crash, Honest
<1>4. RestTyped'
  BY <1>3 DEF Crash, Honest, RestTyped
<1> QED BY <1>1, <1>2, <1>4 DEF Honest

LEMMA WalletsKeeps ==
    ASSUME Honest, Wallets
    PROVE  Honest'
<1>1. UNCHANGED <<ask, transfers, paidFor, messages>>
  BY DEF Wallets, Open, SetFrozen
<1>2. Growing /\ Truth'
  BY <1>1, QuietKeeps DEF Honest
<1>3. HandlersTyped' /\ Claims'
  BY <1>2, HandlersStay DEF Wallets, Honest
<1>4. RestTyped'
  BY DEF Wallets, Honest, RestTyped
<1> QED BY <1>2, <1>3, <1>4 DEF Honest

LEMMA NextHonest == Honest /\ [Next]_vars => Honest'
<1> SUFFICES ASSUME Honest, [Next]_vars PROVE Honest'
  OBVIOUS
<1>1. ASSUME NEW p \in Procs, \E t \in Terms : Send(p, t) \/ \E r \in Asks : Request(p, r, t)
      PROVE  Honest'
  BY <1>1, SendKeeps, RequestKeeps
<1>2. ASSUME NEW p \in Procs, \E r \in Asks : Accept(p, r) \/ Decline(p, r)
      PROVE  Honest'
  BY <1>2, AcceptKeeps, DeclineKeeps
<1>3. ASSUME NEW p \in Procs, Pay(p) \/ PayRefused(p) \/ Close(p) \/ Announce(p)
      PROVE  Honest'
  BY <1>3, PayKeeps, PayRefusedKeeps, CloseKeeps, AnnounceKeeps
<1>4. ASSUME NEW p \in Procs, PayUnconfirmed(p) \/ QueryFails(p) PROVE Honest'
  BY <1>4, PayUnconfirmedKeeps, QueryFailsKeeps
<1>5. CASE Crash \/ Wallets
  BY <1>5, CrashKeeps, WalletsKeeps
<1>6. CASE UNCHANGED vars
  <2>1. UNCHANGED handlers /\ Growing /\ Truth'
    BY <1>6, QuietKeeps DEF vars, Honest, tables
  <2>2. HandlersTyped' /\ Claims'
    BY <2>1, HandlersStay DEF Honest
  <2>3. RestTyped'
    BY <1>6 DEF vars, Honest, RestTyped
  <2> QED BY <2>1, <2>2, <2>3 DEF Honest
<1> QED BY <1>1, <1>2, <1>3, <1>4, <1>5, <1>6 DEF Next

-----------------------------------------------------------------------------
(* StatusTellsPayment, made inductive: on a request nobody has disturbed   *)
(* there is one accept at most, which finds it pending, and how far it is  *)
(* says whether the request is paid.                                       *)
AtWork(p, r) == serving[p] = r /\ pc[p] \in {"paying", "closing"}

PaidOnce(r) == \E id \in Ids : paidFor[r] = {id}

OneAtWork(r) ==
    /\ \A p, q \in Procs : AtWork(p, r) /\ AtWork(q, r) => p = q
    /\ \A p \in Procs : AtWork(p, r) =>
          /\ ask[r].status = "pending"
          /\ IF pc[p] = "closing" THEN PaidOnce(r) ELSE paidFor[r] = {}
    /\ (\A p \in Procs : ~ AtWork(p, r)) =>
          IF ask[r].status = "completed" THEN PaidOnce(r) ELSE paidFor[r] = {}

Undisturbed == \A r \in Asks \ disturbed : OneAtWork(r)

LEMMA UndisturbedTells == Undisturbed => StatusTellsPayment
<1> SUFFICES ASSUME Undisturbed, NEW r \in Asks \ disturbed, ~ Accepting(r)
             PROVE  Cardinality(paidFor[r]) = IF ask[r].status = "completed" THEN 1 ELSE 0
  BY DEF StatusTellsPayment
<1>1. IF ask[r].status = "completed" THEN PaidOnce(r) ELSE paidFor[r] = {}
  BY DEF Undisturbed, OneAtWork, AtWork, Accepting
<1>2. CASE ask[r].status = "completed"
  <2>1. PICK id \in Ids : paidFor[r] = {id}
    BY <1>1, <1>2 DEF PaidOnce
  <2> QED BY <1>2, <2>1, FS_Singleton
<1>3. CASE ask[r].status # "completed"
  BY <1>1, <1>3, FS_EmptySet
<1> QED BY <1>2, <1>3

(* A request is left as it was when the accepts at work on it and what     *)
(* they rely on are, and it is completed and paid as before.               *)
SameFor(r) ==
    /\ ask'[r].status = "completed" <=> ask[r].status = "completed"
    /\ \A q \in Procs : AtWork(q, r) => ask'[r].status = ask[r].status
    /\ paidFor'[r] = paidFor[r]

SameOn(r) ==
    /\ SameFor(r)
    /\ \A q \in Procs : /\ (serving'[q] = r /\ pc'[q] \in {"paying", "closing"}) <=> AtWork(q, r)
                        /\ AtWork(q, r) => pc'[q] = pc[q]

LEMMA SameStays ==
    ASSUME NEW r \in Asks, OneAtWork(r), SameOn(r)
    PROVE  OneAtWork(r)'
  BY DEF SameOn, SameFor, OneAtWork, AtWork, PaidOnce

\* A handler that works on another request, or on none, before and after.
LEMMA Elsewhere ==
    ASSUME HandlersTyped, NEW p \in Procs, NEW l, NEW t, NEW s, NEW i, Goto(p, l, t, s, i),
           NEW r \in Asks, ~ AtWork(p, r), s # r \/ l \notin {"paying", "closing"},
           SameFor(r)
    PROVE  SameOn(r)
<1>1. pc'[p] = l /\ serving'[p] = s
  BY DEF HandlersTyped, Goto
<1>2. \A q \in Procs \ {p} : pc'[q] = pc[q] /\ serving'[q] = serving[q]
  BY DEF HandlersTyped, Goto
<1> QED BY <1>1, <1>2 DEF SameOn, AtWork

(* The only accept at work on r leaves it: r must be as it is to be when   *)
(* nobody is at work on it.                                                *)
LEMMA Leaves ==
    ASSUME HandlersTyped, NEW p \in Procs, Answer(p), NEW r \in Asks, AtWork(p, r), OneAtWork(r),
           IF ask'[r].status = "completed" THEN PaidOnce(r)' ELSE paidFor'[r] = {}
    PROVE  OneAtWork(r)'
<1>1. pc'[p] = "idle" /\ \A q \in Procs \ {p} : pc'[q] = pc[q] /\ serving'[q] = serving[q]
  BY DEF HandlersTyped, Answer, Goto
<1>2. \A q \in Procs : ~ (serving'[q] = r /\ pc'[q] \in {"paying", "closing"})
  BY <1>1 DEF OneAtWork, AtWork
<1> QED BY <1>2 DEF OneAtWork, AtWork, PaidOnce

LEMMA BeginSays ==
    ASSUME RestTyped, NEW r \in Asks, Begin(r), r \notin disturbed'
    PROVE  r \notin disturbed /\ \A p \in Procs : ~ AtWork(p, r)
  BY DEF Begin, Accepting, AtWork

LEMMA BeginGrows ==
    ASSUME NEW r \in Asks, Begin(r)
    PROVE  disturbed \subseteq disturbed'
  BY DEF Begin

LEMMA DisturbedGrows == Honest /\ [Next]_vars => disturbed \subseteq disturbed'
<1> SUFFICES ASSUME Honest, [Next]_vars PROVE disturbed \subseteq disturbed'
  OBVIOUS
<1>1. ASSUME NEW p \in Procs, \E t \in Terms : Send(p, t) \/ \E r \in Asks : Request(p, r, t)
      PROVE  disturbed \subseteq disturbed'
  BY <1>1 DEF Send, Request
<1>2. ASSUME NEW p \in Procs, \E r \in Asks : Accept(p, r) \/ Decline(p, r)
      PROVE  disturbed \subseteq disturbed'
  BY <1>2, BeginGrows DEF Accept, Decline
<1>3. ASSUME NEW p \in Procs, Pay(p) \/ PayRefused(p) \/ Close(p) \/ Announce(p)
      PROVE  disturbed \subseteq disturbed'
  BY <1>3 DEF Pay, PayRefused, Close, Announce
<1>4. ASSUME NEW p \in Procs, PayUnconfirmed(p) \/ QueryFails(p)
      PROVE  disturbed \subseteq disturbed'
  BY <1>4 DEF PayUnconfirmed, QueryFails, BreakOff
<1>5. CASE Crash \/ Wallets
  BY <1>5 DEF Crash, Wallets, BreakOff
<1>6. CASE UNCHANGED vars
  BY <1>6 DEF vars
<1> QED BY <1>1, <1>2, <1>3, <1>4, <1>5, <1>6 DEF Next

\* Steps of a handler that works on no request, or on another one.
LEMMA ElsewhereStays ==
    ASSUME Honest, NEW p \in Procs, NEW l, NEW t, NEW s, NEW i, Goto(p, l, t, s, i),
           NEW r \in Asks, OneAtWork(r), ~ AtWork(p, r),
           s # r \/ l \notin {"paying", "closing"}, SameFor(r)
    PROVE  OneAtWork(r)'
  BY Elsewhere, SameStays DEF Honest

LEMMA AnswerElsewhere ==
    ASSUME Honest, NEW p \in Procs, Answer(p), NEW r \in Asks, OneAtWork(r), ~ AtWork(p, r),
           SameFor(r)
    PROVE  OneAtWork(r)'
  BY ElsewhereStays DEF Answer

LEMMA NobodyMoves ==
    ASSUME NEW r \in Asks, OneAtWork(r), SameFor(r), UNCHANGED handlers
    PROVE  OneAtWork(r)'
  BY SameStays DEF SameOn, AtWork, handlers

LEMMA RequestAlone ==
    ASSUME Honest, NEW p \in Procs, NEW s \in Asks, NEW t \in Terms, Request(p, s, t),
           NEW r \in Asks, OneAtWork(r)
    PROVE  OneAtWork(r)'
<1>1. \A q \in Procs : AtWork(q, r) => ask[r].status # "absent"
  BY DEF AtWork, Honest, Claims, Claim, Asked
<1>2. ask[s].status = "absent" /\ ask' = [ask EXCEPT ![s] = [status |-> "pending", terms |-> t]]
      /\ paidFor' = paidFor
  BY DEF Request
<1>3. SameFor(r)
  <2>1. CASE r = s
    <3>1. ask'[r].status = "pending" /\ ask[r].status = "absent"
      BY <1>2, <2>1 DEF Honest, RestTyped
    <3> QED BY <1>1, <1>2, <3>1 DEF SameFor
  <2>2. CASE r # s
    BY <1>2, <2>2 DEF SameFor, Honest, RestTyped
  <2> QED BY <2>1, <2>2
<1>4. CASE UNCHANGED handlers
  BY <1>3, <1>4, NobodyMoves
<1>5. CASE Goto(p, "message", NoTerms, s, 0)
  <2>1. ~ AtWork(p, r)
    BY DEF AtWork, Request
  <2> QED BY <1>3, <1>5, <2>1, ElsewhereStays
<1> QED BY <1>4, <1>5 DEF Request

LEMMA DeclineAlone ==
    ASSUME Honest, NEW p \in Procs, NEW s \in Asks, Decline(p, s),
           NEW r \in Asks \ disturbed', OneAtWork(r)
    PROVE  OneAtWork(r)'
<1>1. /\ ask[s].status = "pending" /\ ask' = [ask EXCEPT ![s].status = "declined"]
      /\ paidFor' = paidFor /\ UNCHANGED handlers
  BY DEF Decline
<1>2. SameFor(r)
  <2>1. CASE r = s
    <3>1. \A q \in Procs : ~ AtWork(q, r)
      BY <2>1, BeginSays DEF Decline, Honest
    <3>2. ask'[r].status = "declined"
      BY <1>1, <2>1 DEF Honest, RestTyped
    <3> QED BY <1>1, <2>1, <3>1, <3>2 DEF SameFor
  <2>2. CASE r # s
    BY <1>1, <2>2 DEF SameFor, Honest, RestTyped
  <2> QED BY <2>1, <2>2
<1> QED BY <1>1, <1>2, NobodyMoves

(* An accept finds r pending; if nobody else is at work on it, nobody has  *)
(* paid it.                                                                *)
LEMMA AcceptAlone ==
    ASSUME Honest, NEW p \in Procs, NEW s \in Asks, Accept(p, s),
           NEW r \in Asks \ disturbed', OneAtWork(r)
    PROVE  OneAtWork(r)'
<1>1. /\ pc[p] = "idle" /\ ask[s].status = "pending" /\ ask' = ask /\ paidFor' = paidFor
      /\ Goto(p, "paying", ask[s].terms, s, 0)
  BY DEF Accept
<1>2. CASE r = s
  <2>1. \A q \in Procs : ~ AtWork(q, r)
    BY <1>2, BeginSays DEF Accept, Honest
  <2>2. paidFor'[r] = {} /\ ask'[r].status = "pending"
    BY <1>1, <1>2, <2>1 DEF OneAtWork
  <2>3. /\ pc'[p] = "paying" /\ serving'[p] = r
        /\ \A q \in Procs \ {p} : pc'[q] = pc[q] /\ serving'[q] = serving[q]
    BY <1>1, <1>2 DEF Goto, Honest, HandlersTyped
  <2>4. \A q \in Procs : serving'[q] = r /\ pc'[q] \in {"paying", "closing"} => q = p
    BY <2>1, <2>3 DEF AtWork
  <2> QED BY <2>2, <2>3, <2>4 DEF OneAtWork, AtWork
<1>3. CASE r # s
  <2>1. SameFor(r) /\ ~ AtWork(p, r)
    BY <1>1 DEF SameFor, AtWork
  <2> QED BY <1>1, <1>3, <2>1, ElsewhereStays
<1> QED BY <1>2, <1>3

\* The record of r changes only when a transfer is made for r.
LEMMA OthersUnpaid ==
    ASSUME Honest, NEW p \in Procs, Transferred(p), ask' = ask, NEW r \in Asks, ~ AtWork(p, r)
    PROVE  SameFor(r)
<1>1. serving[p] # r
  BY DEF AtWork, Transferred
<1>2. paidFor'[r] = paidFor[r]
  BY <1>1 DEF Transferred, Honest, RestTyped
<1> QED BY <1>2 DEF SameFor

LEMMA PayAlone ==
    ASSUME Honest, NEW p \in Procs, Pay(p), NEW r \in Asks, OneAtWork(r)
    PROVE  OneAtWork(r)'
<1>1. CASE AtWork(p, r)
  <2>1. /\ serving[p] = r /\ pc[p] = "paying" /\ r # NoAsk
        /\ Goto(p, "closing", terms[p], r, calls') /\ ask' = ask
    BY <1>1, TransfersAssumption DEF Pay, Transferred, AtWork
  <2>2. calls' \in Ids /\ paidFor' = [paidFor EXCEPT ![r] = paidFor[r] \cup {calls'}]
    BY <2>1, Committed DEF Pay, Honest
  <2>3. paidFor[r] = {} /\ ask[r].status = "pending"
    BY <1>1, <2>1 DEF OneAtWork
  <2>4. paidFor'[r] = {calls'}
    BY <2>2, <2>3 DEF Honest, RestTyped
  <2>5. /\ pc'[p] = "closing" /\ serving'[p] = r
        /\ \A q \in Procs \ {p} : pc'[q] = pc[q] /\ serving'[q] = serving[q]
    BY <2>1 DEF Goto, Honest, HandlersTyped
  <2>6. \A q \in Procs : serving'[q] = r /\ pc'[q] \in {"paying", "closing"} => q = p
    BY <1>1, <2>5 DEF OneAtWork, AtWork
  <2> QED BY <2>1, <2>2, <2>3, <2>4, <2>5, <2>6 DEF OneAtWork, AtWork, PaidOnce
<1>2. CASE ~ AtWork(p, r)
  <2>1. SameFor(r) /\ serving[p] # r
    BY <1>2, OthersUnpaid DEF Pay, Transferred, AtWork
  <2>2. NoAsk # r
    BY TransfersAssumption
  <2>3. CASE Goto(p, "closing", terms[p], serving[p], calls')
    BY <1>2, <2>1, <2>3, ElsewhereStays
  <2>4. CASE Goto(p, "message", NoTerms, NoAsk, calls')
    BY <1>2, <2>1, <2>2, <2>4, ElsewhereStays
  <2>5. CASE Answer(p)
    BY <1>2, <2>1, <2>5, AnswerElsewhere
  <2> QED BY <2>3, <2>4, <2>5 DEF Pay
<1> QED BY <1>1, <1>2

LEMMA PayUnconfirmedAlone ==
    ASSUME Honest, NEW p \in Procs, PayUnconfirmed(p),
           NEW r \in Asks \ disturbed', OneAtWork(r)
    PROVE  OneAtWork(r)'
<1>1. serving[p] # r
  BY TransfersAssumption DEF PayUnconfirmed
<1>2. ~ AtWork(p, r) /\ Answer(p)
  BY <1>1 DEF AtWork, PayUnconfirmed
<1>3. SameFor(r)
  BY <1>2, OthersUnpaid DEF PayUnconfirmed
<1> QED BY <1>2, <1>3, AnswerElsewhere

\* A handler that answers and has written nothing to rows or records.
LEMMA UnwrittenAlone ==
    ASSUME Honest, NEW p \in Procs, Answer(p), ask' = ask, paidFor' = paidFor,
           NEW r \in Asks, AtWork(p, r) => pc[p] = "paying", OneAtWork(r)
    PROVE  OneAtWork(r)'
<1>1. CASE AtWork(p, r)
  <2>1. ask[r].status = "pending" /\ paidFor[r] = {}
    BY <1>1 DEF OneAtWork
  <2> QED BY <1>1, <2>1, Leaves DEF Honest
<1>2. CASE ~ AtWork(p, r)
  BY <1>2, AnswerElsewhere DEF SameFor
<1> QED BY <1>1, <1>2

LEMMA CloseAlone ==
    ASSUME Honest, NEW p \in Procs, Close(p), NEW r \in Asks, OneAtWork(r)
    PROVE  OneAtWork(r)'
<1>1. /\ pc[p] = "closing" /\ ask' = [ask EXCEPT ![serving[p]].status = "completed"]
      /\ Answer(p) /\ paidFor' = paidFor
  BY DEF Close
<1>2. CASE AtWork(p, r)
  <2>1. ask'[r].status = "completed"
    BY <1>1, <1>2 DEF AtWork, Honest, RestTyped
  <2>2. PaidOnce(r)'
    BY <1>1, <1>2 DEF OneAtWork, PaidOnce
  <2> QED BY <1>1, <1>2, <2>1, <2>2, Leaves DEF Honest
<1>3. CASE ~ AtWork(p, r)
  <2>1. serving[p] # r
    BY <1>1, <1>3 DEF AtWork
  <2>2. SameFor(r)
    BY <1>1, <2>1 DEF SameFor, Honest, RestTyped
  <2> QED BY <1>1, <1>3, <2>2, AnswerElsewhere
<1> QED BY <1>2, <1>3

LEMMA QueryFailsAlone ==
    ASSUME Honest, NEW p \in Procs, QueryFails(p),
           NEW r \in Asks \ disturbed', OneAtWork(r)
    PROVE  OneAtWork(r)'
<1>1. AtWork(p, r) => pc[p] = "paying"
  BY DEF AtWork, QueryFails, BreakOff
<1> QED BY <1>1, UnwrittenAlone DEF QueryFails

(* A restart that leaves r undisturbed has cut off no accept that paid it. *)
LEMMA CrashAlone ==
    ASSUME Honest, Crash, NEW r \in Asks \ disturbed', OneAtWork(r)
    PROVE  OneAtWork(r)'
<1>1. \A q \in Procs : AtWork(q, r) => pc[q] # "closing"
  BY DEF Crash, BreakOff, AtWork
<1>2. IF ask[r].status = "completed" THEN PaidOnce(r) ELSE paidFor[r] = {}
  BY <1>1 DEF OneAtWork
<1>3. \A q \in Procs : pc'[q] = "idle"
  BY DEF Crash
<1>4. ask' = ask /\ paidFor' = paidFor
  BY DEF Crash
<1> QED BY <1>2, <1>3, <1>4 DEF OneAtWork, AtWork, PaidOnce

LEMMA NextUndisturbed == Honest /\ Undisturbed /\ [Next]_vars => Undisturbed'
<1> SUFFICES ASSUME Honest, Undisturbed, [Next]_vars, NEW r \in Asks \ disturbed'
             PROVE  OneAtWork(r)'
  BY DEF Undisturbed
<1>1. OneAtWork(r)
  BY DisturbedGrows DEF Undisturbed
<1>2. ASSUME NEW p \in Procs, NEW t \in Terms, Send(p, t) PROVE OneAtWork(r)'
  <2>1. Goto(p, "paying", t, NoAsk, 0) /\ ~ AtWork(p, r) /\ NoAsk # r /\ SameFor(r)
    BY <1>2, TransfersAssumption DEF Send, AtWork, SameFor
  <2> QED BY <1>1, <2>1, ElsewhereStays
<1>3. ASSUME NEW p \in Procs, NEW s \in Asks, Accept(p, s) \/ Decline(p, s)
      PROVE  OneAtWork(r)'
  BY <1>1, <1>3, AcceptAlone, DeclineAlone
<1>4. ASSUME NEW p \in Procs, NEW s \in Asks, NEW t \in Terms, Request(p, s, t)
      PROVE  OneAtWork(r)'
  BY <1>1, <1>4, RequestAlone
<1>5. ASSUME NEW p \in Procs, PayRefused(p) \/ Announce(p) PROVE OneAtWork(r)'
  <2>1. Answer(p) /\ ask' = ask /\ paidFor' = paidFor /\ (AtWork(p, r) => pc[p] = "paying")
    BY <1>5 DEF PayRefused, Announce, AtWork
  <2> QED BY <1>1, <2>1, UnwrittenAlone
<1>6. ASSUME NEW p \in Procs, Pay(p) \/ Close(p) \/ PayUnconfirmed(p) \/ QueryFails(p)
      PROVE  OneAtWork(r)'
  BY <1>1, <1>6, PayAlone, CloseAlone, PayUnconfirmedAlone, QueryFailsAlone
<1>7. CASE Crash
  BY <1>1, <1>7, CrashAlone
<1>8. CASE Wallets \/ UNCHANGED vars
  <2>1. SameFor(r) /\ UNCHANGED handlers
    BY <1>8 DEF Wallets, vars, SameFor
  <2> QED BY <1>1, <2>1, NobodyMoves
<1> QED BY <1>2, <1>3, <1>4, <1>5, <1>6, <1>7, <1>8 DEF Next

-----------------------------------------------------------------------------
LEMMA Inductive == Spec => [](Books /\ Honest /\ Undisturbed)
<1>1. Init => Books /\ Honest /\ Undisturbed
  <2>1. Init => Undisturbed
    BY DEF Init, Undisturbed, OneAtWork, AtWork, PaidOnce
  <2> QED BY <2>1, InitBooks, InitHonest DEF Init
<1>2. Books /\ Honest /\ Undisturbed /\ [Next]_vars => (Books /\ Honest /\ Undisturbed)'
  <2>1. Books /\ Honest /\ [Next]_vars => Books'
    BY StepOfLedger, NextBooks DEF Honest
  <2> QED BY <2>1, NextHonest, NextUndisturbed
<1> QED BY <1>1, <1>2, PTL DEF Spec

(* Request rows, messages, transfer handlers and wallets keep their types. *)
THEOREM TransfersTypeOK == Spec => []TypeOK
<1>1. Books /\ Honest => TypeOK
  BY TypeParts DEF Books, Honest
<1> QED BY <1>1, Inductive, PTL

(* However accepts, declines, restarts and failing statements interleave,  *)
(* a request marked completed was paid on its own terms.                   *)
THEOREM TransfersCompletedWasPaid == Spec => []CompletedWasPaid
<1>1. Honest => CompletedWasPaid
  BY DEF Honest, Truth
<1> QED BY <1>1, Inductive, PTL

(* A chat message never announces a request that is not there, or a        *)
(* payment that was not made.                                              *)
THEOREM TransfersMessagesTellTheTruth == Spec => []MessagesTellTheTruth
<1>1. Honest => MessagesTellTheTruth
  BY DEF Honest, Truth
<1> QED BY <1>1, Inductive, PTL

(* Nothing but two handlers that meet over a request, or one that breaks   *)
(* off after paying, makes its status differ from what was paid for it.    *)
THEOREM TransfersStatusTellsPayment == Spec => []StatusTellsPayment
  BY UndisturbedTells, Inductive, PTL

(* Transfers use the wallets only through the operations the repository    *)
(* offers, with arguments it can take.                                     *)
THEOREM TransfersUseLedger == Spec => LedgerSpec
<1>1. Init => LedgerInit
  BY DEF Init
<1>2. Honest /\ [Next]_vars => [LedgerNext]_tables
  BY StepOfLedger DEF Honest
<1> QED BY <1>1, <1>2, Inductive, PTL DEF Spec, LedgerSpec

(* So no interleaving of transfers overdraws a wallet or leaves half of a  *)
(* transfer.                                                               *)
THEOREM TransfersKeepBooks == Spec => []Books
  BY TransfersUseLedger, LedgerKeepsBooks, PTL
=============================================================================
