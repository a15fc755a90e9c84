----------------------------- MODULE WalletRepo -----------------------------
(***************************************************************************)
(* PostgresWalletRepository (modules/wallet/adapters/postgres.ts): credit, *)
(* debit and atomicTransfer, run by concurrent requests against wallets    *)
(* with row locks, over a connection pool of PoolMax clients.              *)
(*                                                                         *)
(* A request is a process p.  One action is one SQL statement, or the      *)
(* statements between two points at which another session can see or       *)
(* disturb the transaction.  PostgreSQL is external: READ COMMITTED, so a  *)
(* statement sees what is committed when it starts and what its own        *)
(* transaction wrote; SELECT ... FOR UPDATE waits for the row lock.        *)
(***************************************************************************)
EXTENDS Integers, FiniteSets, Sequences

CONSTANTS
    Users,      \* the users, one wallet row at most for each
    Procs,      \* the requests that can run at the same time
    NoProc,     \* the owner of a row nobody has locked
    Amounts,    \* the amounts a call may name
    PoolMax,    \* config.db.poolMax
    MaxCalls,   \* bound: how many calls the repository receives in all
    Ops,        \* which of its methods are called
    Freezable,  \* the users whose wallet an operator may freeze
    Opening     \* what each wallet holds at the start; 0: no wallet row yet

ASSUME ProcsAssumption == NoProc \notin Procs
ASSUME UsersAssumption == Users # {} /\ Opening \in [Users -> Nat]
ASSUME AmountsAssumption == Amounts \subseteq Nat \ {0}
ASSUME BoundsAssumption == PoolMax \in Nat \ {0} /\ MaxCalls \in Nat
ASSUME ScopeAssumption ==
    Freezable \subseteq Users /\ Ops \subseteq {"credit", "debit", "transfer"}

VARIABLES
    wallets, balance, frozen, ledger, transfers,   \* see AtomicLedger
    holder,     \* the request whose transaction holds each wallet's row lock
    pc,         \* where each request stands in its repository call
    job,        \* what the call was asked to do
    side,       \* the half it is in: debiting the payer, crediting the payee
    seen,       \* what its SELECT ... FOR UPDATE returned
    draft,      \* the ledger rows its open transaction has written
    outcome,    \* how the call ended, or is about to end
    issued      \* number of calls received: the id of the latest one

tables == <<wallets, balance, frozen, ledger, transfers>>
session == <<pc, job, side, seen, draft, outcome>>
vars == <<tables, holder, session, issued>>

Ids == 1..MaxCalls
Sides == {"debit", "credit"}

\* The specification this module implements: what is committed is the state of
\* the tables, the open transactions are hidden.
Atomic == INSTANCE AtomicLedger WITH
    Users <- Users, Amounts <- Amounts, Ids <- Ids, Opening <- Opening,
    wallets <- wallets, balance <- balance, frozen <- frozen,
    ledger <- ledger, transfers <- transfers

NoEntry == Atomic!Row(0, "debit", 0, 0)

\* A call with its arguments.  A debit has no payee and a credit no payer:
\* the unused field repeats the user.
Job == [op : {"none", "credit", "debit", "transfer"}, payer : Users, payee : Users,
        amount : Amounts \cup {0}, id : Ids \cup {0}]

NoJob == LET u == CHOOSE u \in Users : TRUE
         IN  [op |-> "none", payer |-> u, payee |-> u, amount |-> 0, id |-> 0]

Nothing == [balance |-> 0, frozen |-> FALSE]

\* Between BEGIN and COMMIT or ROLLBACK: the request holds a pool client.
Open == {"lookup", "create", "creating", "lock", "write", "commit", "rollback"}
Pcs == Open \cup {"idle", "connect", "done"}

Outcomes == {"none", "ok", "insufficient", "frozen", "error"}

Init ==
    /\ Atomic!LedgerInit
    /\ holder = [u \in Users |-> NoProc]
    /\ pc = [p \in Procs |-> "idle"]
    /\ job = [p \in Procs |-> NoJob]
    /\ side = [p \in Procs |-> "debit"]
    /\ seen = [p \in Procs |-> Nothing]
    /\ draft = [p \in Procs |-> [s \in Sides |-> NoEntry]]
    /\ outcome = [p \in Procs |-> "none"]
    /\ issued = 0

TypeOK ==
    /\ Atomic!LedgerTypeOK
    /\ holder \in [Users -> Procs \cup {NoProc}]
    /\ pc \in [Procs -> Pcs]
    /\ job \in [Procs -> Job]
    /\ side \in [Procs -> Sides]
    /\ seen \in [Procs -> [balance : Int, frozen : BOOLEAN]]
    /\ draft \in [Procs -> [Sides -> Atomic!Entry]]
    /\ outcome \in [Procs -> Outcomes]
    /\ issued \in 0..MaxCalls

-----------------------------------------------------------------------------
\* The wallet the request is working on.
Current(p) == IF side[p] = "debit" THEN job[p].payer ELSE job[p].payee

\* Clients the pool can still hand out.  Every open transaction has one; a
\* getOrCreateWallet inside it needs another (this.pool, not client).
PoolHasClient ==
    Cardinality({p \in Procs : pc[p] \in Open})
      + Cardinality({p \in Procs : pc[p] = "creating"}) < PoolMax

\* Variant with a fault: the SELECT runs on another client than the UPDATE.
VisibleCommitted(p, u) == balance[u]

\* The balance the request's transaction sees: committed, or its own write.
Visible(p, u) ==
    IF job[p].op = "transfer" /\ side[p] = "credit" /\ job[p].payer = u
    THEN draft[p]["debit"].after
    ELSE balance[u]

\* What SELECT id, balance, is_frozen returns.
Snapshot(p, u) == [balance |-> Visible(p, u), frozen |-> frozen[u]]

\* A row lock can be had; and a variant with a fault, no FOR UPDATE.
LockNotNeeded(p, u) == TRUE

LockFree(p, u) == holder[u] \in {p, NoProc}

Goto(p, label) == pc' = [pc EXCEPT ![p] = label]

\* An exception: the catch block will roll back, or there is nothing to undo.
Throw(p, label, why) ==
    /\ Goto(p, label)
    /\ outcome' = [outcome EXCEPT ![p] = why]
    /\ UNCHANGED <<tables, holder, job, side, seen, draft, issued>>

\* The end of a transaction releases its locks; and a variant with a fault,
\* the client goes back to the pool with its transaction open.
StillHeld(p) == holder

Released(p) == [u \in Users |-> IF holder[u] = p THEN NoProc ELSE holder[u]]

-----------------------------------------------------------------------------
(* A caller invokes credit, debit or atomicTransfer. *)
Call(p, op, payer, payee, amount) ==
    /\ pc[p] = "idle" /\ issued < MaxCalls /\ op \in Ops
    /\ issued' = issued + 1
    /\ job' = [job EXCEPT ![p] = [op |-> op, payer |-> payer, payee |-> payee,
                                  amount |-> amount, id |-> issued + 1]]
    /\ side' = [side EXCEPT ![p] = IF op = "credit" THEN "credit" ELSE "debit"]
    /\ Goto(p, "connect")
    /\ UNCHANGED <<tables, holder, seen, draft, outcome>>

CallAny(p) ==
    \/ \E u \in Users, a \in Amounts :
          Call(p, "credit", u, u, a) \/ Call(p, "debit", u, u, a)
    \/ \E u, v \in Users, a \in Amounts : Call(p, "transfer", u, v, a)

(* pool.connect() and BEGIN. *)
Connect(p) ==
    /\ pc[p] = "connect" /\ PoolHasClient
    /\ Goto(p, "lookup")
    /\ UNCHANGED <<tables, holder, job, side, seen, draft, outcome, issued>>

(* connectionTimeoutMillis elapses: all clients are taken, by these calls  *)
(* or by handlers of other modules.  connect() is outside the try block.   *)
ConnectTimeout(p) == pc[p] = "connect" /\ Throw(p, "done", "error")

(* The SELECT of getOrCreateWallet, on a client of its own. *)
Lookup(p) ==
    /\ pc[p] = "lookup" /\ PoolHasClient
    /\ Goto(p, IF Current(p) \in wallets THEN "lock" ELSE "create")
    /\ UNCHANGED <<tables, holder, job, side, seen, draft, outcome, issued>>

(* Its INSERT is sent, again on a client of its own ... *)
Create(p) ==
    /\ pc[p] = "create" /\ PoolHasClient
    /\ Goto(p, "creating")
    /\ UNCHANGED <<tables, holder, job, side, seen, draft, outcome, issued>>

(* ... and done.  ON CONFLICT DO UPDATE has to wait for a row lock, even   *)
(* one held by p itself: the statement is not part of p's transaction.     *)
Insert(p) ==
    /\ pc[p] = "creating" /\ holder[Current(p)] = NoProc
    /\ wallets' = wallets \cup {Current(p)}
    /\ Goto(p, "lock")
    /\ UNCHANGED <<balance, frozen, ledger, transfers, holder, job, side, seen,
                   draft, outcome, issued>>

PoolTimeout(p) == pc[p] \in {"lookup", "create"} /\ Throw(p, "rollback", "error")

(* SELECT ... FOR UPDATE. *)
Lock(p) ==
    LET u == Current(p)
    IN  /\ pc[p] = "lock" /\ LockFree(p, u)
        /\ holder' = [holder EXCEPT ![u] = p]
        /\ seen' = [seen EXCEPT ![p] = Snapshot(p, u)]
        /\ Goto(p, "write")
        /\ UNCHANGED <<tables, job, side, draft, outcome, issued>>

\* The debit exceeds the balance; and a variant with a fault, no such check.
NeverShort(p) == FALSE

Short(p) == side[p] = "debit" /\ seen[p].balance < job[p].amount

RefuseFrozen(p) ==
    pc[p] = "write" /\ seen[p].frozen /\ Throw(p, "rollback", "frozen")

RefuseShort(p) ==
    pc[p] = "write" /\ ~ seen[p].frozen /\ Short(p) /\ Throw(p, "rollback", "insufficient")

NewBalance(p) ==
    IF side[p] = "debit" THEN seen[p].balance - job[p].amount
                         ELSE seen[p].balance + job[p].amount

\* The wallet_transactions row.
NewRow(p) == Atomic!Row(job[p].id, side[p], job[p].amount, NewBalance(p))

\* The p2p_transfers row; and a variant with a fault, its users swapped.
SwappedRow(p) ==
    [id |-> job[p].id, sender |-> job[p].payee, receiver |-> job[p].payer,
     amount |-> job[p].amount]

TransferRow(p) ==
    [id |-> job[p].id, sender |-> job[p].payer, receiver |-> job[p].payee,
     amount |-> job[p].amount]

(* UPDATE wallets and INSERT INTO wallet_transactions; a transfer that has *)
(* debited its sender goes on to credit its receiver.                      *)
Write(p) ==
    /\ pc[p] = "write" /\ ~ seen[p].frozen /\ ~ Short(p)
    /\ draft' = [draft EXCEPT ![p][side[p]] = NewRow(p)]
    /\ IF job[p].op = "transfer" /\ side[p] = "debit"
       THEN side' = [side EXCEPT ![p] = "credit"] /\ Goto(p, "lookup")
       ELSE UNCHANGED side /\ Goto(p, "commit")
    /\ seen' = [seen EXCEPT ![p] = Nothing]
    /\ UNCHANGED <<tables, holder, job, outcome, issued>>

(* INSERT INTO p2p_transfers (a transfer only) and COMMIT.  The connection *)
(* may break after the server committed: the caller is then told "error".  *)
Commit(p, answer) ==
    LET j == job[p]
        d == draft[p]["debit"]
        c == draft[p]["credit"]
        debited == IF j.op = "credit" THEN balance ELSE [balance EXCEPT ![j.payer] = d.after]
        posted == IF j.op = "credit" THEN ledger
                  ELSE [ledger EXCEPT ![j.payer] = Append(@, d)]
    IN  /\ pc[p] = "commit"
        /\ balance' = IF j.op = "debit" THEN debited ELSE [debited EXCEPT ![j.payee] = c.after]
        /\ ledger' = IF j.op = "debit" THEN posted
                     ELSE [posted EXCEPT ![j.payee] = Append(@, c)]
        /\ transfers' = IF j.op # "transfer" THEN transfers
                        ELSE transfers \cup {TransferRow(p)}
        /\ holder' = Released(p)
        /\ outcome' = [outcome EXCEPT ![p] = answer]
        /\ Goto(p, "done")
        /\ UNCHANGED <<wallets, frozen, job, side, seen, draft, issued>>

(* ROLLBACK in the catch block, release() in the finally block. *)
Rollback(p) ==
    /\ pc[p] = "rollback"
    /\ holder' = Released(p)
    /\ Goto(p, "done")
    /\ UNCHANGED <<tables, job, side, seen, draft, outcome, issued>>

(* Any statement before COMMIT can fail: a lost connection, a constraint.  *)
QueryFails(p) == pc[p] \in Open \ {"rollback"} /\ Throw(p, "rollback", "error")

(* The call is over and its caller has the outcome. *)
Return(p) ==
    /\ pc[p] = "done"
    /\ Goto(p, "idle")
    /\ job' = [job EXCEPT ![p] = NoJob]
    /\ side' = [side EXCEPT ![p] = "debit"]
    /\ seen' = [seen EXCEPT ![p] = Nothing]
    /\ draft' = [draft EXCEPT ![p] = [s \in Sides |-> NoEntry]]
    /\ outcome' = [outcome EXCEPT ![p] = "none"]
    /\ UNCHANGED <<tables, holder, issued>>

-----------------------------------------------------------------------------
\* The request p waits for, if it waits for a row lock; p waits for itself
\* when its INSERT meets the row its own transaction has locked.
Blocker(p) ==
    IF \/ pc[p] = "lock" /\ ~ LockFree(p, Current(p))
       \/ pc[p] = "creating" /\ holder[Current(p)] # NoProc
    THEN holder[Current(p)] ELSE NoProc

\* Requests that wait for each other in a circle.
Circle(S) == S # {} /\ {Blocker(p) : p \in S} = S

(* PostgreSQL aborts one statement of a circle of lock waits it can see.   *)
(* It sees a session's wait for a row, not an application's wait for its   *)
(* other session: an INSERT of getOrCreateWallet belongs to no circle.     *)
Deadlocked == {S \in SUBSET Procs : Circle(S) /\ \A p \in S : pc[p] = "lock"}

DeadlockVictim ==
    \E S \in Deadlocked : \E p \in S : Throw(p, "rollback", "error")

(* The server restarts: calls are forgotten, open transactions roll back.  *)
Crash ==
    /\ pc' = [p \in Procs |-> "idle"]
    /\ job' = [p \in Procs |-> NoJob]
    /\ side' = [p \in Procs |-> "debit"]
    /\ seen' = [p \in Procs |-> Nothing]
    /\ draft' = [p \in Procs |-> [s \in Sides |-> NoEntry]]
    /\ outcome' = [p \in Procs |-> "none"]
    /\ holder' = [u \in Users |-> NoProc]
    /\ UNCHANGED <<tables, issued>>

(* getBalance: another request's getOrCreateWallet, outside a transaction. *)
GetBalance(u) ==
    /\ PoolHasClient /\ (u \notin wallets \/ holder[u] = NoProc)
    /\ Atomic!Open(u)
    /\ UNCHANGED <<holder, session, issued>>

(* An operator freezes or thaws a wallet, waiting for its row lock. *)
SetFrozen(u, flag) ==
    /\ holder[u] = NoProc
    /\ Atomic!SetFrozen(u, flag)
    /\ UNCHANGED <<holder, session, issued>>

\* What a running request does when nothing fails but the pool's clock.
Progress(p) ==
    \/ Connect(p) \/ ConnectTimeout(p)
    \/ Lookup(p) \/ Create(p) \/ Insert(p) \/ PoolTimeout(p)
    \/ Lock(p) \/ RefuseFrozen(p) \/ RefuseShort(p) \/ Write(p)
    \/ Commit(p, "ok") \/ Rollback(p) \/ Return(p)

Next ==
    \/ \E p \in Procs : CallAny(p) \/ Progress(p) \/ QueryFails(p) \/ Commit(p, "error")
    \/ DeadlockVictim
    \/ Crash
    \/ \E u \in Users : GetBalance(u)
    \/ \E u \in Freezable, flag \in BOOLEAN : SetFrozen(u, flag)

Spec == Init /\ [][Next]_vars

(* The event loop runs every ready request, PostgreSQL's lock queue serves *)
(* waiters in turn (hence SF) and its deadlock detector runs.              *)
FairSpec ==
    /\ Spec
    /\ \A p \in Procs : WF_vars(Progress(p)) /\ SF_vars(Lock(p) \/ Insert(p))
    /\ WF_vars(DeadlockVictim)

-----------------------------------------------------------------------------
(* The repository keeps its promise: each call is one atomic step. *)
ImplementsAtomicLedger == Atomic!LedgerSpec

LedgerExplainsBalance == Atomic!LedgerExplainsBalance
NoOverdraft == Atomic!NoOverdraft
TransferAllOrNothing == Atomic!TransferAllOrNothing

\* What keeps it: the inductive invariant behind the refinement, by parts.

\* A call in progress is one that was made, and no two have the same id.
JobsMade ==
    /\ \A p \in Procs : pc[p] # "idle" =>
          /\ job[p].op \in Ops /\ job[p].amount \in Amounts /\ job[p].id \in 1..issued
          /\ job[p].op # "transfer" => side[p] = job[p].op
          /\ job[p].op = "transfer" /\ pc[p] = "connect" => side[p] = "debit"
    /\ \A p, q \in Procs :
          p # q /\ pc[p] # "idle" /\ pc[q] # "idle" => job[p].id # job[q].id

\* Until it commits, a call has left nothing in the tables.
NothingYet ==
    /\ \A p \in Procs : pc[p] \notin {"idle", "done", "rollback"} => Atomic!Fresh(job[p].id)
    /\ \A id \in Ids : id > issued => Atomic!Fresh(id)

\* Locks are held only inside a transaction.
LocksInside ==
    \A p \in Procs : pc[p] \notin Open => \A u \in Users : holder[u] # p

\* A wallet that is about to be locked exists; one that was just locked is
\* as the SELECT saw it.
SeenCurrent(p) ==
    /\ pc[p] \in {"lock", "write"} => Current(p) \in wallets
    /\ pc[p] = "write" =>
          /\ holder[Current(p)] = p
          /\ seen[p].balance = Visible(p, Current(p))
          /\ seen[p].frozen = frozen[Current(p)]

\* A written row still fits the wallet it was computed from, which is locked.
HasDebited(p) ==
    \/ pc[p] = "commit" /\ job[p].op # "credit"
    \/ pc[p] \in Open \ {"rollback"} /\ job[p].op = "transfer" /\ side[p] = "credit"

HasCredited(p) == pc[p] = "commit" /\ job[p].op # "debit"

DraftFits(p) ==
    LET j == job[p]
    IN  /\ HasDebited(p) =>
              /\ holder[j.payer] = p /\ j.payer \in wallets /\ ~ frozen[j.payer]
              /\ balance[j.payer] >= j.amount
              /\ draft[p]["debit"] =
                    Atomic!Row(j.id, "debit", j.amount, balance[j.payer] - j.amount)
        /\ HasCredited(p) =>
              /\ holder[j.payee] = p /\ j.payee \in wallets /\ ~ frozen[j.payee]
              /\ draft[p]["credit"] =
                    Atomic!Row(j.id, "credit", j.amount, Visible(p, j.payee) + j.amount)
        /\ pc[p] = "commit" /\ j.op = "transfer" => side[p] = "credit"

IInv ==
    /\ TypeOK /\ JobsMade /\ NothingYet /\ LocksInside
    /\ \A p \in Procs : SeenCurrent(p) /\ DraftFits(p)

Ended(p) == pc[p] \in {"done", "idle"}

\* A circle of waits that goes through the INSERT of getOrCreateWallet:
\* PostgreSQL cannot see it and no statement has a timeout.
HiddenDeadlock ==
    \E S \in SUBSET Procs : Circle(S) /\ \E p \in S : pc[p] = "creating"

(* A call ends, however full the pool is and whoever holds its rows.  With *)
(* a wallet still to be created it can hang for ever, but only in such a   *)
(* circle.                                                                 *)
OnlyHiddenDeadlockHangs ==
    \A p \in Procs : pc[p] = "connect" ~> Ended(p) \/ HiddenDeadlock
=============================================================================
