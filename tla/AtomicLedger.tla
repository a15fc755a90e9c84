---------------------------- MODULE AtomicLedger ----------------------------
(***************************************************************************)
(* What the wallet repository promises its callers: every credit, debit    *)
(* and transfer happens in one step, at most once, against the balance     *)
(* that is there at that moment.  WalletRepo is shown to implement this    *)
(* module, and the request handlers (Transfers, Payments, Purchases) are   *)
(* built on it.                                                            *)
(***************************************************************************)
EXTENDS Integers, Sequences

CONSTANTS
    Users,      \* the users, one wallet row at most for each
    Amounts,    \* the amounts a call may name
    Ids,        \* names of calls: the uuid a row or a transfer is given
    Opening     \* what each wallet holds at the start; 0: no wallet row yet

ASSUME LedgerAssumption ==
    /\ Users # {}
    /\ Amounts \subseteq Nat \ {0}
    /\ Ids \subseteq Nat \ {0}
    /\ Opening \in [Users -> Nat]

VARIABLES
    wallets,    \* users that have a wallet row
    balance,    \* wallets.balance; 0 where there is no row
    frozen,     \* wallets.is_frozen
    ledger,     \* wallet_transactions of each user, oldest first
    transfers   \* p2p_transfers rows written by atomicTransfer

tables == <<wallets, balance, frozen, ledger, transfers>>

\* A wallet_transactions row; id names the call that wrote it, 0 the opening.
Entry == [id : Ids \cup {0}, kind : {"debit", "credit"}, amount : Nat, after : Int]

Row(id, kind, amount, after) ==
    [id |-> id, kind |-> kind, amount |-> amount, after |-> after]

Transfer == [id : Ids, sender : Users, receiver : Users, amount : Amounts]

LedgerInit ==
    /\ wallets = {u \in Users : Opening[u] > 0}
    /\ balance = Opening
    /\ frozen = [u \in Users |-> FALSE]
    /\ ledger = [u \in Users |->
                   IF Opening[u] > 0
                   THEN <<Row(0, "credit", Opening[u], Opening[u])>>
                   ELSE <<>>]
    /\ transfers = {}

-----------------------------------------------------------------------------
LedgerTypeOK ==
    /\ wallets \subseteq Users
    /\ balance \in [Users -> Int]
    /\ frozen \in [Users -> BOOLEAN]
    /\ ledger \in [Users -> Seq(Entry)]
    /\ transfers \subseteq Transfer

\* Sequences of rows: does s hold a row of this name and kind, what did its
\* last row leave, and does every row start from what the one before it left?
HasRow(s, id, kind) == \E i \in 1..Len(s) : s[i].id = id /\ s[i].kind = kind

LastAfter(s) == IF s = <<>> THEN 0 ELSE s[Len(s)].after

Effect(row) == IF row.kind = "credit" THEN row.amount ELSE - row.amount

Chained(s) ==
    \A i \in 1..Len(s) :
        s[i].after = (IF i = 1 THEN 0 ELSE s[i - 1].after) + Effect(s[i])

\* No row was written under this name yet: uuidv4 does not repeat.
Fresh(id) ==
    /\ \A u \in Users, kind \in {"debit", "credit"} : ~ HasRow(ledger[u], id, kind)
    /\ \A t \in transfers : t.id # id

-----------------------------------------------------------------------------
(* getOrCreateWallet: an empty wallet appears. *)
Open(u) ==
    /\ wallets' = wallets \cup {u}
    /\ UNCHANGED <<balance, frozen, ledger, transfers>>

Credit(u, a, id) ==
    /\ u \in wallets /\ ~ frozen[u] /\ Fresh(id)
    /\ balance' = [balance EXCEPT ![u] = @ + a]
    /\ ledger' = [ledger EXCEPT ![u] = Append(@, Row(id, "credit", a, balance[u] + a))]
    /\ UNCHANGED <<wallets, frozen, transfers>>

Debit(u, a, id) ==
    /\ u \in wallets /\ ~ frozen[u] /\ Fresh(id)
    /\ balance[u] >= a
    /\ balance' = [balance EXCEPT ![u] = @ - a]
    /\ ledger' = [ledger EXCEPT ![u] = Append(@, Row(id, "debit", a, balance[u] - a))]
    /\ UNCHANGED <<wallets, frozen, transfers>>

(* Debit, then credit, of one amount.  from = to is possible: the credit   *)
(* then starts from what the debit left.                                   *)
Move(from, to, a, id) ==
    LET debited == [balance EXCEPT ![from] = @ - a]
        posted == [ledger EXCEPT ![from] = Append(@, Row(id, "debit", a, debited[from]))]
    IN  /\ {from, to} \subseteq wallets /\ ~ frozen[from] /\ ~ frozen[to] /\ Fresh(id)
        /\ balance[from] >= a
        /\ balance' = [debited EXCEPT ![to] = @ + a]
        /\ ledger' = [posted EXCEPT ![to] = Append(@, Row(id, "credit", a, debited[to] + a))]
        /\ transfers' = transfers \cup
               {[id |-> id, sender |-> from, receiver |-> to, amount |-> a]}
        /\ UNCHANGED <<wallets, frozen>>

(* is_frozen is only ever read by the code: an operator sets it by hand. *)
SetFrozen(u, flag) ==
    /\ u \in wallets
    /\ frozen' = [frozen EXCEPT ![u] = flag]
    /\ UNCHANGED <<wallets, balance, ledger, transfers>>

LedgerNext ==
    \/ \E u \in Users : Open(u)
    \/ \E u \in Users, flag \in BOOLEAN : SetFrozen(u, flag)
    \/ \E u \in Users, a \in Amounts, id \in Ids : Credit(u, a, id) \/ Debit(u, a, id)
    \/ \E from, to \in Users, a \in Amounts, id \in Ids : Move(from, to, a, id)

LedgerSpec == LedgerInit /\ [][LedgerNext]_tables

-----------------------------------------------------------------------------
(* The ledger explains the balance: each row's balance_after is the one    *)
(* before it plus the row's effect, and the last one is the wallet's       *)
(* balance.  An update lost between the SELECT and the UPDATE, or a row    *)
(* written without its balance, breaks the chain.                          *)
LedgerExplainsBalance ==
    \A u \in Users : Chained(ledger[u]) /\ balance[u] = LastAfter(ledger[u])

(* A wallet is never overdrawn, however many debits race for its balance. *)
NoOverdraft == \A u \in Users : balance[u] >= 0

(* A p2p transfer leaves both of its rows and its p2p_transfers record, or *)
(* none of the three.                                                      *)
TransferAllOrNothing ==
    /\ \A t \in transfers : /\ HasRow(ledger[t.sender], t.id, "debit")
                            /\ HasRow(ledger[t.receiver], t.id, "credit")
    /\ \A u, v \in Users, id \in Ids :
          HasRow(ledger[u], id, "debit") /\ HasRow(ledger[v], id, "credit") =>
             \E t \in transfers : t.id = id /\ t.sender = u /\ t.receiver = v

=============================================================================
