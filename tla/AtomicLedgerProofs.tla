-------------------------- MODULE AtomicLedgerProofs --------------------------
(***************************************************************************)
(* Proofs that the atomic ledger keeps its books: for every set of users,  *)
(* amounts, references and opening balances.                               *)
(***************************************************************************)
EXTENDS AtomicLedger, TLAPS

(* Appending a row that starts from what the last one left keeps the chain *)
(* of balances, and the row's balance_after becomes the last one.          *)
LEMMA AppendChained ==
    ASSUME NEW s \in Seq(Entry), NEW row \in Entry,
           Chained(s), row.after = LastAfter(s) + Effect(row)
    PROVE  /\ Append(s, row) \in Seq(Entry)
           /\ Chained(Append(s, row))
           /\ LastAfter(Append(s, row)) = row.after
<1> DEFINE t == Append(s, row)
<1>1. /\ t \in Seq(Entry) /\ Len(t) = Len(s) + 1 /\ Len(s) \in Nat
      /\ t[Len(t)] = row
      /\ \A i \in 1..Len(s) : t[i] = s[i]
  OBVIOUS
<1>2. ASSUME NEW i \in 1..Len(t)
      PROVE  t[i].after = (IF i = 1 THEN 0 ELSE t[i - 1].after) + Effect(t[i])
  <2>1. CASE i \in 1..Len(s)
    <3>1. t[i] = s[i] /\ (i # 1 => i - 1 \in 1..Len(s))
      BY <1>1, <2>1
    <3>2. i # 1 => t[i - 1] = s[i - 1]
      BY <1>1, <3>1
    <3> QED BY <2>1, <3>1, <3>2 DEF Chained
  <2>2. CASE i = Len(t)
    <3>1. t[i] = row
      BY <1>1, <2>2
    <3>2. CASE s = <<>>
      BY <1>1, <2>2, <3>1, <3>2 DEF LastAfter
    <3>3. CASE s # <<>>
      <4>1. Len(s) \in 1..Len(s) /\ i # 1 /\ i - 1 = Len(s)
        BY <1>1, <2>2, <3>3
      <4> QED BY <1>1, <3>1, <3>3, <4>1 DEF LastAfter
    <3> QED BY <3>2, <3>3
  <2> QED BY <1>1, <2>1, <2>2
<1>3. t # <<>>
  BY <1>1
<1> QED BY <1>1, <1>2, <1>3 DEF Chained, LastAfter

(* The rows of a sequence after an append: those it had, and the new one. *)
LEMMA AppendHasRow ==
    ASSUME NEW s \in Seq(Entry), NEW row \in Entry, NEW id, NEW kind
    PROVE  HasRow(Append(s, row), id, kind)
              <=> HasRow(s, id, kind) \/ (row.id = id /\ row.kind = kind)
<1> DEFINE t == Append(s, row)
<1>1. /\ Len(t) = Len(s) + 1 /\ Len(s) \in Nat
      /\ t[Len(s) + 1] = row
      /\ \A i \in 1..Len(s) : t[i] = s[i]
  OBVIOUS
<1>2. ASSUME HasRow(t, id, kind)
      PROVE  HasRow(s, id, kind) \/ (row.id = id /\ row.kind = kind)
  BY <1>1, <1>2 DEF HasRow
<1>3. ASSUME HasRow(s, id, kind) PROVE HasRow(t, id, kind)
  BY <1>1, <1>3 DEF HasRow
<1>4. ASSUME row.id = id, row.kind = kind PROVE HasRow(t, id, kind)
  BY <1>1, <1>4 DEF HasRow
<1> QED BY <1>2, <1>3, <1>4

(* Rows built from a reference, an amount and a balance are well formed. *)
LEMMA RowType ==
    ASSUME NEW id \in Ids, NEW kind \in {"debit", "credit"}, NEW a \in Amounts,
           NEW after \in Int
    PROVE  /\ Row(id, kind, a, after) \in Entry
           /\ Row(id, kind, a, after).id = id
           /\ Row(id, kind, a, after).kind = kind
           /\ Row(id, kind, a, after).after = after
           /\ Effect(Row(id, kind, a, after)) = IF kind = "credit" THEN a ELSE - a
           /\ a \in Nat
  BY LedgerAssumption DEF Row, Entry, Effect

\* Balances and ledgers agree, and are well formed.
Explained(bal, led) ==
    /\ bal \in [Users -> Int] /\ led \in [Users -> Seq(Entry)]
    /\ \A u \in Users : Chained(led[u]) /\ bal[u] = LastAfter(led[u])

\* One row is posted to u's wallet: its balance and its ledger change.
Posted(bal, led, u, row, bal2, led2) ==
    /\ bal2 = [bal EXCEPT ![u] = row.after]
    /\ led2 = [led EXCEPT ![u] = Append(led[u], row)]

\* It is the only row that came.
OnlyAdds(led, led2, u, row) ==
    \A v \in Users, i \in Ids, kind \in {"debit", "credit"} :
        HasRow(led2[v], i, kind)
          <=> HasRow(led[v], i, kind) \/ (v = u /\ i = row.id /\ kind = row.kind)

(* A row that starts from the wallet's balance keeps balances and ledgers  *)
(* in agreement when it is posted.                                         *)
LEMMA Posting ==
    ASSUME NEW bal, NEW led, NEW u \in Users, NEW row \in Entry, NEW bal2, NEW led2,
           Explained(bal, led), row.after = bal[u] + Effect(row),
           Posted(bal, led, u, row, bal2, led2)
    PROVE  Explained(bal2, led2) /\ OnlyAdds(led, led2, u, row)
<1>1. /\ led[u] \in Seq(Entry) /\ bal[u] \in Int /\ row.after \in Int
      /\ Chained(led[u]) /\ bal[u] = LastAfter(led[u])
  BY DEF Explained, Entry
<1>2. /\ Append(led[u], row) \in Seq(Entry)
      /\ Chained(Append(led[u], row))
      /\ LastAfter(Append(led[u], row)) = row.after
  BY <1>1, AppendChained
<1>3. Explained(bal2, led2)
  BY <1>1, <1>2 DEF Explained, Posted
<1>4. \A v \in Users : led2[v] = IF v = u THEN Append(led[u], row) ELSE led[v]
  BY DEF Explained, Posted
<1>5. ASSUME NEW v \in Users, NEW i \in Ids, NEW kind \in {"debit", "credit"}
      PROVE  HasRow(led2[v], i, kind)
               <=> HasRow(led[v], i, kind) \/ (v = u /\ i = row.id /\ kind = row.kind)
  <2>1. CASE v = u
    <3>1. HasRow(Append(led[u], row), i, kind)
             <=> HasRow(led[u], i, kind) \/ (row.id = i /\ row.kind = kind)
      BY <1>1, AppendHasRow
    <3> QED BY <1>4, <2>1, <3>1
  <2>2. CASE v # u
    BY <1>4, <2>2
  <2> QED BY <2>1, <2>2
<1> QED BY <1>3, <1>5 DEF OnlyAdds

-----------------------------------------------------------------------------
\* The books are in order: what every step of the ledger preserves.
Books ==
    /\ LedgerTypeOK
    /\ LedgerExplainsBalance
    /\ NoOverdraft
    /\ TransferAllOrNothing

LEMMA InitBooks == LedgerInit => Books
<1> SUFFICES ASSUME LedgerInit PROVE Books
  OBVIOUS
<1> USE LedgerAssumption DEF LedgerInit
<1>1. ASSUME NEW u \in Users
      PROVE  /\ ledger[u] \in Seq(Entry)
             /\ Chained(ledger[u]) /\ balance[u] = LastAfter(ledger[u])
             /\ \A id \in Ids, kind \in {"debit", "credit"} : ~ HasRow(ledger[u], id, kind)
  <2>1. CASE Opening[u] > 0
    <3> DEFINE row == Row(0, "credit", Opening[u], Opening[u])
    <3>1. row \in Entry /\ row.id = 0 /\ row.after = Opening[u] /\ Effect(row) = Opening[u]
      BY DEF Row, Entry, Effect
    <3>2. ledger[u] = <<row>> /\ balance[u] = Opening[u]
      BY <2>1
    <3> HIDE DEF row
    <3>3. Len(<<row>>) = 1 /\ <<row>>[1] = row /\ <<row>> # <<>> /\ <<row>> \in Seq(Entry)
      BY <3>1
    <3>4. 0 \notin Ids
      OBVIOUS
    <3> QED BY <3>1, <3>2, <3>3, <3>4 DEF Chained, LastAfter, HasRow
  <2>2. CASE ~ (Opening[u] > 0)
    <3>1. ledger[u] = <<>> /\ balance[u] = 0
      BY <2>2
    <3> QED BY <3>1 DEF Chained, LastAfter, HasRow
  <2> QED BY <2>1, <2>2
<1>2. LedgerTypeOK
  BY <1>1 DEF LedgerTypeOK
<1>3. NoOverdraft
  <2>1. ASSUME NEW u \in Users PROVE balance[u] >= 0
    <3>1. Opening[u] \in Nat /\ balance[u] = Opening[u]
      OBVIOUS
    <3> QED BY <3>1
  <2> QED BY <2>1 DEF NoOverdraft
<1>4. TransferAllOrNothing
  BY <1>1 DEF TransferAllOrNothing
<1> QED BY <1>1, <1>2, <1>3, <1>4 DEF Books, LedgerExplainsBalance

LEMMA CreditBooks ==
    ASSUME Books, NEW u \in Users, NEW a \in Amounts, NEW id \in Ids, Credit(u, a, id)
    PROVE  Books'
<1> DEFINE row == Row(id, "credit", a, balance[u] + a)
<1>1. Explained(balance, ledger) /\ balance[u] \in Int /\ balance[u] >= 0
  BY DEF Books, LedgerTypeOK, LedgerExplainsBalance, NoOverdraft, Explained
<1>2. /\ row \in Entry /\ row.id = id /\ row.kind = "credit" /\ a \in Nat
      /\ row.after = balance[u] + a /\ Effect(row) = a
  <2>1. balance[u] + a \in Int
    BY <1>1, RowType
  <2> QED BY <2>1, RowType
<1> HIDE DEF row
<1>3. /\ Posted(balance, ledger, u, row, balance', ledger')
      /\ wallets' = wallets /\ frozen' = frozen /\ transfers' = transfers
      /\ Fresh(id)
  BY <1>2 DEF Credit, Posted, row
<1>4. Explained(balance', ledger') /\ OnlyAdds(ledger, ledger', u, row)
  BY <1>1, <1>2, <1>3, Posting
<1>5. LedgerTypeOK' /\ LedgerExplainsBalance'
  BY <1>3, <1>4 DEF Books, LedgerTypeOK, LedgerExplainsBalance, Explained
<1>6. NoOverdraft'
  BY <1>1, <1>2, <1>3 DEF Books, NoOverdraft, Explained, Posted
<1>7. TransferAllOrNothing'
  <2>1. ASSUME NEW t \in transfers'
        PROVE  HasRow(ledger'[t.sender], t.id, "debit") /\ HasRow(ledger'[t.receiver], t.id, "credit")
    BY <1>3, <1>4, <2>1 DEF Books, TransferAllOrNothing, LedgerTypeOK, Transfer, OnlyAdds
  <2>2. ASSUME NEW v \in Users, NEW w \in Users, NEW i \in Ids,
               HasRow(ledger'[v], i, "debit"), HasRow(ledger'[w], i, "credit")
        PROVE  \E t \in transfers' : t.id = i /\ t.sender = v /\ t.receiver = w
    <3>1. i # id
      BY <1>2, <1>3, <1>4, <2>2 DEF OnlyAdds, Fresh
    <3>2. HasRow(ledger[v], i, "debit") /\ HasRow(ledger[w], i, "credit")
      BY <1>2, <1>4, <2>2, <3>1 DEF OnlyAdds
    <3> QED BY <1>3, <3>2 DEF Books, TransferAllOrNothing
  <2> QED BY <2>1, <2>2 DEF TransferAllOrNothing
<1> QED BY <1>5, <1>6, <1>7 DEF Books

LEMMA DebitBooks ==
    ASSUME Books, NEW u \in Users, NEW a \in Amounts, NEW id \in Ids, Debit(u, a, id)
    PROVE  Books'
<1> DEFINE row == Row(id, "debit", a, balance[u] - a)
<1>1. Explained(balance, ledger) /\ balance[u] \in Int
  BY DEF Books, LedgerTypeOK, LedgerExplainsBalance, Explained
<1>2. /\ row \in Entry /\ row.id = id /\ row.kind = "debit" /\ a \in Nat
      /\ row.after = balance[u] - a /\ Effect(row) = - a
  <2>1. balance[u] - a \in Int
    BY <1>1, RowType
  <2> QED BY <2>1, RowType
<1> HIDE DEF row
<1>3. /\ Posted(balance, ledger, u, row, balance', ledger')
      /\ wallets' = wallets /\ frozen' = frozen /\ transfers' = transfers
      /\ Fresh(id) /\ balance[u] >= a
  BY <1>2 DEF Debit, Posted, row
<1>4. Explained(balance', ledger') /\ OnlyAdds(ledger, ledger', u, row)
  BY <1>1, <1>2, <1>3, Posting
<1>5. LedgerTypeOK' /\ LedgerExplainsBalance'
  BY <1>3, <1>4 DEF Books, LedgerTypeOK, LedgerExplainsBalance, Explained
<1>6. NoOverdraft'
  BY <1>1, <1>2, <1>3 DEF Books, NoOverdraft, Explained, Posted
<1>7. TransferAllOrNothing'
  <2>1. ASSUME NEW t \in transfers'
        PROVE  HasRow(ledger'[t.sender], t.id, "debit") /\ HasRow(ledger'[t.receiver], t.id, "credit")
    BY <1>3, <1>4, <2>1 DEF Books, TransferAllOrNothing, LedgerTypeOK, Transfer, OnlyAdds
  <2>2. ASSUME NEW v \in Users, NEW w \in Users, NEW i \in Ids,
               HasRow(ledger'[v], i, "debit"), HasRow(ledger'[w], i, "credit")
        PROVE  \E t \in transfers' : t.id = i /\ t.sender = v /\ t.receiver = w
    <3>1. i # id
      BY <1>2, <1>3, <1>4, <2>2 DEF OnlyAdds, Fresh
    <3>2. HasRow(ledger[v], i, "debit") /\ HasRow(ledger[w], i, "credit")
      BY <1>2, <1>4, <2>2, <3>1 DEF OnlyAdds
    <3> QED BY <1>3, <3>2 DEF Books, TransferAllOrNothing
  <2> QED BY <2>1, <2>2 DEF TransferAllOrNothing
<1> QED BY <1>5, <1>6, <1>7 DEF Books

(* A transfer posts the debit, then the credit on what the debit left:     *)
(* that order makes from = to come out right.                              *)
LEMMA MoveBooks ==
    ASSUME Books, NEW from \in Users, NEW to \in Users, NEW a \in Amounts,
           NEW id \in Ids, Move(from, to, a, id)
    PROVE  Books'
<1> DEFINE debited == [balance EXCEPT ![from] = balance[from] - a]
           d == Row(id, "debit", a, debited[from])
           posted == [ledger EXCEPT ![from] = Append(ledger[from], d)]
           c == Row(id, "credit", a, debited[to] + a)
           record == [id |-> id, sender |-> from, receiver |-> to, amount |-> a]
<1>1. Explained(balance, ledger) /\ balance \in [Users -> Int]
  BY DEF Books, LedgerTypeOK, LedgerExplainsBalance, Explained
<1>2. /\ debited \in [Users -> Int] /\ debited[from] = balance[from] - a
      /\ debited[from] \in Int /\ debited[to] + a \in Int
  BY <1>1, RowType
<1>3. /\ d \in Entry /\ d.id = id /\ d.kind = "debit"
      /\ d.after = balance[from] - a /\ Effect(d) = - a
      /\ c \in Entry /\ c.id = id /\ c.kind = "credit"
      /\ c.after = debited[to] + a /\ Effect(c) = a /\ a \in Nat
  BY <1>2, RowType
<1>4. /\ Posted(debited, posted, to, c, balance', ledger')
      /\ transfers' = transfers \cup {record}
      /\ wallets' = wallets /\ frozen' = frozen
      /\ Fresh(id) /\ balance[from] >= a
  <2>1. c.after = debited[to] + a
    BY <1>3
  <2> QED BY <2>1 DEF Move, Posted
<1> HIDE DEF d, c
<1>5. Explained(debited, posted) /\ OnlyAdds(ledger, posted, from, d)
  <2>1. Posted(balance, ledger, from, d, debited, posted) /\ d.after = balance[from] + Effect(d)
    BY <1>1, <1>3 DEF Posted
  <2> HIDE DEF debited, posted
  <2> QED BY <1>1, <1>3, <2>1, Posting
<1> HIDE DEF debited, posted
<1>6. Explained(balance', ledger') /\ OnlyAdds(posted, ledger', to, c)
  BY <1>3, <1>4, <1>5, Posting
<1>7. LedgerTypeOK' /\ LedgerExplainsBalance'
  <2>1. record \in Transfer
    BY DEF Transfer
  <2> QED BY <1>4, <1>6, <2>1 DEF Books, LedgerTypeOK, LedgerExplainsBalance, Explained
<1>8. NoOverdraft'
  <2>1. \A v \in Users : debited[v] \in Int /\ debited[v] >= 0
    <3>1. \A v \in Users : debited[v] = IF v = from THEN balance[from] - a ELSE balance[v]
      BY <1>1 DEF debited
    <3>2. \A v \in Users : balance[v] \in Int /\ balance[v] >= 0
      BY <1>1 DEF Books, NoOverdraft
    <3>3. balance[from] >= a /\ a \in Nat
      BY <1>3, <1>4
    <3>4. balance[from] - a \in Int /\ balance[from] - a >= 0
      BY <3>2, <3>3
    <3> QED BY <3>1, <3>2, <3>4
  <2> QED BY <1>2, <1>3, <1>4, <2>1 DEF NoOverdraft, Posted
<1>9. TransferAllOrNothing'
  <2>1. ASSUME NEW t \in transfers'
        PROVE  HasRow(ledger'[t.sender], t.id, "debit") /\ HasRow(ledger'[t.receiver], t.id, "credit")
    <3>1. CASE t = record
      <4>1. t.id = id /\ t.sender = from /\ t.receiver = to
        BY <3>1
      <4> QED BY <1>3, <1>5, <1>6, <4>1 DEF OnlyAdds
    <3>2. CASE t \in transfers
      BY <1>5, <1>6, <3>2 DEF Books, TransferAllOrNothing, LedgerTypeOK, Transfer, OnlyAdds
    <3> QED BY <1>4, <2>1, <3>1, <3>2
  <2>2. ASSUME NEW u \in Users, NEW v \in Users, NEW i \in Ids,
               HasRow(ledger'[u], i, "debit"), HasRow(ledger'[v], i, "credit")
        PROVE  \E t \in transfers' : t.id = i /\ t.sender = u /\ t.receiver = v
    <3>1. CASE i = id
      <4>1. ~ HasRow(ledger[u], i, "debit") /\ ~ HasRow(ledger[v], i, "credit")
        BY <1>4, <3>1 DEF Fresh
      <4>2. u = from /\ v = to
        BY <1>3, <1>5, <1>6, <2>2, <4>1 DEF OnlyAdds
      <4>3. record.id = i /\ record.sender = u /\ record.receiver = v
        BY <3>1, <4>2
      <4> QED BY <1>4, <4>3
    <3>2. CASE i # id
      <4>1. HasRow(ledger[u], i, "debit") /\ HasRow(ledger[v], i, "credit")
        BY <1>3, <1>5, <1>6, <2>2, <3>2 DEF OnlyAdds
      <4> QED BY <1>4, <4>1 DEF Books, TransferAllOrNothing
    <3> QED BY <3>1, <3>2
  <2> QED BY <2>1, <2>2 DEF TransferAllOrNothing
<1> QED BY <1>7, <1>8, <1>9 DEF Books

LEMMA NextBooks == Books /\ [LedgerNext]_tables => Books'
<1> SUFFICES ASSUME Books, [LedgerNext]_tables PROVE Books'
  OBVIOUS
<1>1. ASSUME NEW u \in Users, Open(u) PROVE Books'
  BY <1>1 DEF Open, Books, LedgerTypeOK, LedgerExplainsBalance, NoOverdraft, TransferAllOrNothing
<1>2. ASSUME NEW u \in Users, NEW flag \in BOOLEAN, SetFrozen(u, flag) PROVE Books'
  BY <1>2 DEF SetFrozen, Books, LedgerTypeOK, LedgerExplainsBalance, NoOverdraft,
              TransferAllOrNothing
<1>3. CASE UNCHANGED tables
  BY <1>3 DEF tables, Books, LedgerTypeOK, LedgerExplainsBalance, NoOverdraft,
              TransferAllOrNothing
<1> QED BY <1>1, <1>2, <1>3, CreditBooks, DebitBooks, MoveBooks DEF LedgerNext

(* The books of the atomic ledger are in order at all times: balances are  *)
(* explained by their ledgers, no wallet is overdrawn, transfers are whole. *)
THEOREM LedgerKeepsBooks == LedgerSpec => []Books
  BY InitBooks, NextBooks, PTL DEF LedgerSpec
=============================================================================
