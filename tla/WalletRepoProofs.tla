--------------------------- MODULE WalletRepoProofs ---------------------------
(***************************************************************************)
(* Proofs about the wallet repository, for any number of requests, users,  *)
(* pool clients and calls.                                                 *)
(***************************************************************************)
EXTENDS WalletRepo, TLAPS

\* The lemmas about the atomic ledger, over the same tables.
Ledger == INSTANCE AtomicLedgerProofs

USE DEF Sides, Snapshot, NewRow, TransferRow

LEMMA Constants ==
    /\ NoProc \notin Procs
    /\ Amounts \subseteq Nat /\ 0 \notin Amounts
    /\ MaxCalls \in Nat /\ Ids \subseteq Nat /\ 0 \notin Ids
    /\ Opening \in [Users -> Nat]
    /\ Ops \subseteq {"credit", "debit", "transfer"}
    /\ Freezable \subseteq Users
    /\ Users # {}
  BY ProcsAssumption, UsersAssumption, AmountsAssumption, BoundsAssumption, ScopeAssumption
     DEF Ids

LEMMA EntryType ==
    ASSUME NEW id \in Ids \cup {0}, NEW kind \in Sides, NEW amount \in Nat, NEW after \in Int
    PROVE  Atomic!Row(id, kind, amount, after) \in Atomic!Entry
  BY DEF Atomic!Row, Atomic!Entry

LEMMA NoJobType == NoJob \in Job /\ NoEntry \in Atomic!Entry
<1>1. (CHOOSE u \in Users : TRUE) \in Users
  BY Constants
<1>2. NoJob \in Job
  BY <1>1 DEF NoJob, Job
<1>3. NoEntry \in Atomic!Entry
  BY EntryType DEF NoEntry
<1> QED BY <1>2, <1>3

LEMMA InitTypeOK == Init => TypeOK
<1> SUFFICES ASSUME Init PROVE TypeOK
  OBVIOUS
<1>1. Atomic!LedgerTypeOK
  <2>1. ASSUME NEW u \in Users PROVE ledger[u] \in Seq(Atomic!Entry)
    <3>1. CASE Opening[u] > 0
      <4>1. Atomic!Row(0, "credit", Opening[u], Opening[u]) \in Atomic!Entry
        BY Constants, EntryType
      <4> QED BY <3>1, <4>1 DEF Init, Atomic!LedgerInit
    <3>2. CASE ~ (Opening[u] > 0)
      BY <3>2 DEF Init, Atomic!LedgerInit
    <3> QED BY <3>1, <3>2
  <2>2. ledger \in [Users -> Seq(Atomic!Entry)]
    BY <2>1 DEF Init, Atomic!LedgerInit
  <2> QED BY <2>2, Constants DEF Init, Atomic!LedgerInit, Atomic!LedgerTypeOK
<1> QED BY <1>1, NoJobType, Constants DEF Init, TypeOK, Pcs, Outcomes, Nothing

LEMMA ThrowTypeOK ==
    ASSUME TypeOK, NEW p \in Procs, NEW label \in Pcs, NEW why \in Outcomes,
           Throw(p, label, why)
    PROVE  TypeOK'
  BY DEF TypeOK, Throw, Goto, tables, Atomic!LedgerTypeOK

-----------------------------------------------------------------------------
LEMMA InitIInv == Init => IInv
<1> SUFFICES ASSUME Init PROVE IInv
  OBVIOUS
<1>1. TypeOK
  BY InitTypeOK
<1>2. JobsMade /\ LocksInside /\ \A p \in Procs : SeenCurrent(p) /\ DraftFits(p)
  BY Constants DEF Init, JobsMade, LocksInside, SeenCurrent, DraftFits, HasDebited,
                   HasCredited, Open
<1>3. NothingYet
  <2>1. ASSUME NEW id \in Ids, NEW u \in Users, NEW kind
        PROVE  ~ Atomic!HasRow(ledger[u], id, kind)
    <3>1. CASE Opening[u] > 0
      <4> DEFINE row == Atomic!Row(0, "credit", Opening[u], Opening[u])
      <4>1. row.id = 0
        BY DEF Atomic!Row
      <4>2. ledger[u] = <<row>>
        BY <3>1 DEF Init, Atomic!LedgerInit
      <4> HIDE DEF row
      <4>3. Len(<<row>>) = 1 /\ <<row>>[1] = row
        OBVIOUS
      <4> QED BY <4>1, <4>2, <4>3, Constants DEF Atomic!HasRow
    <3>2. CASE ~ (Opening[u] > 0)
      <4>1. ledger[u] = <<>>
        BY <3>2 DEF Init, Atomic!LedgerInit
      <4> QED BY <4>1 DEF Atomic!HasRow
    <3> QED BY <3>1, <3>2
  <2> QED BY <2>1 DEF Init, Atomic!LedgerInit, NothingYet, Atomic!Fresh
<1> QED BY <1>1, <1>2, <1>3 DEF IInv

(* A step that only moves p to another point of its call, or ends it, and  *)
(* goes to no point that promises more than where p stood.                 *)
LEMMA QuietStep ==
    ASSUME IInv, NEW p \in Procs, NEW label \in Pcs \ {"idle", "write", "commit"},
           pc[p] # "idle", pc' = [pc EXCEPT ![p] = label],
           label \notin Open => pc[p] \notin Open,
           label \in {"lookup", "create", "creating", "lock"}
              => pc[p] \in {"connect", "lookup", "create", "creating"},
           label = "lock" => Current(p) \in wallets,
           label # "connect",
           UNCHANGED <<tables, holder, job, side, seen, draft, issued>>,
           outcome' \in [Procs -> Outcomes]
    PROVE  IInv'
<1> USE DEF Pcs, Open
<1>1. TypeOK'
  BY DEF IInv, TypeOK, tables, Atomic!LedgerTypeOK
<1>2. JobsMade'
  BY DEF IInv, JobsMade, TypeOK
<1>3. NothingYet'
  BY DEF IInv, NothingYet, TypeOK, tables, Atomic!Fresh
<1>4. LocksInside'
  BY DEF IInv, LocksInside, TypeOK
<1>5. ASSUME NEW q \in Procs PROVE SeenCurrent(q)'
  BY DEF IInv, SeenCurrent, TypeOK, tables, Current, Visible
<1>6. ASSUME NEW q \in Procs PROVE DraftFits(q)'
  <2>1. HasDebited(q)' => HasDebited(q)
    BY DEF HasDebited, IInv, TypeOK, JobsMade
  <2>2. HasCredited(q)' => HasCredited(q)
    BY DEF HasCredited, IInv, TypeOK
  <2> QED BY <2>1, <2>2 DEF IInv, DraftFits, TypeOK, tables, Visible
<1> QED BY <1>1, <1>2, <1>3, <1>4, <1>5, <1>6 DEF IInv

(* The actions that throw an exception or wait for the database. *)
LEMMA QuietActions ==
    ASSUME IInv, NEW p \in Procs,
           \/ Connect(p) \/ ConnectTimeout(p) \/ Lookup(p) \/ Create(p) \/ PoolTimeout(p)
           \/ RefuseFrozen(p) \/ RefuseShort(p) \/ QueryFails(p)
    PROVE  IInv'
<1> DEFINE L == Pcs \ {"idle", "write", "commit"}
<1>1. pc \in [Procs -> Pcs] /\ outcome \in [Procs -> Outcomes]
  BY DEF IInv, TypeOK
<1> USE DEF Goto, Pcs, Open, Outcomes
<1>2. CASE Connect(p)
  BY <1>1, <1>2, QuietStep DEF Connect
<1>3. CASE ConnectTimeout(p)
  BY <1>1, <1>3, QuietStep DEF ConnectTimeout, Throw
<1>4. CASE Lookup(p)
  BY <1>1, <1>4, QuietStep DEF Lookup
<1>5. CASE Create(p)
  BY <1>1, <1>5, QuietStep DEF Create
<1>6. CASE PoolTimeout(p)
  BY <1>1, <1>6, QuietStep DEF PoolTimeout, Throw
<1>7. CASE RefuseFrozen(p)
  BY <1>1, <1>7, QuietStep DEF RefuseFrozen, Throw
<1>8. CASE RefuseShort(p)
  BY <1>1, <1>8, QuietStep DEF RefuseShort, Throw
<1>9. CASE QueryFails(p)
  BY <1>1, <1>9, QuietStep DEF QueryFails, Throw
<1> QED BY <1>2, <1>3, <1>4, <1>5, <1>6, <1>7, <1>8, <1>9

LEMMA DeadlockVictimIInv == IInv /\ DeadlockVictim => IInv'
<1> SUFFICES ASSUME IInv, NEW p \in Procs, pc[p] = "lock", Throw(p, "rollback", "error")
             PROVE  IInv'
  BY DEF DeadlockVictim, Deadlocked
<1>1. pc \in [Procs -> Pcs] /\ outcome \in [Procs -> Outcomes]
  BY DEF IInv, TypeOK
<1> QED BY <1>1, QuietStep DEF Throw, Goto, Pcs, Open, Outcomes

-----------------------------------------------------------------------------
LEMMA CallIInv ==
    ASSUME IInv, NEW p \in Procs, NEW op \in {"credit", "debit", "transfer"},
           NEW payer \in Users, NEW payee \in Users, NEW amount \in Amounts,
           Call(p, op, payer, payee, amount)
    PROVE  IInv'
<1> USE DEF Goto, Open
<1> DEFINE j == [op |-> op, payer |-> payer, payee |-> payee, amount |-> amount,
                 id |-> issued + 1]
<1>1. issued \in Nat /\ issued + 1 \in Ids /\ issued' = issued + 1
  BY Constants DEF IInv, TypeOK, Call, Ids
<1>2. j \in Job /\ job' = [job EXCEPT ![p] = j]
  BY <1>1 DEF Job, Call
<1>3. TypeOK'
  BY <1>1, <1>2 DEF IInv, TypeOK, Call, tables, Atomic!LedgerTypeOK, Pcs, Ids
<1>4. JobsMade'
  BY <1>1, <1>2 DEF IInv, TypeOK, Call, JobsMade
<1>5. NothingYet'
  <2>1. \A id : Atomic!Fresh(id)' <=> Atomic!Fresh(id)
    BY DEF Call, tables, Atomic!Fresh
  <2>2. Atomic!Fresh(issued + 1)
    BY <1>1 DEF IInv, NothingYet
  <2>3. \A q \in Procs : pc'[q] \notin {"idle", "done", "rollback"} => Atomic!Fresh(job'[q].id)
    BY <1>1, <1>2, <2>2 DEF IInv, TypeOK, Call, NothingYet
  <2>4. \A id \in Ids : id > issued' => Atomic!Fresh(id)
    BY <1>1, Constants DEF IInv, NothingYet
  <2> QED BY <2>1, <2>3, <2>4 DEF NothingYet
<1>6. LocksInside'
  BY DEF IInv, TypeOK, Call, LocksInside
<1>7. ASSUME NEW q \in Procs PROVE SeenCurrent(q)' /\ DraftFits(q)'
  <2>1. CASE q = p
    BY <2>1 DEF IInv, TypeOK, Call, SeenCurrent, DraftFits, HasDebited, HasCredited
  <2>2. CASE q # p
    BY <2>2 DEF IInv, TypeOK, Call, SeenCurrent, DraftFits, HasDebited, HasCredited,
                tables, Visible, Current
  <2> QED BY <2>1, <2>2
<1> QED BY <1>3, <1>4, <1>5, <1>6, <1>7 DEF IInv

LEMMA InsertIInv == ASSUME IInv, NEW p \in Procs, Insert(p) PROVE IInv'
<1> USE DEF Goto, Open
<1>1. Current(p) \in Users
  BY DEF IInv, TypeOK, Current, Job
<1>2. TypeOK'
  BY <1>1 DEF IInv, TypeOK, Insert, Atomic!LedgerTypeOK, Pcs
<1>3. JobsMade' /\ NothingYet' /\ LocksInside'
  BY DEF IInv, TypeOK, Insert, JobsMade, NothingYet, LocksInside, Atomic!Fresh
<1>4. ASSUME NEW q \in Procs PROVE SeenCurrent(q)' /\ DraftFits(q)'
  BY DEF IInv, TypeOK, Insert, SeenCurrent, DraftFits, HasDebited, HasCredited, Visible, Current
<1> QED BY <1>2, <1>3, <1>4 DEF IInv

LEMMA LockIInv == ASSUME IInv, NEW p \in Procs, Lock(p) PROVE IInv'
<1> USE DEF Goto, Open
<1> DEFINE u == Current(p)
<1>1. u \in Users /\ Visible(p, u) \in Int /\ frozen[u] \in BOOLEAN
  BY DEF IInv, TypeOK, Current, Job, Visible, Atomic!LedgerTypeOK, Atomic!Entry
<1>2. TypeOK'
  BY <1>1 DEF IInv, TypeOK, Lock, Pcs, tables, Atomic!LedgerTypeOK
<1>3. JobsMade' /\ NothingYet' /\ LocksInside'
  BY <1>1 DEF IInv, TypeOK, Lock, JobsMade, NothingYet, LocksInside, tables, Atomic!Fresh
<1>4. \A q \in Procs, v \in Users : holder[v] = q => holder'[v] = q
  BY <1>1, Constants DEF IInv, TypeOK, Lock, LockFree
<1>5. ASSUME NEW q \in Procs PROVE SeenCurrent(q)'
  <2>1. CASE q = p
    BY <1>1, <2>1 DEF IInv, TypeOK, Lock, SeenCurrent, Visible, Current, tables
  <2>2. CASE q # p
    <3>1. Current(q) \in Users
      BY DEF IInv, TypeOK, Current, Job
    <3> QED BY <1>4, <2>2, <3>1 DEF IInv, TypeOK, Lock, SeenCurrent, Visible, Current, tables
  <2> QED BY <2>1, <2>2
<1>6. ASSUME NEW q \in Procs PROVE DraftFits(q)'
  <2>1. job[q].payer \in Users /\ job[q].payee \in Users
    BY DEF IInv, TypeOK, Job
  <2>2. HasDebited(q)' => HasDebited(q)
    BY DEF HasDebited, IInv, TypeOK, Lock
  <2>3. ~ HasCredited(q)' \/ HasCredited(q)
    BY DEF HasCredited, IInv, TypeOK, Lock
  <2> QED BY <1>4, <2>1, <2>2, <2>3 DEF IInv, TypeOK, Lock, DraftFits, Visible, tables
<1> QED BY <1>2, <1>3, <1>5, <1>6 DEF IInv

LEMMA Appended ==
    ASSUME NEW s \in Seq(Atomic!Entry), NEW row \in Atomic!Entry, NEW id, NEW kind
    PROVE  Atomic!HasRow(Append(s, row), id, kind)
              <=> Atomic!HasRow(s, id, kind) \/ (row.id = id /\ row.kind = kind)
<1> DEFINE t == Append(s, row)
<1>1. /\ Len(t) = Len(s) + 1 /\ Len(s) \in Nat
      /\ t[Len(s) + 1] = row
      /\ \A i \in 1..Len(s) : t[i] = s[i]
  OBVIOUS
<1>2. ASSUME Atomic!HasRow(t, id, kind)
      PROVE  Atomic!HasRow(s, id, kind) \/ (row.id = id /\ row.kind = kind)
  BY <1>1, <1>2 DEF Atomic!HasRow
<1>3. ASSUME Atomic!HasRow(s, id, kind) PROVE Atomic!HasRow(t, id, kind)
  BY <1>1, <1>3 DEF Atomic!HasRow
<1>4. ASSUME row.id = id, row.kind = kind PROVE Atomic!HasRow(t, id, kind)
  BY <1>1, <1>4 DEF Atomic!HasRow
<1> QED BY <1>2, <1>3, <1>4

LEMMA WriteIInv == ASSUME IInv, NEW p \in Procs, Write(p) PROVE IInv'
<1> USE DEF Goto, Open
<1> DEFINE j == job[p]
           u == Current(p)
           row == Atomic!Row(j.id, side[p], j.amount, NewBalance(p))
<1>1. /\ j.payer \in Users /\ j.payee \in Users /\ u \in Users
      /\ j.amount \in Nat /\ j.id \in Ids \cup {0} /\ side[p] \in Sides
      /\ j.op \in {"credit", "debit", "transfer"}
  BY Constants DEF IInv, TypeOK, Current, Job, JobsMade, Write
<1>2. /\ holder[u] = p /\ u \in wallets /\ ~ frozen[u]
      /\ seen[p].balance = Visible(p, u) /\ seen[p].balance \in Int
      /\ side[p] = "debit" => seen[p].balance >= j.amount
  BY <1>1 DEF IInv, TypeOK, Write, SeenCurrent, Short
<1>3. row \in Atomic!Entry /\ draft' = [draft EXCEPT ![p][side[p]] = row]
  <2>1. NewBalance(p) \in Int
    BY <1>1, <1>2 DEF NewBalance
  <2> QED BY <1>1, <2>1, EntryType DEF Write
<1>4. TypeOK'
  <2>1. draft' \in [Procs -> [Sides -> Atomic!Entry]]
    BY <1>1, <1>3 DEF IInv, TypeOK
  <2>2. pc' \in [Procs -> Pcs] /\ side' \in [Procs -> Sides]
    BY DEF IInv, TypeOK, Write, Pcs
  <2>3. seen' \in [Procs -> [balance : Int, frozen : BOOLEAN]]
    BY DEF IInv, TypeOK, Write, Nothing
  <2> QED BY <2>1, <2>2, <2>3 DEF IInv, TypeOK, Write, tables, Atomic!LedgerTypeOK
<1>5. JobsMade'
  <2>1. /\ job' = job /\ issued' = issued
        /\ \A q \in Procs : pc'[q] # "idle" => pc[q] # "idle"
        /\ \A q \in Procs : pc'[q] = "connect" => pc[q] = "connect" /\ q # p
        /\ \A q \in Procs : q # p => side'[q] = side[q]
        /\ j.op # "transfer" => side' = side
    BY DEF IInv, TypeOK, Write
  <2> QED BY <2>1 DEF IInv, JobsMade
<1>6. NothingYet'
  BY DEF IInv, TypeOK, Write, NothingYet, tables, Atomic!Fresh
<1>7. LocksInside'
  BY DEF IInv, TypeOK, Write, LocksInside
<1>8. ASSUME NEW q \in Procs, q # p PROVE SeenCurrent(q)' /\ DraftFits(q)'
  BY <1>8 DEF IInv, TypeOK, Write, SeenCurrent, DraftFits, HasDebited, HasCredited,
              Visible, Current, tables
<1>9. SeenCurrent(p)'
  BY DEF IInv, TypeOK, Write, SeenCurrent
<1>10. DraftFits(p)'
  <2>1. CASE side[p] = "debit"
    <3>1. u = j.payer /\ seen[p].balance = balance[j.payer] /\ j.op # "credit"
      BY <1>1, <1>2, <2>1 DEF Current, Visible, IInv, JobsMade, Write
    <3>2. draft'[p]["debit"] = Atomic!Row(j.id, "debit", j.amount, balance[j.payer] - j.amount)
      BY <1>3, <2>1, <3>1 DEF IInv, TypeOK, NewBalance
    <3> QED BY <1>1, <1>2, <2>1, <3>1, <3>2 DEF IInv, TypeOK, Write, DraftFits, HasDebited, HasCredited,
                                    tables, JobsMade
  <2>2. CASE side[p] = "credit"
    <3>1. u = j.payee /\ j.op # "debit"
      BY <1>1, <2>2 DEF Current, IInv, JobsMade, Write
    <3>2. draft'[p]["credit"] = Atomic!Row(j.id, "credit", j.amount, Visible(p, j.payee) + j.amount)
      BY <1>2, <1>3, <2>2, <3>1 DEF IInv, TypeOK, NewBalance
    <3>3. /\ draft'[p]["debit"] = draft[p]["debit"] /\ pc'[p] = "commit"
          /\ side'[p] = "credit" /\ job' = job /\ holder' = holder
          /\ UNCHANGED tables
      BY <2>2 DEF IInv, TypeOK, Write
    <3>4. Visible(p, j.payee)' = Visible(p, j.payee)
      BY <2>2, <3>3 DEF Visible, tables
    <3>5. HasDebited(p)' => HasDebited(p)
      BY <1>1, <2>2, <3>1, <3>3 DEF HasDebited, Write, IInv, JobsMade
    <3> QED BY <1>2, <3>1, <3>2, <3>3, <3>4, <3>5 DEF IInv, DraftFits, tables
  <2> QED BY <1>1, <2>1, <2>2
<1> QED BY <1>4, <1>5, <1>6, <1>7, <1>8, <1>9, <1>10 DEF IInv

-----------------------------------------------------------------------------
\* What a COMMIT does to the tables is one step of the atomic ledger.
LEMMA CommitIsAtomic ==
    ASSUME IInv, NEW p \in Procs, NEW answer \in Outcomes, Commit(p, answer)
    PROVE  LET j == job[p]
           IN  /\ j.op = "credit" => Atomic!Credit(j.payee, j.amount, j.id)
               /\ j.op = "debit" => Atomic!Debit(j.payer, j.amount, j.id)
               /\ j.op = "transfer" => Atomic!Move(j.payer, j.payee, j.amount, j.id)
<1> DEFINE j == job[p]
           d == draft[p]["debit"]
           c == draft[p]["credit"]
<1>1. /\ j.payer \in Users /\ j.payee \in Users /\ j.op \in {"credit", "debit", "transfer"}
      /\ Atomic!Fresh(j.id) /\ balance \in [Users -> Int] /\ j.amount \in Nat
      /\ ledger \in [Users -> Seq(Atomic!Entry)]
  BY Constants DEF IInv, TypeOK, Job, JobsMade, Commit, NothingYet, Atomic!LedgerTypeOK
<1>2. DraftFits(p) /\ pc[p] = "commit"
  BY DEF IInv, Commit
<1>3. CASE j.op = "credit"
  <2>1. /\ j.payee \in wallets /\ ~ frozen[j.payee]
        /\ c = Atomic!Row(j.id, "credit", j.amount, balance[j.payee] + j.amount)
    BY <1>2, <1>3 DEF DraftFits, HasCredited, Visible
  <2>2. c.after = balance[j.payee] + j.amount
    BY <2>1 DEF Atomic!Row
  <2> QED BY <1>1, <1>3, <2>1, <2>2 DEF Commit, Atomic!Credit
<1>4. CASE j.op = "debit"
  <2>1. /\ j.payer \in wallets /\ ~ frozen[j.payer] /\ balance[j.payer] >= j.amount
        /\ d = Atomic!Row(j.id, "debit", j.amount, balance[j.payer] - j.amount)
    BY <1>2, <1>4 DEF DraftFits, HasDebited
  <2>2. d.after = balance[j.payer] - j.amount
    BY <2>1 DEF Atomic!Row
  <2> QED BY <1>1, <1>4, <2>1, <2>2 DEF Commit, Atomic!Debit
<1>5. CASE j.op = "transfer"
  <2> DEFINE debited == [balance EXCEPT ![j.payer] = balance[j.payer] - j.amount]
             posted == [ledger EXCEPT ![j.payer] = Append(ledger[j.payer], d)]
  <2>1. /\ j.payer \in wallets /\ ~ frozen[j.payer] /\ balance[j.payer] >= j.amount
        /\ j.payee \in wallets /\ ~ frozen[j.payee]
        /\ d = Atomic!Row(j.id, "debit", j.amount, balance[j.payer] - j.amount)
        /\ c = Atomic!Row(j.id, "credit", j.amount, Visible(p, j.payee) + j.amount)
        /\ side[p] = "credit"
    BY <1>2, <1>5 DEF DraftFits, HasDebited, HasCredited
  <2>2. d.after = balance[j.payer] - j.amount /\ c.after = Visible(p, j.payee) + j.amount
    BY <2>1 DEF Atomic!Row
  <2>3. Visible(p, j.payee) = debited[j.payee] /\ debited[j.payer] = balance[j.payer] - j.amount
    BY <1>1, <1>5, <2>1, <2>2 DEF Visible
  <2>4. balance' = [debited EXCEPT ![j.payee] = c.after]
    BY <1>5, <2>2 DEF Commit
  <2>5. ledger' = [posted EXCEPT ![j.payee] = Append(posted[j.payee], c)]
    BY <1>5 DEF Commit
  <2>6. /\ transfers' = transfers \cup {[id |-> j.id, sender |-> j.payer,
                                         receiver |-> j.payee, amount |-> j.amount]}
        /\ wallets' = wallets /\ frozen' = frozen
    BY <1>5 DEF Commit
  <2> QED BY <1>1, <1>5, <2>1, <2>2, <2>3, <2>4, <2>5, <2>6 DEF Atomic!Move
<1> QED BY <1>1, <1>3, <1>4, <1>5

(* A COMMIT writes rows under the name of its own call only. *)
LEMMA CommitFresh ==
    ASSUME IInv, NEW p \in Procs, NEW answer \in Outcomes, Commit(p, answer),
           NEW id \in Ids, id # job[p].id, Atomic!Fresh(id)
    PROVE  Atomic!Fresh(id)'
<1> DEFINE j == job[p]
           d == draft[p]["debit"]
           c == draft[p]["credit"]
           posted == IF j.op = "credit" THEN ledger
                     ELSE [ledger EXCEPT ![j.payer] = Append(ledger[j.payer], d)]
<1>1. /\ j.payer \in Users /\ j.payee \in Users /\ ledger \in [Users -> Seq(Atomic!Entry)]
      /\ d \in Atomic!Entry /\ c \in Atomic!Entry
  BY DEF IInv, TypeOK, Job, Atomic!LedgerTypeOK
<1>2. DraftFits(p) /\ pc[p] = "commit"
  BY DEF IInv, Commit
<1>3. (j.op # "credit" => d.id = j.id) /\ (j.op # "debit" => c.id = j.id)
  BY <1>2 DEF DraftFits, HasDebited, HasCredited, Atomic!Row
<1>4. posted \in [Users -> Seq(Atomic!Entry)]
  BY <1>1
<1>5. ASSUME NEW v \in Users, NEW kind \in {"debit", "credit"}
      PROVE  ~ Atomic!HasRow(posted[v], id, kind)
  <2>1. ~ Atomic!HasRow(ledger[v], id, kind)
    BY DEF Atomic!Fresh
  <2>2. posted[v] = ledger[v] \/ (v = j.payer /\ j.op # "credit" /\ posted[v] = Append(ledger[v], d))
    BY <1>1
  <2>3. j.op # "credit" => ~ Atomic!HasRow(Append(ledger[v], d), id, kind)
    BY <1>1, <1>3, <2>1, Appended
  <2> QED BY <2>1, <2>2, <2>3
<1>6. ledger' = IF j.op = "debit" THEN posted
                ELSE [posted EXCEPT ![j.payee] = Append(posted[j.payee], c)]
  BY DEF Commit
<1> HIDE DEF posted
<1>7. ASSUME NEW v \in Users, NEW kind \in {"debit", "credit"}
      PROVE  ~ Atomic!HasRow(ledger'[v], id, kind)
  <2>1. \/ ledger'[v] = posted[v]
        \/ v = j.payee /\ j.op # "debit" /\ ledger'[v] = Append(posted[v], c)
    BY <1>1, <1>4, <1>6
  <2>2. j.op # "debit" => ~ Atomic!HasRow(Append(posted[v], c), id, kind)
    BY <1>1, <1>3, <1>4, <1>5, Appended
  <2> QED BY <1>5, <2>1, <2>2
<1>8. ASSUME NEW t \in transfers' PROVE t.id # id
  BY <1>8 DEF Commit, Atomic!Fresh
<1> QED BY <1>7, <1>8 DEF Atomic!Fresh

LEMMA CommitIInv ==
    ASSUME IInv, NEW p \in Procs, NEW answer \in Outcomes, Commit(p, answer)
    PROVE  IInv'
<1> USE DEF Goto, Open
<1> DEFINE j == job[p]
           d == draft[p]["debit"]
           c == draft[p]["credit"]
<1>1. /\ j.payer \in Users /\ j.payee \in Users /\ j.id \in Ids /\ j.amount \in Amounts
      /\ j.id <= issued /\ issued \in Nat
      /\ d \in Atomic!Entry /\ c \in Atomic!Entry /\ pc[p] = "commit"
      /\ j.op \in {"credit", "debit", "transfer"}
  BY Constants DEF IInv, TypeOK, Job, JobsMade, Commit, Ids
<1>2. d.after \in Int /\ c.after \in Int
  BY <1>1 DEF Atomic!Entry
<1>3. TypeOK'
  <2>1. balance' \in [Users -> Int]
    BY <1>1, <1>2 DEF IInv, Commit, TypeOK, Atomic!LedgerTypeOK
  <2>2. ledger' \in [Users -> Seq(Atomic!Entry)]
    <3> DEFINE posted == IF j.op = "credit" THEN ledger
                         ELSE [ledger EXCEPT ![j.payer] = Append(ledger[j.payer], d)]
    <3>1. posted \in [Users -> Seq(Atomic!Entry)]
      BY <1>1 DEF IInv, TypeOK, Atomic!LedgerTypeOK
    <3>2. ledger' = IF j.op = "debit" THEN posted
                    ELSE [posted EXCEPT ![j.payee] = Append(posted[j.payee], c)]
      BY DEF Commit
    <3> HIDE DEF posted
    <3> QED BY <1>1, <3>1, <3>2
  <2>3. transfers' \subseteq Atomic!Transfer
    BY <1>1 DEF IInv, Commit, TypeOK, Atomic!LedgerTypeOK, Atomic!Transfer
  <2> QED BY <2>1, <2>2, <2>3 DEF IInv, Commit, Released, TypeOK, Atomic!LedgerTypeOK, Pcs
<1>4. JobsMade'
  BY DEF IInv, TypeOK, JobsMade, Commit
<1>5. NothingYet'
  <2>1. \A id \in Ids : id # j.id /\ Atomic!Fresh(id) => Atomic!Fresh(id)'
    BY CommitFresh
  <2>2. ASSUME NEW q \in Procs, pc'[q] \notin {"idle", "done", "rollback"}
        PROVE  Atomic!Fresh(job[q].id)'
    <3>1. q # p /\ pc[q] = pc'[q] /\ job' = job
      BY <2>2 DEF IInv, TypeOK, Commit
    <3>2. job[q].id \in Ids /\ job[q].id # j.id /\ Atomic!Fresh(job[q].id)
      BY <1>1, <2>2, <3>1, Constants DEF IInv, TypeOK, JobsMade, NothingYet, Ids
    <3>3. \A id \in Ids : id = job[q].id => Atomic!Fresh(id)'
      BY <2>1, <3>2
    <3> QED BY <3>1, <3>2, <3>3 DEF Atomic!Fresh
  <2>3. ASSUME NEW id \in Ids, id > issued' PROVE Atomic!Fresh(id)'
    <3>1. id > issued /\ id # j.id
      BY <1>1, <2>3, Constants DEF Commit
    <3> QED BY <2>1, <3>1 DEF IInv, NothingYet
  <2> QED BY <2>2, <2>3 DEF NothingYet, Atomic!Fresh
<1>6. LocksInside'
  BY Constants DEF IInv, TypeOK, LocksInside, Commit, Released
<1>7. \A u \in Users : holder[u] # p => holder'[u] = holder[u] /\ balance'[u] = balance[u]
  <2>1. DraftFits(p)
    BY DEF IInv
  <2>2. (j.op # "credit" => holder[j.payer] = p) /\ (j.op # "debit" => holder[j.payee] = p)
    BY <1>1, <2>1 DEF DraftFits, HasDebited, HasCredited
  <2> QED BY <1>1, <2>2 DEF IInv, TypeOK, Atomic!LedgerTypeOK, Commit, Released
<1>8. ASSUME NEW q \in Procs PROVE SeenCurrent(q)' /\ DraftFits(q)'
  <2>1. CASE q = p
    BY <2>1 DEF IInv, TypeOK, Commit, SeenCurrent, DraftFits, HasDebited, HasCredited
  <2>2. CASE q # p
    <3>1. /\ Current(q) \in Users /\ job[q].payer \in Users /\ job[q].payee \in Users
          /\ SeenCurrent(q) /\ DraftFits(q)
      BY DEF IInv, TypeOK, Current, Job
    <3>2. /\ pc'[q] = pc[q] /\ job' = job /\ side' = side /\ seen' = seen /\ draft' = draft
          /\ wallets' = wallets /\ frozen' = frozen
      BY <2>2 DEF IInv, TypeOK, Commit
    <3>3. SeenCurrent(q)'
      BY <1>7, <2>2, <3>1, <3>2 DEF SeenCurrent, Current, Visible
    <3>4. DraftFits(q)'
      BY <1>7, <2>2, <3>1, <3>2 DEF DraftFits, HasDebited, HasCredited, Visible
    <3> QED BY <3>3, <3>4
  <2> QED BY <2>1, <2>2
<1> QED BY <1>3, <1>4, <1>5, <1>6, <1>8 DEF IInv

LEMMA RollbackIInv == ASSUME IInv, NEW p \in Procs, Rollback(p) PROVE IInv'
<1> USE DEF Goto, Open
<1>1. TypeOK'
  BY DEF IInv, TypeOK, Rollback, Released, Pcs, tables, Atomic!LedgerTypeOK
<1>2. JobsMade' /\ NothingYet'
  BY DEF IInv, TypeOK, Rollback, JobsMade, NothingYet, tables, Atomic!Fresh
<1>3. LocksInside'
  BY Constants DEF IInv, TypeOK, Rollback, Released, LocksInside
<1>4. ASSUME NEW q \in Procs PROVE SeenCurrent(q)' /\ DraftFits(q)'
  <2>1. CASE q = p
    BY <2>1 DEF IInv, TypeOK, Rollback, SeenCurrent, DraftFits, HasDebited, HasCredited
  <2>2. CASE q # p
    <3>1. /\ Current(q) \in Users /\ job[q].payer \in Users /\ job[q].payee \in Users
          /\ SeenCurrent(q) /\ DraftFits(q)
      BY DEF IInv, TypeOK, Current, Job
    <3> QED BY <2>2, <3>1 DEF IInv, TypeOK, Rollback, Released, SeenCurrent, DraftFits, HasDebited,
                              HasCredited, Visible, Current, tables
  <2> QED BY <2>1, <2>2
<1> QED BY <1>1, <1>2, <1>3, <1>4 DEF IInv

LEMMA ReturnIInv == ASSUME IInv, NEW p \in Procs, Return(p) PROVE IInv'
<1> USE DEF Goto, Open
<1>1. TypeOK'
  BY NoJobType DEF IInv, TypeOK, Return, Pcs, Outcomes, Nothing, tables, Atomic!LedgerTypeOK
<1>2. JobsMade' /\ NothingYet' /\ LocksInside'
  BY DEF IInv, TypeOK, Return, JobsMade, NothingYet, LocksInside, tables, Atomic!Fresh
<1>3. ASSUME NEW q \in Procs PROVE SeenCurrent(q)' /\ DraftFits(q)'
  <2>1. CASE q = p
    BY <2>1 DEF IInv, TypeOK, Return, SeenCurrent, DraftFits, HasDebited, HasCredited
  <2>2. CASE q # p
    BY <2>2 DEF IInv, TypeOK, Return, SeenCurrent, DraftFits, HasDebited, HasCredited,
                Visible, Current, tables
  <2> QED BY <2>1, <2>2
<1> QED BY <1>1, <1>2, <1>3 DEF IInv

LEMMA CrashIInv == IInv /\ Crash => IInv'
<1> SUFFICES ASSUME IInv, Crash PROVE IInv'
  OBVIOUS
<1> USE DEF Open
<1>1. TypeOK'
  BY NoJobType DEF IInv, TypeOK, Crash, Pcs, Outcomes, Nothing, tables, Atomic!LedgerTypeOK
<1>2. JobsMade' /\ LocksInside' /\ \A q \in Procs : SeenCurrent(q)' /\ DraftFits(q)'
  BY Constants DEF Crash, JobsMade, LocksInside, SeenCurrent, DraftFits, HasDebited, HasCredited
<1>3. NothingYet'
  BY DEF IInv, Crash, NothingYet, tables, Atomic!Fresh
<1> QED BY <1>1, <1>2, <1>3 DEF IInv

LEMMA GetBalanceIInv == ASSUME IInv, NEW u \in Users, GetBalance(u) PROVE IInv'
<1>1. TypeOK'
  BY DEF IInv, TypeOK, GetBalance, Atomic!Open, session, Atomic!LedgerTypeOK
<1>2. JobsMade' /\ NothingYet' /\ LocksInside'
  BY DEF IInv, GetBalance, Atomic!Open, session, JobsMade, NothingYet, LocksInside, Atomic!Fresh
<1>3. ASSUME NEW q \in Procs PROVE SeenCurrent(q)' /\ DraftFits(q)'
  BY DEF IInv, GetBalance, Atomic!Open, session, SeenCurrent, DraftFits, HasDebited,
         HasCredited, Visible, Current
<1> QED BY <1>1, <1>2, <1>3 DEF IInv

LEMMA SetFrozenIInv ==
    ASSUME IInv, NEW u \in Users, NEW flag \in BOOLEAN, SetFrozen(u, flag) PROVE IInv'
<1>1. TypeOK'
  BY DEF IInv, TypeOK, SetFrozen, Atomic!SetFrozen, session, Atomic!LedgerTypeOK
<1>2. JobsMade' /\ NothingYet' /\ LocksInside'
  BY DEF IInv, SetFrozen, Atomic!SetFrozen, session, JobsMade, NothingYet, LocksInside,
         Atomic!Fresh
<1>3. \A v \in Users : holder[v] \in Procs => frozen'[v] = frozen[v]
  BY Constants DEF IInv, TypeOK, SetFrozen, Atomic!SetFrozen, Atomic!LedgerTypeOK
<1>4. ASSUME NEW q \in Procs PROVE SeenCurrent(q)' /\ DraftFits(q)'
  <2>1. /\ Current(q) \in Users /\ job[q].payer \in Users /\ job[q].payee \in Users
        /\ SeenCurrent(q) /\ DraftFits(q)
    BY DEF IInv, TypeOK, Current, Job
  <2> QED BY <1>3, <2>1 DEF SetFrozen, Atomic!SetFrozen, session, SeenCurrent, DraftFits,
                            HasDebited, HasCredited, Visible, Current
<1> QED BY <1>1, <1>2, <1>4 DEF IInv

-----------------------------------------------------------------------------
LEMMA NextIInv == IInv /\ [Next]_vars => IInv'
<1> SUFFICES ASSUME IInv, [Next]_vars PROVE IInv'
  OBVIOUS
<1>1. ASSUME NEW p \in Procs, CallAny(p) PROVE IInv'
  BY <1>1, CallIInv DEF CallAny
<1>2. ASSUME NEW p \in Procs, Progress(p) PROVE IInv'
  BY <1>2, QuietActions, InsertIInv, LockIInv, WriteIInv, CommitIInv, RollbackIInv, ReturnIInv
     DEF Progress, Outcomes
<1>3. ASSUME NEW p \in Procs, QueryFails(p) \/ Commit(p, "error") PROVE IInv'
  BY <1>3, QuietActions, CommitIInv DEF Outcomes
<1>4. ASSUME NEW u \in Users, GetBalance(u) PROVE IInv'
  BY <1>4, GetBalanceIInv
<1>5. ASSUME NEW u \in Freezable, NEW flag \in BOOLEAN, SetFrozen(u, flag) PROVE IInv'
  BY <1>5, SetFrozenIInv, Constants
<1>6. CASE UNCHANGED vars
  BY <1>6 DEF vars, tables, session, IInv, TypeOK, JobsMade, NothingYet, LocksInside,
              SeenCurrent, DraftFits, HasDebited, HasCredited, Visible, Current,
              Atomic!LedgerTypeOK, Atomic!Fresh
<1> QED BY <1>1, <1>2, <1>3, <1>4, <1>5, <1>6, DeadlockVictimIInv, CrashIInv DEF Next

(* The inductive invariant holds: locks, snapshots and drafts fit together *)
(* in every interleaving of requests, failures and restarts.               *)
THEOREM RepoInvariant == Spec => []IInv
  BY InitIInv, NextIInv, PTL DEF Spec

(* Every variable keeps its type. *)
THEOREM RepoTypeOK == Spec => []TypeOK
<1>1. IInv => TypeOK
  BY DEF IInv
<1> QED BY <1>1, RepoInvariant, PTL

-----------------------------------------------------------------------------
\* A step that is no commit, opens no wallet and freezes none leaves the tables.
LEMMA QuietTables ==
    ASSUME IInv, NEW p \in Procs,
           \/ CallAny(p) \/ Connect(p) \/ ConnectTimeout(p) \/ Lookup(p) \/ Create(p)
           \/ PoolTimeout(p) \/ Lock(p) \/ RefuseFrozen(p) \/ RefuseShort(p) \/ Write(p)
           \/ Rollback(p) \/ QueryFails(p) \/ Return(p)
    PROVE  UNCHANGED tables
  BY DEF CallAny, Call, Connect, ConnectTimeout, Lookup, Create, PoolTimeout, Lock,
         RefuseFrozen, RefuseShort, Write, Rollback, QueryFails, Return, Throw

(* Every step of the repository is one step of the atomic ledger, or none. *)
LEMMA StepIsAtomic == IInv /\ [Next]_vars => [Atomic!LedgerNext]_(Atomic!tables)
<1> SUFFICES ASSUME IInv, [Next]_vars, ~ UNCHANGED tables PROVE Atomic!LedgerNext
  BY DEF tables, Atomic!tables
<1>1. ASSUME NEW p \in Procs, NEW answer \in Outcomes, Commit(p, answer)
      PROVE  Atomic!LedgerNext
  <2>1. /\ job[p].payer \in Users /\ job[p].payee \in Users /\ job[p].amount \in Amounts
        /\ job[p].id \in Ids /\ job[p].op \in {"credit", "debit", "transfer"}
    BY <1>1, Constants DEF IInv, TypeOK, Job, JobsMade, Commit, Ids
  <2> QED BY <1>1, <2>1, CommitIsAtomic DEF Atomic!LedgerNext
<1>2. ASSUME NEW p \in Procs, Insert(p) PROVE Atomic!LedgerNext
  <2>1. Current(p) \in Users
    BY DEF IInv, TypeOK, Job, Current
  <2> QED BY <1>2, <2>1 DEF Insert, Atomic!Open, Atomic!LedgerNext
<1>3. ASSUME NEW u \in Users, GetBalance(u) PROVE Atomic!LedgerNext
  BY <1>3 DEF GetBalance, Atomic!LedgerNext
<1>4. ASSUME NEW u \in Freezable, NEW flag \in BOOLEAN, SetFrozen(u, flag)
      PROVE  Atomic!LedgerNext
  BY <1>4, Constants DEF SetFrozen, Atomic!LedgerNext
<1>5. ASSUME NEW p \in Procs, Progress(p) PROVE Atomic!LedgerNext
  BY <1>1, <1>2, <1>5, QuietTables DEF Progress, Outcomes
<1>6. ASSUME NEW p \in Procs, CallAny(p) \/ QueryFails(p) \/ Commit(p, "error")
      PROVE  Atomic!LedgerNext
  BY <1>1, <1>6, QuietTables DEF Outcomes
<1>7. ~ DeadlockVictim /\ ~ Crash /\ ~ UNCHANGED vars
  BY DEF DeadlockVictim, Deadlocked, Throw, Crash, vars
<1> QED BY <1>3, <1>4, <1>5, <1>6, <1>7 DEF Next

(* credit, debit and atomicTransfer implement the atomic ledger: whatever  *)
(* runs beside them, fails or restarts, each call takes effect in one step *)
(* against the balance of that moment, or not at all.                      *)
THEOREM RepoImplementsLedger == Spec => ImplementsAtomicLedger
<1>1. Init => Atomic!LedgerInit
  BY DEF Init
<1> QED BY <1>1, StepIsAtomic, RepoInvariant, PTL
           DEF Spec, ImplementsAtomicLedger, Atomic!LedgerSpec

\* The books of the atomic ledger, kept by its implementation too.
LEMMA RepoKeepsBooks == Spec => []Ledger!Books
<1>1. Ledger!LedgerSpec => []Ledger!Books
  BY Ledger!LedgerKeepsBooks, Constants
<1>2. Atomic!LedgerInit => Ledger!LedgerInit
  BY DEF Atomic!LedgerInit, Ledger!LedgerInit, Atomic!Row, Ledger!Row
<1>3. [Atomic!LedgerNext]_(Atomic!tables) => [Ledger!LedgerNext]_(Ledger!tables)
  BY DEF Atomic!LedgerNext, Ledger!LedgerNext, Atomic!tables, Ledger!tables,
         Atomic!Open, Ledger!Open, Atomic!SetFrozen, Ledger!SetFrozen,
         Atomic!Credit, Ledger!Credit, Atomic!Debit, Ledger!Debit, Atomic!Move, Ledger!Move,
         Atomic!Fresh, Ledger!Fresh, Atomic!HasRow, Ledger!HasRow, Atomic!Row, Ledger!Row
<1> QED BY <1>1, <1>2, <1>3, RepoImplementsLedger, PTL
           DEF ImplementsAtomicLedger, Atomic!LedgerSpec, Ledger!LedgerSpec

(* Through every interleaving, failure and restart the ledger rows of a    *)
(* wallet explain its balance.                                             *)
THEOREM RepoExplainsBalance == Spec => []LedgerExplainsBalance
<1>1. Ledger!Books => LedgerExplainsBalance
  BY DEF Ledger!Books, LedgerExplainsBalance, Ledger!LedgerExplainsBalance,
         Atomic!LedgerExplainsBalance, Ledger!Chained, Atomic!Chained, Ledger!LastAfter,
         Atomic!LastAfter, Ledger!Effect, Atomic!Effect
<1> QED BY <1>1, RepoKeepsBooks, PTL

(* No race of debits and transfers overdraws a wallet, so the CHECK of     *)
(* migration 018 on wallets.balance never has to fire.                     *)
THEOREM RepoNoOverdraft == Spec => []NoOverdraft
<1>1. Ledger!Books => NoOverdraft
  BY DEF Ledger!Books, NoOverdraft, Ledger!NoOverdraft, Atomic!NoOverdraft
<1> QED BY <1>1, RepoKeepsBooks, PTL

(* A p2p transfer is recorded in all three tables or in none of them. *)
THEOREM RepoTransferAllOrNothing == Spec => []TransferAllOrNothing
<1>1. Ledger!Books => TransferAllOrNothing
  BY DEF Ledger!Books, TransferAllOrNothing, Ledger!TransferAllOrNothing,
         Atomic!TransferAllOrNothing, Ledger!HasRow, Atomic!HasRow
<1> QED BY <1>1, RepoKeepsBooks, PTL
=============================================================================
