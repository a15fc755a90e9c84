-------------------------- MODULE AuthSessionsProofs --------------------------
(***************************************************************************)
(* Proofs about codes, accounts, sessions and refresh tokens: for every    *)
(* number of requests, codes, identifiers, tokens, restarts and failing    *)
(* statements.                                                             *)
(***************************************************************************)
EXTENDS AuthSessions, FiniteSetTheorems, TLAPS

-----------------------------------------------------------------------------
(* Tables that grow.                                                       *)

\* s2 is s with x after it; s2 is s with x in the place of row i.
Extends(s, s2, x) ==
    Len(s2) = Len(s) + 1 /\ s2[Len(s) + 1] = x /\ \A i \in 1..Len(s) : s2[i] = s[i]

Changes(s, s2, i, x) ==
    Len(s2) = Len(s) /\ s2[i] = x /\ \A j \in 1..Len(s) : j # i => s2[j] = s[j]

LEMMA Rows ==
    ASSUME NEW S, NEW s \in Seq(S)
    PROVE  Len(s) \in Nat /\ DOMAIN s = 1..Len(s) /\ \A i \in 1..Len(s) : s[i] \in S
  OBVIOUS

LEMMA AppendExtends ==
    ASSUME NEW S, NEW s \in Seq(S), NEW x \in S
    PROVE  Append(s, x) \in Seq(S) /\ Extends(s, Append(s, x), x)
  BY DEF Extends

LEMMA ExceptChanges ==
    ASSUME NEW S, NEW s \in Seq(S), NEW i \in 1..Len(s), NEW x \in S
    PROVE  [s EXCEPT ![i] = x] \in Seq(S) /\ Changes(s, [s EXCEPT ![i] = x], i, x)
  BY DEF Changes

LEMMA RowsWithin ==
    ASSUME NEW S, NEW T, NEW s \in Seq(S), \A i \in 1..Len(s) : s[i] \in T
    PROVE  s \in Seq(T)
  OBVIOUS

-----------------------------------------------------------------------------
Otp == [who : Identifiers, attempts : Nat, verified : BOOLEAN]
Account == [who : Identifiers \cup {NoOne}, devices : Nat]
Session == [user : Nat, code : Nat, token : Nat, revoked : BOOLEAN]
Tasks == [code : Nat, user : Nat, session : Nat, token : Nat]

\* The columns of a row.
LEMMA OtpRow ==
    ASSUME NEW s \in Seq(Otp), NEW i \in 1..Len(s)
    PROVE  s[i] \in Otp /\ s[i].who \in Identifiers /\ s[i].attempts \in Nat
           /\ s[i].verified \in BOOLEAN
<1>1. s[i] \in Otp
  BY Rows
<1> QED BY <1>1 DEF Otp

LEMMA AccountRow ==
    ASSUME NEW s \in Seq(Account), NEW i \in 1..Len(s)
    PROVE  s[i] \in Account /\ s[i].who \in Identifiers \cup {NoOne} /\ s[i].devices \in Nat
<1>1. s[i] \in Account
  BY Rows
<1> QED BY <1>1 DEF Account

LEMMA SessionRow ==
    ASSUME NEW s \in Seq(Session), NEW i \in 1..Len(s)
    PROVE  s[i] \in Session /\ s[i].user \in Nat /\ s[i].code \in Nat /\ s[i].token \in Nat
           /\ s[i].revoked \in BOOLEAN
<1>1. s[i] \in Session
  BY Rows
<1> QED BY <1>1 DEF Session

TablesTyped == otps \in Seq(Otp) /\ users \in Seq(Account) /\ sessions \in Seq(Session)
HandlersTyped == pc \in [Procs -> Pcs] /\ task \in [Procs -> Tasks]

\* Rows point at rows that are there.
SessionsRefer ==
    \A s \in 1..Len(sessions) :
        /\ sessions[s].user \in 1..Len(users)
        /\ sessions[s].code \in 1..Len(otps)
        /\ sessions[s].token \in 1..minted

Refers(p) ==
    /\ task[p].code \in 0..Len(otps) /\ task[p].user \in 0..Len(users)
    /\ task[p].session \in 0..Len(sessions) /\ task[p].token \in 0..minted

HistoryTyped ==
    /\ proved \subseteq Codes /\ cut \subseteq Codes /\ erased \subseteq Uids
    /\ exchanged \subseteq Tokens \X Tokens
    /\ overlapped \subseteq {"code", "token", "device", "erase"} \X Nat
    /\ faults \in 0..MaxFaults

CountsTyped ==
    guesses \in [1..MaxCodes -> Nat] /\ uncounted \in [1..MaxCodes -> Nat]

LEMMA TypeFollows ==
    ASSUME TablesTyped, HandlersTyped, SessionsRefer, HistoryTyped, CountsTyped,
           minted \in 0..MaxTokens, \A p \in Procs : Refers(p)
    PROVE  TypeOK
<1>1. /\ DOMAIN otps = 1..Len(otps) /\ DOMAIN users = 1..Len(users)
      /\ DOMAIN sessions = 1..Len(sessions)
  BY Rows DEF TablesTyped
<1>2. sessions \in Seq([user : Uids, code : Codes, token : Tokens, revoked : BOOLEAN])
  <2>1. ASSUME NEW s \in 1..Len(sessions)
        PROVE  sessions[s] \in [user : Uids, code : Codes, token : Tokens, revoked : BOOLEAN]
    <3>1. sessions[s] \in Session
      BY Rows DEF TablesTyped
    <3> QED BY <1>1, <3>1 DEF Session, SessionsRefer, Uids, Codes, Tokens
  <2> QED BY <2>1, RowsWithin DEF TablesTyped
<1>3. task \in [Procs -> [code : Codes \cup {0}, user : Uids \cup {0},
                          session : DOMAIN sessions \cup {0}, token : Tokens \cup {0}]]
  <2>1. ASSUME NEW p \in Procs
        PROVE  task[p] \in [code : Codes \cup {0}, user : Uids \cup {0},
                            session : DOMAIN sessions \cup {0}, token : Tokens \cup {0}]
    <3>1. task[p] \in Tasks
      BY DEF HandlersTyped
    <3>2. /\ task[p].code \in Codes \cup {0} /\ task[p].user \in Uids \cup {0}
          /\ task[p].session \in DOMAIN sessions \cup {0} /\ task[p].token \in Tokens \cup {0}
      BY <1>1 DEF Refers, Codes, Uids, Tokens
    <3> QED BY <3>1, <3>2 DEF Tasks
  <2> QED BY <2>1 DEF HandlersTyped
<1> QED BY <1>2, <1>3 DEF TypeOK, TablesTyped, HandlersTyped, HistoryTyped, CountsTyped, Otp, Account

-----------------------------------------------------------------------------
LoginLabels == {"count", "mark", "find", "create", "device", "addDevice", "session"}
AfterMark == {"find", "create", "device", "addDevice", "session"}
WithUser == {"device", "addDevice", "session"}

(* What a handler relies on when it goes on after an await: its code was   *)
(* typed in right, and used; its account is that of the code, unless it    *)
(* has been deleted since; its token is nobody else's.                     *)
Claim(p) ==
    /\ Refers(p)
    /\ pc[p] \in LoginLabels => task[p].code \in 1..Len(otps)
    /\ pc[p] \in LoginLabels \ {"count"} => task[p].code \in proved
    /\ pc[p] \in AfterMark => otps[task[p].code].verified
    /\ pc[p] \in WithUser =>
          /\ task[p].user \in 1..Len(users)
          /\ users[task[p].user].who \in {otps[task[p].code].who, NoOne}
    /\ pc[p] = "rotate" =>
          /\ task[p].session \in 1..Len(sessions) /\ task[p].token \in 1..minted
          /\ \A s \in 1..Len(sessions) : sessions[s].token = task[p].token => s = task[p].session
    /\ pc[p] \in {"purge", "revoke", "leave"} => task[p].user \in 1..Len(users)
    /\ pc[p] \in {"revoke", "leave"} => users[task[p].user].who = NoOne

Claims == \A p \in Procs : Claim(p)

\* Codes keep their identifiers and stay used; accounts keep theirs until they
\* are deleted; sessions stay revoked; a session's token is the one it had or a
\* new one.
OtpsGrow ==
    /\ Len(otps) <= Len(otps')
    /\ \A c \in 1..Len(otps) :
          otps'[c].who = otps[c].who /\ (otps[c].verified => otps'[c].verified)

UsersGrow ==
    /\ Len(users) <= Len(users')
    /\ \A u \in 1..Len(users) : users'[u].who \in {users[u].who, NoOne}

SessionsGrow ==
    /\ Len(sessions) <= Len(sessions') /\ minted <= minted'
    /\ \A s \in 1..Len(sessions) :
          /\ sessions'[s].user = sessions[s].user /\ sessions'[s].code = sessions[s].code
          /\ sessions[s].revoked => sessions'[s].revoked
    /\ \A s \in 1..Len(sessions') :
          (s <= Len(sessions) /\ sessions'[s].token = sessions[s].token)
          \/ sessions'[s].token \in (minted + 1)..minted'

Growing == OtpsGrow /\ UsersGrow /\ SessionsGrow /\ proved \subseteq proved'

LEMMA TablesStay ==
    ASSUME TablesTyped, minted \in Nat
    PROVE  /\ otps' = otps => OtpsGrow
           /\ users' = users => UsersGrow
           /\ UNCHANGED <<sessions, minted>> => SessionsGrow
  BY Rows DEF TablesTyped, OtpsGrow, UsersGrow, SessionsGrow

LEMMA ClaimStays ==
    ASSUME TablesTyped, minted \in Nat, HandlersTyped, Growing, TablesTyped', minted' \in Nat,
           NEW p \in Procs, Claim(p), pc'[p] = pc[p], task'[p] = task[p]
    PROVE  Claim(p)'
<1> DEFINE t == task[p]
<1>1. /\ Len(otps) \in Nat /\ Len(users) \in Nat /\ Len(sessions) \in Nat
      /\ Len(otps') \in Nat /\ Len(users') \in Nat /\ Len(sessions') \in Nat
  BY Rows DEF TablesTyped
<1>2. pc[p] \in LoginLabels =>
         /\ t.code \in 1..Len(otps') /\ otps'[t.code].who = otps[t.code].who
         /\ otps[t.code].verified => otps'[t.code].verified
  <2>1. pc[p] \in LoginLabels => t.code \in 1..Len(otps)
    BY DEF Claim
  <2> QED BY <1>1, <2>1 DEF Growing, OtpsGrow
<1>3. t.user \in 1..Len(users) =>
         /\ t.user \in 1..Len(users')
         /\ users'[t.user].who \in {users[t.user].who, NoOne}
  BY <1>1 DEF Growing, UsersGrow
<1>4. pc[p] = "rotate" =>
         /\ t.session \in 1..Len(sessions') /\ t.token \in 1..minted'
         /\ \A s \in 1..Len(sessions') : sessions'[s].token = t.token => s = t.session
  <2>1. pc[p] = "rotate" =>
           /\ t.session \in 1..Len(sessions) /\ t.token \in 1..minted
           /\ \A s \in 1..Len(sessions) : sessions[s].token = t.token => s = t.session
    BY DEF Claim
  <2>2. \A s \in 1..Len(sessions') : sessions'[s].token \in Nat
    BY SessionRow DEF TablesTyped
  <2>3. /\ Len(sessions) <= Len(sessions') /\ minted <= minted'
        /\ \A s \in 1..Len(sessions') :
              (s <= Len(sessions) /\ sessions'[s].token = sessions[s].token)
              \/ sessions'[s].token \in (minted + 1)..minted'
    BY DEF Growing, SessionsGrow
  <2>4. ASSUME pc[p] = "rotate", NEW s \in 1..Len(sessions'), sessions'[s].token = t.token
        PROVE  s = t.session
    <3>1. s \in 1..Len(sessions) /\ sessions[s].token = t.token
      BY <1>1, <2>1, <2>2, <2>3, <2>4
    <3> QED BY <2>1, <2>4, <3>1
  <2> HIDE DEF t
  <2> QED BY <1>1, <2>1, <2>3, <2>4
<1>5. pc[p] \in WithUser \/ pc[p] \in AfterMark => pc[p] \in LoginLabels
  BY DEF WithUser, AfterMark, LoginLabels
<1>6. pc[p] \in LoginLabels \ {"count"} => t.code \in proved'
  BY DEF Claim, Growing
<1>7. Refers(p)'
  <2>1. Refers(p)
    BY DEF Claim
  <2>2. /\ Len(otps) <= Len(otps') /\ Len(users) <= Len(users')
        /\ Len(sessions) <= Len(sessions') /\ minted <= minted'
    BY DEF Growing, OtpsGrow, UsersGrow, SessionsGrow
  <2>3. /\ 0..Len(otps) \subseteq 0..Len(otps') /\ 0..Len(users) \subseteq 0..Len(users')
        /\ 0..Len(sessions) \subseteq 0..Len(sessions') /\ 0..minted \subseteq 0..minted'
    BY <1>1, <2>2
  <2> HIDE DEF t
  <2>4. /\ task'[p].code \in 0..Len(otps') /\ task'[p].user \in 0..Len(users')
        /\ task'[p].session \in 0..Len(sessions') /\ task'[p].token \in 0..minted'
    BY <2>1, <2>3 DEF Refers
  <2> QED BY <2>4 DEF Refers
<1> QED BY <1>2, <1>3, <1>4, <1>5, <1>6, <1>7 DEF Claim

-----------------------------------------------------------------------------
\* No two sessions have one refresh token.
TokensApart ==
    \A s, t \in 1..Len(sessions) : sessions[s].token = sessions[t].token => s = t

(* LoginWasProved, of one session.                                         *)
SessionProved(s) ==
    LET c == sessions[s].code
    IN  /\ c \in proved /\ otps[c].verified
        /\ users[sessions[s].user].who \in {otps[c].who, NoOne}

SessionsProved == \A s \in 1..Len(sessions) : SessionProved(s)

SessionRefers(s) ==
    /\ sessions[s].user \in 1..Len(users)
    /\ sessions[s].code \in 1..Len(otps)
    /\ sessions[s].token \in 1..minted

TablesSound ==
    TablesTyped /\ minted \in Nat /\ SessionsRefer /\ TokensApart /\ SessionsProved

LEMMA TablesKeep ==
    ASSUME TablesSound, TablesTyped', minted' \in Nat, Growing, TokensApart',
           \A s \in (Len(sessions) + 1)..Len(sessions') : (SessionRefers(s) /\ SessionProved(s))'
    PROVE  TablesSound'
<1>1. /\ Len(otps) \in Nat /\ Len(users) \in Nat /\ Len(sessions) \in Nat
      /\ Len(otps') \in Nat /\ Len(users') \in Nat /\ Len(sessions') \in Nat
  BY Rows DEF TablesSound, TablesTyped
<1>2. ASSUME NEW s \in 1..Len(sessions) PROVE SessionRefers(s)' /\ SessionProved(s)'
  <2>1. SessionRefers(s) /\ SessionProved(s)
    BY DEF TablesSound, SessionsRefer, SessionsProved, SessionRefers
  <2>2. sessions'[s].user = sessions[s].user /\ sessions'[s].code = sessions[s].code
    BY DEF Growing, SessionsGrow
  <2>3. sessions'[s].token \in 1..minted'
    <3>1. s \in 1..Len(sessions') /\ sessions'[s].token \in Nat /\ sessions[s].token \in 1..minted
      BY <1>1, <2>1, SessionRow DEF Growing, SessionsGrow, TablesTyped, SessionRefers
    <3>2. sessions'[s].token = sessions[s].token \/ sessions'[s].token \in (minted + 1)..minted'
      BY <3>1 DEF Growing, SessionsGrow
    <3>3. minted <= minted' /\ minted \in Nat
      BY DEF Growing, SessionsGrow, TablesSound
    <3> QED BY <3>1, <3>2, <3>3
  <2>4. SessionRefers(s)'
    BY <1>1, <2>1, <2>2, <2>3 DEF SessionRefers, Growing, OtpsGrow, UsersGrow
  <2>5. SessionProved(s)'
    BY <2>1, <2>2 DEF SessionRefers, SessionProved, Growing, OtpsGrow, UsersGrow
  <2> QED BY <2>4, <2>5
<1>3. \A s \in 1..Len(sessions') : (SessionRefers(s) /\ SessionProved(s))'
  <2>1. \A s \in 1..Len(sessions') :
           s \in 1..Len(sessions) \/ s \in (Len(sessions) + 1)..Len(sessions')
    BY <1>1
  <2> QED BY <1>2, <2>1
<1> QED BY <1>3 DEF TablesSound, SessionsRefer, SessionsProved, SessionRefers

LEMMA SessionsUntouched ==
    ASSUME TablesSound, TablesTyped', Growing, UNCHANGED <<sessions, minted>>
    PROVE  TablesSound'
<1>1. Len(sessions) \in Nat /\ TokensApart'
  BY Rows DEF TablesSound, TablesTyped, TokensApart
<1>2. \A s \in (Len(sessions) + 1)..Len(sessions') : FALSE
  BY <1>1
<1> QED BY <1>1, <1>2, TablesKeep DEF TablesSound

\* The rows that were there keep their user, code and token.
SameSessions ==
    /\ Len(sessions') = Len(sessions)
    /\ \A s \in 1..Len(sessions) :
          /\ sessions'[s].user = sessions[s].user /\ sessions'[s].code = sessions[s].code
          /\ sessions'[s].token = sessions[s].token
          /\ sessions[s].revoked => sessions'[s].revoked

LEMMA SameSessionsKeep ==
    ASSUME TablesSound, TablesTyped', SameSessions, UNCHANGED <<otps, users, minted, proved>>
    PROVE  Growing /\ TablesSound'
<1>1. Len(sessions) \in Nat /\ minted \in Nat
  BY Rows DEF TablesSound, TablesTyped
<1>2. SessionsGrow
  BY <1>1 DEF SessionsGrow, SameSessions
<1>3. Growing
  BY <1>2, TablesStay DEF Growing, TablesSound
<1>4. TokensApart'
  BY DEF TablesSound, TokensApart, SameSessions
<1>5. \A s \in (Len(sessions) + 1)..Len(sessions') : FALSE
  BY <1>1 DEF SameSessions
<1> QED BY <1>3, <1>4, <1>5, TablesKeep DEF TablesSound

-----------------------------------------------------------------------------
Sound == TablesSound /\ HandlersTyped /\ Claims

LEMMA AtMoves ==
    ASSUME HandlersTyped, NEW p \in Procs, NEW l, NEW t, At(p, l, t)
    PROVE  /\ pc'[p] = l /\ task'[p] = t
           /\ \A q \in Procs \ {p} : pc'[q] = pc[q] /\ task'[q] = task[q]
  BY DEF HandlersTyped, At

LEMMA MoveKeeps ==
    ASSUME Sound, Growing, TablesSound', NEW p \in Procs, NEW l \in Pcs, NEW t \in Tasks,
           At(p, l, t), Claim(p)'
    PROVE  Sound'
<1>1. HandlersTyped'
  BY DEF Sound, HandlersTyped, At
<1>2. ASSUME NEW q \in Procs PROVE Claim(q)'
  <2>1. CASE q = p
    BY <2>1
  <2>2. CASE q # p
    <3>1. pc'[q] = pc[q] /\ task'[q] = task[q]
      BY <2>2, AtMoves DEF Sound
    <3> QED BY <3>1, ClaimStays DEF Sound, Claims, TablesSound
  <2> QED BY <2>1, <2>2
<1> QED BY <1>1, <1>2 DEF Sound, Claims

LEMMA HandlersStay ==
    ASSUME Sound, Growing, TablesSound', UNCHANGED <<pc, task>>
    PROVE  Sound'
<1>1. ASSUME NEW q \in Procs PROVE Claim(q)'
  BY ClaimStays DEF Sound, Claims, TablesSound
<1> QED BY <1>1 DEF Sound, Claims, HandlersTyped

LEMMA NoTaskTyped == NoTask \in Tasks /\ "idle" \in Pcs
  BY DEF NoTask, Tasks, Pcs

LEMMA IdleClaims ==
    ASSUME TablesSound', NEW p \in Procs, pc'[p] = "idle", task'[p] = NoTask
    PROVE  Claim(p)'
<1>1. /\ Len(otps') \in Nat /\ Len(users') \in Nat /\ Len(sessions') \in Nat /\ minted' \in Nat
  BY Rows DEF TablesSound, TablesTyped
<1>2. Refers(p)'
  BY <1>1 DEF Refers, NoTask
<1> QED BY <1>2 DEF Claim, LoginLabels, AfterMark, WithUser

LEMMA AnswerKeeps ==
    ASSUME Sound, Growing, TablesSound', NEW p \in Procs, Answer(p)
    PROVE  Sound'
<1>1. At(p, "idle", NoTask)
  BY DEF Answer
<1>2. Claim(p)'
  BY <1>1, AtMoves, IdleClaims DEF Sound
<1> QED BY <1>1, <1>2, NoTaskTyped, MoveKeeps

LEMMA BreakOffKeeps ==
    ASSUME Sound, NEW S \in SUBSET Procs, BreakOff(S)
    PROVE  Sound' /\ Growing
<1>1. UNCHANGED <<otps, users, sessions, minted, proved>>
  BY DEF BreakOff, accounts
<1>2. Growing /\ TablesSound'
  <2>1. TablesTyped' /\ SameSessions
    BY <1>1, Rows DEF Sound, TablesSound, TablesTyped, SameSessions
  <2> QED BY <1>1, <2>1, SameSessionsKeep DEF Sound
<1>3. HandlersTyped'
  BY NoTaskTyped DEF Sound, HandlersTyped, BreakOff
<1>4. ASSUME NEW q \in Procs PROVE Claim(q)'
  <2>1. CASE q \in S
    BY <1>2, <2>1, IdleClaims DEF BreakOff
  <2>2. CASE q \notin S
    <3>1. pc'[q] = pc[q] /\ task'[q] = task[q]
      BY <2>2 DEF BreakOff
    <3> QED BY <1>2, <3>1, ClaimStays DEF Sound, Claims, TablesSound
  <2> QED BY <2>1, <2>2
<1> QED BY <1>2, <1>3, <1>4 DEF Sound, Claims

-----------------------------------------------------------------------------
\* What the statements do to the rows, and that the rows stay well formed.

\* A handler's row numbers are row numbers.
LEMMA Lengths ==
    ASSUME TablesTyped
    PROVE  /\ Len(otps) \in Nat /\ Len(users) \in Nat /\ Len(sessions) \in Nat
           /\ Codes = 1..Len(otps) /\ Uids = 1..Len(users) /\ DOMAIN sessions = 1..Len(sessions)
  BY Rows DEF TablesTyped, Codes, Uids

LEMMA StartOtpSound ==
    ASSUME Sound, NEW who \in Identifiers, StartOtp(who)
    PROVE  Sound' /\ Growing
<1> DEFINE row == [who |-> who, attempts |-> 0, verified |-> FALSE]
<1>1. row \in Otp
  BY DEF Otp
<1>2. otps' \in Seq(Otp) /\ Extends(otps, otps', row)
  BY <1>1, AppendExtends DEF StartOtp, Sound, TablesSound, TablesTyped
<1>3. UNCHANGED <<users, sessions, minted, pc, task, proved>>
  BY DEF StartOtp, history
<1>4. Growing
  <2>1. OtpsGrow
    BY <1>2, Lengths DEF OtpsGrow, Extends, Sound, TablesSound
  <2> QED BY <1>3, <2>1, TablesStay DEF Growing, Sound, TablesSound
<1>5. TablesSound'
  BY <1>2, <1>3, <1>4, SessionsUntouched DEF Sound, TablesSound, TablesTyped
<1> QED BY <1>3, <1>4, <1>5, HandlersStay

\* The tables after an action that writes none of them.
LEMMA TablesUntouched ==
    ASSUME TablesSound, UNCHANGED accounts, proved \subseteq proved'
    PROVE  Growing /\ TablesSound'
<1>1. UNCHANGED <<otps, users, sessions, minted>> /\ TablesTyped'
  BY DEF accounts, TablesSound, TablesTyped
<1>2. Growing
  BY <1>1, TablesStay DEF Growing, TablesSound
<1> QED BY <1>1, <1>2, SessionsUntouched

LEMMA VerifySound ==
    ASSUME Sound, NEW p \in Procs, NEW c \in Codes, NEW right \in BOOLEAN, Verify(p, c, right)
    PROVE  Sound' /\ Growing
<1> DEFINE l == IF right THEN "mark" ELSE "count"
           t == [NoTask EXCEPT !.code = c]
<1>1. Growing /\ TablesSound'
  BY TablesUntouched DEF Verify, Sound
<1>2. c \in 1..Len(otps) /\ c \in Nat
  BY Lengths DEF Sound, TablesSound
<1>3. t \in Tasks /\ t.code = c /\ t.user = 0 /\ t.session = 0 /\ t.token = 0 /\ l \in Pcs
  BY <1>2 DEF NoTask, Tasks, Pcs
<1>4. At(p, l, t) /\ (right => c \in proved') /\ UNCHANGED accounts
  BY DEF Verify
<1>5. pc'[p] = l /\ task'[p] = t
  BY <1>4, AtMoves DEF Sound
<1>6. Claim(p)'
  <2>1. Refers(p)'
    BY <1>2, <1>3, <1>4, <1>5, Lengths DEF Refers, accounts, Sound, TablesSound
  <2>2. (pc'[p] = "mark" /\ right) \/ pc'[p] = "count"
    BY <1>5
  <2> HIDE DEF l, t
  <2> QED BY <1>2, <1>3, <1>4, <1>5, <2>1, <2>2
          DEF Claim, LoginLabels, AfterMark, WithUser, accounts
<1> HIDE DEF l, t
<1> QED BY <1>1, <1>3, <1>4, <1>6, MoveKeeps

LEMMA CountSound ==
    ASSUME Sound, NEW p \in Procs, Count(p)
    PROVE  Sound' /\ Growing
<1> DEFINE c == Code(p)
           row == [otps[c] EXCEPT !.attempts = @ + 1]
<1>1. c \in 1..Len(otps)
  BY DEF Count, Sound, Claims, Claim, LoginLabels, Code
<1>2. otps[c] \in Otp
  BY <1>1, OtpRow DEF Sound, TablesSound, TablesTyped
<1>3. row \in Otp /\ row.who = otps[c].who /\ row.verified = otps[c].verified
  BY <1>2 DEF Otp
<1>4. otps' = [otps EXCEPT ![c] = row]
  BY DEF Count
<1>5. otps' \in Seq(Otp) /\ Changes(otps, otps', c, row)
  BY <1>1, <1>3, <1>4, ExceptChanges DEF Sound, TablesSound, TablesTyped
<1>6. UNCHANGED <<users, sessions, minted, proved>>
  BY DEF Count, history
<1> HIDE DEF c, row
<1>7. Growing
  <2>1. OtpsGrow
    BY <1>3, <1>5, Lengths DEF OtpsGrow, Changes, Sound, TablesSound
  <2> QED BY <1>6, <2>1, TablesStay DEF Growing, Sound, TablesSound
<1>8. TablesSound'
  BY <1>5, <1>6, <1>7, SessionsUntouched DEF Sound, TablesSound, TablesTyped
<1> QED BY <1>7, <1>8, AnswerKeeps DEF Count

LEMMA MarkSound ==
    ASSUME Sound, NEW p \in Procs, Mark(p)
    PROVE  Sound' /\ Growing
<1> DEFINE c == Code(p)
           row == [otps[c] EXCEPT !.verified = TRUE]
<1>1. c \in 1..Len(otps) /\ c \in proved /\ Refers(p)
  BY DEF Mark, Sound, Claims, Claim, LoginLabels, Code
<1>2. otps[c] \in Otp
  BY <1>1, OtpRow DEF Sound, TablesSound, TablesTyped
<1>3. row \in Otp /\ row.who = otps[c].who /\ row.verified
  BY <1>2 DEF Otp
<1>4. otps' = [otps EXCEPT ![c] = row]
  BY DEF Mark
<1>5. otps' \in Seq(Otp) /\ Changes(otps, otps', c, row)
  BY <1>1, <1>3, <1>4, ExceptChanges DEF Sound, TablesSound, TablesTyped
<1>6. UNCHANGED <<users, sessions, minted, proved>> /\ At(p, "find", task[p]) /\ task[p].code = c
  BY DEF Mark, history, Goto, Code
<1> HIDE DEF c, row
<1>7. Growing
  <2>1. OtpsGrow
    BY <1>3, <1>5, Lengths DEF OtpsGrow, Changes, Sound, TablesSound
  <2> QED BY <1>6, <2>1, TablesStay DEF Growing, Sound, TablesSound
<1>8. TablesSound'
  BY <1>5, <1>6, <1>7, SessionsUntouched DEF Sound, TablesSound, TablesTyped
<1>9. Claim(p)'
  <2>1. pc'[p] = "find" /\ task'[p] = task[p]
    BY <1>6, AtMoves DEF Sound
  <2>2. Refers(p)'
    BY <1>1, <1>5, <1>6, <2>1 DEF Refers, Changes
  <2> QED BY <1>1, <1>3, <1>5, <1>6, <2>1, <2>2
          DEF Claim, LoginLabels, AfterMark, WithUser, Changes
<1>10. "find" \in Pcs /\ task[p] \in Tasks
  BY DEF Pcs, Sound, HandlersTyped
<1> QED BY <1>6, <1>7, <1>8, <1>9, <1>10, MoveKeeps

\* The handler at work, and the state it goes on in.
LEMMA HandlerTyped ==
    ASSUME Sound, NEW p \in Procs
    PROVE  /\ pc[p] \in Pcs /\ task[p] \in Tasks /\ Claim(p) /\ Refers(p)
           /\ task[p].code \in Nat /\ task[p].user \in Nat
           /\ task[p].session \in Nat /\ task[p].token \in Nat
<1>1. pc[p] \in Pcs /\ task[p] \in Tasks /\ Claim(p)
  BY DEF Sound, HandlersTyped, Claims
<1> QED BY <1>1 DEF Tasks, Claim

\* A code's account, when there is one.
LEMMA HolderFound ==
    ASSUME Sound, NEW who, Holders(who) # {}
    PROVE  LET u == CHOOSE u \in Holders(who) : TRUE
           IN  u \in 1..Len(users) /\ users[u].who = who
<1> DEFINE u == CHOOSE u \in Holders(who) : TRUE
<1>1. u \in Holders(who)
  OBVIOUS
<1> QED BY <1>1, Lengths DEF Holders, Sound, TablesSound

LEMMA FindUserSound ==
    ASSUME Sound, NEW p \in Procs, FindUser(p)
    PROVE  Sound' /\ Growing
<1> DEFINE found == Holders(otps[Code(p)].who)
           u == CHOOSE v \in found : TRUE
           t == [task[p] EXCEPT !.user = u]
<1>1. Growing /\ TablesSound' /\ UNCHANGED <<otps, users, sessions, minted, proved>>
  BY TablesUntouched DEF FindUser, Sound, history, accounts
<1>2. /\ pc[p] = "find" /\ task[p].code \in 1..Len(otps) /\ task[p].code \in proved
      /\ otps[task[p].code].verified
  BY HandlerTyped DEF FindUser, Claim, LoginLabels, AfterMark
<1>3. CASE found = {}
  <2>1. At(p, "create", task[p])
    BY <1>3 DEF FindUser, Goto
  <2>2. pc'[p] = "create" /\ task'[p] = task[p]
    BY <2>1, AtMoves DEF Sound
  <2>3. Refers(p)'
    BY <1>1, <2>2, HandlerTyped DEF Refers
  <2>4. Claim(p)'
    BY <1>1, <1>2, <2>2, <2>3 DEF Claim, LoginLabels, AfterMark, WithUser
  <2>5. "create" \in Pcs
    BY DEF Pcs
  <2> QED BY <1>1, <2>1, <2>4, <2>5, HandlerTyped, MoveKeeps
<1>4. CASE found # {}
  <2>1. u \in 1..Len(users) /\ users[u].who = otps[task[p].code].who
    BY <1>4, HolderFound DEF Code
  <2>2. u \in Nat
    BY <2>1, Lengths DEF Sound, TablesSound
  <2>3. At(p, "device", t)
    BY <1>4 DEF FindUser
  <2> HIDE DEF u
  <2>4. t \in Tasks /\ t.code = task[p].code /\ t.user = u /\ t.session = task[p].session
        /\ t.token = task[p].token
    BY <2>2, HandlerTyped DEF Tasks
  <2>5. pc'[p] = "device" /\ task'[p] = t
    BY <2>3, AtMoves DEF Sound
  <2>6. Refers(p)
    BY HandlerTyped
  <2> HIDE DEF t
  <2>7. Refers(p)'
    BY <1>1, <2>1, <2>4, <2>5, <2>6, Lengths DEF Refers, Sound, TablesSound
  <2>8. Claim(p)'
    BY <1>1, <1>2, <2>1, <2>4, <2>5, <2>7 DEF Claim, LoginLabels, AfterMark, WithUser
  <2>9. "device" \in Pcs
    BY DEF Pcs
  <2> QED BY <1>1, <2>4, <2>3, <2>8, <2>9, MoveKeeps
<1> QED BY <1>3, <1>4

\* What CreateUser does: a new account of the code's identifier, without a device.
LEMMA CreateUserDoes ==
    ASSUME Sound, NEW p \in Procs, CreateUser(p)
    PROVE  /\ pc[p] = "create" /\ UNCHANGED <<otps, sessions, minted, history>>
           /\ users' \in Seq(Account) /\ Len(users') = Len(users) + 1
           /\ users'[Len(users')].who = otps[task[p].code].who
           /\ users'[Len(users')].devices = 0
           /\ \A u \in 1..Len(users) : users'[u] = users[u]
           /\ Holders(otps[task[p].code].who) = {}
           /\ pc'[p] = "device" /\ task'[p].code = task[p].code
           /\ task'[p].user = Len(users') /\ task'[p].session = task[p].session
           /\ task'[p].token = task[p].token /\ task'[p] \in Tasks
           /\ \A q \in Procs \ {p} : pc'[q] = pc[q] /\ task'[q] = task[q]
           /\ pc' \in [Procs -> Pcs] /\ task' \in [Procs -> Tasks]
<1> DEFINE row == [who |-> otps[Code(p)].who, devices |-> 0]
<1>1. pc[p] = "create" /\ task[p].code \in 1..Len(otps)
  BY HandlerTyped DEF CreateUser, Claim, LoginLabels
<1>2. row \in Account
  BY <1>1, OtpRow DEF Account, Code, Sound, TablesSound, TablesTyped
<1>3. users' \in Seq(Account) /\ Extends(users, users', row)
  BY <1>2, AppendExtends DEF CreateUser, Sound, TablesSound, TablesTyped
<1>4. Len(users') = Len(users) + 1 /\ Len(users') \in Nat
  BY <1>3, Lengths DEF Extends, Sound, TablesSound
<1>5. /\ pc' = [pc EXCEPT ![p] = "device"]
      /\ task' = [task EXCEPT ![p] = [task[p] EXCEPT !.user = Len(users')]]
  BY DEF CreateUser, At
<1>6. /\ [task[p] EXCEPT !.user = Len(users')] \in Tasks
      /\ [task[p] EXCEPT !.user = Len(users')].code = task[p].code
      /\ [task[p] EXCEPT !.user = Len(users')].user = Len(users')
      /\ [task[p] EXCEPT !.user = Len(users')].session = task[p].session
      /\ [task[p] EXCEPT !.user = Len(users')].token = task[p].token
  BY <1>4, HandlerTyped DEF Tasks
<1>7. "device" \in Pcs
  BY DEF Pcs
<1>8. /\ pc'[p] = "device" /\ task'[p] = [task[p] EXCEPT !.user = Len(users')]
      /\ \A q \in Procs \ {p} : pc'[q] = pc[q] /\ task'[q] = task[q]
      /\ pc' \in [Procs -> Pcs] /\ task' \in [Procs -> Tasks]
  BY <1>5, <1>6, <1>7 DEF Sound, HandlersTyped
<1>9. /\ UNCHANGED <<otps, sessions, minted, history>>
      /\ Holders(otps[task[p].code].who) = {}
  BY DEF CreateUser, Taken, Code
<1>10. /\ users'[Len(users')].who = otps[task[p].code].who
       /\ users'[Len(users')].devices = 0
       /\ \A u \in 1..Len(users) : users'[u] = users[u]
  BY <1>3, <1>4 DEF Extends, Code
<1> QED BY <1>1, <1>3, <1>4, <1>6, <1>8, <1>9, <1>10

LEMMA CreateUserSound ==
    ASSUME Sound, NEW p \in Procs, CreateUser(p)
    PROVE  Sound' /\ Growing
<1>1. Growing
  <2>1. UsersGrow
    BY CreateUserDoes, Lengths DEF UsersGrow, Sound, TablesSound
  <2> QED BY <2>1, CreateUserDoes, TablesStay DEF Growing, Sound, TablesSound, history
<1>2. TablesSound'
  <2>1. TablesTyped'
    BY CreateUserDoes DEF Sound, TablesSound, TablesTyped
  <2> QED BY <1>1, <2>1, CreateUserDoes, SessionsUntouched DEF Sound
<1>3. Claim(p)'
  <2>1. Len(users') \in Nat /\ Len(users') # 0
    BY CreateUserDoes, Lengths DEF Sound, TablesSound
  <2>2. Refers(p)'
    BY <2>1, CreateUserDoes, HandlerTyped DEF Refers
  <2>3. /\ task[p].code \in 1..Len(otps) /\ task[p].code \in proved
        /\ otps[task[p].code].verified
    BY CreateUserDoes, HandlerTyped DEF Claim, LoginLabels, AfterMark
  <2>4. UNCHANGED <<otps, proved>> /\ pc'[p] = "device"
        /\ task'[p].code = task[p].code /\ task'[p].user = Len(users')
        /\ users'[Len(users')].who = otps[task[p].code].who
    BY CreateUserDoes DEF history
  <2> QED BY <2>1, <2>2, <2>3, <2>4 DEF Claim, LoginLabels, AfterMark, WithUser
<1>4. ASSUME NEW q \in Procs PROVE Claim(q)'
  <2>1. CASE q = p
    BY <1>3, <2>1
  <2>2. CASE q # p
    <3>1. pc'[q] = pc[q] /\ task'[q] = task[q]
      BY <2>2, CreateUserDoes
    <3> QED BY <1>1, <1>2, <3>1, ClaimStays DEF Sound, Claims, TablesSound
  <2> QED BY <2>1, <2>2
<1> QED BY <1>1, <1>2, <1>4, CreateUserDoes DEF Sound, Claims, HandlersTyped

LEMMA CreateRefusedSound ==
    ASSUME Sound, NEW p \in Procs, CreateRefused(p)
    PROVE  Sound' /\ Growing
<1>1. Growing /\ TablesSound'
  BY TablesUntouched DEF CreateRefused, Sound
<1> QED BY <1>1, AnswerKeeps DEF CreateRefused

LEMMA FindDeviceSound ==
    ASSUME Sound, NEW p \in Procs, FindDevice(p)
    PROVE  Sound' /\ Growing
<1> DEFINE l == IF users[User(p)].devices > 0 THEN "session" ELSE "addDevice"
<1>1. Growing /\ TablesSound' /\ UNCHANGED <<otps, users, sessions, minted, proved>>
  BY TablesUntouched DEF FindDevice, Sound, accounts
<1>2. pc[p] = "device" /\ At(p, l, task[p])
  BY DEF FindDevice, Goto
<1>3. l \in Pcs /\ l \in {"session", "addDevice"}
  BY DEF Pcs
<1> HIDE DEF l
<1>4. pc'[p] = l /\ task'[p] = task[p]
  BY <1>2, AtMoves DEF Sound
<1>5. Refers(p)'
  BY <1>1, <1>4, HandlerTyped DEF Refers
<1>6. Claim(p)'
  BY <1>1, <1>2, <1>3, <1>4, <1>5, HandlerTyped DEF Claim, LoginLabels, AfterMark, WithUser
<1> QED BY <1>1, <1>2, <1>3, <1>6, HandlerTyped, MoveKeeps

\* What AddDevice does: a device more of the user logged in.
LEMMA AddDeviceDoes ==
    ASSUME Sound, NEW p \in Procs, AddDevice(p)
    PROVE  /\ pc[p] = "addDevice" /\ task[p].user \in 1..Len(users)
           /\ users' \in Seq(Account) /\ Len(users') = Len(users)
           /\ \A u \in 1..Len(users) : u # task[p].user => users'[u] = users[u]
           /\ users'[task[p].user].who = users[task[p].user].who
           /\ users'[task[p].user].devices = users[task[p].user].devices + 1
           /\ At(p, "session", task[p]) /\ UNCHANGED <<otps, sessions, minted, history>>
<1> DEFINE u == task[p].user
           row == [users[u] EXCEPT !.devices = @ + 1]
<1>1. pc[p] = "addDevice" /\ u \in 1..Len(users)
  BY HandlerTyped DEF AddDevice, Claim, WithUser
<1>2. users[u] \in Account
  BY <1>1, AccountRow DEF Sound, TablesSound, TablesTyped
<1>3. row \in Account /\ row.who = users[u].who /\ row.devices = users[u].devices + 1
  BY <1>2 DEF Account
<1>4. users' = [users EXCEPT ![u] = row] /\ At(p, "session", task[p])
  BY DEF AddDevice, Goto, User
<1>5. users' \in Seq(Account) /\ Changes(users, users', u, row)
  BY <1>1, <1>3, <1>4, ExceptChanges DEF Sound, TablesSound, TablesTyped
<1> HIDE DEF row
<1> QED BY <1>1, <1>3, <1>4, <1>5 DEF Changes, AddDevice

LEMMA AddDeviceSound ==
    ASSUME Sound, NEW p \in Procs, AddDevice(p)
    PROVE  Sound' /\ Growing
<1>1. Growing
  <2>1. UsersGrow
    BY AddDeviceDoes, Lengths DEF UsersGrow, Sound, TablesSound
  <2> QED BY <2>1, AddDeviceDoes, TablesStay DEF Growing, Sound, TablesSound, history
<1>2. TablesSound'
  <2>1. TablesTyped'
    BY AddDeviceDoes DEF Sound, TablesSound, TablesTyped
  <2> QED BY <1>1, <2>1, AddDeviceDoes, SessionsUntouched DEF Sound
<1>3. Claim(p)'
  <2>1. pc'[p] = "session" /\ task'[p] = task[p] /\ pc[p] = "addDevice"
    BY AddDeviceDoes, AtMoves DEF Sound
  <2>2. Refers(p)' /\ UNCHANGED <<otps, proved>>
    BY <2>1, AddDeviceDoes, HandlerTyped DEF Refers, history
  <2>3. task[p].user \in 1..Len(users) /\ Len(users') = Len(users)
        /\ users'[task[p].user].who = users[task[p].user].who
    BY AddDeviceDoes
  <2> QED BY <2>1, <2>2, <2>3, HandlerTyped DEF Claim, LoginLabels, AfterMark, WithUser
<1>4. "session" \in Pcs
  BY DEF Pcs
<1> QED BY <1>1, <1>2, <1>3, <1>4, AddDeviceDoes, HandlerTyped, MoveKeeps

\* What OpenSession does: a session more, with a new token.
LEMMA OpenSessionDoes ==
    ASSUME Sound, NEW p \in Procs, OpenSession(p)
    PROVE  /\ pc[p] = "session" /\ minted' = minted + 1
           /\ sessions' \in Seq(Session) /\ Len(sessions') = Len(sessions) + 1
           /\ \A s \in 1..Len(sessions) : sessions'[s] = sessions[s]
           /\ sessions'[Len(sessions')].user = task[p].user
           /\ sessions'[Len(sessions')].code = task[p].code
           /\ sessions'[Len(sessions')].token = minted'
           /\ Answer(p) /\ UNCHANGED <<otps, users, history>>
<1> DEFINE row == [user |-> task[p].user, code |-> task[p].code, token |-> minted + 1,
                   revoked |-> FALSE]
<1>1. row \in Session
  BY HandlerTyped DEF Session, Sound, TablesSound
<1>2. sessions' = Append(sessions, row)
  BY DEF OpenSession, User, Code
<1>3. sessions' \in Seq(Session) /\ Extends(sessions, sessions', row)
  BY <1>1, <1>2, AppendExtends DEF Sound, TablesSound, TablesTyped
<1>4. sessions'[Len(sessions')] = row
  BY <1>3, Lengths DEF Extends, Sound, TablesSound
<1> QED BY <1>3, <1>4 DEF Extends, OpenSession

LEMMA OpenSessionSound ==
    ASSUME Sound, NEW p \in Procs, OpenSession(p)
    PROVE  Sound' /\ Growing
<1>1. TablesTyped' /\ minted' \in Nat /\ minted \in Nat /\ Len(sessions) \in Nat
  BY OpenSessionDoes, Lengths DEF Sound, TablesSound, TablesTyped
<1>2. \A s \in 1..Len(sessions) : sessions[s].token \in 1..minted
  BY DEF Sound, TablesSound, SessionsRefer
<1>3. \A s \in 1..Len(sessions') :
         (s \in 1..Len(sessions) /\ sessions'[s] = sessions[s])
         \/ (s = Len(sessions') /\ sessions'[s].token = minted')
  BY <1>1, OpenSessionDoes
<1>4. SessionsGrow
  BY <1>1, <1>3, OpenSessionDoes DEF SessionsGrow
<1>5. Growing
  BY <1>4, OpenSessionDoes, TablesStay DEF Growing, Sound, TablesSound, history
<1>6. TokensApart'
  <2>1. ASSUME NEW s \in 1..Len(sessions'), NEW t \in 1..Len(sessions'),
               sessions'[s].token = sessions'[t].token
        PROVE  s = t
    BY <1>1, <1>2, <1>3, <2>1, OpenSessionDoes DEF TokensApart, Sound, TablesSound
  <2> QED BY <2>1 DEF TokensApart
<1>7. ASSUME NEW s \in (Len(sessions) + 1)..Len(sessions')
      PROVE  (SessionRefers(s) /\ SessionProved(s))'
  <2>1. s = Len(sessions')
    BY <1>1, <1>7, OpenSessionDoes
  <2>2. /\ task[p].code \in 1..Len(otps) /\ task[p].code \in proved
        /\ otps[task[p].code].verified /\ task[p].user \in 1..Len(users)
        /\ users[task[p].user].who \in {otps[task[p].code].who, NoOne}
    BY OpenSessionDoes, HandlerTyped DEF Claim, LoginLabels, AfterMark, WithUser
  <2>3. /\ sessions'[s].user = task[p].user /\ sessions'[s].code = task[p].code
        /\ sessions'[s].token \in 1..minted' /\ UNCHANGED <<otps, users, proved>>
    BY <1>1, <2>1, OpenSessionDoes DEF history
  <2> QED BY <2>2, <2>3 DEF SessionRefers, SessionProved
<1>8. TablesSound'
  BY <1>1, <1>5, <1>6, <1>7, TablesKeep DEF Sound
<1> QED BY <1>5, <1>8, OpenSessionDoes, AnswerKeeps

LEMMA RefreshSound ==
    ASSUME Sound, NEW p \in Procs, NEW s \in DOMAIN sessions, Refresh(p, s)
    PROVE  Sound' /\ Growing
<1> DEFINE l == IF sessions[s].revoked THEN "purge" ELSE "rotate"
           t == [NoTask EXCEPT !.user = sessions[s].user, !.session = s,
                               !.token = sessions[s].token]
<1>1. Growing /\ TablesSound' /\ UNCHANGED <<otps, users, sessions, minted, proved>>
  BY TablesUntouched DEF Refresh, Sound, accounts
<1>2. s \in 1..Len(sessions) /\ s \in Nat
  BY Lengths DEF Sound, TablesSound
<1>3. /\ sessions[s].user \in 1..Len(users) /\ sessions[s].token \in 1..minted
      /\ sessions[s].user \in Nat /\ sessions[s].token \in Nat
      /\ \A r \in 1..Len(sessions) : sessions[r].token = sessions[s].token => r = s
  BY <1>2, Lengths DEF Sound, TablesSound, SessionsRefer, TokensApart
<1>4. /\ t \in Tasks /\ t.code = 0 /\ t.user = sessions[s].user /\ t.session = s
      /\ t.token = sessions[s].token
  BY <1>2, <1>3 DEF NoTask, Tasks
<1>5. l \in Pcs /\ l \in {"purge", "rotate"}
  BY DEF Pcs
<1>6. At(p, l, t)
  BY DEF Refresh
<1>7. pc'[p] = l /\ task'[p] = t
  BY <1>6, AtMoves DEF Sound
<1> HIDE DEF l, t
<1>8. Refers(p)'
  BY <1>1, <1>2, <1>3, <1>4, <1>7, Lengths DEF Refers, Sound, TablesSound
<1>9. Claim(p)'
  BY <1>1, <1>2, <1>3, <1>4, <1>5, <1>7, <1>8 DEF Claim, LoginLabels, AfterMark, WithUser
<1> QED BY <1>1, <1>4, <1>5, <1>6, <1>9, MoveKeeps

\* What Rotate does: the session read before gets a new token.
LEMMA RotateDoes ==
    ASSUME Sound, NEW p \in Procs, Rotate(p)
    PROVE  LET s == task[p].session
           IN  /\ pc[p] = "rotate" /\ minted' = minted + 1
               /\ s \in 1..Len(sessions) /\ task[p].token \in 1..minted
               /\ sessions' \in Seq(Session) /\ Len(sessions') = Len(sessions)
               /\ \A r \in 1..Len(sessions) : r # s => sessions'[r] = sessions[r]
               /\ sessions'[s].user = sessions[s].user
               /\ sessions'[s].code = sessions[s].code
               /\ sessions'[s].revoked = sessions[s].revoked
               /\ sessions'[s].token = minted'
               /\ exchanged' = exchanged \cup {<<task[p].token, minted'>>}
               /\ Answer(p)
               /\ UNCHANGED <<otps, users, proved, erased, overlapped, cut, faults>>
<1> DEFINE s == task[p].session
           row == [sessions[s] EXCEPT !.token = minted + 1]
<1>1. pc[p] = "rotate" /\ s \in 1..Len(sessions) /\ task[p].token \in 1..minted
  BY HandlerTyped DEF Rotate, Claim
<1>2. sessions[s] \in Session /\ minted + 1 \in Nat
  BY <1>1, SessionRow DEF Sound, TablesSound, TablesTyped
<1>3. /\ row \in Session /\ row.user = sessions[s].user /\ row.code = sessions[s].code
      /\ row.revoked = sessions[s].revoked /\ row.token = minted + 1
  BY <1>2 DEF Session
<1>4. minted' = minted + 1 /\ sessions' = [sessions EXCEPT ![s] = row]
  BY DEF Rotate
<1>5. sessions' \in Seq(Session) /\ Changes(sessions, sessions', s, row)
  BY <1>1, <1>3, <1>4, ExceptChanges DEF Sound, TablesSound, TablesTyped
<1> HIDE DEF row
<1> QED BY <1>1, <1>3, <1>4, <1>5 DEF Changes, Rotate

LEMMA RotateSound ==
    ASSUME Sound, NEW p \in Procs, Rotate(p)
    PROVE  Sound' /\ Growing
<1>1. TablesTyped' /\ minted' \in Nat /\ minted \in Nat /\ Len(sessions) \in Nat
  BY RotateDoes, Lengths DEF Sound, TablesSound, TablesTyped
<1>2. \A s \in 1..Len(sessions) : sessions[s].token \in 1..minted
  BY DEF Sound, TablesSound, SessionsRefer
<1>3. \A s \in 1..Len(sessions) :
         IF s = task[p].session THEN sessions'[s].token = minted'
                                ELSE sessions'[s].token = sessions[s].token
  BY RotateDoes
<1>4. SessionsGrow
  BY <1>1, <1>3, RotateDoes DEF SessionsGrow
<1>5. Growing
  BY <1>4, RotateDoes, TablesStay DEF Growing, Sound, TablesSound
<1>6. TokensApart'
  <2>1. ASSUME NEW s \in 1..Len(sessions), NEW t \in 1..Len(sessions),
               sessions'[s].token = sessions'[t].token
        PROVE  s = t
    BY <1>1, <1>2, <1>3, <2>1, RotateDoes DEF TokensApart, Sound, TablesSound
  <2> QED BY <2>1, RotateDoes DEF TokensApart
<1>7. \A s \in (Len(sessions) + 1)..Len(sessions') : FALSE
  BY <1>1, RotateDoes
<1>8. TablesSound'
  BY <1>1, <1>5, <1>6, <1>7, TablesKeep DEF Sound
<1> QED BY <1>5, <1>8, RotateDoes, AnswerKeeps

\* What RevokeAll does: it changes nothing but revoked_at, of one user's sessions.
LEMMA RevokeAllDoes ==
    ASSUME TablesTyped, NEW u, RevokeAll(u)
    PROVE  /\ SameSessions /\ sessions' \in Seq(Session)
           /\ \A s \in 1..Len(sessions) :
                 IF sessions[s].user = u THEN sessions'[s].revoked
                                         ELSE sessions'[s] = sessions[s]
<1> DEFINE row(s) == IF sessions[s].user = u THEN [sessions[s] EXCEPT !.revoked = TRUE]
                                             ELSE sessions[s]
<1>1. Len(sessions) \in Nat /\ DOMAIN sessions = 1..Len(sessions)
  BY Lengths
<1>2. ASSUME NEW s \in 1..Len(sessions)
      PROVE  /\ row(s) \in Session /\ row(s).user = sessions[s].user
             /\ row(s).code = sessions[s].code /\ row(s).token = sessions[s].token
             /\ sessions[s].revoked => row(s).revoked
             /\ IF sessions[s].user = u THEN row(s).revoked ELSE row(s) = sessions[s]
  <2>1. sessions[s] \in Session
    BY SessionRow DEF TablesTyped
  <2> QED BY <2>1 DEF Session
<1>3. sessions' = [s \in 1..Len(sessions) |-> row(s)]
  BY <1>1 DEF RevokeAll
<1> HIDE DEF row
<1>4. /\ Len(sessions') = Len(sessions) /\ sessions' \in Seq(Session)
      /\ \A s \in 1..Len(sessions) : sessions'[s] = row(s)
  BY <1>1, <1>2, <1>3
<1> QED BY <1>2, <1>4 DEF SameSessions

LEMMA PurgeSound ==
    ASSUME Sound, NEW p \in Procs, Purge(p)
    PROVE  Sound' /\ Growing
<1>1. UNCHANGED <<otps, users, minted, proved>> /\ RevokeAll(User(p)) /\ Answer(p)
  BY DEF Purge, history
<1>2. TablesTyped' /\ SameSessions
  BY <1>1, RevokeAllDoes DEF Sound, TablesSound, TablesTyped
<1> QED BY <1>1, <1>2, SameSessionsKeep, AnswerKeeps DEF Sound

LEMMA LogoutDoes ==
    ASSUME Sound, NEW s \in DOMAIN sessions, Logout(s)
    PROVE  /\ SameSessions /\ sessions' \in Seq(Session)
           /\ UNCHANGED <<otps, users, minted, pc, task, history>>
<1> DEFINE row == [sessions[s] EXCEPT !.revoked = TRUE]
<1>1. s \in 1..Len(sessions)
  BY Lengths DEF Sound, TablesSound
<1>2. sessions[s] \in Session
  BY <1>1, SessionRow DEF Sound, TablesSound, TablesTyped
<1>3. /\ row \in Session /\ row.user = sessions[s].user /\ row.code = sessions[s].code
      /\ row.token = sessions[s].token /\ row.revoked
  BY <1>2 DEF Session
<1>4. sessions' = [sessions EXCEPT ![s] = row]
  BY DEF Logout
<1>5. sessions' \in Seq(Session) /\ Changes(sessions, sessions', s, row)
  BY <1>1, <1>3, <1>4, ExceptChanges DEF Sound, TablesSound, TablesTyped
<1> HIDE DEF row
<1>6. SameSessions
  BY <1>1, <1>3, <1>5 DEF Changes, SameSessions
<1> QED BY <1>5, <1>6 DEF Logout

LEMMA LogoutSound ==
    ASSUME Sound, NEW s \in DOMAIN sessions, Logout(s)
    PROVE  Sound' /\ Growing
<1>1. TablesTyped' /\ UNCHANGED <<otps, users, minted, proved, pc, task>>
  BY LogoutDoes DEF Sound, TablesSound, TablesTyped, history
<1> QED BY <1>1, LogoutDoes, SameSessionsKeep, HandlersStay DEF Sound

\* What Delete does: the user's row loses the identifier.
LEMMA DeleteDoes ==
    ASSUME Sound, NEW p \in Procs, NEW u \in Uids, Delete(p, u)
    PROVE  /\ pc[p] = "idle" /\ u \in 1..Len(users)
           /\ users' \in Seq(Account) /\ Len(users') = Len(users)
           /\ \A v \in 1..Len(users) : v # u => users'[v] = users[v]
           /\ users'[u].who = NoOne /\ users'[u].devices = users[u].devices
           /\ At(p, "revoke", [NoTask EXCEPT !.user = u])
           /\ [NoTask EXCEPT !.user = u] = [code |-> 0, user |-> u, session |-> 0, token |-> 0]
           /\ [NoTask EXCEPT !.user = u] \in Tasks
           /\ UNCHANGED <<otps, sessions, minted, history>>
<1> DEFINE row == [users[u] EXCEPT !.who = NoOne]
<1>1. u \in 1..Len(users) /\ u \in Nat
  BY Lengths DEF Sound, TablesSound
<1>2. users[u] \in Account
  BY <1>1, AccountRow DEF Sound, TablesSound, TablesTyped
<1>3. row \in Account /\ row.who = NoOne /\ row.devices = users[u].devices
  BY <1>2 DEF Account
<1>4. users' = [users EXCEPT ![u] = row]
  BY DEF Delete, Scrubbed
<1>5. users' \in Seq(Account) /\ Changes(users, users', u, row)
  BY <1>1, <1>3, <1>4, ExceptChanges DEF Sound, TablesSound, TablesTyped
<1>6. /\ [NoTask EXCEPT !.user = u] = [code |-> 0, user |-> u, session |-> 0, token |-> 0]
      /\ [NoTask EXCEPT !.user = u] \in Tasks
  BY <1>1 DEF NoTask, Tasks
<1> HIDE DEF row
<1> QED BY <1>1, <1>3, <1>5, <1>6 DEF Changes, Delete

LEMMA DeleteSound ==
    ASSUME Sound, NEW p \in Procs, NEW u \in Uids, Delete(p, u)
    PROVE  Sound' /\ Growing
<1>1. Growing
  <2>1. /\ Len(users') = Len(users) /\ users'[u].who = NoOne
        /\ \A v \in 1..Len(users) : v # u => users'[v] = users[v]
    BY DeleteDoes
  <2>2. UsersGrow
    BY <2>1, Lengths DEF UsersGrow, Sound, TablesSound
  <2> QED BY <2>2, DeleteDoes, TablesStay DEF Growing, Sound, TablesSound, history
<1>2. TablesSound'
  <2>1. TablesTyped'
    BY DeleteDoes DEF Sound, TablesSound, TablesTyped
  <2> QED BY <1>1, <2>1, DeleteDoes, SessionsUntouched DEF Sound
<1> DEFINE t == [NoTask EXCEPT !.user = u]
<1>3. At(p, "revoke", t) /\ t \in Tasks
      /\ t.code = 0 /\ t.user = u /\ t.session = 0 /\ t.token = 0
  BY DeleteDoes
<1>4. u \in 1..Len(users') /\ users'[u].who = NoOne /\ UNCHANGED <<otps, sessions, minted>>
  BY DeleteDoes
<1> HIDE DEF t
<1>5. pc'[p] = "revoke" /\ task'[p] = t
  BY <1>3, AtMoves DEF Sound
<1>6. Refers(p)'
  BY <1>2, <1>3, <1>4, <1>5, Rows DEF Refers, TablesSound, TablesTyped
<1>7. Claim(p)'
  BY <1>3, <1>4, <1>5, <1>6 DEF Claim, LoginLabels, AfterMark, WithUser
<1>8. "revoke" \in Pcs
  BY DEF Pcs
<1> QED BY <1>1, <1>2, <1>3, <1>7, <1>8, MoveKeeps

LEMMA RevokeSound ==
    ASSUME Sound, NEW p \in Procs, Revoke(p)
    PROVE  Sound' /\ Growing
<1>1. /\ pc[p] = "revoke" /\ UNCHANGED <<otps, users, minted, proved>>
      /\ RevokeAll(User(p)) /\ At(p, "leave", task[p])
  BY DEF Revoke, Goto
<1>2. TablesTyped' /\ SameSessions
  BY <1>1, RevokeAllDoes DEF Sound, TablesSound, TablesTyped
<1>3. Growing /\ TablesSound'
  BY <1>1, <1>2, SameSessionsKeep DEF Sound
<1>4. pc'[p] = "leave" /\ task'[p] = task[p]
  BY <1>1, AtMoves DEF Sound
<1>5. Refers(p)'
  BY <1>1, <1>2, <1>4, HandlerTyped DEF Refers, SameSessions
<1>6. Claim(p)'
  BY <1>1, <1>4, <1>5, HandlerTyped DEF Claim, LoginLabels, AfterMark, WithUser
<1>7. "leave" \in Pcs
  BY DEF Pcs
<1> QED BY <1>1, <1>3, <1>6, <1>7, HandlerTyped, MoveKeeps

LEMMA LeaveSound ==
    ASSUME Sound, NEW p \in Procs, Leave(p)
    PROVE  Sound' /\ Growing
<1>1. Growing /\ TablesSound'
  BY TablesUntouched DEF Leave, Sound
<1> QED BY <1>1, AnswerKeeps DEF Leave

-----------------------------------------------------------------------------
\* The actions of a request that is under way.
Goes(p) ==
    \/ Count(p) \/ Mark(p) \/ FindUser(p) \/ CreateUser(p) \/ CreateRefused(p)
    \/ FindDevice(p) \/ AddDevice(p) \/ OpenSession(p)
    \/ Rotate(p) \/ Purge(p) \/ Revoke(p) \/ Leave(p) \/ QueryFails(p)

LEMMA InitSound == Init => Sound
<1> SUFFICES ASSUME Init PROVE Sound
  OBVIOUS
<1>1. TablesTyped /\ Len(otps) = 0 /\ Len(users) = 0 /\ Len(sessions) = 0 /\ minted = 0
  BY DEF Init, TablesTyped
<1>2. TablesSound
  BY <1>1 DEF TablesSound, SessionsRefer, TokensApart, SessionsProved
<1>3. HandlersTyped
  BY NoTaskTyped DEF Init, HandlersTyped
<1>4. ASSUME NEW p \in Procs PROVE Claim(p)
  <2>1. pc[p] = "idle" /\ task[p] = NoTask
    BY DEF Init
  <2>2. Refers(p)
    BY <1>1, <2>1 DEF Refers, NoTask
  <2> QED BY <2>1, <2>2 DEF Claim, LoginLabels, AfterMark, WithUser
<1> QED BY <1>2, <1>3, <1>4 DEF Sound, Claims

LEMMA GoesSound ==
    ASSUME Sound, NEW p \in Procs, Goes(p)
    PROVE  Sound' /\ Growing
<1>1. QueryFails(p) => Sound' /\ Growing
  <2>1. {p} \in SUBSET Procs
    OBVIOUS
  <2> QED BY <2>1, BreakOffKeeps DEF QueryFails
<1> QED BY <1>1, CountSound, MarkSound, FindUserSound, CreateUserSound, CreateRefusedSound,
           FindDeviceSound, AddDeviceSound, OpenSessionSound, RotateSound, PurgeSound,
           RevokeSound, LeaveSound DEF Goes

LEMMA NextCases ==
    ASSUME [Next]_vars
    PROVE  \/ \E who \in Identifiers : StartOtp(who)
           \/ \E p \in Procs, c \in Codes, right \in BOOLEAN : Verify(p, c, right)
           \/ \E p \in Procs : Goes(p)
           \/ \E p \in Procs, s \in DOMAIN sessions : Refresh(p, s)
           \/ \E p \in Procs, u \in Uids : Delete(p, u)
           \/ \E s \in DOMAIN sessions : Logout(s)
           \/ Crash
           \/ UNCHANGED vars
  BY DEF Next, Goes, VerifyRefused

LEMMA NextSound == Sound /\ [Next]_vars => Sound' /\ Growing
<1> SUFFICES ASSUME Sound, [Next]_vars PROVE Sound' /\ Growing
  OBVIOUS
<1>1. CASE UNCHANGED vars
  <2>1. UNCHANGED accounts /\ UNCHANGED <<pc, task, proved>>
    BY <1>1 DEF vars, history
  <2>2. Growing /\ TablesSound'
    BY <2>1, TablesUntouched DEF Sound
  <2> QED BY <2>1, <2>2, HandlersStay
<1>2. CASE Crash
  <2>1. Procs \in SUBSET Procs
    OBVIOUS
  <2> QED BY <1>2, <2>1, BreakOffKeeps DEF Crash
<1> QED BY <1>1, <1>2, NextCases, StartOtpSound, VerifySound, GoesSound, RefreshSound,
           DeleteSound, LogoutSound

-----------------------------------------------------------------------------
(* How a request under way goes on: it stands still, or ends, or takes a   *)
(* step of the login with the same code, of which the later ones keep the  *)
(* user, or a step of the deletion.                                        *)
Flows(q) ==
    \/ pc'[q] = pc[q] /\ task'[q] = task[q]
    \/ pc'[q] = "idle" /\ task'[q] = NoTask
    \/ /\ pc'[q] \in AfterMark /\ pc[q] \in {"mark", "find", "create", "device", "addDevice"}
       /\ task'[q].code = task[q].code
       /\ pc'[q] = "device" => pc[q] \in {"find", "create"}
       /\ pc'[q] \in {"addDevice", "session"} =>
             pc[q] \in {"device", "addDevice"} /\ task'[q].user = task[q].user
    \/ pc'[q] = "leave" /\ pc[q] = "revoke" /\ task'[q] = task[q]

LEMMA AtFlows ==
    ASSUME Sound, NEW p \in Procs, NEW l, NEW t, At(p, l, t),
           pc'[p] = l /\ task'[p] = t => Flows(p)
    PROVE  \A q \in Procs : Flows(q)
  BY AtMoves DEF Sound, Flows

LEMMA BreakOffFlows ==
    ASSUME NEW S \in SUBSET Procs, BreakOff(S)
    PROVE  \A q \in Procs : Flows(q)
<1>1. \A q \in Procs : IF q \in S THEN pc'[q] = "idle" /\ task'[q] = NoTask
                                  ELSE pc'[q] = pc[q] /\ task'[q] = task[q]
  BY DEF BreakOff
<1> QED BY <1>1 DEF Flows

LEMMA GoesFlows ==
    ASSUME Sound, NEW p \in Procs, Goes(p)
    PROVE  \A q \in Procs : Flows(q)
<1>1. CASE Answer(p)
  <2>1. At(p, "idle", NoTask)
    BY <1>1 DEF Answer
  <2> QED BY <2>1, AtFlows DEF Flows
<1>2. CASE Mark(p)
  <2>1. At(p, "find", task[p]) /\ pc[p] = "mark"
    BY <1>2 DEF Mark, Goto
  <2> QED BY <2>1, AtFlows DEF Flows, AfterMark
<1>3. CASE FindUser(p)
  <2>1. CASE Goto(p, "create")
    <3>1. At(p, "create", task[p]) /\ pc[p] = "find"
      BY <1>3, <2>1 DEF FindUser, Goto
    <3> QED BY <3>1, AtFlows DEF Flows, AfterMark
  <2>2. ASSUME NEW u, At(p, "device", [task[p] EXCEPT !.user = u])
        PROVE  \A q \in Procs : Flows(q)
    <3>1. pc[p] = "find" /\ [task[p] EXCEPT !.user = u].code = task[p].code
      BY <1>3, HandlerTyped DEF FindUser, Tasks
    <3> QED BY <2>2, <3>1, AtFlows DEF Flows, AfterMark
  <2> QED BY <1>3, <2>1, <2>2 DEF FindUser
<1>4. CASE CreateUser(p)
  <2>1. Flows(p)
    BY <1>4, CreateUserDoes DEF Flows, AfterMark
  <2>2. \A q \in Procs \ {p} : Flows(q)
    BY <1>4, CreateUserDoes DEF Flows
  <2> QED BY <2>1, <2>2
<1>5. CASE FindDevice(p)
  <2>1. ASSUME NEW l \in {"session", "addDevice"}, Goto(p, l)
        PROVE  \A q \in Procs : Flows(q)
    <3>1. At(p, l, task[p]) /\ pc[p] = "device"
      BY <1>5, <2>1 DEF FindDevice, Goto
    <3> QED BY <3>1, AtFlows DEF Flows, AfterMark
  <2> QED BY <1>5, <2>1 DEF FindDevice
<1>6. CASE AddDevice(p)
  <2>1. At(p, "session", task[p]) /\ pc[p] = "addDevice"
    BY <1>6 DEF AddDevice, Goto
  <2> QED BY <2>1, AtFlows DEF Flows, AfterMark
<1>7. CASE Revoke(p)
  <2>1. At(p, "leave", task[p]) /\ pc[p] = "revoke"
    BY <1>7 DEF Revoke, Goto
  <2> QED BY <2>1, AtFlows DEF Flows, AfterMark
<1>8. CASE QueryFails(p)
  <2>1. {p} \in SUBSET Procs
    OBVIOUS
  <2> QED BY <1>8, <2>1, BreakOffFlows DEF QueryFails
<1> QED BY <1>1, <1>2, <1>3, <1>4, <1>5, <1>6, <1>7, <1>8
        DEF Goes, Count, CreateRefused, OpenSession, Rotate, Purge, Leave

-----------------------------------------------------------------------------
\* Histories only grow, and speak of rows that are there.
HistoryGrows ==
    /\ proved \subseteq proved' /\ exchanged \subseteq exchanged' /\ erased \subseteq erased'
    /\ overlapped \subseteq overlapped' /\ cut \subseteq cut'

LEMMA GoesHistory ==
    ASSUME Sound, NEW p \in Procs, Goes(p)
    PROVE  HistoryGrows
<1>1. Count(p) \/ Mark(p) \/ FindUser(p) \/ CreateUser(p) \/ AddDevice(p) \/ OpenSession(p)
         \/ Purge(p) => HistoryGrows
  BY DEF Count, Mark, FindUser, CreateUser, AddDevice, OpenSession, Purge, history, HistoryGrows
<1>2. CreateRefused(p) \/ FindDevice(p) \/ Rotate(p) \/ Revoke(p) \/ Leave(p) \/ QueryFails(p)
         => HistoryGrows
  BY DEF CreateRefused, FindDevice, Rotate, Revoke, Leave, QueryFails, BreakOff, Meets, HistoryGrows
<1> QED BY <1>1, <1>2 DEF Goes

LEMMA NextHistory == Sound /\ [Next]_vars => HistoryGrows
<1> SUFFICES ASSUME Sound, [Next]_vars PROVE HistoryGrows
  OBVIOUS
<1>1. ASSUME NEW who \in Identifiers, StartOtp(who) PROVE HistoryGrows
  BY <1>1 DEF StartOtp, history, HistoryGrows
<1>2. ASSUME NEW p \in Procs, NEW c \in Codes, NEW right \in BOOLEAN, Verify(p, c, right)
      PROVE  HistoryGrows
  BY <1>2 DEF Verify, Meets, HistoryGrows
<1>3. ASSUME NEW p \in Procs, NEW s \in DOMAIN sessions, Refresh(p, s) PROVE HistoryGrows
  BY <1>3 DEF Refresh, Meets, HistoryGrows
<1>4. ASSUME NEW p \in Procs, NEW u \in Uids, Delete(p, u) PROVE HistoryGrows
  BY <1>4 DEF Delete, history, HistoryGrows
<1>5. ASSUME NEW s \in DOMAIN sessions, Logout(s) PROVE HistoryGrows
  BY <1>5 DEF Logout, history, HistoryGrows
<1>6. CASE Crash \/ UNCHANGED vars
  BY <1>6 DEF Crash, BreakOff, vars, history, HistoryGrows
<1> QED BY <1>1, <1>2, <1>3, <1>4, <1>5, <1>6, NextCases, GoesHistory

LEMMA NamesGrow ==
    ASSUME Sound, Sound', Growing
    PROVE  Codes \subseteq Codes' /\ Uids \subseteq Uids' /\ Tokens \subseteq Tokens'
           /\ Codes \subseteq Nat /\ Uids \subseteq Nat /\ Tokens \subseteq Nat
<1>1. /\ Codes = 1..Len(otps) /\ Uids = 1..Len(users) /\ Len(otps) \in Nat /\ Len(users) \in Nat
      /\ minted \in Nat
  BY Lengths DEF Sound, TablesSound
<1>2. /\ Codes' = 1..Len(otps') /\ Uids' = 1..Len(users') /\ minted' \in Nat
      /\ Len(otps') \in Nat /\ Len(users') \in Nat
  BY Rows DEF Sound, TablesSound, TablesTyped, Codes, Uids
<1>3. Len(otps) <= Len(otps') /\ Len(users) <= Len(users') /\ minted <= minted'
  BY DEF Growing, OtpsGrow, UsersGrow, SessionsGrow
<1> QED BY <1>1, <1>2, <1>3 DEF Tokens

LEMMA MeetsTyped ==
    ASSUME overlapped \subseteq {"code", "token", "device", "erase"} \X Nat,
           NEW p, NEW labels, NEW field, NEW value \in Nat,
           NEW what \in {"code", "token", "device", "erase"},
           Meets(p, labels, field, value, what)
    PROVE  overlapped' \subseteq {"code", "token", "device", "erase"} \X Nat
<1> DEFINE S == {r \in Procs \ {p} : pc[r] \in labels /\ task[r][field] = value}
<1>1. {<<what, value>> : q \in S} \subseteq {<<what, value>>}
  OBVIOUS
<1>2. overlapped' = overlapped \cup {<<what, value>> : q \in S}
  BY DEF Meets
<1> QED BY <1>1, <1>2

LEMMA NextHistoryTyped == Sound /\ HistoryTyped /\ [Next]_vars => HistoryTyped'
<1> SUFFICES ASSUME Sound, HistoryTyped, [Next]_vars PROVE HistoryTyped'
  OBVIOUS
<1>0. Sound' /\ Growing
  BY NextSound
<1>names. /\ Codes \subseteq Codes' /\ Uids \subseteq Uids' /\ Tokens \subseteq Tokens'
      /\ Codes \subseteq Nat /\ Uids \subseteq Nat /\ Tokens \subseteq Nat
  BY <1>0, NamesGrow
<1>code. ASSUME NEW p \in Procs, pc[p] \in LoginLabels
      PROVE  task[p].code \in Codes
  BY <1>code, HandlerTyped, Lengths DEF Claim, Sound, TablesSound
<1>stay. UNCHANGED history => HistoryTyped'
  BY <1>names DEF HistoryTyped, history
<1>1. ASSUME NEW who \in Identifiers, StartOtp(who) PROVE HistoryTyped'
  BY <1>1, <1>stay DEF StartOtp
<1>2. ASSUME NEW p \in Procs, NEW c \in Codes, NEW right \in BOOLEAN, Verify(p, c, right)
      PROVE  HistoryTyped'
  BY <1>2, <1>names DEF Verify, Meets, HistoryTyped
<1>3. ASSUME NEW p \in Procs, NEW s \in DOMAIN sessions, Refresh(p, s) PROVE HistoryTyped'
  <2>1. sessions[s].token \in Nat
    BY Lengths, SessionRow DEF Sound, TablesSound, TablesTyped
  <2> QED BY <1>3, <1>names, <2>1 DEF Refresh, Meets, HistoryTyped
<1>4. ASSUME NEW p \in Procs, Count(p) \/ Mark(p) \/ FindUser(p) \/ CreateUser(p)
                              \/ AddDevice(p) \/ OpenSession(p) \/ Purge(p)
      PROVE  HistoryTyped'
  BY <1>4, <1>stay DEF Count, Mark, FindUser, CreateUser, AddDevice, OpenSession, Purge
<1>5. ASSUME NEW p \in Procs, CreateRefused(p) PROVE HistoryTyped'
  <2>1. task[p].code \in Codes
    BY <1>5, <1>code DEF CreateRefused, LoginLabels
  <2> QED BY <1>5, <1>names, <2>1 DEF CreateRefused, HistoryTyped, Code
<1>6. ASSUME NEW p \in Procs, FindDevice(p) PROVE HistoryTyped'
  <2>1. User(p) \in Nat
    BY HandlerTyped DEF User
  <2>2. Meets(p, {"addDevice"}, "user", User(p), "device")
        /\ UNCHANGED <<proved, exchanged, erased, cut, faults>>
    BY <1>6 DEF FindDevice
  <2>3. overlapped' \subseteq {"code", "token", "device", "erase"} \X Nat
    BY <2>1, <2>2, MeetsTyped DEF HistoryTyped
  <2> QED BY <1>names, <2>2, <2>3 DEF HistoryTyped
<1>7. ASSUME NEW p \in Procs, Rotate(p) PROVE HistoryTyped'
  <2>1. task[p].token \in Tokens' /\ minted' \in Tokens'
    BY <1>7, <1>names, RotateDoes DEF Tokens, Sound, TablesSound
  <2> QED BY <1>7, <1>names, <2>1 DEF Rotate, HistoryTyped
<1>8. ASSUME NEW p \in Procs, Revoke(p) PROVE HistoryTyped'
  <2>1. User(p) \in Nat
    BY HandlerTyped DEF User
  <2>2. Meets(p, {"device", "addDevice", "session"}, "user", User(p), "erase")
        /\ UNCHANGED <<proved, exchanged, erased, cut, faults>>
    BY <1>8 DEF Revoke
  <2>3. overlapped' \subseteq {"code", "token", "device", "erase"} \X Nat
    BY <2>1, <2>2, MeetsTyped DEF HistoryTyped
  <2> QED BY <1>names, <2>2, <2>3 DEF HistoryTyped
<1>9. ASSUME NEW p \in Procs, Leave(p) PROVE HistoryTyped'
  <2>1. task[p].user \in Uids
    BY <1>9, HandlerTyped, Lengths DEF Leave, Claim, Sound, TablesSound
  <2> QED BY <1>9, <1>names, <2>1 DEF Leave, HistoryTyped, User
<1>10. ASSUME NEW S \in SUBSET Procs, BreakOff(S) PROVE HistoryTyped'
  <2>1. ASSUME NEW q \in S, Code(q) # 0 PROVE Code(q) \in Codes
    BY <2>1, HandlerTyped, Lengths DEF Code, Refers, Sound, TablesSound
  <2>2. cut' \subseteq Codes'
    BY <1>10, <1>names, <2>1 DEF BreakOff, HistoryTyped
  <2>3. faults' \in 0..MaxFaults
    BY <1>10, AuthAssumption DEF BreakOff, HistoryTyped
  <2> QED BY <1>10, <1>names, <2>2, <2>3 DEF BreakOff, HistoryTyped
<1>11. ASSUME NEW p \in Procs, QueryFails(p) PROVE HistoryTyped'
  <2>1. {p} \in SUBSET Procs
    OBVIOUS
  <2> QED BY <1>10, <1>11, <2>1 DEF QueryFails
<1>12. ASSUME NEW p \in Procs, NEW u \in Uids, Delete(p, u) PROVE HistoryTyped'
  BY <1>12, <1>stay DEF Delete
<1>13. ASSUME NEW s \in DOMAIN sessions, Logout(s) PROVE HistoryTyped'
  BY <1>13, <1>stay DEF Logout
<1>14. CASE Crash
  <2>1. Procs \in SUBSET Procs
    OBVIOUS
  <2> QED BY <1>10, <1>14, <2>1 DEF Crash
<1>15. CASE UNCHANGED vars
  BY <1>15, <1>stay DEF vars
<1>16. ASSUME NEW p \in Procs, Goes(p) PROVE HistoryTyped'
  BY <1>16, <1>4, <1>5, <1>6, <1>7, <1>8, <1>9, <1>11 DEF Goes
<1> QED BY <1>1, <1>2, <1>3, <1>12, <1>13, <1>14, <1>15, <1>16, NextCases

-----------------------------------------------------------------------------
\* The bound on tokens: every request that may yet need one has it.
Minting == {p \in Procs : pc[p] \in LoginLabels \cup {"rotate", "purge"}}

RoomLeft == minted \in Nat /\ minted + Cardinality(Minting) <= MaxTokens

LEMMA SomeProcs ==
    ASSUME NEW S, S \subseteq Procs
    PROVE  IsFiniteSet(S) /\ Cardinality(S) \in Nat /\ Cardinality(S) <= Cardinality(Procs)
  BY AuthAssumption, FS_Subset, FS_CardinalityType

LEMMA MintingShrinks ==
    ASSUME RoomLeft, minted' = minted, Minting' \subseteq Minting
    PROVE  RoomLeft'
<1>1. Minting \subseteq Procs
  BY DEF Minting
<1>2. /\ Cardinality(Minting') \in Nat /\ Cardinality(Minting) \in Nat
      /\ Cardinality(Minting') <= Cardinality(Minting)
  BY <1>1, SomeProcs, FS_Subset, FS_CardinalityType
<1> HIDE DEF Minting
<1> QED BY <1>2, AuthAssumption DEF RoomLeft

LEMMA MintingGrows ==
    ASSUME RoomLeft, Room, NEW p \in Procs, pc[p] = "idle", minted' = minted,
           Minting' \subseteq Minting \cup {p}
    PROVE  RoomLeft'
<1> DEFINE busy == {q \in Procs : pc[q] # "idle"}
<1>1. busy \cup {p} \subseteq Procs /\ Minting \subseteq busy /\ p \notin busy
  BY DEF Minting, LoginLabels
<1>2. Cardinality(busy \cup {p}) = Cardinality(busy) + 1 /\ Cardinality(busy) \in Nat
  BY <1>1, SomeProcs, FS_AddElement
<1>3. IsFiniteSet(busy \cup {p}) /\ Minting' \subseteq busy \cup {p}
  BY <1>1, SomeProcs
<1>4. Cardinality(Minting') <= Cardinality(busy) + 1 /\ Cardinality(Minting') \in Nat
  BY <1>2, <1>3, FS_Subset, FS_CardinalityType
<1>5. minted + Cardinality(busy) < MaxTokens
  BY DEF Room
<1> HIDE DEF busy, Minting
<1> QED BY <1>2, <1>4, <1>5, AuthAssumption DEF RoomLeft

LEMMA MintingUsed ==
    ASSUME RoomLeft, NEW p \in Minting, minted' = minted + 1, Minting' \subseteq Minting \ {p}
    PROVE  RoomLeft'
<1>1. Minting \subseteq Procs
  BY DEF Minting
<1>2. /\ IsFiniteSet(Minting \ {p}) /\ Cardinality(Minting \ {p}) = Cardinality(Minting) - 1
      /\ Cardinality(Minting) \in Nat
  BY <1>1, SomeProcs, FS_RemoveElement
<1>3. Cardinality(Minting') \in Nat /\ Cardinality(Minting') <= Cardinality(Minting) - 1
  BY <1>2, FS_Subset, FS_CardinalityType
<1> HIDE DEF Minting
<1> QED BY <1>2, <1>3, AuthAssumption DEF RoomLeft

LEMMA FlowsMinting ==
    ASSUME \A q \in Procs : Flows(q)
    PROVE  Minting' \subseteq Minting
  BY DEF Flows, Minting, LoginLabels, AfterMark

\* What an action does to the handlers if it starts one.
LEMMA Begins ==
    ASSUME Sound, NEW p \in Procs, NEW l, NEW t, At(p, l, t)
    PROVE  Minting' \subseteq Minting \cup {p}
  BY AtMoves DEF Minting, Sound

LEMMA NextRoom == Sound /\ RoomLeft /\ [Next]_vars => RoomLeft'
<1> SUFFICES ASSUME Sound, RoomLeft, [Next]_vars PROVE RoomLeft'
  OBVIOUS
<1>1. ASSUME NEW who \in Identifiers, StartOtp(who) PROVE RoomLeft'
  <2>1. minted' = minted /\ Minting' = Minting
    BY <1>1 DEF StartOtp, Minting
  <2> QED BY <2>1, MintingShrinks
<1>2. ASSUME NEW p \in Procs, NEW c \in Codes, NEW right \in BOOLEAN, Verify(p, c, right)
      PROVE  RoomLeft'
  <2>1. pc[p] = "idle" /\ Room /\ minted' = minted
    BY <1>2 DEF Verify, accounts
  <2>2. Minting' \subseteq Minting \cup {p}
    BY <1>2, Begins DEF Verify
  <2> QED BY <2>1, <2>2, MintingGrows
<1>3. ASSUME NEW p \in Procs, NEW s \in DOMAIN sessions, Refresh(p, s) PROVE RoomLeft'
  <2>1. pc[p] = "idle" /\ Room /\ minted' = minted
    BY <1>3 DEF Refresh, accounts
  <2>2. Minting' \subseteq Minting \cup {p}
    BY <1>3, Begins DEF Refresh
  <2> QED BY <2>1, <2>2, MintingGrows
<1>4. ASSUME NEW p \in Procs, OpenSession(p) \/ Rotate(p) PROVE RoomLeft'
  <2>1. p \in Minting /\ minted' = minted + 1 /\ At(p, "idle", NoTask)
    BY <1>4 DEF OpenSession, Rotate, Minting, LoginLabels, Answer
  <2>2. Minting' \subseteq Minting \ {p}
    BY <2>1, AtMoves DEF Minting, LoginLabels, Sound
  <2> QED BY <2>1, <2>2, MintingUsed
<1>5. ASSUME NEW p \in Procs, Goes(p), ~ OpenSession(p), ~ Rotate(p) PROVE RoomLeft'
  <2>1. minted' = minted
    BY <1>5 DEF Goes, Count, Mark, FindUser, CreateUser, CreateRefused, FindDevice, AddDevice,
                Purge, Revoke, Leave, QueryFails, BreakOff, accounts
  <2> QED BY <1>5, <2>1, GoesFlows, FlowsMinting, MintingShrinks
<1>6. ASSUME NEW p \in Procs, NEW u \in Uids, Delete(p, u) PROVE RoomLeft'
  <2>1. minted' = minted /\ pc'[p] = "revoke" /\ \A q \in Procs \ {p} : pc'[q] = pc[q]
    BY <1>6, AtMoves DEF Delete, Sound
  <2>2. Minting' \subseteq Minting
    BY <2>1 DEF Minting, LoginLabels
  <2> QED BY <2>1, <2>2, MintingShrinks
<1>7. ASSUME NEW s \in DOMAIN sessions, Logout(s) PROVE RoomLeft'
  <2>1. minted' = minted /\ Minting' = Minting
    BY <1>7 DEF Logout, Minting
  <2> QED BY <2>1, MintingShrinks
<1>8. CASE Crash
  <2>1. minted' = minted /\ Procs \in SUBSET Procs
    BY <1>8 DEF Crash, BreakOff, accounts
  <2> QED BY <1>8, <2>1, BreakOffFlows, FlowsMinting, MintingShrinks DEF Crash
<1>9. CASE UNCHANGED vars
  <2>1. minted' = minted /\ Minting' = Minting
    BY <1>9 DEF vars, accounts, Minting
  <2> QED BY <2>1, MintingShrinks
<1> QED BY <1>1, <1>2, <1>3, <1>4, <1>5, <1>6, <1>7, <1>8, <1>9, NextCases

-----------------------------------------------------------------------------
(* The counter, with the guesses that are not counted yet: a request that  *)
(* has seen room in the counter has a place above the other requests.      *)
Counting(c) == {p \in Procs : pc[p] = "count" /\ task[p].code = c}

GuessFits(c) ==
    otps[c].attempts + Cardinality(Counting(c)) <= MaxAttempts + Cardinality(Procs) - 1

GuessesFit == \A c \in 1..Len(otps) : GuessFits(c)

LEMMA CountingCounts ==
    ASSUME NEW c
    PROVE  /\ Cardinality(Counting(c)) \in Nat /\ Cardinality(Procs) \in Nat
           /\ Cardinality(Counting(c)) <= Cardinality(Procs)
  BY SomeProcs DEF Counting

LEMMA GuessesStay ==
    ASSUME Sound, GuessesFit, Len(otps') = Len(otps),
           \A c \in 1..Len(otps) : otps'[c].attempts = otps[c].attempts,
           \A q \in Procs : pc'[q] = "count" => pc[q] = "count" /\ task'[q] = task[q]
    PROVE  GuessesFit'
<1>1. ASSUME NEW c \in 1..Len(otps) PROVE GuessFits(c)'
  <2>1. Counting(c)' \subseteq Counting(c) /\ Counting(c) \subseteq Procs
    BY DEF Counting
  <2>2. /\ Cardinality(Counting(c)') \in Nat /\ Cardinality(Counting(c)) \in Nat
        /\ Cardinality(Counting(c)') <= Cardinality(Counting(c)) /\ Cardinality(Procs) \in Nat
    BY <2>1, SomeProcs, FS_Subset, FS_CardinalityType
  <2>3. otps[c].attempts \in Nat /\ otps'[c].attempts = otps[c].attempts /\ GuessFits(c)
    BY OtpRow DEF GuessesFit, Sound, TablesSound, TablesTyped
  <2> HIDE DEF Counting
  <2> QED BY <2>2, <2>3, AuthAssumption DEF GuessFits
<1> QED BY <1>1 DEF GuessesFit

LEMMA FlowsCounting ==
    ASSUME \A q \in Procs : Flows(q)
    PROVE  \A q \in Procs : pc'[q] = "count" => pc[q] = "count" /\ task'[q] = task[q]
  BY DEF Flows, AfterMark

LEMMA VerifyGuesses ==
    ASSUME Sound, GuessesFit, NEW p \in Procs, NEW c \in Codes, NEW right \in BOOLEAN,
           Verify(p, c, right)
    PROVE  GuessesFit'
<1>1. otps' = otps /\ otps[c].attempts < MaxAttempts
  BY DEF Verify, accounts, Acceptable
<1>2. /\ pc'[p] = IF right THEN "mark" ELSE "count"
      /\ task'[p].code = c
      /\ \A q \in Procs \ {p} : pc'[q] = pc[q] /\ task'[q] = task[q]
  <2> DEFINE l == IF right THEN "mark" ELSE "count"
             t == [NoTask EXCEPT !.code = c]
  <2>1. At(p, l, t) /\ t.code = c
    BY DEF Verify, NoTask
  <2>2. l = IF right THEN "mark" ELSE "count"
    OBVIOUS
  <2> HIDE DEF l, t
  <2> QED BY <2>1, <2>2, AtMoves DEF Sound
<1>3. ASSUME NEW d \in 1..Len(otps) PROVE GuessFits(d)'
  <2>1. CASE d = c
    <3>1. Counting(d)' \subseteq Procs
      BY DEF Counting
    <3>2. /\ Cardinality(Counting(d)') \in Nat /\ Cardinality(Procs) \in Nat
          /\ Cardinality(Counting(d)') <= Cardinality(Procs)
      BY <3>1, SomeProcs
    <3>3. otps[d].attempts \in Nat
      BY OtpRow DEF Sound, TablesSound, TablesTyped
    <3> HIDE DEF Counting
    <3> QED BY <1>1, <2>1, <3>2, <3>3, AuthAssumption DEF GuessFits
  <2>2. CASE d # c
    <3>1. Counting(d)' \subseteq Counting(d) /\ Counting(d) \subseteq Procs
      BY <1>2, <2>2 DEF Counting
    <3>2. /\ Cardinality(Counting(d)') \in Nat /\ Cardinality(Counting(d)) \in Nat
          /\ Cardinality(Counting(d)') <= Cardinality(Counting(d)) /\ Cardinality(Procs) \in Nat
      BY <3>1, SomeProcs, FS_Subset, FS_CardinalityType
    <3>3. otps[d].attempts \in Nat /\ GuessFits(d)
      BY OtpRow DEF GuessesFit, Sound, TablesSound, TablesTyped
    <3> HIDE DEF Counting
    <3> QED BY <1>1, <3>2, <3>3, AuthAssumption DEF GuessFits
  <2> QED BY <2>1, <2>2
<1> QED BY <1>1, <1>3 DEF GuessesFit

\* What Count does: one more failed attempt, one request fewer that has made one.
LEMMA CountDoes ==
    ASSUME Sound, NEW p \in Procs, Count(p)
    PROVE  LET c == task[p].code
           IN  /\ pc[p] = "count" /\ c \in 1..Len(otps) /\ Len(otps') = Len(otps)
               /\ otps'[c].attempts = otps[c].attempts + 1
               /\ otps'[c].verified = otps[c].verified
               /\ \A d \in 1..Len(otps) : d # c => otps'[d] = otps[d]
               /\ At(p, "idle", NoTask) /\ UNCHANGED <<users, sessions, minted, history>>
<1> DEFINE c == task[p].code
           row == [otps[c] EXCEPT !.attempts = @ + 1]
<1>1. pc[p] = "count" /\ c \in 1..Len(otps)
  BY HandlerTyped DEF Count, Claim, LoginLabels
<1>2. otps[c] \in Otp
  BY <1>1, OtpRow DEF Sound, TablesSound, TablesTyped
<1>3. row \in Otp /\ row.attempts = otps[c].attempts + 1 /\ row.verified = otps[c].verified
  BY <1>2 DEF Otp
<1>4. otps' = [otps EXCEPT ![c] = row]
  BY DEF Count, Code
<1>5. Changes(otps, otps', c, row)
  BY <1>1, <1>3, <1>4, ExceptChanges DEF Sound, TablesSound, TablesTyped
<1> HIDE DEF row
<1> QED BY <1>1, <1>3, <1>5 DEF Changes, Count, Answer

LEMMA CountGuesses ==
    ASSUME Sound, GuessesFit, NEW p \in Procs, Count(p)
    PROVE  GuessesFit'
<1> DEFINE c == task[p].code
<1>1. /\ pc[p] = "count" /\ c \in 1..Len(otps) /\ Len(otps') = Len(otps)
      /\ otps'[c].attempts = otps[c].attempts + 1
      /\ \A d \in 1..Len(otps) : d # c => otps'[d] = otps[d]
  BY CountDoes
<1>2. pc'[p] = "idle" /\ \A q \in Procs \ {p} : pc'[q] = pc[q] /\ task'[q] = task[q]
  BY CountDoes, AtMoves DEF Sound
<1>3. ASSUME NEW d \in 1..Len(otps) PROVE GuessFits(d)'
  <2>1. otps[d].attempts \in Nat /\ GuessFits(d) /\ Counting(d) \subseteq Procs
    BY OtpRow DEF GuessesFit, Sound, TablesSound, TablesTyped, Counting
  <2>2. Counting(d)' \subseteq Counting(d) \ {p} /\ (d = c => p \in Counting(d))
    BY <1>1, <1>2 DEF Counting
  <2>3. IsFiniteSet(Counting(d)) /\ Cardinality(Counting(d)) \in Nat /\ Cardinality(Procs) \in Nat
    BY <2>1, SomeProcs
  <2> HIDE DEF c
  <2>4. CASE d = c
    <3>1. /\ IsFiniteSet(Counting(d) \ {p})
          /\ Cardinality(Counting(d) \ {p}) = Cardinality(Counting(d)) - 1
      BY <2>2, <2>3, <2>4, FS_RemoveElement
    <3>2. /\ Cardinality(Counting(d)') \in Nat
          /\ Cardinality(Counting(d)') <= Cardinality(Counting(d)) - 1
      BY <2>2, <3>1, FS_Subset, FS_CardinalityType
    <3>3. otps'[d].attempts = otps[d].attempts + 1
      BY <1>1, <2>4
    <3> QED BY <2>1, <2>3, <3>2, <3>3, AuthAssumption DEF GuessFits
  <2>5. CASE d # c
    <3>1. Counting(d)' \subseteq Counting(d)
      BY <2>2
    <3>2. /\ Cardinality(Counting(d)') \in Nat
          /\ Cardinality(Counting(d)') <= Cardinality(Counting(d))
      BY <2>3, <3>1, FS_Subset, FS_CardinalityType
    <3>3. otps'[d].attempts = otps[d].attempts
      BY <1>1, <2>5
    <3> QED BY <2>1, <2>3, <3>2, <3>3, AuthAssumption DEF GuessFits
  <2> QED BY <2>4, <2>5
<1> QED BY <1>1, <1>3 DEF GuessesFit

\* What Mark does: its code is used, and nothing else of the codes changes.
LEMMA MarkDoes ==
    ASSUME Sound, NEW p \in Procs, Mark(p)
    PROVE  LET c == task[p].code
           IN  /\ pc[p] = "mark" /\ c \in 1..Len(otps) /\ Len(otps') = Len(otps)
               /\ otps'[c].attempts = otps[c].attempts
               /\ otps'[c].verified
               /\ \A d \in 1..Len(otps) : d # c => otps'[d] = otps[d]
               /\ At(p, "find", task[p]) /\ UNCHANGED <<users, sessions, minted, history>>
<1> DEFINE c == task[p].code
           row == [otps[c] EXCEPT !.verified = TRUE]
<1>1. pc[p] = "mark" /\ c \in 1..Len(otps)
  BY HandlerTyped DEF Mark, Claim, LoginLabels
<1>2. otps[c] \in Otp
  BY <1>1, OtpRow DEF Sound, TablesSound, TablesTyped
<1>3. row \in Otp /\ row.attempts = otps[c].attempts /\ row.verified
  BY <1>2 DEF Otp
<1>4. otps' = [otps EXCEPT ![c] = row]
  BY DEF Mark, Code
<1>5. Changes(otps, otps', c, row)
  BY <1>1, <1>3, <1>4, ExceptChanges DEF Sound, TablesSound, TablesTyped
<1> HIDE DEF row
<1> QED BY <1>1, <1>3, <1>5 DEF Changes, Mark, Goto

\* What StartOtp does: a new code, with no attempt and not used.
LEMMA StartOtpDoes ==
    ASSUME Sound, NEW who \in Identifiers, StartOtp(who)
    PROVE  /\ Len(otps') = Len(otps) + 1 /\ Len(otps) \in Nat
           /\ \A c \in 1..Len(otps) : otps'[c] = otps[c]
           /\ otps'[Len(otps')].attempts = 0 /\ ~ otps'[Len(otps')].verified
           /\ UNCHANGED <<users, sessions, minted, pc, task, history>>
<1> DEFINE row == [who |-> who, attempts |-> 0, verified |-> FALSE]
<1>1. row \in Otp /\ row.attempts = 0 /\ ~ row.verified
  BY DEF Otp
<1>2. Extends(otps, otps', row)
  BY <1>1, AppendExtends DEF StartOtp, Sound, TablesSound, TablesTyped
<1> HIDE DEF row
<1> QED BY <1>1, <1>2, Lengths DEF Extends, StartOtp, Sound, TablesSound

LEMMA StartOtpGuesses ==
    ASSUME Sound, GuessesFit, NEW who \in Identifiers, StartOtp(who)
    PROVE  GuessesFit'
<1>1. ASSUME NEW c \in 1..Len(otps) PROVE GuessFits(c)'
  <2>1. GuessFits(c) /\ otps'[c].attempts = otps[c].attempts /\ Counting(c)' = Counting(c)
    BY StartOtpDoes DEF GuessesFit, Counting
  <2> QED BY <2>1 DEF GuessFits
<1>2. ASSUME NEW c \in Nat, c = Len(otps') PROVE GuessFits(c)'
  <2>1. Counting(c)' = {}
    <3>1. \A q \in Procs : task'[q].code # c
      BY <1>2, HandlerTyped, StartOtpDoes DEF Refers
    <3> QED BY <3>1 DEF Counting
  <2>2. Cardinality(Counting(c)') = 0 /\ Cardinality(Procs) \in Nat
    BY <2>1, SomeProcs, FS_EmptySet
  <2>3. otps'[c].attempts = 0
    BY <1>2, StartOtpDoes
  <2> QED BY <2>2, <2>3, AuthAssumption DEF GuessFits
<1>3. ASSUME NEW c \in 1..Len(otps') PROVE GuessFits(c)'
  <2>1. c \in Nat /\ (c \in 1..Len(otps) \/ c = Len(otps'))
    BY StartOtpDoes
  <2> QED BY <1>1, <1>2, <2>1
<1> QED BY <1>3 DEF GuessesFit

\* The codes are as they were.
LEMMA GoesOtps ==
    ASSUME NEW p \in Procs, Goes(p), ~ Count(p), ~ Mark(p)
    PROVE  otps' = otps
  BY DEF Goes, FindUser, CreateUser, CreateRefused, FindDevice, AddDevice, OpenSession, Rotate,
         Purge, Revoke, Leave, QueryFails, BreakOff, accounts

LEMMA NextGuesses == Sound /\ GuessesFit /\ [Next]_vars => GuessesFit'
<1> SUFFICES ASSUME Sound, GuessesFit, [Next]_vars PROVE GuessesFit'
  OBVIOUS
<1>1. ASSUME NEW p \in Procs, Goes(p) PROVE GuessesFit'
  <2>1. CASE Count(p)
    BY <2>1, CountGuesses
  <2>2. CASE Mark(p)
    <3>1. Len(otps') = Len(otps) /\ \A c \in 1..Len(otps) : otps'[c].attempts = otps[c].attempts
      BY <2>2, MarkDoes
    <3> QED BY <1>1, <3>1, GoesFlows, FlowsCounting, GuessesStay
  <2>3. CASE ~ Count(p) /\ ~ Mark(p)
    <3>1. Len(otps') = Len(otps) /\ \A c \in 1..Len(otps) : otps'[c].attempts = otps[c].attempts
      BY <1>1, <2>3, GoesOtps
    <3> QED BY <1>1, <3>1, GoesFlows, FlowsCounting, GuessesStay
  <2> QED BY <2>1, <2>2, <2>3
<1>2. ASSUME otps' = otps,
             \A q \in Procs : pc'[q] = "count" => pc[q] = "count" /\ task'[q] = task[q]
      PROVE  GuessesFit'
  BY <1>2, GuessesStay
<1>3. ASSUME NEW p \in Procs, NEW s \in DOMAIN sessions, Refresh(p, s) PROVE GuessesFit'
  <2> DEFINE l == IF sessions[s].revoked THEN "purge" ELSE "rotate"
             t == [NoTask EXCEPT !.user = sessions[s].user, !.session = s,
                                 !.token = sessions[s].token]
  <2>1. At(p, l, t) /\ l # "count" /\ otps' = otps
    BY <1>3 DEF Refresh, accounts
  <2> HIDE DEF l, t
  <2> QED BY <1>2, <2>1, AtMoves DEF Sound
<1>4. ASSUME NEW p \in Procs, NEW u \in Uids, Delete(p, u) PROVE GuessesFit'
  <2>1. otps' = otps /\ pc'[p] = "revoke"
        /\ \A q \in Procs \ {p} : pc'[q] = pc[q] /\ task'[q] = task[q]
    BY <1>4, AtMoves DEF Delete, Sound
  <2> QED BY <1>2, <2>1
<1>5. ASSUME NEW s \in DOMAIN sessions, Logout(s) PROVE GuessesFit'
  BY <1>2, <1>5 DEF Logout
<1>6. CASE Crash
  <2>1. Procs \in SUBSET Procs /\ BreakOff(Procs) /\ otps' = otps
    BY <1>6 DEF Crash, BreakOff, accounts
  <2> QED BY <1>2, <2>1, BreakOffFlows, FlowsCounting
<1>7. CASE UNCHANGED vars
  BY <1>2, <1>7 DEF vars, accounts
<1> QED BY <1>1, <1>3, <1>4, <1>5, <1>6, <1>7, NextCases, StartOtpGuesses, VerifyGuesses

(* Every wrong guess is in the counter, or in a request about to count it, *)
(* or stays uncounted.                                                     *)
Attempts(c) == IF c \in 1..Len(otps) THEN otps[c].attempts ELSE 0

GuessTold(c) == guesses[c] <= Attempts(c) + Cardinality(Counting(c)) + uncounted[c]

GuessesTold ==
    /\ CountsTyped /\ Len(otps) <= MaxCodes
    /\ \A c \in 1..MaxCodes : GuessTold(c)

LEMMA AttemptsTyped ==
    ASSUME Sound, NEW c
    PROVE  Attempts(c) \in Nat
  BY OtpRow DEF Sound, TablesSound, TablesTyped, Attempts

\* What a step adds on either side, when no request ceases to count.
LEMMA ToldGrows ==
    ASSUME GuessesTold, Sound, Sound', NEW c \in 1..MaxCodes,
           guesses'[c] = guesses[c], uncounted'[c] = uncounted[c], Attempts(c)' = Attempts(c),
           \A q \in Procs : pc[q] = "count" => pc'[q] = "count" /\ task'[q] = task[q]
    PROVE  GuessTold(c)'
<1>1. Counting(c) \subseteq Counting(c)' /\ Counting(c)' \subseteq Procs
  BY DEF Counting
<1>2. /\ Cardinality(Counting(c)') \in Nat /\ Cardinality(Counting(c)) \in Nat
      /\ Cardinality(Counting(c)) <= Cardinality(Counting(c)')
  BY <1>1, SomeProcs, FS_Subset, FS_CardinalityType
<1>3. GuessTold(c) /\ guesses[c] \in Nat /\ uncounted[c] \in Nat /\ Attempts(c) \in Nat
  BY AttemptsTyped DEF GuessesTold, CountsTyped
<1> HIDE DEF Counting, Attempts
<1> QED BY <1>2, <1>3 DEF GuessTold

LEMMA ToldStays ==
    ASSUME GuessesTold, Sound, Sound', UNCHANGED counts, Len(otps') = Len(otps),
           \A c \in 1..Len(otps) : otps'[c].attempts = otps[c].attempts,
           \A q \in Procs : pc[q] = "count" => pc'[q] = "count" /\ task'[q] = task[q]
    PROVE  GuessesTold'
<1>1. UNCHANGED <<guesses, uncounted>>
  BY DEF counts
<1>2. ASSUME NEW c \in 1..MaxCodes PROVE GuessTold(c)'
  <2>1. Attempts(c)' = Attempts(c)
    BY DEF Attempts
  <2> QED BY <1>1, <2>1, ToldGrows
<1> QED BY <1>1, <1>2 DEF GuessesTold, CountsTyped

LEMMA VerifyTold ==
    ASSUME GuessesTold, Sound, Sound', NEW p \in Procs, NEW c \in Codes, NEW right \in BOOLEAN,
           Verify(p, c, right)
    PROVE  GuessesTold'
<1>1. /\ pc[p] = "idle" /\ otps' = otps /\ uncounted' = uncounted
      /\ guesses' = IF right THEN guesses ELSE [guesses EXCEPT ![c] = @ + 1]
  BY DEF Verify, accounts
<1>2. c \in 1..MaxCodes /\ guesses \in [1..MaxCodes -> Nat] /\ uncounted \in [1..MaxCodes -> Nat]
  <2>1. Codes = 1..Len(otps) /\ Len(otps) \in Nat
    BY Lengths DEF Sound, TablesSound
  <2> QED BY <2>1, AuthAssumption DEF GuessesTold, CountsTyped
<1>3. /\ pc'[p] = IF right THEN "mark" ELSE "count"
      /\ task'[p].code = c
      /\ \A q \in Procs \ {p} : pc'[q] = pc[q] /\ task'[q] = task[q]
  <2> DEFINE l == IF right THEN "mark" ELSE "count"
             t == [NoTask EXCEPT !.code = c]
  <2>1. At(p, l, t) /\ t.code = c
    BY DEF Verify, NoTask
  <2>2. l = IF right THEN "mark" ELSE "count"
    OBVIOUS
  <2> HIDE DEF l, t
  <2> QED BY <2>1, <2>2, AtMoves DEF Sound
<1>4. CountsTyped'
  BY <1>1, <1>2 DEF CountsTyped
<1>5. ASSUME NEW d \in 1..MaxCodes PROVE GuessTold(d)'
  <2>1. Attempts(d)' = Attempts(d)
    BY <1>1 DEF Attempts
  <2>2. \A q \in Procs : pc[q] = "count" => pc'[q] = "count" /\ task'[q] = task[q]
    BY <1>1, <1>3
  <2>3. CASE d = c /\ ~ right
    <3>1. guesses'[d] = guesses[d] + 1 /\ guesses[d] \in Nat /\ uncounted'[d] = uncounted[d]
      BY <1>1, <1>2, <2>3
    <3>2. p \notin Counting(d) /\ Counting(d) \cup {p} \subseteq Counting(d)'
      BY <1>1, <1>3, <2>2, <2>3 DEF Counting
    <3>3. Counting(d) \subseteq Procs /\ Counting(d)' \subseteq Procs
      BY DEF Counting
    <3>4. /\ IsFiniteSet(Counting(d)) /\ Cardinality(Counting(d)) \in Nat
          /\ IsFiniteSet(Counting(d)') /\ Cardinality(Counting(d)') \in Nat
      BY <3>3, SomeProcs, FS_Subset, FS_CardinalityType
    <3> HIDE DEF Counting
    <3>5. Cardinality(Counting(d) \cup {p}) = Cardinality(Counting(d)) + 1
      BY <3>2, <3>4, FS_AddElement
    <3>6. Cardinality(Counting(d) \cup {p}) <= Cardinality(Counting(d)')
      BY <3>2, <3>4, FS_Subset
    <3>7. GuessTold(d) /\ Attempts(d) \in Nat /\ uncounted[d] \in Nat
      BY <1>2, AttemptsTyped DEF GuessesTold
    <3> HIDE DEF Attempts
    <3> QED BY <2>1, <3>1, <3>4, <3>5, <3>6, <3>7 DEF GuessTold
  <2>4. CASE ~ (d = c /\ ~ right)
    <3>1. guesses'[d] = guesses[d] /\ uncounted'[d] = uncounted[d]
      BY <1>1, <1>2, <2>4
    <3> QED BY <2>1, <2>2, <3>1, ToldGrows
  <2> QED BY <2>3, <2>4
<1> QED BY <1>1, <1>4, <1>5 DEF GuessesTold

LEMMA CountTold ==
    ASSUME GuessesTold, Sound, Sound', NEW p \in Procs, Count(p)
    PROVE  GuessesTold'
<1>1. PICK c : c = task[p].code
  OBVIOUS
<1>2. /\ pc[p] = "count" /\ c \in 1..Len(otps) /\ Len(otps') = Len(otps)
      /\ otps'[c].attempts = otps[c].attempts + 1
      /\ \A d \in 1..Len(otps) : d # c => otps'[d] = otps[d]
      /\ UNCHANGED <<guesses, uncounted>>
  BY <1>1, CountDoes DEF history, counts
<1>3. \A q \in Procs \ {p} : pc'[q] = pc[q] /\ task'[q] = task[q]
  BY CountDoes, AtMoves DEF Sound
<1>4. ASSUME NEW d \in 1..MaxCodes PROVE GuessTold(d)'
  <2>1. /\ GuessTold(d) /\ guesses[d] \in Nat /\ uncounted[d] \in Nat /\ Attempts(d) \in Nat
        /\ Counting(d) \subseteq Procs /\ Counting(d)' \subseteq Procs
    BY AttemptsTyped DEF GuessesTold, CountsTyped, Counting
  <2>2. /\ IsFiniteSet(Counting(d)) /\ Cardinality(Counting(d)) \in Nat
        /\ IsFiniteSet(Counting(d)') /\ Cardinality(Counting(d)') \in Nat
    BY <2>1, SomeProcs, FS_Subset, FS_CardinalityType
  <2>3. CASE d = c
    <3>1. Counting(d) \ {p} \subseteq Counting(d)' /\ p \in Counting(d)
      BY <1>1, <1>2, <1>3, <2>3 DEF Counting
    <3>2. Attempts(d)' = Attempts(d) + 1
      BY <1>2, <2>3 DEF Attempts
    <3> HIDE DEF Counting, Attempts
    <3>3. Cardinality(Counting(d) \ {p}) = Cardinality(Counting(d)) - 1
      BY <2>2, <3>1, FS_RemoveElement
    <3>4. Cardinality(Counting(d) \ {p}) <= Cardinality(Counting(d)')
      BY <2>2, <3>1, FS_Subset
    <3> QED BY <1>2, <2>1, <2>2, <3>2, <3>3, <3>4 DEF GuessTold
  <2>4. CASE d # c
    <3>1. Counting(d) \subseteq Counting(d)'
      BY <1>1, <1>2, <1>3, <2>4 DEF Counting
    <3>2. Attempts(d)' = Attempts(d)
      BY <1>2, <2>4 DEF Attempts
    <3> HIDE DEF Counting, Attempts
    <3>3. Cardinality(Counting(d)) <= Cardinality(Counting(d)')
      BY <2>2, <3>1, FS_Subset
    <3> QED BY <1>2, <2>1, <2>2, <3>2, <3>3 DEF GuessTold
  <2> QED BY <2>3, <2>4
<1> QED BY <1>2, <1>4 DEF GuessesTold, CountsTyped

\* The guesses that are about to be counted, and now will not be.
LEMMA BreakOffTold ==
    ASSUME GuessesTold, Sound, Sound', NEW S \in SUBSET Procs, BreakOff(S)
    PROVE  GuessesTold'
<1>1. /\ otps' = otps /\ guesses' = guesses
      /\ \A q \in Procs \ S : pc'[q] = pc[q] /\ task'[q] = task[q]
      /\ uncounted' = [c \in 1..MaxCodes |-> uncounted[c]
                         + Cardinality({p \in S : pc[p] = "count" /\ Code(p) = c})]
  BY DEF BreakOff, accounts
<1>2. guesses \in [1..MaxCodes -> Nat] /\ uncounted \in [1..MaxCodes -> Nat]
  BY DEF GuessesTold, CountsTyped
<1>3. ASSUME NEW c \in 1..MaxCodes PROVE uncounted'[c] \in Nat /\ GuessTold(c)'
  <2>1. PICK L : L = {p \in S : pc[p] = "count" /\ Code(p) = c}
    OBVIOUS
  <2>2. /\ L \subseteq Procs /\ Counting(c) \subseteq Procs /\ Counting(c)' \subseteq Procs
        /\ Counting(c) \ L \subseteq Counting(c)' /\ Counting(c) = L \cup (Counting(c) \ L)
    BY <1>1, <2>1 DEF Counting, Code
  <2>3. Counting(c) \ L \subseteq Procs /\ L \cap (Counting(c) \ L) = {}
    BY <2>2
  <2>4. /\ IsFiniteSet(L) /\ Cardinality(L) \in Nat
        /\ IsFiniteSet(Counting(c) \ L) /\ Cardinality(Counting(c) \ L) \in Nat
        /\ IsFiniteSet(Counting(c)') /\ Cardinality(Counting(c)') \in Nat
    BY <2>2, <2>3, SomeProcs, FS_Subset, FS_CardinalityType
  <2>5. /\ GuessTold(c) /\ Attempts(c) \in Nat /\ Attempts(c)' = Attempts(c)
        /\ guesses[c] \in Nat /\ uncounted[c] \in Nat
        /\ uncounted'[c] = uncounted[c] + Cardinality(L)
    BY <1>1, <1>2, <2>1, AttemptsTyped DEF GuessesTold, Attempts
  <2> HIDE DEF Counting, Attempts
  <2>6. Cardinality(Counting(c)) = Cardinality(L) + Cardinality(Counting(c) \ L)
    <3>1. PICK K : K = Counting(c) \ L
      OBVIOUS
    <3>2. IsFiniteSet(K) /\ Cardinality(K) \in Nat /\ L \cap K = {} /\ Counting(c) = L \cup K
      BY <2>2, <2>3, <2>4, <3>1
    <3>3. Cardinality(L \cup K) = Cardinality(L) + Cardinality(K) - Cardinality(L \cap K)
      BY <2>4, <3>2, FS_Union
    <3>4. Cardinality(L \cap K) = 0
      BY <3>2, FS_EmptySet
    <3>5. Cardinality(L \cup K) = Cardinality(L) + Cardinality(K)
      BY <2>4, <3>2, <3>3, <3>4
    <3>6. Cardinality(Counting(c)) = Cardinality(L) + Cardinality(K)
      BY <3>2, <3>5, Zenon
    <3> QED BY <3>1, <3>6, Zenon
  <2>7. Cardinality(Counting(c) \ L) <= Cardinality(Counting(c)')
    BY <2>2, <2>4, FS_Subset
  <2> QED BY <1>1, <2>4, <2>5, <2>6, <2>7 DEF GuessTold
<1>4. CountsTyped'
  BY <1>1, <1>2, <1>3 DEF CountsTyped
<1> QED BY <1>1, <1>3, <1>4 DEF GuessesTold

LEMMA StartOtpTold ==
    ASSUME GuessesTold, Sound, Sound', NEW who \in Identifiers, StartOtp(who)
    PROVE  GuessesTold'
<1>1. /\ UNCHANGED <<pc, task, guesses, uncounted>> /\ Len(otps') = Len(otps) + 1
      /\ Len(otps) \in Nat /\ otps'[Len(otps')].attempts = 0
      /\ \A c \in 1..Len(otps) : otps'[c] = otps[c]
  BY StartOtpDoes DEF history, counts
<1>2. Len(otps') <= MaxCodes
  BY <1>1, AuthAssumption DEF StartOtp
<1>3. ASSUME NEW c \in 1..MaxCodes PROVE GuessTold(c)'
  <2>1. Attempts(c)' = Attempts(c)
    <3>1. CASE c \in 1..Len(otps)
      BY <1>1, <3>1 DEF Attempts
    <3>2. CASE c = Len(otps')
      BY <1>1, <3>2 DEF Attempts
    <3>3. CASE c \notin 1..Len(otps')
      BY <1>1, <3>3 DEF Attempts
    <3> QED BY <1>1, <3>1, <3>2, <3>3
  <2> QED BY <1>1, <2>1, ToldGrows
<1> QED BY <1>1, <1>2, <1>3 DEF GuessesTold, CountsTyped

\* The requests that do not count wrong guesses.
LEMMA GoesElsewhere ==
    ASSUME Sound, NEW p \in Procs, Goes(p), ~ Count(p), ~ QueryFails(p)
    PROVE  /\ UNCHANGED counts
           /\ \A q \in Procs : pc[q] = "count" => pc'[q] = "count" /\ task'[q] = task[q]
<1>1. pc[p] # "count"
  BY DEF Goes, Mark, FindUser, CreateUser, CreateRefused, FindDevice, AddDevice, OpenSession,
         Rotate, Purge, Revoke, Leave
<1>2. UNCHANGED counts
  BY DEF Goes, Mark, FindUser, CreateUser, CreateRefused, FindDevice, AddDevice, OpenSession,
         Rotate, Purge, Revoke, Leave, history
<1>3. PICK l, t : At(p, l, t)
  <2>1. FindUser(p) \/ FindDevice(p) => \E l, t : At(p, l, t)
    BY DEF FindUser, FindDevice, Goto
  <2>2. Mark(p) \/ CreateUser(p) \/ AddDevice(p) \/ Revoke(p) => \E l, t : At(p, l, t)
    BY DEF Mark, CreateUser, AddDevice, Revoke, Goto
  <2>3. CreateRefused(p) \/ OpenSession(p) \/ Rotate(p) \/ Purge(p) \/ Leave(p)
           => \E l, t : At(p, l, t)
    BY DEF CreateRefused, OpenSession, Rotate, Purge, Leave, Answer
  <2> QED BY <2>1, <2>2, <2>3 DEF Goes
<1> QED BY <1>1, <1>2, <1>3, AtMoves DEF Sound

LEMMA NextTold == Sound /\ GuessesTold /\ [Next]_vars => GuessesTold'
<1> SUFFICES ASSUME Sound, GuessesTold, [Next]_vars PROVE GuessesTold'
  OBVIOUS
<1>0. Sound'
  BY NextSound
<1>1. ASSUME NEW p \in Procs, Goes(p) PROVE GuessesTold'
  <2>1. CASE Count(p)
    BY <1>0, <2>1, CountTold
  <2>2. CASE QueryFails(p)
    <3>1. {p} \in SUBSET Procs /\ BreakOff({p})
      BY <2>2 DEF QueryFails
    <3> QED BY <1>0, <3>1, BreakOffTold
  <2>3. CASE Mark(p)
    <3>1. Len(otps') = Len(otps) /\ \A c \in 1..Len(otps) : otps'[c].attempts = otps[c].attempts
      BY <2>3, MarkDoes
    <3>2. ~ Count(p)
      BY <2>3 DEF Mark, Count
    <3> QED BY <1>0, <1>1, <2>2, <3>1, <3>2, GoesElsewhere, ToldStays
  <2>4. CASE ~ Count(p) /\ ~ Mark(p) /\ ~ QueryFails(p)
    <3>1. Len(otps') = Len(otps) /\ \A c \in 1..Len(otps) : otps'[c].attempts = otps[c].attempts
      BY <1>1, <2>4, GoesOtps
    <3> QED BY <1>0, <1>1, <2>4, <3>1, GoesElsewhere, ToldStays
  <2> QED BY <2>1, <2>2, <2>3, <2>4
<1>2. ASSUME otps' = otps, UNCHANGED counts,
             \A q \in Procs : pc[q] = "count" => pc'[q] = "count" /\ task'[q] = task[q]
      PROVE  GuessesTold'
  BY <1>0, <1>2, ToldStays
<1>3. ASSUME NEW p \in Procs, NEW s \in DOMAIN sessions, Refresh(p, s) PROVE GuessesTold'
  <2>1. pc[p] = "idle" /\ otps' = otps /\ UNCHANGED counts
    BY <1>3 DEF Refresh, accounts
  <2>2. PICK l, t : At(p, l, t)
    BY <1>3 DEF Refresh
  <2> QED BY <1>2, <2>1, <2>2, AtMoves DEF Sound
<1>4. ASSUME NEW p \in Procs, NEW u \in Uids, Delete(p, u) PROVE GuessesTold'
  <2>1. pc[p] = "idle" /\ otps' = otps /\ UNCHANGED counts
        /\ \A q \in Procs \ {p} : pc'[q] = pc[q] /\ task'[q] = task[q]
    BY <1>4, AtMoves DEF Delete, Sound, history
  <2> QED BY <1>2, <2>1
<1>5. ASSUME NEW s \in DOMAIN sessions, Logout(s) PROVE GuessesTold'
  BY <1>2, <1>5 DEF Logout, history
<1>6. CASE Crash
  <2>1. Procs \in SUBSET Procs /\ BreakOff(Procs)
    BY <1>6 DEF Crash
  <2> QED BY <1>0, <2>1, BreakOffTold
<1>7. CASE UNCHANGED vars
  BY <1>2, <1>7 DEF vars, accounts, history
<1> QED BY <1>0, <1>1, <1>3, <1>4, <1>5, <1>6, <1>7, NextCases, StartOtpTold, VerifyTold

-----------------------------------------------------------------------------
(* A code whose verifications did not overlap is in one request's hands at *)
(* most; before it is marked it is not used, and it has no session while   *)
(* a request has it.                                                       *)
WorksOn(q, c) == pc[q] \in {"mark"} \cup AfterMark /\ task[q].code = c

OneLogin(c) ==
    /\ \A p, q \in Procs : WorksOn(p, c) /\ WorksOn(q, c) => p = q
    /\ \A p \in Procs : pc[p] = "mark" /\ task[p].code = c => ~ otps[c].verified
    /\ \A p \in Procs : WorksOn(p, c) =>
          \A s \in 1..Len(sessions) : sessions[s].code # c
    /\ \A s, t \in 1..Len(sessions) : sessions[s].code = c /\ sessions[t].code = c => s = t

LoginsApart == \A c \in 1..Len(otps) : <<"code", c>> \notin overlapped => OneLogin(c)

\* No session is opened, and no request starts to work on c.
SameCodes ==
    /\ Len(sessions') = Len(sessions)
    /\ \A s \in 1..Len(sessions) : sessions'[s].code = sessions[s].code

LEMMA LoginStays ==
    ASSUME NEW c, OneLogin(c), otps'[c].verified = otps[c].verified, SameCodes,
           \A q \in Procs : /\ WorksOn(q, c)' => WorksOn(q, c)
                            /\ pc'[q] = "mark" => pc[q] = "mark" /\ task'[q] = task[q]
    PROVE  OneLogin(c)'
  BY DEF OneLogin, SameCodes

LEMMA FlowsLogin ==
    ASSUME NEW c, \A q \in Procs : Flows(q)
    PROVE  \A q \in Procs : /\ WorksOn(q, c)' => WorksOn(q, c)
                            /\ pc'[q] = "mark" => pc[q] = "mark" /\ task'[q] = task[q]
  BY DEF Flows, WorksOn, AfterMark

\* A request that starts with something else.
LEMMA StartsLogin ==
    ASSUME Sound, NEW c, NEW p \in Procs, NEW l \in {"purge", "rotate", "revoke", "count"}, NEW t,
           At(p, l, t)
    PROVE  \A q \in Procs : /\ WorksOn(q, c)' => WorksOn(q, c)
                            /\ pc'[q] = "mark" => pc[q] = "mark" /\ task'[q] = task[q]
<1>1. /\ pc'[p] = l /\ l \notin {"mark"} \cup AfterMark
      /\ \A q \in Procs \ {p} : pc'[q] = pc[q] /\ task'[q] = task[q]
  BY AtMoves DEF Sound, AfterMark
<1> QED BY <1>1 DEF WorksOn

LEMMA VerifyLogin ==
    ASSUME Sound, NEW p \in Procs, NEW d \in Codes, NEW right \in BOOLEAN, Verify(p, d, right),
           NEW c \in 1..Len(otps), OneLogin(c), <<"code", c>> \notin overlapped'
    PROVE  OneLogin(c)'
<1> DEFINE l == IF right THEN "mark" ELSE "count"
           t == [NoTask EXCEPT !.code = d]
<1>1. UNCHANGED <<otps, sessions>> /\ SameCodes /\ ~ otps[d].verified
      /\ Meets(p, {"mark"}, "code", d, "code")
  BY DEF Verify, accounts, SameCodes, Acceptable
<1>2. At(p, l, t) /\ t.code = d /\ (right => l = "mark") /\ (~ right => l = "count")
  BY DEF Verify, NoTask
<1> HIDE DEF l, t
<1>3. pc'[p] = l /\ task'[p] = t /\ \A q \in Procs \ {p} : pc'[q] = pc[q] /\ task'[q] = task[q]
  BY <1>2, AtMoves DEF Sound
<1>4. CASE ~ right
  BY <1>1, <1>2, <1>4, StartsLogin, LoginStays
<1>5. CASE d # c
  BY <1>1, <1>2, <1>3, <1>5, LoginStays DEF WorksOn, OneLogin, SameCodes
<1>6. CASE right /\ d = c
  <2>1. \A q \in Procs \ {p} : ~ WorksOn(q, c)
    <3>1. ASSUME NEW q \in Procs \ {p}, WorksOn(q, c) PROVE FALSE
      <4>1. CASE pc[q] = "mark"
        <5>1. task[q]["code"] = d
          BY <1>6, <3>1 DEF WorksOn
        <5>2. <<"code", d>> \in overlapped'
          BY <1>1, <4>1, <5>1 DEF Meets
        <5> QED BY <1>6, <5>2
      <4>2. CASE pc[q] \in AfterMark
        <5>1. otps[c].verified
          BY <3>1, <4>2, HandlerTyped DEF WorksOn, Claim
        <5> QED BY <1>1, <1>6, <5>1
      <4> QED BY <3>1, <4>1, <4>2 DEF WorksOn
    <3> QED BY <3>1
  <2>2. \A s \in 1..Len(sessions) : sessions[s].code # c
    BY <1>1, <1>6 DEF Sound, TablesSound, SessionsProved, SessionProved
  <2>3. \A q \in Procs \ {p} : ~ WorksOn(q, c)'
    BY <1>3, <2>1 DEF WorksOn
  <2>4. \A q \in Procs : WorksOn(q, c)' => q = p
    BY <2>3
  <2>5. ~ otps'[c].verified /\ \A s \in 1..Len(sessions') : sessions'[s].code # c
    BY <1>1, <1>6, <2>2
  <2> QED BY <2>4, <2>5 DEF OneLogin
<1> QED BY <1>4, <1>5, <1>6

LEMMA MarkLogin ==
    ASSUME Sound, NEW p \in Procs, Mark(p), NEW c \in 1..Len(otps), OneLogin(c)
    PROVE  OneLogin(c)'
<1>1. /\ pc[p] = "mark" /\ SameCodes
      /\ \A d \in 1..Len(otps) : d # task[p].code => otps'[d] = otps[d]
      /\ pc'[p] = "find" /\ task'[p] = task[p]
      /\ \A q \in Procs \ {p} : pc'[q] = pc[q] /\ task'[q] = task[q]
  BY MarkDoes, AtMoves DEF Sound, SameCodes
<1>2. \A q \in Procs : WorksOn(q, c)' <=> WorksOn(q, c)
  BY <1>1 DEF WorksOn, AfterMark
<1>3. CASE task[p].code = c
  <2>1. WorksOn(p, c)
    BY <1>1, <1>3 DEF WorksOn
  <2>2. ASSUME NEW q \in Procs, pc'[q] = "mark", task'[q].code = c PROVE FALSE
    <3>1. q # p
      BY <1>1, <2>2
    <3>2. WorksOn(q, c)
      BY <1>1, <2>2, <3>1 DEF WorksOn
    <3> QED BY <2>1, <3>1, <3>2 DEF OneLogin
  <2> QED BY <1>1, <1>2, <2>2 DEF OneLogin, SameCodes
<1>4. CASE task[p].code # c
  <2>1. otps'[c] = otps[c]
    BY <1>1, <1>4
  <2>2. \A q \in Procs : pc'[q] = "mark" => pc[q] = "mark" /\ task'[q] = task[q]
    BY <1>1
  <2> QED BY <1>1, <1>2, <2>1, <2>2, LoginStays
<1> QED BY <1>3, <1>4

LEMMA OpenSessionLogin ==
    ASSUME Sound, NEW p \in Procs, OpenSession(p), NEW c \in 1..Len(otps), OneLogin(c)
    PROVE  OneLogin(c)'
<1>1. /\ pc[p] = "session" /\ otps' = otps /\ Len(sessions') = Len(sessions) + 1
      /\ \A s \in 1..Len(sessions) : sessions'[s] = sessions[s]
      /\ sessions'[Len(sessions')].code = task[p].code
      /\ Len(sessions) \in Nat
  BY OpenSessionDoes, Lengths DEF Sound, TablesSound
<1>2. At(p, "idle", NoTask)
  BY OpenSessionDoes DEF Answer
<1>3. /\ pc'[p] = "idle"
      /\ \A q \in Procs \ {p} : pc'[q] = pc[q] /\ task'[q] = task[q]
  BY <1>2, AtMoves DEF Sound
<1>4. ~ WorksOn(p, c)' /\ \A q \in Procs : WorksOn(q, c)' => WorksOn(q, c) /\ q # p
  BY <1>3 DEF WorksOn, AfterMark
<1>5. \A q \in Procs : pc'[q] = "mark" => pc[q] = "mark" /\ task'[q] = task[q]
  BY <1>3
<1>6. \A s \in 1..Len(sessions') : s \in 1..Len(sessions) \/ s = Len(sessions')
  BY <1>1
<1>7. CASE task[p].code = c
  <2>1. WorksOn(p, c)
    BY <1>1, <1>7 DEF WorksOn, AfterMark
  <2>2. \A q \in Procs : ~ WorksOn(q, c)'
    BY <1>4, <2>1 DEF OneLogin
  <2>3. \A s \in 1..Len(sessions) : sessions'[s].code # c
    BY <1>1, <2>1 DEF OneLogin
  <2>4. \A q \in Procs : ~ (pc'[q] = "mark" /\ task'[q].code = c)
    BY <2>2 DEF WorksOn
  <2> QED BY <1>6, <2>2, <2>3, <2>4 DEF OneLogin
<1>8. CASE task[p].code # c
  <2>1. \A s \in 1..Len(sessions') : sessions'[s].code = c =>
           s \in 1..Len(sessions) /\ sessions[s].code = c
    BY <1>1, <1>6, <1>8
  <2> QED BY <1>1, <1>4, <1>5, <2>1 DEF OneLogin
<1> QED BY <1>7, <1>8

\* The sessions keep their codes.
LEMMA GoesCodes ==
    ASSUME Sound, NEW p \in Procs, Goes(p), ~ OpenSession(p)
    PROVE  SameCodes
<1>1. sessions' = sessions => SameCodes
  BY DEF SameCodes
<1>2. Rotate(p) => SameCodes
  BY RotateDoes DEF SameCodes
<1>3. Purge(p) \/ Revoke(p) => SameCodes
  BY RevokeAllDoes DEF Purge, Revoke, SameCodes, SameSessions, Sound, TablesSound
<1>4. Count(p) \/ Mark(p) \/ FindUser(p) \/ CreateUser(p) \/ CreateRefused(p) \/ FindDevice(p)
         \/ AddDevice(p) \/ Leave(p) \/ QueryFails(p) => sessions' = sessions
  BY DEF Count, Mark, FindUser, CreateUser, CreateRefused, FindDevice, AddDevice, Leave,
         QueryFails, BreakOff, accounts
<1> QED BY <1>1, <1>2, <1>3, <1>4 DEF Goes

LEMMA NextLogins == Sound /\ LoginsApart /\ [Next]_vars => LoginsApart'
<1> SUFFICES ASSUME Sound, LoginsApart, [Next]_vars,
                    NEW c \in 1..Len(otps'), <<"code", c>> \notin overlapped'
             PROVE  OneLogin(c)'
  BY DEF LoginsApart
<1>1. ASSUME NEW who \in Identifiers, StartOtp(who) PROVE OneLogin(c)'
  <2>1. CASE c \in 1..Len(otps)
    <3>1. OneLogin(c) /\ otps'[c].verified = otps[c].verified
      BY <1>1, <2>1, NextHistory, StartOtpDoes DEF LoginsApart, HistoryGrows
    <3>2. SameCodes /\ UNCHANGED <<pc, task>>
      BY <1>1 DEF StartOtp, SameCodes
    <3> QED BY <3>1, <3>2, LoginStays DEF WorksOn
  <2>2. CASE c \notin 1..Len(otps)
    <3>1. c = Len(otps) + 1 /\ Len(otps) \in Nat /\ ~ otps'[c].verified
          /\ UNCHANGED <<sessions, pc, task>>
      BY <1>1, <2>2, StartOtpDoes
    <3>2. \A q \in Procs : task[q].code # c
      BY <3>1, HandlerTyped DEF Refers
    <3>3. \A s \in 1..Len(sessions) : sessions[s].code # c
      BY <3>1 DEF Sound, TablesSound, SessionsRefer
    <3>4. \A q \in Procs : ~ WorksOn(q, c)' /\ task'[q].code # c
      BY <3>1, <3>2 DEF WorksOn
    <3>5. \A s \in 1..Len(sessions') : sessions'[s].code # c
      BY <3>1, <3>3
    <3> QED BY <3>4, <3>5 DEF OneLogin
  <2> QED BY <2>1, <2>2
<1>2. ASSUME Len(otps') = Len(otps) PROVE c \in 1..Len(otps) /\ OneLogin(c)
  BY <1>2, NextHistory DEF LoginsApart, HistoryGrows
<1>3. ASSUME NEW p \in Procs, NEW d \in Codes, NEW right \in BOOLEAN, Verify(p, d, right)
      PROVE  OneLogin(c)'
  <2>1. Len(otps') = Len(otps)
    BY <1>3 DEF Verify, accounts
  <2> QED BY <1>2, <1>3, <2>1, VerifyLogin
<1>4. ASSUME NEW p \in Procs, Goes(p) PROVE OneLogin(c)'
  <2>1. CASE Mark(p)
    BY <1>2, <2>1, MarkDoes, MarkLogin
  <2>2. CASE OpenSession(p)
    <3>1. Len(otps') = Len(otps)
      BY <2>2 DEF OpenSession
    <3> QED BY <1>2, <2>2, <3>1, OpenSessionLogin
  <2>3. CASE ~ Mark(p) /\ ~ OpenSession(p)
    <3>1. CASE Count(p)
      <4>1. Len(otps') = Len(otps) /\ \A d \in 1..Len(otps) : otps'[d].verified = otps[d].verified
        BY <3>1, CountDoes
      <4> QED BY <1>2, <1>4, <2>3, <4>1, GoesFlows, FlowsLogin, GoesCodes, LoginStays
    <3>2. CASE ~ Count(p)
      <4>1. otps' = otps
        BY <1>4, <2>3, <3>2, GoesOtps
      <4> QED BY <1>2, <1>4, <2>3, <4>1, GoesFlows, FlowsLogin, GoesCodes, LoginStays
    <3> QED BY <3>1, <3>2
  <2> QED BY <2>1, <2>2, <2>3
<1>5. ASSUME NEW p \in Procs, NEW s \in DOMAIN sessions, Refresh(p, s) PROVE OneLogin(c)'
  <2> DEFINE l == IF sessions[s].revoked THEN "purge" ELSE "rotate"
             t == [NoTask EXCEPT !.user = sessions[s].user, !.session = s,
                                 !.token = sessions[s].token]
  <2>1. At(p, l, t) /\ l \in {"purge", "rotate", "revoke", "count"}
        /\ otps' = otps /\ sessions' = sessions
    BY <1>5 DEF Refresh, accounts
  <2> HIDE DEF l, t
  <2>2. OneLogin(c) /\ SameCodes
    BY <1>2, <2>1 DEF SameCodes
  <2> QED BY <2>1, <2>2, StartsLogin, LoginStays
<1>6. ASSUME NEW p \in Procs, NEW u \in Uids, Delete(p, u) PROVE OneLogin(c)'
  <2> DEFINE t == [NoTask EXCEPT !.user = u]
  <2>1. At(p, "revoke", t) /\ otps' = otps /\ sessions' = sessions
    BY <1>6 DEF Delete
  <2> HIDE DEF t
  <2>2. OneLogin(c) /\ SameCodes
    BY <1>2, <2>1 DEF SameCodes
  <2> QED BY <2>1, <2>2, StartsLogin, LoginStays
<1>7. ASSUME NEW s \in DOMAIN sessions, Logout(s) PROVE OneLogin(c)'
  <2>1. SameCodes /\ UNCHANGED <<otps, pc, task>>
    BY <1>7, LogoutDoes DEF SameCodes, SameSessions
  <2> QED BY <1>2, <2>1, LoginStays DEF WorksOn
<1>8. CASE Crash
  <2>1. Procs \in SUBSET Procs /\ BreakOff(Procs) /\ otps' = otps /\ SameCodes
    BY <1>8 DEF Crash, BreakOff, accounts, SameCodes
  <2> QED BY <1>2, <2>1, BreakOffFlows, FlowsLogin, LoginStays
<1>9. CASE UNCHANGED vars
  <2>1. SameCodes /\ UNCHANGED <<otps, pc, task>>
    BY <1>9 DEF vars, accounts, SameCodes
  <2> QED BY <1>2, <2>1, LoginStays DEF WorksOn
<1> QED BY <1>1, <1>3, <1>4, <1>5, <1>6, <1>7, <1>8, <1>9, NextCases

-----------------------------------------------------------------------------
(* UsedCodeLogsIn, with the request that has yet to open the session: one  *)
(* that has marked the code, not one that counts a wrong guess of it.      *)
Logging(p, c) == pc[p] \in AfterMark /\ task[p].code = c

UsedAccounted ==
    \A c \in 1..Len(otps) : otps[c].verified =>
        \/ c \in cut
        \/ \E s \in 1..Len(sessions) : sessions[s].code = c
        \/ \E p \in Procs : Logging(p, c)

LEMMA UsedStays ==
    ASSUME Sound, Sound', UsedAccounted, Growing, HistoryGrows, Len(otps') = Len(otps),
           \A c \in 1..Len(otps) : otps'[c].verified =>
              \/ otps[c].verified
              \/ \E p \in Procs : Logging(p, c)',
           \A c \in 1..Len(otps), p \in Procs : Logging(p, c) =>
              \/ Logging(p, c)' \/ c \in cut'
              \/ \E s \in 1..Len(sessions') : sessions'[s].code = c
    PROVE  UsedAccounted'
<1>1. ASSUME NEW c \in 1..Len(otps), \E s \in 1..Len(sessions) : sessions[s].code = c
      PROVE  \E s \in 1..Len(sessions') : sessions'[s].code = c
  <2>1. PICK s \in 1..Len(sessions) : sessions[s].code = c
    BY <1>1
  <2>2. s \in 1..Len(sessions') /\ sessions'[s].code = c
    <3>1. Len(sessions) <= Len(sessions') /\ sessions'[s].code = sessions[s].code
      BY DEF Growing, SessionsGrow
    <3>2. Len(sessions) \in Nat
      BY Lengths DEF Sound, TablesSound
    <3>3. Len(sessions') \in Nat
      BY Rows DEF Sound, TablesSound, TablesTyped
    <3> QED BY <2>1, <3>1, <3>2, <3>3
  <2> QED BY <2>2
<1>2. ASSUME NEW c \in 1..Len(otps), otps[c].verified
      PROVE  \/ c \in cut'
             \/ \E s \in 1..Len(sessions') : sessions'[s].code = c
             \/ \E p \in Procs : Logging(p, c)'
  <2>1. CASE c \in cut
    BY <2>1 DEF HistoryGrows
  <2>2. CASE \E s \in 1..Len(sessions) : sessions[s].code = c
    BY <1>1, <2>2
  <2>3. CASE \E p \in Procs : Logging(p, c)
    BY <2>3
  <2> QED BY <1>2, <2>1, <2>2, <2>3 DEF UsedAccounted
<1>3. ASSUME NEW c \in 1..Len(otps), otps'[c].verified
      PROVE  \/ c \in cut'
             \/ \E s \in 1..Len(sessions') : sessions'[s].code = c
             \/ \E p \in Procs : Logging(p, c)'
  BY <1>2, <1>3
<1> QED BY <1>3 DEF UsedAccounted

\* A request that stands still, or is not logging in.
LEMMA LoggingStays ==
    ASSUME Sound, NEW p \in Procs, NEW l, NEW t, At(p, l, t),
           NEW c, Logging(p, c) => l \in AfterMark /\ t.code = c
    PROVE  \A q \in Procs : Logging(q, c) => Logging(q, c)'
  BY AtMoves DEF Sound, Logging

LEMMA GoesUsed ==
    ASSUME Sound, UsedAccounted, NEW p \in Procs, Goes(p)
    PROVE  UsedAccounted'
<1>0. Growing /\ HistoryGrows /\ Sound'
  BY GoesSound, GoesHistory
<1>1. CASE Mark(p)
  <2>1. /\ Len(otps') = Len(otps) /\ At(p, "find", task[p]) /\ pc[p] = "mark"
        /\ \A d \in 1..Len(otps) : d # task[p].code => otps'[d] = otps[d]
    BY <1>1, MarkDoes
  <2>2. \A c \in 1..Len(otps), q \in Procs : Logging(q, c) => Logging(q, c)'
    <3>1. ~ (pc[p] \in AfterMark)
      BY <2>1 DEF AfterMark
    <3>2. \A q \in Procs \ {p} : pc'[q] = pc[q] /\ task'[q] = task[q]
      BY <2>1, AtMoves DEF Sound
    <3> QED BY <3>1, <3>2 DEF Logging
  <2>3. ASSUME NEW c \in 1..Len(otps), otps'[c].verified
        PROVE  otps[c].verified \/ \E q \in Procs : Logging(q, c)'
    <3>1. pc'[p] = "find" /\ task'[p] = task[p]
      BY <2>1, AtMoves DEF Sound
    <3>2. task[p].code = c => Logging(p, c)'
      BY <3>1 DEF Logging, AfterMark
    <3> QED BY <2>1, <2>3, <3>2
  <2> QED BY <1>0, <2>1, <2>2, <2>3, UsedStays
<1>2. CASE Count(p)
  <2>1. /\ Len(otps') = Len(otps) /\ At(p, "idle", NoTask) /\ pc[p] = "count"
        /\ \A d \in 1..Len(otps) : otps'[d].verified = otps[d].verified
    BY <1>2, CountDoes
  <2>2. \A c \in 1..Len(otps), q \in Procs : Logging(q, c) => Logging(q, c)'
    BY <2>1, LoggingStays DEF Logging, AfterMark
  <2> QED BY <1>0, <2>1, <2>2, UsedStays
<1>3. ASSUME ~ Mark(p), ~ Count(p),
             \A c \in 1..Len(otps), q \in Procs : Logging(q, c) =>
                \/ Logging(q, c)' \/ c \in cut'
                \/ \E s \in 1..Len(sessions') : sessions'[s].code = c
      PROVE  UsedAccounted'
  BY <1>0, <1>3, GoesOtps, UsedStays
<1>4. CASE FindUser(p) \/ FindDevice(p) \/ AddDevice(p)
  <2>1. \A u : [task[p] EXCEPT !.user = u].code = task[p].code
    BY HandlerTyped DEF Tasks
  <2>2. {"create", "device", "addDevice", "session"} \subseteq AfterMark
    BY DEF AfterMark
  <2>3. PICK l, t : l \in AfterMark /\ At(p, l, t) /\ t.code = task[p].code
    BY <1>4, <2>1, <2>2 DEF FindUser, FindDevice, AddDevice, Goto
  <2>4. \A c : \A q \in Procs : Logging(q, c) => Logging(q, c)'
    BY <2>3, LoggingStays DEF Logging
  <2>5. ~ Mark(p) /\ ~ Count(p)
    BY <1>4 DEF FindUser, FindDevice, AddDevice, Mark, Count
  <2> QED BY <1>3, <2>4, <2>5
<1>5. CASE CreateUser(p)
  <2>1. ~ Mark(p) /\ ~ Count(p)
    BY <1>5 DEF CreateUser, Mark, Count
  <2>2. \A c \in 1..Len(otps), q \in Procs : Logging(q, c) => Logging(q, c)'
    BY <1>5, CreateUserDoes DEF Logging, AfterMark
  <2> QED BY <1>3, <2>1, <2>2
<1>6. CASE CreateRefused(p)
  <2>1. ~ Mark(p) /\ ~ Count(p) /\ At(p, "idle", NoTask) /\ task[p].code \in cut'
    BY <1>6 DEF CreateRefused, Mark, Count, Answer, Code
  <2>2. \A c \in 1..Len(otps), q \in Procs : Logging(q, c) => Logging(q, c)' \/ c \in cut'
    BY <2>1, AtMoves DEF Sound, Logging
  <2> QED BY <1>3, <2>1, <2>2
<1>7. CASE OpenSession(p)
  <2>1. ~ Mark(p) /\ ~ Count(p) /\ At(p, "idle", NoTask)
    BY <1>7 DEF OpenSession, Mark, Count, Answer
  <2>2. Len(sessions') \in 1..Len(sessions') /\ sessions'[Len(sessions')].code = task[p].code
    BY <1>7, OpenSessionDoes, Lengths DEF Sound, TablesSound
  <2>3. \A c \in 1..Len(otps), q \in Procs : Logging(q, c) =>
           Logging(q, c)' \/ \E s \in 1..Len(sessions') : sessions'[s].code = c
    BY <2>1, <2>2, AtMoves DEF Sound, Logging
  <2> QED BY <1>3, <2>1, <2>3
<1>8. CASE Rotate(p) \/ Purge(p) \/ Revoke(p) \/ Leave(p)
  <2>1. ~ Mark(p) /\ ~ Count(p) /\ pc[p] \notin AfterMark
    BY <1>8 DEF Rotate, Purge, Revoke, Leave, Mark, Count, AfterMark
  <2>2. PICK l, t : At(p, l, t)
    BY <1>8 DEF Rotate, Purge, Revoke, Leave, Answer, Goto
  <2>3. \A c \in 1..Len(otps), q \in Procs : Logging(q, c) => Logging(q, c)'
    BY <2>1, <2>2, LoggingStays DEF Logging
  <2> QED BY <1>3, <2>1, <2>3
<1>9. CASE QueryFails(p)
  <2>1. otps' = otps
    BY <1>9 DEF QueryFails, BreakOff, accounts
  <2>2. \A c \in 1..Len(otps), q \in Procs : Logging(q, c) => Logging(q, c)' \/ c \in cut'
    BY <1>9 DEF QueryFails, BreakOff, Logging, AfterMark, Code
  <2> QED BY <1>0, <2>1, <2>2, UsedStays
<1> QED BY <1>1, <1>2, <1>4, <1>5, <1>6, <1>7, <1>8, <1>9 DEF Goes

LEMMA NextUsed == Sound /\ UsedAccounted /\ [Next]_vars => UsedAccounted'
<1> SUFFICES ASSUME Sound, UsedAccounted, [Next]_vars PROVE UsedAccounted'
  OBVIOUS
<1>0. Growing /\ HistoryGrows /\ Sound'
  BY NextSound, NextHistory
<1>1. ASSUME otps' = otps,
             \A c \in 1..Len(otps), q \in Procs : Logging(q, c) => Logging(q, c)' \/ c \in cut'
      PROVE  UsedAccounted'
  BY <1>0, <1>1, UsedStays
<1>2. ASSUME NEW who \in Identifiers, StartOtp(who) PROVE UsedAccounted'
  <2>1. ASSUME NEW c \in 1..Len(otps'), otps'[c].verified
        PROVE  c \in 1..Len(otps) /\ otps[c].verified
    BY <1>2, <2>1, StartOtpDoes
  <2>2. UNCHANGED <<sessions, pc, task, cut>>
    BY <1>2 DEF StartOtp, history
  <2> QED BY <2>1, <2>2 DEF UsedAccounted, Logging
<1>3. ASSUME NEW p \in Procs, NEW c \in Codes, NEW right \in BOOLEAN, Verify(p, c, right)
      PROVE  UsedAccounted'
  <2>1. otps' = otps /\ pc[p] = "idle" /\ \E l, t : At(p, l, t)
    BY <1>3 DEF Verify, accounts
  <2>2. \A d \in 1..Len(otps), q \in Procs : Logging(q, d) => Logging(q, d)'
    BY <2>1, LoggingStays DEF Logging, AfterMark
  <2> QED BY <1>1, <2>1, <2>2
<1>4. ASSUME NEW p \in Procs, NEW s \in DOMAIN sessions, Refresh(p, s) PROVE UsedAccounted'
  <2>1. otps' = otps /\ pc[p] = "idle" /\ \E l, t : At(p, l, t)
    BY <1>4 DEF Refresh, accounts
  <2>2. \A d \in 1..Len(otps), q \in Procs : Logging(q, d) => Logging(q, d)'
    BY <2>1, LoggingStays DEF Logging, AfterMark
  <2> QED BY <1>1, <2>1, <2>2
<1>5. ASSUME NEW p \in Procs, NEW u \in Uids, Delete(p, u) PROVE UsedAccounted'
  <2>1. otps' = otps /\ pc[p] = "idle" /\ \E l, t : At(p, l, t)
    BY <1>5 DEF Delete
  <2>2. \A d \in 1..Len(otps), q \in Procs : Logging(q, d) => Logging(q, d)'
    BY <2>1, LoggingStays DEF Logging, AfterMark
  <2> QED BY <1>1, <2>1, <2>2
<1>6. ASSUME NEW s \in DOMAIN sessions, Logout(s) PROVE UsedAccounted'
  <2>1. UNCHANGED <<otps, pc, task>>
    BY <1>6 DEF Logout
  <2> QED BY <1>1, <2>1 DEF Logging
<1>7. CASE Crash
  <2>1. otps' = otps
    BY <1>7 DEF Crash, BreakOff, accounts
  <2>2. \A c \in 1..Len(otps), q \in Procs : Logging(q, c) => c \in cut'
    BY <1>7 DEF Crash, BreakOff, Logging, AfterMark, Code
  <2> QED BY <1>1, <2>1, <2>2
<1>8. CASE UNCHANGED vars
  <2>1. UNCHANGED <<otps, pc, task>>
    BY <1>8 DEF vars, accounts
  <2> QED BY <1>1, <2>1 DEF Logging
<1>9. ASSUME NEW p \in Procs, Goes(p) PROVE UsedAccounted'
  BY <1>9, GoesUsed
<1> QED BY <1>2, <1>3, <1>4, <1>5, <1>6, <1>7, <1>8, <1>9, NextCases

-----------------------------------------------------------------------------
(* OneRowEach: an identifier has one account, which the unique indexes see *)
(* to; a device has one row, if nobody found none while another request    *)
(* was about to insert it.                                                 *)
HoldersApart ==
    \A u, v \in 1..Len(users) : users[u].who = users[v].who /\ users[u].who # NoOne => u = v

Adding(p, u) == pc[p] = "addDevice" /\ task[p].user = u

OneDevice(u) ==
    /\ \A p, q \in Procs : Adding(p, u) /\ Adding(q, u) => p = q
    /\ \A p \in Procs : Adding(p, u) => users[u].devices = 0
    /\ users[u].devices \in {0, 1}

DevicesApart == \A u \in 1..Len(users) : <<"device", u>> \notin overlapped => OneDevice(u)

RowsApart == HoldersApart /\ DevicesApart

LEMMA OneAtMost ==
    ASSUME NEW S, \A x, y \in S : x = y
    PROVE  Cardinality(S) <= 1
<1>1. CASE S = {}
  BY <1>1, FS_EmptySet
<1>2. CASE S # {}
  <2>1. PICK x \in S : S = {x}
    BY <1>2
  <2> QED BY <2>1, FS_Singleton
<1> QED BY <1>1, <1>2

LEMMA RowsApartTell == Sound /\ RowsApart => OneRowEach
<1> SUFFICES ASSUME Sound, RowsApart PROVE OneRowEach
  OBVIOUS
<1>1. ASSUME NEW who \in Identifiers PROVE Cardinality(Holders(who)) <= 1
  <2>1. \A u, v \in Holders(who) : u = v
    BY AuthAssumption, Lengths DEF Holders, RowsApart, HoldersApart, Sound, TablesSound
  <2> QED BY <2>1, OneAtMost
<1>2. ASSUME NEW u \in Uids PROVE users[u].devices <= 1 \/ <<"device", u>> \in overlapped
  BY <1>2, Lengths DEF RowsApart, DevicesApart, OneDevice, Sound, TablesSound
<1> QED BY <1>1, <1>2 DEF OneRowEach

LEMMA RowsStay ==
    ASSUME RowsApart, HistoryGrows, users' = users,
           \A q \in Procs : pc'[q] = "addDevice" => pc[q] = "addDevice" /\ task'[q] = task[q]
    PROVE  RowsApart'
<1>1. ASSUME NEW u \in 1..Len(users), <<"device", u>> \notin overlapped'
      PROVE  OneDevice(u)'
  <2>1. OneDevice(u) /\ \A q \in Procs : Adding(q, u)' => Adding(q, u)
    BY <1>1 DEF RowsApart, DevicesApart, HistoryGrows, Adding
  <2> QED BY <2>1 DEF OneDevice
<1> QED BY <1>1 DEF RowsApart, HoldersApart, DevicesApart

\* Only FindDevice leads to the INSERT of a device.
LEMMA AtAdding ==
    ASSUME Sound, NEW p \in Procs, NEW l, NEW t, At(p, l, t), l # "addDevice"
    PROVE  \A q \in Procs : pc'[q] = "addDevice" => pc[q] = "addDevice" /\ task'[q] = task[q]
  BY AtMoves DEF Sound

LEMMA GoesAdding ==
    ASSUME Sound, NEW p \in Procs, Goes(p), ~ FindDevice(p)
    PROVE  \A q \in Procs : pc'[q] = "addDevice" => pc[q] = "addDevice" /\ task'[q] = task[q]
<1>1. CASE CreateUser(p)
  BY <1>1, CreateUserDoes
<1>2. CASE QueryFails(p)
  BY <1>2 DEF QueryFails, BreakOff
<1>3. CASE FindUser(p)
  <2>1. \E t : At(p, "create", t) \/ At(p, "device", t)
    BY <1>3 DEF FindUser, Goto
  <2> QED BY <2>1, AtAdding
<1>4. CASE ~ CreateUser(p) /\ ~ QueryFails(p) /\ ~ FindUser(p)
  <2>1. \E l, t : At(p, l, t) /\ l # "addDevice"
    BY <1>4 DEF Goes, Count, Mark, CreateRefused, AddDevice, OpenSession, Rotate, Purge, Revoke,
                Leave, Answer, Goto
  <2> QED BY <2>1, AtAdding
<1> QED BY <1>1, <1>2, <1>3, <1>4

LEMMA CreateUserRows ==
    ASSUME Sound, RowsApart, NEW p \in Procs, CreateUser(p)
    PROVE  RowsApart'
<1> DEFINE n == Len(users) + 1
           who == otps[task[p].code].who
<1>1. /\ Len(users') = n /\ n \in Nat /\ users'[n].who = who /\ users'[n].devices = 0
      /\ \A u \in 1..Len(users) : users'[u] = users[u] /\ users[u].who # who
      /\ \A q \in Procs \ {p} : pc'[q] = pc[q] /\ task'[q] = task[q]
      /\ pc'[p] = "device" /\ overlapped' = overlapped /\ Len(users) \in Nat
  <2>1. \A u \in 1..Len(users) : users[u].who # who
    BY CreateUserDoes, Lengths DEF Holders, Sound, TablesSound
  <2> QED BY <2>1, CreateUserDoes, Lengths DEF Sound, TablesSound, history
<1> HIDE DEF who
<1>2. \A u \in 1..Len(users') : u \in 1..Len(users) \/ u = n
  BY <1>1
<1>3. HoldersApart'
  BY <1>1, <1>2 DEF RowsApart, HoldersApart
<1>4. \A u : \A q \in Procs : Adding(q, u)' => Adding(q, u)
  BY <1>1 DEF Adding
<1>5. ASSUME NEW u \in 1..Len(users'), <<"device", u>> \notin overlapped'
      PROVE  OneDevice(u)'
  <2>1. CASE u \in 1..Len(users)
    <3>1. OneDevice(u) /\ users'[u] = users[u]
      BY <1>1, <1>5, <2>1 DEF RowsApart, DevicesApart
    <3> QED BY <1>4, <3>1 DEF OneDevice
  <2>2. CASE u = n
    <3>1. \A q \in Procs : task[q].user # u
      BY <1>1, <2>2, HandlerTyped DEF Refers
    <3>2. \A q \in Procs : ~ Adding(q, u)'
      BY <1>4, <3>1 DEF Adding
    <3> QED BY <1>1, <2>2, <3>2 DEF OneDevice
  <2> QED BY <1>2, <2>1, <2>2
<1> QED BY <1>3, <1>5 DEF RowsApart, DevicesApart

LEMMA FindDeviceRows ==
    ASSUME Sound, RowsApart, NEW p \in Procs, FindDevice(p)
    PROVE  RowsApart'
<1> DEFINE l == IF users[User(p)].devices > 0 THEN "session" ELSE "addDevice"
<1>1. /\ users' = users /\ At(p, l, task[p]) /\ pc[p] = "device"
      /\ Meets(p, {"addDevice"}, "user", User(p), "device")
  BY DEF FindDevice, Goto, accounts
<1>2. /\ pc'[p] = l /\ task'[p] = task[p]
      /\ \A q \in Procs \ {p} : pc'[q] = pc[q] /\ task'[q] = task[q]
  <2> HIDE DEF l
  <2> QED BY <1>1, AtMoves DEF Sound
<1>3. overlapped \subseteq overlapped'
  BY <1>1 DEF Meets
<1>4. ASSUME NEW u \in 1..Len(users), <<"device", u>> \notin overlapped'
      PROVE  OneDevice(u)'
  <2>1. OneDevice(u)
    BY <1>3, <1>4 DEF RowsApart, DevicesApart
  <2>2. CASE task[p].user = u /\ l = "addDevice"
    <3>1. users[u].devices = 0
      BY <2>1, <2>2 DEF OneDevice, User
    <3>2. ASSUME NEW q \in Procs \ {p}, Adding(q, u) PROVE FALSE
      <4>1. pc[q] \in {"addDevice"} /\ task[q]["user"] = User(p)
        BY <2>2, <3>2 DEF Adding, User
      <4>2. <<"device", User(p)>> \in overlapped'
        BY <1>1, <4>1 DEF Meets
      <4> QED BY <1>4, <2>2, <4>2 DEF User
    <3>3. \A q \in Procs : Adding(q, u)' => q = p
      BY <1>2, <3>2 DEF Adding
    <3> QED BY <1>1, <3>1, <3>3 DEF OneDevice
  <2>3. CASE ~ (task[p].user = u /\ l = "addDevice")
    <3>1. \A q \in Procs : Adding(q, u)' => Adding(q, u)
      BY <1>2, <2>3 DEF Adding
    <3> QED BY <1>1, <2>1, <3>1 DEF OneDevice
  <2> QED BY <2>2, <2>3
<1> QED BY <1>1, <1>4 DEF RowsApart, HoldersApart, DevicesApart

LEMMA AddDeviceRows ==
    ASSUME Sound, RowsApart, NEW p \in Procs, AddDevice(p)
    PROVE  RowsApart'
<1> DEFINE v == task[p].user
<1>1. /\ pc[p] = "addDevice" /\ v \in 1..Len(users) /\ Len(users') = Len(users)
      /\ \A u \in 1..Len(users) : u # v => users'[u] = users[u]
      /\ users'[v].who = users[v].who /\ users'[v].devices = users[v].devices + 1
      /\ overlapped' = overlapped
  BY AddDeviceDoes DEF history
<1>2. /\ pc'[p] = "session"
      /\ \A q \in Procs \ {p} : pc'[q] = pc[q] /\ task'[q] = task[q]
  BY AddDeviceDoes, AtMoves DEF Sound
<1>3. \A u : \A q \in Procs : Adding(q, u)' => Adding(q, u) /\ q # p
  BY <1>2 DEF Adding
<1>4. ASSUME NEW u \in 1..Len(users), <<"device", u>> \notin overlapped'
      PROVE  OneDevice(u)'
  <2>1. OneDevice(u)
    BY <1>1, <1>4 DEF RowsApart, DevicesApart
  <2>2. CASE u = v
    <3>1. Adding(p, u)
      BY <1>1, <2>2 DEF Adding
    <3>2. users'[u].devices = 1 /\ \A q \in Procs : ~ Adding(q, u)'
      BY <1>1, <1>3, <2>1, <2>2, <3>1 DEF OneDevice
    <3> QED BY <3>2 DEF OneDevice
  <2>3. CASE u # v
    <3>1. users'[u] = users[u]
      BY <1>1, <2>3
    <3> QED BY <1>3, <2>1, <3>1 DEF OneDevice
  <2> QED BY <2>2, <2>3
<1>5. HoldersApart'
  <2>1. \A u \in 1..Len(users) : users'[u].who = users[u].who
    BY <1>1
  <2> QED BY <1>1, <2>1 DEF RowsApart, HoldersApart
<1> QED BY <1>1, <1>4, <1>5 DEF RowsApart, DevicesApart

LEMMA DeleteRows ==
    ASSUME Sound, RowsApart, NEW p \in Procs, NEW v \in Uids, Delete(p, v)
    PROVE  RowsApart'
<1>1. /\ v \in 1..Len(users) /\ Len(users') = Len(users)
      /\ \A u \in 1..Len(users) : u # v => users'[u] = users[u]
      /\ users'[v].who = NoOne /\ users'[v].devices = users[v].devices
      /\ overlapped' = overlapped
  BY DeleteDoes DEF history
<1>2. \A q \in Procs : pc'[q] = "addDevice" => pc[q] = "addDevice" /\ task'[q] = task[q]
  <2>1. \E t : At(p, "revoke", t)
    BY DEF Delete
  <2> QED BY <2>1, AtAdding
<1>3. HoldersApart'
  BY <1>1 DEF RowsApart, HoldersApart
<1>4. ASSUME NEW u \in 1..Len(users), <<"device", u>> \notin overlapped'
      PROVE  OneDevice(u)'
  <2>1. OneDevice(u) /\ users'[u].devices = users[u].devices
    BY <1>1, <1>4 DEF RowsApart, DevicesApart
  <2>2. \A q \in Procs : Adding(q, u)' => Adding(q, u)
    BY <1>2 DEF Adding
  <2> QED BY <2>1, <2>2 DEF OneDevice
<1> QED BY <1>1, <1>3, <1>4 DEF RowsApart, DevicesApart

LEMMA NextRows == Sound /\ RowsApart /\ [Next]_vars => RowsApart'
<1> SUFFICES ASSUME Sound, RowsApart, [Next]_vars PROVE RowsApart'
  OBVIOUS
<1>0. HistoryGrows
  BY NextHistory
<1>1. ASSUME NEW who \in Identifiers, StartOtp(who) PROVE RowsApart'
  BY <1>0, <1>1, RowsStay DEF StartOtp
<1>2. ASSUME NEW p \in Procs, NEW c \in Codes, NEW right \in BOOLEAN, Verify(p, c, right)
      PROVE  RowsApart'
  <2> DEFINE l == IF right THEN "mark" ELSE "count"
             t == [NoTask EXCEPT !.code = c]
  <2>1. At(p, l, t) /\ l # "addDevice" /\ users' = users
    BY <1>2 DEF Verify, accounts
  <2> HIDE DEF l, t
  <2> QED BY <1>0, <2>1, AtAdding, RowsStay
<1>3. ASSUME NEW p \in Procs, NEW s \in DOMAIN sessions, Refresh(p, s) PROVE RowsApart'
  <2> DEFINE l == IF sessions[s].revoked THEN "purge" ELSE "rotate"
             t == [NoTask EXCEPT !.user = sessions[s].user, !.session = s,
                                 !.token = sessions[s].token]
  <2>1. At(p, l, t) /\ l # "addDevice" /\ users' = users
    BY <1>3 DEF Refresh, accounts
  <2> HIDE DEF l, t
  <2> QED BY <1>0, <2>1, AtAdding, RowsStay
<1>4. ASSUME NEW p \in Procs, Goes(p), ~ CreateUser(p), ~ FindDevice(p), ~ AddDevice(p)
      PROVE  RowsApart'
  <2>1. users' = users
    BY <1>4 DEF Goes, Count, Mark, FindUser, CreateRefused, OpenSession, Rotate, Purge, Revoke,
                Leave, QueryFails, BreakOff, accounts
  <2> QED BY <1>0, <1>4, <2>1, GoesAdding, RowsStay
<1>5. ASSUME NEW s \in DOMAIN sessions, Logout(s) PROVE RowsApart'
  BY <1>0, <1>5, RowsStay DEF Logout
<1>6. CASE Crash
  <2>1. users' = users /\ \A q \in Procs : pc'[q] = "idle"
    BY <1>6 DEF Crash, BreakOff, accounts
  <2> QED BY <1>0, <2>1, RowsStay
<1>7. CASE UNCHANGED vars
  BY <1>0, <1>7, RowsStay DEF vars, accounts
<1> QED BY <1>1, <1>2, <1>3, <1>4, <1>5, <1>6, <1>7, NextCases, CreateUserRows, FindDeviceRows,
           AddDeviceRows, DeleteRows

-----------------------------------------------------------------------------
(* A token whose refreshes did not overlap is in one request's hands at    *)
(* most, and once it is exchanged no request and no session has it.        *)
Rotating(p, t) == pc[p] = "rotate" /\ task[p].token = t

OneUse(t) ==
    /\ \A p, q \in Procs : Rotating(p, t) /\ Rotating(q, t) => p = q
    /\ \A e \in exchanged : e[1] = t =>
          /\ \A p \in Procs : ~ Rotating(p, t)
          /\ \A s \in 1..Len(sessions) : sessions[s].token # t
    /\ \A e, f \in exchanged : e[1] = t /\ f[1] = t => e = f

UsesApart == \A t \in 1..minted : <<"token", t>> \notin overlapped => OneUse(t)

LEMMA UseStays ==
    ASSUME NEW t, OneUse(t), exchanged' = exchanged, SameSessions,
           \A q \in Procs : pc'[q] = "rotate" => pc[q] = "rotate" /\ task'[q] = task[q]
    PROVE  OneUse(t)'
<1>1. \A q \in Procs : Rotating(q, t)' => Rotating(q, t)
  BY DEF Rotating
<1> QED BY <1>1 DEF OneUse, SameSessions

LEMMA UsesStay ==
    ASSUME Sound, UsesApart, HistoryGrows, exchanged' = exchanged, SameSessions, minted' = minted,
           \A q \in Procs : pc'[q] = "rotate" => pc[q] = "rotate" /\ task'[q] = task[q]
    PROVE  UsesApart'
<1>1. ASSUME NEW t \in 1..minted, <<"token", t>> \notin overlapped' PROVE OneUse(t)'
  BY <1>1, UseStays DEF UsesApart, HistoryGrows
<1> QED BY <1>1 DEF UsesApart

LEMMA AtRotating ==
    ASSUME Sound, NEW p \in Procs, NEW l, NEW t, At(p, l, t), l # "rotate"
    PROVE  \A q \in Procs : pc'[q] = "rotate" => pc[q] = "rotate" /\ task'[q] = task[q]
  BY AtMoves DEF Sound

LEMMA FlowsRotating ==
    ASSUME \A q \in Procs : Flows(q)
    PROVE  \A q \in Procs : pc'[q] = "rotate" => pc[q] = "rotate" /\ task'[q] = task[q]
  BY DEF Flows, AfterMark

LEMMA SessionsSame == sessions' = sessions => SameSessions
  BY DEF SameSessions

LEMMA RefreshUses ==
    ASSUME Sound, UsesApart, NEW p \in Procs, NEW s \in DOMAIN sessions, Refresh(p, s)
    PROVE  UsesApart'
<1> DEFINE l == IF sessions[s].revoked THEN "purge" ELSE "rotate"
           t == [NoTask EXCEPT !.user = sessions[s].user, !.session = s,
                               !.token = sessions[s].token]
           n == sessions[s].token
<1>1. /\ At(p, l, t) /\ UNCHANGED <<sessions, minted, exchanged>>
      /\ Meets(p, {"rotate"}, "token", n, "token")
  BY DEF Refresh, accounts
<1>2. t.token = n /\ s \in 1..Len(sessions)
  BY Lengths DEF NoTask, Sound, TablesSound
<1>3. n = sessions[s].token
  OBVIOUS
<1> HIDE DEF l, t, n
<1>4. pc'[p] = l /\ task'[p] = t /\ \A q \in Procs \ {p} : pc'[q] = pc[q] /\ task'[q] = task[q]
  BY <1>1, AtMoves DEF Sound
<1>5. ASSUME NEW m \in 1..minted, <<"token", m>> \notin overlapped' PROVE OneUse(m)'
  <2>1. OneUse(m)
    BY <1>1, <1>5 DEF UsesApart, Meets
  <2>2. CASE m = n
    <3>1. ASSUME NEW q \in Procs \ {p}, Rotating(q, m) PROVE FALSE
      <4>1. pc[q] \in {"rotate"} /\ task[q]["token"] = n
        BY <2>2, <3>1 DEF Rotating
      <4>2. <<"token", n>> \in overlapped'
        BY <1>1, <4>1 DEF Meets
      <4> QED BY <1>5, <2>2, <4>2
    <3>2. \A e \in exchanged : e[1] # m
      BY <1>2, <1>3, <2>1, <2>2 DEF OneUse
    <3>3. \A q \in Procs : Rotating(q, m)' => q = p
      BY <1>4, <3>1 DEF Rotating
    <3> QED BY <1>1, <3>2, <3>3 DEF OneUse
  <2>3. CASE m # n
    <3>1. \A q \in Procs : Rotating(q, m)' => Rotating(q, m)
      BY <1>2, <1>4, <2>3 DEF Rotating
    <3> QED BY <1>1, <2>1, <3>1 DEF OneUse
  <2> QED BY <2>2, <2>3
<1> QED BY <1>1, <1>5 DEF UsesApart

LEMMA RotateUses ==
    ASSUME Sound, HistoryTyped, UsesApart, NEW p \in Procs, Rotate(p)
    PROVE  UsesApart'
<1> DEFINE n == task[p].token
           s == task[p].session
<1>1. /\ pc[p] = "rotate" /\ minted' = minted + 1 /\ minted \in Nat
      /\ s \in 1..Len(sessions) /\ n \in 1..minted /\ Len(sessions') = Len(sessions)
      /\ \A r \in 1..Len(sessions) : r # s => sessions'[r] = sessions[r]
      /\ sessions'[s].token = minted'
      /\ exchanged' = exchanged \cup {<<n, minted'>>} /\ overlapped' = overlapped
      /\ At(p, "idle", NoTask)
  BY RotateDoes DEF Answer, Sound, TablesSound
<1>2. /\ pc'[p] = "idle"
      /\ \A q \in Procs \ {p} : pc'[q] = pc[q] /\ task'[q] = task[q]
  BY <1>1, AtMoves DEF Sound
<1>3. \A r \in 1..Len(sessions) :
         sessions[r].token \in 1..minted /\ (sessions[r].token = n => r = s)
  BY <1>1, HandlerTyped DEF Claim, Sound, TablesSound, SessionsRefer
<1> HIDE DEF n, s
<1>4. \A t : \A q \in Procs : Rotating(q, t)' => Rotating(q, t) /\ q # p
  BY <1>2 DEF Rotating
<1>5. ASSUME NEW t \in 1..minted', <<"token", t>> \notin overlapped' PROVE OneUse(t)'
  <2>1. CASE t = n
    <3>1. OneUse(t) /\ Rotating(p, t)
      BY <1>1, <1>5, <2>1 DEF UsesApart, Rotating, n
    <3>2. \A e \in exchanged : e[1] # t
      BY <3>1 DEF OneUse
    <3>3. \A e \in exchanged' : e[1] = t => e = <<n, minted'>>
      BY <1>1, <3>2
    <3>4. \A q \in Procs : ~ Rotating(q, t)'
      BY <1>4, <3>1 DEF OneUse
    <3>5. \A r \in 1..Len(sessions') : sessions'[r].token # t
      BY <1>1, <1>3, <2>1
    <3> QED BY <3>3, <3>4, <3>5 DEF OneUse
  <2>2. CASE t # n /\ t \in 1..minted
    <3>1. OneUse(t)
      BY <1>1, <1>5, <2>2 DEF UsesApart
    <3>2. \A e \in exchanged' : e[1] = t => e \in exchanged
      BY <1>1, <2>2
    <3>3. \A r \in 1..Len(sessions') : sessions'[r].token = t => sessions[r].token = t
      BY <1>1, <2>2
    <3> QED BY <1>1, <1>4, <3>1, <3>2, <3>3 DEF OneUse
  <2>3. CASE t = minted'
    <3>1. \A e \in exchanged' : e[1] # t
      <4>1. \A e \in exchanged : e[1] \in 1..minted
        BY DEF HistoryTyped, Tokens
      <4> QED BY <1>1, <2>3, <4>1
    <3>2. \A q \in Procs : ~ Rotating(q, t)'
      <4>1. \A q \in Procs : task[q].token # t
        BY <1>1, <2>3, HandlerTyped DEF Refers
      <4> QED BY <1>4, <4>1 DEF Rotating
    <3> QED BY <3>1, <3>2 DEF OneUse
  <2> QED BY <1>1, <2>1, <2>2, <2>3
<1> QED BY <1>5 DEF UsesApart

LEMMA OpenSessionUses ==
    ASSUME Sound, HistoryTyped, UsesApart, NEW p \in Procs, OpenSession(p)
    PROVE  UsesApart'
<1>1. /\ minted' = minted + 1 /\ minted \in Nat /\ Len(sessions') = Len(sessions) + 1
      /\ \A s \in 1..Len(sessions) : sessions'[s] = sessions[s]
      /\ sessions'[Len(sessions')].token = minted'
      /\ exchanged' = exchanged /\ overlapped' = overlapped
      /\ At(p, "idle", NoTask) /\ Len(sessions) \in Nat
  BY OpenSessionDoes, Lengths DEF Answer, history, Sound, TablesSound
<1>2. \A q \in Procs : pc'[q] = "rotate" => pc[q] = "rotate" /\ task'[q] = task[q]
  BY <1>1, AtRotating
<1>3. \A t : \A q \in Procs : Rotating(q, t)' => Rotating(q, t)
  BY <1>2 DEF Rotating
<1>4. \A e \in exchanged : e[1] \in 1..minted
  BY DEF HistoryTyped, Tokens
<1>5. ASSUME NEW t \in 1..minted', <<"token", t>> \notin overlapped' PROVE OneUse(t)'
  <2>1. CASE t \in 1..minted
    <3>1. OneUse(t)
      BY <1>1, <1>5, <2>1 DEF UsesApart
    <3>2. \A r \in 1..Len(sessions') : sessions'[r].token = t =>
             r \in 1..Len(sessions) /\ sessions[r].token = t
      BY <1>1, <2>1
    <3> QED BY <1>1, <1>3, <3>1, <3>2 DEF OneUse
  <2>2. CASE t = minted'
    <3>1. \A q \in Procs : task[q].token # t
      BY <1>1, <2>2, HandlerTyped DEF Refers
    <3>2. \A q \in Procs : ~ Rotating(q, t)'
      BY <1>3, <3>1 DEF Rotating
    <3>3. \A e \in exchanged' : e[1] # t
      BY <1>1, <1>4, <2>2
    <3> QED BY <3>2, <3>3 DEF OneUse
  <2> QED BY <1>1, <2>1, <2>2
<1> QED BY <1>5 DEF UsesApart

LEMMA GoesUses ==
    ASSUME Sound, UsesApart, NEW p \in Procs, Goes(p), ~ Rotate(p), ~ OpenSession(p)
    PROVE  UsesApart'
<1>1. minted' = minted /\ exchanged' = exchanged
  BY DEF Goes, Count, Mark, FindUser, CreateUser, CreateRefused, FindDevice, AddDevice, Purge,
         Revoke, Leave, QueryFails, BreakOff, accounts, history
<1>2. SameSessions
  <2>1. Purge(p) \/ Revoke(p) => SameSessions
    BY RevokeAllDoes DEF Purge, Revoke, Sound, TablesSound
  <2>2. ~ Purge(p) /\ ~ Revoke(p) => sessions' = sessions
    BY DEF Goes, Count, Mark, FindUser, CreateUser, CreateRefused, FindDevice, AddDevice, Leave,
           QueryFails, BreakOff, accounts
  <2> QED BY <2>1, <2>2, SessionsSame
<1> QED BY <1>1, <1>2, GoesHistory, GoesFlows, FlowsRotating, UsesStay

LEMMA NextUses == Sound /\ HistoryTyped /\ UsesApart /\ [Next]_vars => UsesApart'
<1> SUFFICES ASSUME Sound, HistoryTyped, UsesApart, [Next]_vars PROVE UsesApart'
  OBVIOUS
<1>0. HistoryGrows
  BY NextHistory
<1>1. ASSUME NEW who \in Identifiers, StartOtp(who) PROVE UsesApart'
  BY <1>0, <1>1, SessionsSame, UsesStay DEF StartOtp, history
<1>2. ASSUME NEW p \in Procs, NEW c \in Codes, NEW right \in BOOLEAN, Verify(p, c, right)
      PROVE  UsesApart'
  <2> DEFINE l == IF right THEN "mark" ELSE "count"
             t == [NoTask EXCEPT !.code = c]
  <2>1. At(p, l, t) /\ l # "rotate" /\ UNCHANGED <<sessions, minted, exchanged>>
    BY <1>2 DEF Verify, accounts
  <2> HIDE DEF l, t
  <2> QED BY <1>0, <2>1, AtRotating, SessionsSame, UsesStay
<1>3. ASSUME NEW p \in Procs, NEW u \in Uids, Delete(p, u) PROVE UsesApart'
  <2>1. (\E t : At(p, "revoke", t)) /\ UNCHANGED <<sessions, minted, exchanged>>
    BY <1>3 DEF Delete, history
  <2> QED BY <1>0, <2>1, AtRotating, SessionsSame, UsesStay
<1>4. ASSUME NEW p \in Procs, Goes(p) PROVE UsesApart'
  BY <1>4, GoesUses, RotateUses, OpenSessionUses
<1>5. ASSUME NEW s \in DOMAIN sessions, Logout(s) PROVE UsesApart'
  <2>1. SameSessions /\ UNCHANGED <<minted, exchanged, pc, task>>
    BY <1>5, LogoutDoes DEF history
  <2> QED BY <1>0, <2>1, UsesStay
<1>6. CASE Crash
  <2>1. UNCHANGED <<sessions, minted, exchanged>> /\ \A q \in Procs : pc'[q] = "idle"
    BY <1>6 DEF Crash, BreakOff, accounts
  <2> QED BY <1>0, <2>1, SessionsSame, UsesStay
<1>7. CASE UNCHANGED vars
  <2>1. UNCHANGED <<sessions, minted, exchanged, pc, task>>
    BY <1>7 DEF vars, accounts, history
  <2> QED BY <1>0, <2>1, SessionsSame, UsesStay
<1> QED BY <1>1, <1>2, <1>3, <1>4, <1>5, <1>6, <1>7, NextCases, RefreshUses

-----------------------------------------------------------------------------
(* A user whose sessions have been revoked for good has no identifier, no  *)
(* login under way that did not overlap, and no session that is open.      *)
Leaving(u) == u \in erased \/ \E p \in Procs : pc[p] = "leave" /\ task[p].user = u

LoggedOut(u) ==
    /\ users[u].who = NoOne
    /\ \A q \in Procs : pc[q] \in WithUser => task[q].user # u
    /\ \A s \in 1..Len(sessions) : sessions[s].user = u => sessions[s].revoked

Gone ==
    \A u \in 1..Len(users) : Leaving(u) /\ <<"erase", u>> \notin overlapped => LoggedOut(u)

LEMMA GoneTells == Sound /\ HistoryTyped /\ Gone => ErasedIsLoggedOut
  BY Lengths DEF Gone, Leaving, LoggedOut, ErasedIsLoggedOut, Sound, TablesSound, SessionsRefer

LEMMA LoggedOutStays ==
    ASSUME Sound, Growing, NEW u \in 1..Len(users), LoggedOut(u),
           Len(sessions') = Len(sessions),
           \A q \in Procs : pc'[q] \in WithUser =>
              (pc[q] \in WithUser /\ task'[q].user = task[q].user) \/ task'[q].user # u
    PROVE  LoggedOut(u)'
<1>1. users'[u].who = NoOne
  BY DEF LoggedOut, Growing, UsersGrow
<1>2. \A s \in 1..Len(sessions) : sessions'[s].user = u => sessions'[s].revoked
  BY DEF LoggedOut, Growing, SessionsGrow
<1>3. \A q \in Procs : pc'[q] \in WithUser => task'[q].user # u
  BY DEF LoggedOut
<1> QED BY <1>1, <1>2, <1>3 DEF LoggedOut

LEMMA GoneStays ==
    ASSUME Sound, Gone, Growing, HistoryGrows, Len(users') = Len(users),
           Len(sessions') = Len(sessions),
           \A u \in 1..Len(users) : Leaving(u)' => Leaving(u),
           \A q \in Procs : pc'[q] \in WithUser =>
              pc[q] \in WithUser /\ task'[q].user = task[q].user
    PROVE  Gone'
<1>1. ASSUME NEW u \in 1..Len(users), Leaving(u)', <<"erase", u>> \notin overlapped'
      PROVE  LoggedOut(u)'
  <2>1. LoggedOut(u)
    BY <1>1 DEF Gone, HistoryGrows
  <2> QED BY <2>1, LoggedOutStays
<1> QED BY <1>1 DEF Gone

\* A request that moves to a label that is neither.
LEMMA AtElsewhere ==
    ASSUME Sound, NEW p \in Procs, NEW l, NEW t, At(p, l, t), l \notin WithUser, l # "leave",
           erased' = erased
    PROVE  /\ \A u : Leaving(u)' => Leaving(u)
           /\ \A q \in Procs : pc'[q] \in WithUser =>
                 pc[q] \in WithUser /\ task'[q].user = task[q].user
  BY AtMoves DEF Sound, Leaving

LEMMA FindUserGone ==
    ASSUME Sound, Gone, NEW p \in Procs, FindUser(p)
    PROVE  Gone'
<1> DEFINE found == Holders(otps[Code(p)].who)
           v == CHOOSE w \in found : TRUE
           t == [task[p] EXCEPT !.user = v]
<1>1. UNCHANGED <<users, sessions, erased, overlapped>> /\ Growing /\ HistoryGrows
  BY GoesSound, GoesHistory DEF FindUser, Goes, accounts, history
<1>2. CASE found = {}
  <2>1. At(p, "create", task[p])
    BY <1>2 DEF FindUser, Goto
  <2> QED BY <1>1, <2>1, AtElsewhere, GoneStays DEF WithUser
<1>3. CASE found # {}
  <2>1. v \in 1..Len(users) /\ users[v].who = otps[task[p].code].who
    BY <1>3, HolderFound DEF Code
  <2>2. users[v].who # NoOne
    <3>1. task[p].code \in 1..Len(otps)
      BY HandlerTyped DEF FindUser, Claim, LoginLabels
    <3> QED BY <2>1, <3>1, OtpRow, AuthAssumption DEF Sound, TablesSound, TablesTyped
  <2>3. At(p, "device", t) /\ pc[p] = "find"
    BY <1>3 DEF FindUser
  <2> HIDE DEF v
  <2>4. t.user = v
    BY HandlerTyped DEF Tasks
  <2> HIDE DEF t
  <2>5. /\ pc'[p] = "device" /\ task'[p].user = v
        /\ \A q \in Procs \ {p} : pc'[q] = pc[q] /\ task'[q] = task[q]
    BY <2>3, <2>4, AtMoves DEF Sound
  <2>6. ASSUME NEW u \in 1..Len(users), Leaving(u)', <<"erase", u>> \notin overlapped'
        PROVE  LoggedOut(u)'
    <3>1. Leaving(u)
      BY <1>1, <2>3, <2>5, <2>6 DEF Leaving
    <3>2. LoggedOut(u)
      BY <1>1, <2>6, <3>1 DEF Gone
    <3>3. v # u
      BY <2>2, <3>2 DEF LoggedOut
    <3>4. \A q \in Procs : pc'[q] \in WithUser =>
             (pc[q] \in WithUser /\ task'[q].user = task[q].user) \/ task'[q].user # u
      BY <2>5, <3>3
    <3> QED BY <1>1, <3>2, <3>4, LoggedOutStays
  <2> QED BY <1>1, <2>6 DEF Gone
<1> QED BY <1>2, <1>3

LEMMA CreateUserGone ==
    ASSUME Sound, HistoryTyped, Gone, NEW p \in Procs, CreateUser(p)
    PROVE  Gone'
<1> DEFINE n == Len(users) + 1
<1>1. /\ Len(users') = n /\ Len(users) \in Nat /\ pc[p] = "create" /\ pc'[p] = "device"
      /\ task'[p].user = n /\ UNCHANGED <<sessions, erased, overlapped>>
      /\ \A q \in Procs \ {p} : pc'[q] = pc[q] /\ task'[q] = task[q]
  BY CreateUserDoes, Lengths DEF history, Sound, TablesSound
<1>2. Growing
  BY CreateUserSound
<1>3. \A u : Leaving(u)' => Leaving(u)
  BY <1>1 DEF Leaving
<1>4. \A u : Leaving(u) => u \in 1..Len(users)
  <2>1. \A q \in Procs : pc[q] = "leave" => task[q].user \in 1..Len(users)
    BY HandlerTyped DEF Claim
  <2> QED BY <2>1, Lengths DEF Leaving, HistoryTyped, Sound, TablesSound
<1>5. ASSUME NEW u \in 1..Len(users'), Leaving(u)', <<"erase", u>> \notin overlapped'
      PROVE  LoggedOut(u)'
  <2>1. Leaving(u) /\ u \in 1..Len(users)
    BY <1>3, <1>4, <1>5
  <2>2. LoggedOut(u)
    BY <1>1, <1>5, <2>1 DEF Gone
  <2>3. \A q \in Procs : pc'[q] \in WithUser =>
           (pc[q] \in WithUser /\ task'[q].user = task[q].user) \/ task'[q].user # u
    BY <1>1, <2>1
  <2> QED BY <1>1, <1>2, <2>1, <2>2, <2>3, LoggedOutStays
<1> QED BY <1>5 DEF Gone

LEMMA OpenSessionGone ==
    ASSUME Sound, Gone, NEW p \in Procs, OpenSession(p)
    PROVE  Gone'
<1>1. /\ pc[p] = "session" /\ Len(sessions') = Len(sessions) + 1 /\ Len(sessions) \in Nat
      /\ \A s \in 1..Len(sessions) : sessions'[s] = sessions[s]
      /\ sessions'[Len(sessions')].user = task[p].user
      /\ UNCHANGED <<users, erased, overlapped>> /\ At(p, "idle", NoTask)
  BY OpenSessionDoes, Lengths DEF history, Answer, Sound, TablesSound
<1>2. /\ \A u : Leaving(u)' => Leaving(u)
      /\ \A q \in Procs : pc'[q] \in WithUser =>
            pc[q] \in WithUser /\ task'[q].user = task[q].user
  BY <1>1, AtElsewhere DEF WithUser
<1>3. ASSUME NEW u \in 1..Len(users), Leaving(u)', <<"erase", u>> \notin overlapped'
      PROVE  LoggedOut(u)'
  <2>1. LoggedOut(u)
    BY <1>1, <1>2, <1>3 DEF Gone
  <2>2. task[p].user # u
    BY <1>1, <2>1 DEF LoggedOut, WithUser
  <2>3. \A s \in 1..Len(sessions') : s \in 1..Len(sessions) \/ s = Len(sessions')
    BY <1>1
  <2>4. \A s \in 1..Len(sessions') : sessions'[s].user = u => sessions'[s].revoked
    BY <1>1, <2>1, <2>2, <2>3 DEF LoggedOut
  <2> QED BY <1>1, <1>2, <2>1, <2>4 DEF LoggedOut
<1> QED BY <1>1, <1>3 DEF Gone

LEMMA RevokeGone ==
    ASSUME Sound, Gone, NEW p \in Procs, Revoke(p)
    PROVE  Gone'
<1> DEFINE v == task[p].user
<1>1. /\ pc[p] = "revoke" /\ UNCHANGED <<users, erased>> /\ At(p, "leave", task[p])
      /\ RevokeAll(v) /\ Meets(p, {"device", "addDevice", "session"}, "user", v, "erase")
  BY DEF Revoke, Goto, User
<1>2. Growing /\ HistoryGrows
  BY GoesSound, GoesHistory DEF Goes
<1>3. /\ pc'[p] = "leave" /\ task'[p] = task[p]
      /\ \A q \in Procs \ {p} : pc'[q] = pc[q] /\ task'[q] = task[q]
  BY <1>1, AtMoves DEF Sound
<1>4. /\ SameSessions /\ \A s \in 1..Len(sessions) : sessions[s].user = v => sessions'[s].revoked
  BY <1>1, RevokeAllDoes DEF Sound, TablesSound
<1>5. users[v].who = NoOne
  BY <1>1, HandlerTyped DEF Claim
<1>6. v = task[p].user
  OBVIOUS
<1> HIDE DEF v
<1>7. \A q \in Procs : pc'[q] \in WithUser =>
         q # p /\ pc[q] \in WithUser /\ task'[q] = task[q]
  BY <1>3 DEF WithUser
<1>8. ASSUME NEW u \in 1..Len(users), Leaving(u)', <<"erase", u>> \notin overlapped'
      PROVE  LoggedOut(u)'
  <2>1. CASE u = v
    <3>1. ASSUME NEW q \in Procs, pc'[q] \in WithUser, task'[q].user = u PROVE FALSE
      <4>1. q \in Procs \ {p} /\ pc[q] \in {"device", "addDevice", "session"} /\ task[q]["user"] = v
        BY <1>7, <2>1, <3>1 DEF WithUser
      <4>2. <<"erase", v>> \in overlapped'
        BY <1>1, <4>1 DEF Meets
      <4> QED BY <1>8, <2>1, <4>2
    <3>2. \A s \in 1..Len(sessions') : sessions'[s].user = u => sessions'[s].revoked
      BY <1>4, <2>1 DEF SameSessions
    <3> QED BY <1>1, <1>5, <2>1, <3>1, <3>2 DEF LoggedOut
  <2>2. CASE u # v
    <3>1. Leaving(u)
      BY <1>1, <1>3, <1>6, <1>8, <2>2 DEF Leaving
    <3>2. LoggedOut(u)
      BY <1>2, <1>8, <3>1 DEF Gone, HistoryGrows
    <3>3. Len(sessions') = Len(sessions)
      BY <1>4 DEF SameSessions
    <3> QED BY <1>2, <1>7, <3>2, <3>3, LoggedOutStays
  <2> QED BY <2>1, <2>2
<1> QED BY <1>1, <1>8 DEF Gone


\* The steps of a request under way that keep to the labels they stood at.
LEMMA GoesGone ==
    ASSUME Sound, Gone, NEW p \in Procs, Goes(p),
           ~ FindUser(p), ~ CreateUser(p), ~ OpenSession(p), ~ Revoke(p)
    PROVE  Gone'
<1>1. Growing /\ HistoryGrows
  BY GoesSound, GoesHistory
<1>2. Len(users') = Len(users)
  <2>1. AddDevice(p) => Len(users') = Len(users)
    BY AddDeviceDoes
  <2> QED BY <2>1 DEF Goes, Count, Mark, CreateRefused, FindDevice, Rotate, Purge, Leave,
                      QueryFails, BreakOff, accounts
<1>3. Len(sessions') = Len(sessions)
  <2>1. Rotate(p) => Len(sessions') = Len(sessions)
    BY RotateDoes
  <2>2. Purge(p) => Len(sessions') = Len(sessions)
    BY RevokeAllDoes DEF Purge, SameSessions, Sound, TablesSound
  <2> QED BY <2>1, <2>2 DEF Goes, Count, Mark, CreateRefused, FindDevice, AddDevice, Leave,
                            QueryFails, BreakOff, accounts
<1>4. /\ \A u : Leaving(u)' => Leaving(u)
      /\ \A q \in Procs : pc'[q] \in WithUser =>
            pc[q] \in WithUser /\ task'[q].user = task[q].user
  <2>1. CASE Leave(p)
    <3>1. At(p, "idle", NoTask) /\ pc[p] = "leave" /\ erased' = erased \cup {task[p].user}
      BY <2>1 DEF Leave, Answer, User
    <3>2. \A q \in Procs : q # p => pc'[q] = pc[q] /\ task'[q] = task[q]
      BY <3>1, AtMoves DEF Sound
    <3>3. pc'[p] = "idle"
      BY <3>1, AtMoves DEF Sound
    <3> QED BY <3>1, <3>2, <3>3 DEF Leaving, WithUser
  <2>2. CASE Count(p) \/ CreateRefused(p) \/ Rotate(p) \/ Purge(p)
    <3>1. At(p, "idle", NoTask) /\ erased' = erased
      BY <2>2 DEF Count, CreateRefused, Rotate, Purge, Answer, history
    <3> QED BY <3>1, AtElsewhere DEF WithUser
  <2>3. CASE Mark(p)
    <3>1. At(p, "find", task[p]) /\ erased' = erased
      BY <2>3, MarkDoes DEF history
    <3> QED BY <3>1, AtElsewhere DEF WithUser
  <2>4. CASE FindDevice(p) \/ AddDevice(p)
    <3>1. /\ erased' = erased /\ pc[p] \in WithUser
          /\ At(p, "session", task[p]) \/ At(p, "addDevice", task[p])
      BY <2>4 DEF FindDevice, AddDevice, Goto, WithUser, history
    <3>2. /\ task'[p] = task[p] /\ pc'[p] # "leave"
          /\ \A q \in Procs : q # p => pc'[q] = pc[q] /\ task'[q] = task[q]
      BY <3>1, AtMoves DEF Sound
    <3> QED BY <3>1, <3>2 DEF Leaving
  <2>5. CASE QueryFails(p)
    <3>1. /\ erased' = erased
          /\ \A q \in Procs : pc'[q] = "idle" \/ (pc'[q] = pc[q] /\ task'[q] = task[q])
      BY <2>5 DEF QueryFails, BreakOff
    <3> QED BY <3>1 DEF Leaving, WithUser
  <2> QED BY <2>1, <2>2, <2>3, <2>4, <2>5 DEF Goes
<1> QED BY <1>1, <1>2, <1>3, <1>4, GoneStays

LEMMA NextGone == Sound /\ HistoryTyped /\ Gone /\ [Next]_vars => Gone'
<1> SUFFICES ASSUME Sound, HistoryTyped, Gone, [Next]_vars PROVE Gone'
  OBVIOUS
<1>0. Growing /\ HistoryGrows
  BY NextSound, NextHistory
<1>1. ASSUME NEW who \in Identifiers, StartOtp(who) PROVE Gone'
  <2>1. UNCHANGED <<users, sessions, pc, task, erased>>
    BY <1>1 DEF StartOtp, history
  <2> QED BY <1>0, <2>1, GoneStays DEF Leaving
<1>2. ASSUME NEW p \in Procs, NEW c \in Codes, NEW right \in BOOLEAN, Verify(p, c, right)
      PROVE  Gone'
  <2> DEFINE l == IF right THEN "mark" ELSE "count"
             t == [NoTask EXCEPT !.code = c]
  <2>1. At(p, l, t) /\ l \notin WithUser /\ l # "leave" /\ UNCHANGED <<users, sessions, erased>>
    BY <1>2 DEF Verify, accounts, WithUser
  <2> HIDE DEF l, t
  <2> QED BY <1>0, <2>1, AtElsewhere, GoneStays
<1>3. ASSUME NEW p \in Procs, NEW s \in DOMAIN sessions, Refresh(p, s) PROVE Gone'
  <2> DEFINE l == IF sessions[s].revoked THEN "purge" ELSE "rotate"
             t == [NoTask EXCEPT !.user = sessions[s].user, !.session = s,
                                 !.token = sessions[s].token]
  <2>1. At(p, l, t) /\ l \notin WithUser /\ l # "leave" /\ UNCHANGED <<users, sessions, erased>>
    BY <1>3 DEF Refresh, accounts, WithUser
  <2> HIDE DEF l, t
  <2> QED BY <1>0, <2>1, AtElsewhere, GoneStays
<1>4. ASSUME NEW p \in Procs, NEW u \in Uids, Delete(p, u) PROVE Gone'
  <2> DEFINE t == [NoTask EXCEPT !.user = u]
  <2>1. At(p, "revoke", t) /\ Len(users') = Len(users) /\ UNCHANGED <<sessions, erased>>
    BY <1>4, DeleteDoes DEF history
  <2> HIDE DEF t
  <2>2. "revoke" \notin WithUser
    BY DEF WithUser
  <2> QED BY <1>0, <2>1, <2>2, AtElsewhere, GoneStays
<1>5. ASSUME NEW p \in Procs, Goes(p) PROVE Gone'
  BY <1>5, GoesGone, FindUserGone, CreateUserGone, OpenSessionGone, RevokeGone
<1>6. ASSUME NEW s \in DOMAIN sessions, Logout(s) PROVE Gone'
  <2>1. Len(sessions') = Len(sessions) /\ UNCHANGED <<users, pc, task, erased>>
    BY <1>6, LogoutDoes DEF SameSessions, history
  <2> QED BY <1>0, <2>1, GoneStays DEF Leaving
<1>7. CASE Crash
  <2>1. UNCHANGED <<users, sessions, erased>> /\ \A q \in Procs : pc'[q] = "idle"
    BY <1>7 DEF Crash, BreakOff, accounts
  <2> QED BY <1>0, <2>1, GoneStays DEF Leaving, WithUser
<1>8. CASE UNCHANGED vars
  <2>1. UNCHANGED <<users, sessions, pc, task, erased>>
    BY <1>8 DEF vars, accounts, history
  <2> QED BY <1>0, <2>1, GoneStays DEF Leaving
<1> QED BY <1>1, <1>2, <1>3, <1>4, <1>5, <1>6, <1>7, <1>8, NextCases

-----------------------------------------------------------------------------
(* The inductive invariant.                                                *)
IInv ==
    /\ Sound /\ HistoryTyped /\ RoomLeft /\ GuessesFit /\ GuessesTold /\ LoginsApart
    /\ UsedAccounted /\ RowsApart /\ UsesApart /\ Gone

LEMMA InitIInv == Init => IInv
<1> SUFFICES ASSUME Init PROVE IInv
  OBVIOUS
<1>1. /\ Len(otps) = 0 /\ Len(users) = 0 /\ Len(sessions) = 0 /\ minted = 0
      /\ \A q \in Procs : pc[q] = "idle" /\ task[q] = NoTask
  BY DEF Init
<1>2. \A i \in 1..0 : FALSE
  OBVIOUS
<1>3. HistoryTyped
  BY AuthAssumption DEF Init, HistoryTyped
<1>4. RoomLeft
  <2>1. Minting = {}
    BY <1>1 DEF Minting, LoginLabels
  <2>2. Cardinality(Minting) = 0
    BY <2>1, FS_EmptySet
  <2> QED BY <1>1, <2>2, AuthAssumption DEF RoomLeft
<1>5. GuessesFit /\ LoginsApart /\ UsedAccounted
  BY <1>1, <1>2 DEF GuessesFit, LoginsApart, UsedAccounted
<1>6. RowsApart
  <2>1. Len(users) = 0 /\ \A u \in 1..Len(users) : FALSE
    BY <1>1, <1>2
  <2> QED BY <2>1 DEF RowsApart, HoldersApart, DevicesApart
<1>7. UsesApart /\ Gone
  BY <1>1, <1>2 DEF UsesApart, Gone
<1>8. GuessesTold
  <2>1. CountsTyped /\ Len(otps) <= MaxCodes
    BY <1>1, AuthAssumption DEF Init, CountsTyped
  <2>2. ASSUME NEW c \in 1..MaxCodes PROVE GuessTold(c)
    <3>1. guesses[c] = 0 /\ uncounted[c] = 0 /\ Attempts(c) = 0
      BY <1>1 DEF Init, Attempts
    <3>2. Cardinality(Counting(c)) \in Nat
      BY CountingCounts
    <3> QED BY <3>1, <3>2 DEF GuessTold
  <2> QED BY <2>1, <2>2 DEF GuessesTold
<1> QED BY <1>3, <1>4, <1>5, <1>6, <1>7, <1>8, InitSound DEF IInv

LEMMA NextIInv == IInv /\ [Next]_vars => IInv'
  BY NextSound, NextHistoryTyped, NextRoom, NextGuesses, NextTold, NextLogins, NextUsed, NextRows, NextUses,
     NextGone DEF IInv

THEOREM Inductive == Spec => []IInv
  BY InitIInv, NextIInv, PTL DEF Spec

-----------------------------------------------------------------------------
\* Rows and references are well formed, and the bounds are kept.
THEOREM AuthTypeOK == Spec => []TypeOK
<1>1. IInv => TypeOK
  <2> SUFFICES ASSUME IInv PROVE TypeOK
    OBVIOUS
  <2>1. minted \in 0..MaxTokens
    <3>1. Minting \subseteq Procs
      BY DEF Minting
    <3>2. Cardinality(Minting) \in Nat
      BY <3>1, SomeProcs
    <3> QED BY <3>2, AuthAssumption DEF IInv, RoomLeft
  <2>2. \A p \in Procs : Refers(p)
    BY DEF IInv, Sound, Claims, Claim
  <2> QED BY <2>1, <2>2, TypeFollows DEF IInv, Sound, TablesSound, GuessesTold
<1> QED BY <1>1, Inductive, PTL

(* Nobody is logged in without the code: whatever the requests interleave, *)
(* behind each session is a code of the account's own identifier that was  *)
(* typed in right and is used up.  What createSessionAndTokens relies on   *)
(* was read awaits before, and is still so when the session is inserted.   *)
THEOREM AuthLoginWasProved == Spec => []LoginWasProved
<1>1. IInv => LoginWasProved
  BY Lengths DEF IInv, Sound, TablesSound, SessionsProved, SessionProved, LoginWasProved
<1> QED BY <1>1, Inductive, PTL

(* A code opens a second session only if two verifications of it overlap   *)
(* between reading verifiedAt and setting it.                              *)
THEOREM AuthCodeOpensOneSession == Spec => []CodeOpensOneSession
<1>1. IInv => CodeOpensOneSession
  <2> SUFFICES ASSUME IInv, NEW c \in Codes, <<"code", c>> \notin overlapped
               PROVE  Cardinality({s \in DOMAIN sessions : sessions[s].code = c}) <= 1
    BY DEF CodeOpensOneSession
  <2>1. DOMAIN sessions = 1..Len(sessions) /\ c \in 1..Len(otps)
    BY Lengths DEF IInv, Sound, TablesSound
  <2>2. OneLogin(c)
    BY <2>1 DEF IInv, LoginsApart
  <2>3. \A s, t \in {r \in DOMAIN sessions : sessions[r].code = c} : s = t
    BY <2>1, <2>2 DEF OneLogin
  <2> QED BY <2>3, OneAtMost
<1> QED BY <1>1, Inductive, PTL

(* No used code is lost without a trace: it opened a session, a request    *)
(* has it still to open, or that request broke off.                        *)
THEOREM AuthUsedCodeLogsIn == Spec => []UsedCodeLogsIn
<1>1. IInv => UsedCodeLogsIn
  BY Lengths DEF IInv, Sound, TablesSound, UsedAccounted, Logging, UsedCodeLogsIn, Code
<1> QED BY <1>1, Inductive, PTL

(* However many requests guess at once, a code is guessed wrong at most    *)
(* maxAttempts times, once more for each other request, and once for each  *)
(* guess that a fault after its comparison has kept from being counted.    *)
THEOREM AuthGuessesBounded == Spec => []GuessesBounded
<1>1. IInv => GuessesBounded
  <2> SUFFICES ASSUME IInv, NEW c \in Codes
               PROVE  guesses[c] <= MaxAttempts + Cardinality(Procs) - 1 + uncounted[c]
    BY DEF GuessesBounded
  <2>1. c \in 1..Len(otps) /\ c \in 1..MaxCodes
    <3>1. Codes = 1..Len(otps) /\ Len(otps) \in Nat
      BY Lengths DEF IInv, Sound, TablesSound
    <3> QED BY <3>1, AuthAssumption DEF IInv, GuessesTold
  <2>2. GuessFits(c) /\ otps[c].attempts \in Nat
    BY <2>1, OtpRow DEF IInv, GuessesFit, Sound, TablesSound, TablesTyped
  <2>3. /\ GuessTold(c) /\ Attempts(c) = otps[c].attempts
        /\ guesses[c] \in Nat /\ uncounted[c] \in Nat
    BY <2>1 DEF IInv, GuessesTold, CountsTyped, Attempts
  <2> QED BY <2>2, <2>3, CountingCounts, AuthAssumption DEF GuessFits, GuessTold
<1> QED BY <1>1, Inductive, PTL

(* An identifier has one account, though the SELECT and the INSERT are     *)
(* awaits apart; a user has one device row, unless two logins of the user  *)
(* overlapped at the SELECT of findOrCreateDevice.                         *)
THEOREM AuthOneRowEach == Spec => []OneRowEach
<1>1. IInv => OneRowEach
  BY RowsApartTell DEF IInv
<1> QED BY <1>1, Inductive, PTL

(* A refresh token is exchanged a second time only if two refreshes with   *)
(* it overlap between the look-up of its hash and the rotation.            *)
THEOREM AuthTokenExchangedOnce == Spec => []TokenExchangedOnce
<1>1. IInv => TokenExchangedOnce
  <2> SUFFICES ASSUME IInv, NEW t \in Tokens, <<"token", t>> \notin overlapped
               PROVE  Cardinality({e \in exchanged : e[1] = t}) <= 1
    BY DEF TokenExchangedOnce
  <2>1. OneUse(t)
    BY DEF IInv, UsesApart, Tokens
  <2>2. \A e, f \in {x \in exchanged : x[1] = t} : e = f
    BY <2>1 DEF OneUse
  <2> QED BY <2>2, OneAtMost
<1> QED BY <1>1, Inductive, PTL

(* Once the deletion of an account was answered, every session of it is    *)
(* revoked, unless a login that had found the account was still under way  *)
(* when the sessions were.                                                 *)
THEOREM AuthErasedIsLoggedOut == Spec => []ErasedIsLoggedOut
<1>1. IInv => ErasedIsLoggedOut
  BY GoneTells DEF IInv
<1> QED BY <1>1, Inductive, PTL
=============================================================================
