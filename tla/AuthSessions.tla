---------------------------- MODULE AuthSessions ----------------------------
(***************************************************************************)
(* AuthService (modules/auth): one-time codes, accounts, sessions and the  *)
(* rotation of refresh tokens, with the deletion of accounts               *)
(* (modules/account).  Every handler is a request p; each await of a query *)
(* is a boundary between actions, and no handler opens a transaction.      *)
(* Expiry only adds answers that write nothing, at any time, so the clock  *)
(* is left out: the behaviours here include all those in which codes and   *)
(* sessions expire.                                                        *)
(***************************************************************************)
EXTENDS Integers, FiniteSets, Sequences

CONSTANTS
    Procs,       \* HTTP requests that can run at the same time
    Identifiers, \* normalised phone numbers and e-mail addresses
    NoOne,       \* the NULL of phone_hash and email_hash
    MaxAttempts, \* config.otp.maxAttempts
    MaxCodes,    \* bound: codes sent
    MaxTokens,   \* bound: refresh tokens generated
    MaxFaults    \* bound: restarts and failing statements

ASSUME AuthAssumption ==
    /\ IsFiniteSet(Procs)
    /\ NoOne \notin Identifiers
    /\ MaxAttempts \in Nat \ {0}
    /\ MaxCodes \in Nat /\ MaxTokens \in Nat /\ MaxFaults \in Nat

VARIABLES
    otps,       \* otp_verifications, in the order of their creation
    users,      \* users, likewise; devices: how many rows of devices a user has
    sessions,   \* sessions, likewise; code (history): the code that opened it
    minted,     \* number of refresh tokens generated: the latest one
    pc,         \* where each request stands
    task,       \* what it works on
    proved,     \* history: codes that somebody typed in right
    exchanged,  \* history: the token each rotation took, and the one it gave
    erased,     \* history: users whose deletion was answered
    overlapped, \* history: what two requests worked on at the same time
    cut,        \* history: codes whose login broke off after it had used them
    guesses,    \* history: how often each code has been guessed wrong
    uncounted,  \* history: those of them that a fault kept from being counted
    faults      \* number of faults so far

accounts == <<otps, users, sessions, minted>>
counts == <<guesses, uncounted>>
history == <<proved, exchanged, erased, overlapped, cut, counts, faults>>
vars == <<accounts, pc, task, history>>

NoTask == [code |-> 0, user |-> 0, session |-> 0, token |-> 0]

Pcs == {"idle", "count", "mark", "find", "create", "device", "addDevice", "session",
        "rotate", "purge", "revoke", "leave"}

Init ==
    /\ otps = <<>> /\ users = <<>> /\ sessions = <<>> /\ minted = 0
    /\ pc = [p \in Procs |-> "idle"]
    /\ task = [p \in Procs |-> NoTask]
    /\ proved = {} /\ exchanged = {} /\ erased = {} /\ overlapped = {} /\ cut = {}
    /\ guesses = [c \in 1..MaxCodes |-> 0] /\ uncounted = [c \in 1..MaxCodes |-> 0]
    /\ faults = 0

Codes == DOMAIN otps
Uids == DOMAIN users
Tokens == 1..minted

TypeOK ==
    /\ otps \in Seq([who : Identifiers, attempts : Nat, verified : BOOLEAN])
    /\ users \in Seq([who : Identifiers \cup {NoOne}, devices : Nat])
    /\ sessions \in Seq([user : Uids, code : Codes, token : Tokens, revoked : BOOLEAN])
    /\ minted \in 0..MaxTokens
    /\ pc \in [Procs -> Pcs]
    /\ task \in [Procs -> [code : Codes \cup {0}, user : Uids \cup {0},
                           session : DOMAIN sessions \cup {0}, token : Tokens \cup {0}]]
    /\ proved \subseteq Codes /\ cut \subseteq Codes /\ erased \subseteq Uids
    /\ exchanged \subseteq Tokens \X Tokens
    /\ overlapped \subseteq {"code", "token", "device", "erase"} \X Nat
    /\ guesses \in [1..MaxCodes -> Nat] /\ uncounted \in [1..MaxCodes -> Nat]
    /\ faults \in 0..MaxFaults

-----------------------------------------------------------------------------
At(p, label, t) == pc' = [pc EXCEPT ![p] = label] /\ task' = [task EXCEPT ![p] = t]
Goto(p, label) == At(p, label, task[p])
Answer(p) == At(p, "idle", NoTask)

Code(p) == task[p].code
User(p) == task[p].user

\* History: p meets another request that stands at one of the labels with the
\* same value of a field of its task.
Meets(p, labels, field, value, what) ==
    overlapped' = overlapped \cup
        {<<what, value>> : q \in {r \in Procs \ {p} : pc[r] \in labels /\ task[r][field] = value}}

\* Bound: a token is left for every request that may yet need one.
Room == minted + Cardinality({p \in Procs : pc[p] # "idle"}) < MaxTokens

(* POST /otp/start: INSERT, and the code is sent.  A code whose sending    *)
(* failed is not known to anybody: it is not recorded here.                *)
StartOtp(who) ==
    /\ Len(otps) < MaxCodes
    /\ otps' = Append(otps, [who |-> who, attempts |-> 0, verified |-> FALSE])
    /\ UNCHANGED <<users, sessions, minted, pc, task, history>>

\* Variants with a fault: no look at verifiedAt; > instead of >=.
AcceptUsed(c) == otps[c].attempts < MaxAttempts

AcceptOneMore(c) ==
    ~ otps[c].verified /\ otps[c].attempts <= MaxAttempts

Acceptable(c) ==
    ~ otps[c].verified /\ otps[c].attempts < MaxAttempts

\* Variant with a fault: bcrypt.compare without await, a promise is truthy.
VerifyNotAwaited(p, c, right) ==
    /\ pc[p] = "idle" /\ Acceptable(c) /\ Room
    /\ At(p, "mark", [NoTask EXCEPT !.code = c])
    /\ proved' = IF right THEN proved \cup {c} ELSE proved
    /\ guesses' = IF right THEN guesses ELSE [guesses EXCEPT ![c] = @ + 1]
    /\ Meets(p, {"mark"}, "code", c, "code")
    /\ UNCHANGED <<accounts, exchanged, erased, cut, uncounted, faults>>

(* POST /otp/verify: the SELECT, its checks and the comparison. *)
Verify(p, c, right) ==
    /\ pc[p] = "idle" /\ Acceptable(c) /\ Room
    /\ At(p, IF right THEN "mark" ELSE "count", [NoTask EXCEPT !.code = c])
    /\ proved' = IF right THEN proved \cup {c} ELSE proved
    /\ guesses' = IF right THEN guesses ELSE [guesses EXCEPT ![c] = @ + 1]
    /\ Meets(p, {"mark"}, "code", c, "code")
    /\ UNCHANGED <<accounts, exchanged, erased, cut, uncounted, faults>>

(* OTP_ALREADY_USED, or too many failed attempts: nothing is written. *)
VerifyRefused(p, c) ==
    pc[p] = "idle" /\ ~ Acceptable(c) /\ UNCHANGED vars

(* incrementOtpAttempts, and INVALID_OTP. *)
Count(p) ==
    /\ pc[p] = "count"
    /\ otps' = [otps EXCEPT ![Code(p)].attempts = @ + 1]
    /\ Answer(p)
    /\ UNCHANGED <<users, sessions, minted, history>>

(* markOtpVerified. *)
Mark(p) ==
    /\ pc[p] = "mark"
    /\ otps' = [otps EXCEPT ![Code(p)].verified = TRUE]
    /\ Goto(p, "find")
    /\ UNCHANGED <<users, sessions, minted, history>>

Holders(who) == {u \in Uids : users[u].who = who}

(* findByPhoneHash or findByEmailHash. *)
FindUser(p) ==
    LET found == Holders(otps[Code(p)].who)
    IN  /\ pc[p] = "find"
        /\ IF found = {} THEN Goto(p, "create")
           ELSE At(p, "device", [task[p] EXCEPT !.user = CHOOSE u \in found : TRUE])
        /\ UNCHANGED <<accounts, history>>

\* The unique indexes of phone_hash and email_hash; a variant without them.
NeverTaken(who) == FALSE

Taken(who) == Holders(who) # {}

\* Variants with a fault: the new id is not handed on; no session is opened.
CreateForgets(p) ==
    LET who == otps[Code(p)].who
    IN  /\ pc[p] = "create" /\ ~ Taken(who)
        /\ users' = Append(users, [who |-> who, devices |-> 0])
        /\ Goto(p, "session")
        /\ UNCHANGED <<otps, sessions, minted, history>>

CreateOnly(p) ==
    LET who == otps[Code(p)].who
    IN  /\ pc[p] = "create" /\ ~ Taken(who)
        /\ users' = Append(users, [who |-> who, devices |-> 0])
        /\ Answer(p)
        /\ UNCHANGED <<otps, sessions, minted, history>>

CreateUser(p) ==
    LET who == otps[Code(p)].who
    IN  /\ pc[p] = "create" /\ ~ Taken(who)
        /\ users' = Append(users, [who |-> who, devices |-> 0])
        /\ At(p, "device", [task[p] EXCEPT !.user = Len(users')])
        /\ UNCHANGED <<otps, sessions, minted, history>>

(* Another login has created the account meanwhile: the INSERT fails, and  *)
(* the code has been used up.                                              *)
CreateRefused(p) ==
    /\ pc[p] = "create" /\ Taken(otps[Code(p)].who)
    /\ cut' = cut \cup {Code(p)}
    /\ Answer(p)
    /\ UNCHANGED <<accounts, proved, exchanged, erased, overlapped, counts, faults>>

(* The SELECT of findOrCreateDevice; all logins of a user name one device. *)
FindDevice(p) ==
    /\ pc[p] = "device"
    /\ Goto(p, IF users[User(p)].devices > 0 THEN "session" ELSE "addDevice")
    /\ Meets(p, {"addDevice"}, "user", User(p), "device")
    /\ UNCHANGED <<accounts, proved, exchanged, erased, cut, counts, faults>>

(* Its INSERT; no index keeps a second row out. *)
AddDevice(p) ==
    /\ pc[p] = "addDevice"
    /\ users' = [users EXCEPT ![User(p)].devices = @ + 1]
    /\ Goto(p, "session")
    /\ UNCHANGED <<otps, sessions, minted, history>>

(* createSessionAndTokens. *)
OpenSession(p) ==
    /\ pc[p] = "session"
    /\ minted' = minted + 1
    /\ sessions' = Append(sessions, [user |-> User(p), code |-> Code(p), token |-> minted',
                                     revoked |-> FALSE])
    /\ Answer(p)
    /\ UNCHANGED <<otps, users, history>>

-----------------------------------------------------------------------------
(* POST /token/refresh, up to the checks: a revoked session's token closes *)
(* all sessions of its user.                                               *)
Refresh(p, s) ==
    /\ pc[p] = "idle" /\ Room
    /\ At(p, IF sessions[s].revoked THEN "purge" ELSE "rotate",
          [NoTask EXCEPT !.user = sessions[s].user, !.session = s, !.token = sessions[s].token])
    /\ Meets(p, {"rotate"}, "token", sessions[s].token, "token")
    /\ UNCHANGED <<accounts, proved, exchanged, erased, cut, counts, faults>>

\* Variant with a fault: the counter is raised, the hash is not written.
RotateCounterOnly(p) ==
    /\ pc[p] = "rotate"
    /\ minted' = minted + 1
    /\ exchanged' = exchanged \cup {<<task[p].token, minted'>>}
    /\ Answer(p)
    /\ UNCHANGED <<otps, users, sessions, proved, erased, overlapped, cut, counts, faults>>

(* rotateSessionRefreshToken: by the session's id, whatever its token is   *)
(* and whether it has been revoked by now.                                 *)
Rotate(p) ==
    /\ pc[p] = "rotate"
    /\ minted' = minted + 1
    /\ sessions' = [sessions EXCEPT ![task[p].session].token = minted']
    /\ exchanged' = exchanged \cup {<<task[p].token, minted'>>}
    /\ Answer(p)
    /\ UNCHANGED <<otps, users, proved, erased, overlapped, cut, counts, faults>>

\* UPDATE sessions SET revoked_at of those of user u that are not revoked.
RevokeAll(u) ==
    sessions' = [s \in DOMAIN sessions |->
                    IF sessions[s].user = u THEN [sessions[s] EXCEPT !.revoked = TRUE]
                                            ELSE sessions[s]]

(* revokeAllUserSessions, and SESSION_REVOKED. *)
Purge(p) ==
    /\ pc[p] = "purge"
    /\ RevokeAll(User(p))
    /\ Answer(p)
    /\ UNCHANGED <<otps, users, minted, history>>

(* POST /logout: the access token outlives its session. *)
Logout(s) ==
    /\ sessions' = [sessions EXCEPT ![s].revoked = TRUE]
    /\ UNCHANGED <<otps, users, minted, pc, task, history>>

\* The users row after the first UPDATE of deleteUser; and a variant with a
\* fault, which scrubs the name and keeps the hashes.
ScrubbedNameOnly(u) == users[u]

Scrubbed(u) == [users[u] EXCEPT !.who = NoOne]

\* authMiddleware looks at the access token only: it is good, until it expires,
\* for a session that has been revoked and a user who has been deleted.
Authenticated(u) == \E s \in DOMAIN sessions : sessions[s].user = u

(* DELETE /account: account_state and PII, then the sessions, then the     *)
(* chat memberships.                                                       *)
Delete(p, u) ==
    /\ pc[p] = "idle" /\ Authenticated(u)
    /\ users' = [users EXCEPT ![u] = Scrubbed(u)]
    /\ At(p, "revoke", [NoTask EXCEPT !.user = u])
    /\ UNCHANGED <<otps, sessions, minted, history>>

Revoke(p) ==
    /\ pc[p] = "revoke"
    /\ RevokeAll(User(p))
    /\ Goto(p, "leave")
    /\ Meets(p, {"device", "addDevice", "session"}, "user", User(p), "erase")
    /\ UNCHANGED <<otps, users, minted, proved, exchanged, erased, cut, counts, faults>>

Leave(p) ==
    /\ pc[p] = "leave"
    /\ erased' = erased \cup {User(p)}
    /\ Answer(p)
    /\ UNCHANGED <<accounts, proved, exchanged, overlapped, cut, counts, faults>>

-----------------------------------------------------------------------------
\* Requests S break off: what they have written stays.
BreakOff(S) ==
    /\ faults < MaxFaults /\ faults' = faults + 1
    /\ cut' = cut \cup {Code(p) : p \in {q \in S : pc[q] \notin {"count", "mark"} /\ Code(q) # 0}}
    /\ uncounted' = [c \in 1..MaxCodes |-> uncounted[c]
                         + Cardinality({p \in S : pc[p] = "count" /\ Code(p) = c})]
    /\ pc' = [p \in Procs |-> IF p \in S THEN "idle" ELSE pc[p]]
    /\ task' = [p \in Procs |-> IF p \in S THEN NoTask ELSE task[p]]
    /\ UNCHANGED <<accounts, proved, exchanged, erased, overlapped, guesses>>

(* A statement fails; the server restarts. *)
QueryFails(p) == pc[p] # "idle" /\ BreakOff({p})
Crash == BreakOff(Procs)

Next ==
    \/ \E who \in Identifiers : StartOtp(who)
    \/ \E p \in Procs :
          \/ \E c \in Codes, right \in BOOLEAN : Verify(p, c, right)
          \/ \E c \in Codes : VerifyRefused(p, c)
          \/ Count(p) \/ Mark(p) \/ FindUser(p) \/ CreateUser(p) \/ CreateRefused(p)
          \/ FindDevice(p) \/ AddDevice(p) \/ OpenSession(p)
          \/ \E s \in DOMAIN sessions : Refresh(p, s)
          \/ Rotate(p) \/ Purge(p)
          \/ \E u \in Uids : Delete(p, u)
          \/ Revoke(p) \/ Leave(p) \/ QueryFails(p)
    \/ \E s \in DOMAIN sessions : Logout(s)
    \/ Crash

Spec == Init /\ [][Next]_vars

-----------------------------------------------------------------------------
(* Nobody is logged in without the code: behind each session is a code     *)
(* that was typed in right and is used up, sent to the identifier whose    *)
(* account it is (or was, until its deletion).                             *)
LoginWasProved ==
    \A s \in DOMAIN sessions :
        LET c == sessions[s].code
        IN  /\ c \in proved /\ otps[c].verified
            /\ users[sessions[s].user].who \in {otps[c].who, NoOne}

(* A code opens one session at most, but for verifications of it that      *)
(* overlap: verifiedAt is read in one statement and set in another.        *)
CodeOpensOneSession ==
    \A c \in Codes : <<"code", c>> \in overlapped \/
        Cardinality({s \in DOMAIN sessions : sessions[s].code = c}) <= 1

(* A used code has opened a session, is about to, or its login broke off.  *)
UsedCodeLogsIn ==
    \A c \in Codes : otps[c].verified =>
        \/ c \in cut
        \/ \E s \in DOMAIN sessions : sessions[s].code = c
        \/ \E p \in Procs : Code(p) = c

(* Wrong guesses of a code, each of them compared and answered: maxAttempts *)
(* of them, and one more for each other request that had read the counter  *)
(* before it was full.  The exception: a guess after whose comparison the  *)
(* statement that counts it fails, or the server stops, stays uncounted.   *)
GuessesBounded ==
    \A c \in Codes : guesses[c] <= MaxAttempts + Cardinality(Procs) - 1 + uncounted[c]

(* Two first logins with one identifier leave one account, and a login     *)
(* finds the device an earlier one has registered, but for logins of one   *)
(* user that overlap: nothing but the SELECT keeps a second device row out. *)
OneRowEach ==
    /\ \A who \in Identifiers : Cardinality(Holders(who)) <= 1
    /\ \A u \in Uids : users[u].devices <= 1 \/ <<"device", u>> \in overlapped

(* A refresh token is exchanged once, but for refreshes that overlap: a    *)
(* token that was rotated away opens nothing any more.                     *)
TokenExchangedOnce ==
    \A t \in Tokens : <<"token", t>> \in overlapped \/
        Cardinality({e \in exchanged : e[1] = t}) <= 1

(* A deleted account is logged out on all devices and stays so, but for    *)
(* logins that were under way: no session of it can be refreshed.          *)
ErasedIsLoggedOut ==
    \A s \in DOMAIN sessions : sessions[s].user \in erased =>
        sessions[s].revoked \/ <<"erase", sessions[s].user>> \in overlapped
=============================================================================
