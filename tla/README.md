# EnterChat: a verification project

TLA+ models of EnterChat's API gateway, the TLC runs that check them and the
theorems TLAPS proves about them.  Paths below are under
`src/services/api_gateway/src/` unless they start with another directory.
`PROJECT.json` maps each definition to the lines it models.

## 1. The system

EnterChat is a messenger with payments: a Node.js/TypeScript gateway (Express
REST and a `ws` server) over PostgreSQL and Redis, and a Flutter client.  The
gateway keeps almost no state of its own.  A request handler is an async function
that sends SQL statements to a pool (`shared/database.ts`), and every `await` in
it is a point where the handlers of other requests run.  Components meet in the
tables; hardly any handler uses a transaction.

| component | state | operations | what is hard |
|---|---|---|---|
| wallet repository (`modules/wallet/adapters/postgres.ts`) | `wallets`, `wallet_transactions`, `p2p_transfers` | getOrCreateWallet, credit, debit, atomicTransfer | row locks, a second pool client inside a transaction, lock order, lost COMMIT answers |
| wallet routes (`modules/wallet/adapters/http/routes.ts`), `services/payment-gateway.ts` | `payment_orders` | add-money, callback, withdraw, UPI accounts | repeated and racing callbacks, a stop between capture and credit, currencies |
| transfers (`modules/transfers`) | request rows of `p2p_transfers`, chat messages | send, request, accept, decline | two accepts, accept against decline, a stop after paying |
| sticker store (`modules/store`) | `sticker_pack_purchases`, `download_count` | purchase | check, charge and record are separate statements |
| subscriptions (`modules/subscriptions`) | `subscriptions` | subscribe, cancel | the same; a unique index that refuses after the charge; periods nobody ends |
| auth (`modules/auth`, `middleware/auth.ts`) | users, OTPs, sessions, rate counters in Redis | startOtp, verifyOtp, refresh, logout, deleteUser | parallel guesses, rotation of refresh tokens |
| chats and messages (`modules/chats`, `modules/messages`) | chats, members and roles, messages, read state | create, update, members, send, edit, delete, page | a role or membership lost between check and act, retries, paging |
| WebSocket gateway (`websocket/ws-server.ts`) | connections by user, presence | connect, frames, heartbeat, close | frames handled concurrently, dead sockets, limits |
| polls (`modules/polls`) | `polls`, `poll_options`, `poll_votes` | create, vote, close | a vote is checked outside its transaction; two votes of one user |
| folders (`modules/folders`) | `chat_folders`, `chat_folder_items` | create, update, delete, file | sort_order computed without a lock |
| scheduled, pins, stories, blocked, presence, ads, notifications | one or two tables each | single statements | stale defaults |
| end-to-end keys (`modules/e2ee`) | identity keys, signed and one-time prekeys | upload, claim | the same one-time key claimed twice |
| media (`modules/media`, `services/storage-adapter.ts`) | upload sessions in Redis, chunks, objects, rows | open, chunk, complete, delete | partial completes, objects without rows |
| mobile client (`src/apps/mobile_flutter/lib/core`) | tokens, the socket's state | 401 and refresh, connect, reconnect | concurrent 401s, late events of an old channel |

What makes each correct, in one line each:

- **wallet repository** - every call is one atomic step; the ledger explains the
  balance; nobody is overdrawn; a transfer is whole; calls end.
- **payments** - only paid orders are credited, each once, in the wallet's
  currency; a captured order is credited.
- **transfers** - a request's status says whether it was paid; messages announce
  only what happened; money is conserved.
- **store, subscriptions** - what is owned was earned; charges are single and served.
- **auth** - a session is behind a proved code, a used code or refresh token opens
  nothing, attempts are bounded, a deleted account is logged out.
- **chats, messages** - only members post, only the allowed change a chat, a chat keeps
  a manager, a page sequence leaves no message out.
- **polls** - the last vote stands; a closed poll's result is final.
- **keys** - a one-time key serves one session, and fits the bundle it is sent with.
- **media** - a row has its object, whole; an object has its row.
- **folders, UPI accounts** - a new folder is the last one; one account is primary.
- **sockets** - the map lists the open ones; dead ones go; devices come back; a
  disconnect is final.

`PROJECT.json` lists the hazards at their lines.

## 2. Modules

```
AtomicLedger          what the wallet repository promises, one step per call
  ^      ^--- Transfers, Payments, Purchases     handlers built on the promise
  |  implements
WalletRepo            the repository, one step per SQL statement
AuthSessions          codes, accounts, sessions, tokens, one step per SQL statement

Handlers              requests at their awaits, faults and restarts
  ^--- Chats, Polls, PreKeys, MediaUploads, History, Ranks
         ^--- Routes  one system: a behaviour is about one of the six
Wire                  the connections of a user's devices
  ^--- WsServer, WsClient                        each end
         ^--- WsSystem                           both ends and the network

*Proofs               theorems about AtomicLedger, WalletRepo, Payments, Transfers,
                      Purchases, AuthSessions, Routes and WsSystem (WsProofs)
MC*                   instances for TLC
```

The split is what keeps the handlers small: `WalletRepo` shows that credit, debit
and atomicTransfer are atomic whatever runs beside them, so the handler modules
EXTEND `AtomicLedger` and use `Credit`, `Debit` and `Move` as single steps.

**AtomicLedger.** The tables `wallets` (which rows exist, balance, is_frozen),
`ledger` (wallet_transactions per user, in order) and `transfers` (completed
p2p_transfers).  A row's id stands for the uuid of the call that wrote it.

**WalletRepo.** A request is a process with a program counter: `connect`, `lookup`
(the SELECT of getOrCreateWallet), `create`/`creating` (its INSERT, sent and
done), `lock` (SELECT ... FOR UPDATE), `write` (UPDATE and INSERT of the ledger
row), `commit`, `rollback`, `done`.  A transfer goes through lookup, lock and
write twice.  `holder` is the owner of each row lock, `draft` what an open
transaction has written and nobody else sees.  PostgreSQL is external, in READ
COMMITTED: a statement sees what is committed and what its own transaction wrote.
It aborts one member of a circle of lock waits it can see.  getOrCreateWallet
runs on `this.pool`, not on the caller's client: it needs a second client
(`PoolHasClient`), its row stays when the caller rolls back, and its
`ON CONFLICT DO UPDATE` waits for row locks outside the caller's transaction.

**Transfers, Payments, Purchases.** Each await of a handler is a boundary
between actions; what a handler holds in local variables (`terms`, `serving`,
`task`) is read at one action and used at later ones.  Faults - a failing
statement, a COMMIT whose answer is lost, a restart - are counted and bounded by
`MaxFaults`.  History variables (`paidFor`, `creditedBy`, `charged`,
`disturbed`, `raced`, `cut`) only record; no guard reads them.

**AuthSessions.** The tables `otps`, `users` (with the number of device rows) and
`sessions` are sequences in the order of their INSERTs; a token is the number of
its generation and its hash is the token.  verifyOtp is find-then-insert all the way: read
and compare, mark, find user, create user, find device, create device, open the
session; the refresh handler is read, then rotate or purge; deleteUser is three
statements.  Histories: `proved`, `exchanged`, `erased`, `overlapped`, `cut`, and `guesses`, which counts
a wrong guess as it is compared, with `uncounted`, those that a fault kept out of the
column.  Expiry only
refuses, so it is left out (the model has all behaviours in which something expires).
An access token is no row and is not checked against `sessions`: it outlives
logout and deletion until it expires, which the model reflects by letting anybody
who ever had a session log out or delete.

**Chats.** One chat: `role` and `state` are a row of chat_members per user, an
upsert keeps the role (as addMember does).  Each SELECT of a right (`Ask`) and the
statement it allows are two actions; `task` keeps who asked and about whom.
createMessage's INSERT, its UPDATE of the chat and the reading of the members to tell
are three.  `lost` records which requests lost the right they were checked for,
`ended` how the last manager went, `stood` and `strays` what a member had under way when
he went and what has run for him since (`Recorded`, a conjunct of every step).  No code writes the role 'admin'; `Promote` is the
operator who does, since removeMember and deleteMessage look for it.

**Polls.** A vote in its transaction: the snapshot of the DELETE (`Previous`), the rows
it removes, the INSERTs one by one; a row that a rival has removed and put back is not in
the snapshot (`CommitVote` takes it from the rival's `gone`).  Two votes of one user wait for each other at the
rows they would both remove and at the primary key (`Blockers`); PostgreSQL aborts a
circle.  Expiry by `closes_at` is `ClosePoll` too.

**PreKeys.** One device.  Keys come in batches with consecutive numbers; a row of
one_time_prekeys remembers which batch it is of and whether it was consumed, and an
upload of the same key id puts it back to unused, as the `ON CONFLICT` does.  A fetch is
the SELECT of the bundle, the snapshot of the inner SELECT (`Choose`) and the UPDATE
(`Take`), which rechecks only the id.

**MediaUploads.** One upload session (Redis), its chunk files, the final file, the
objects of the storage adapter and the rows of media_objects.  A file is none, torn or
whole: writeFile truncates, then writes, and createWriteStream truncates a file another
complete is filling.

**History.** A page is any LIMIT of the newest messages before or after the cursor's
created_at.  created_at is the beginning of a transaction, so a message may appear
behind the cursor.  Deleted messages, which the pages leave out, are not modelled.

**Ranks.** Folders with their sort_order, chats in folders, UPI accounts.  Creating a
folder is a transaction (`BeginFolder` has the SELECT of MAX), linking one statement
that counts in its snapshot (`BeginLink`, `EndLink`).  The rows of one user; that the
routes of a folder's chats ask for no owner does not show.

**Wire, WsServer, WsClient.** A socket is what either end knows of it and whether the
network carries it.  The user's entry is a Set in the code: the sockets (`conns`) and
their order of insertion (`before`).  The server's event handlers run to completion, so
each is one action: a connection evicts the oldest one at `Limit`, the heartbeat terminates who has
not answered, closes are heard late or never.  A close is two steps: the `ws`
library reads the peer's close frame or the end of its stream and the socket is CLOSING,
still in the map (`SeesClose`); the `close` event, up to thirty seconds later, takes it out
(`CloseEvent`).  In between the readyState of `Receivers` is what keeps a broadcast from
it.  The client is WebSocketManager: connect
awaits a token (`asking`) and the channel's `ready`, listens to it (`subs`), and
`Done`, `NotReady` and `NoToken` schedule a reconnect with a timer.  `crossed` records
the devices on which a disconnect and a connect met at an await of either.  connect may be
called again while a device is reconnecting or has given up (`Login`: it returns only
when connecting or connected), on the devices of `Callers`.  Of frames, only pings are
modelled.

**Payments: gateways.** `keys` are the gateways whose credentials the environment
has, which a restart may change.  Without credentials an order is placed with the stub
(`at = "stub"`), which takes no money, and verification fails; Stripe throws for an
intent it does not know.

Every module also holds a few definitions marked *Variant with a fault*: the
neighbouring definition with a plausible bug.  Nothing uses them; each property
has one that breaks it, listed in `PROJECT.json` under "mutants".

## 3. Runs

| run | question | result |
|---|---|---|
| `WalletRepo_safety` | does the repository implement the atomic ledger (`INSTANCE AtomicLedger WITH`, checked as a property), and is `IInv` invariant? | holds |
| `WalletRepo_hang` | does every call return, with the pool run out, rows contended and one to be created? | all but those in a `HiddenDeadlock` |
| `Transfers_races` | do statuses and messages tell what was paid? | holds |
| `Transfers_twice` | is a request paid at most once? | violated |
| `Payments_callbacks` | are orders credited when paid, once, in the end? | holds, but for overlaps and broken-off handlers |
| `Payments_twice` | is an order credited at most once? | violated |
| `Payments_currency` | is a wallet credited in its currency? | violated |
| `Purchases_races` | is what is owned earned, and each charge single and served? | holds, but for overlaps and broken-off requests |
| `Purchases_gateway` | is a paid plan active only if paid? | violated |
| `AuthSessions_races` | do logins, refreshes and deletions keep accounts and sessions right? | holds, but for overlaps and broken-off logins |
| `Routes_races` | do votes, prekeys, uploads, pages, rights and ranks survive two requests and a fault? | holds, but for the exceptions each property names |
| `WsSystem_settles` | is the map of sockets right at every moment, is disconnect final, does everything settle? | holds, but for a disconnect that meets a connect |

`WalletRepo_hang` is the liveness run of the repository; the steps of
`ImplementsAtomicLedger` also say that nothing moves in a frozen wallet, for the ledger's
credit, debit and transfer all ask that it is not.

*Bounds.* Two requests suffice for every race of two handlers, and a deadlock of
row locks needs two; a third adds only longer circles of the same shape, and the
safety theorems hold for any number.  Two users make opposite transfers and
transfers to oneself.  Amounts are 1 (and 2 where amounts must be told apart)
against openings of 2 and 3, so that some debits fit and some do not.
`MaxCalls` is 2 to 6: enough that one call is decided by the effects of others.
In `Payments_callbacks` withdrawals leave room in `MaxCalls` for every credit, so
that the bound cannot keep a credit from happening.  `PoolMax` 3 lets two calls
run while one of them holds a second client, or three calls exhaust the pool.  In
`AuthSessions_races` one identifier with two codes makes two first logins collide, one
attempt per code makes two parallel guesses exceed it, and of four tokens `Room` leaves one
for each request under way.  In `Routes_races` two
requests meet over one poll, device, upload, chat or user: two options are a change of
mind and a repeated choice, two key ids a race and a leftover, two chunks an order,
pages of two over five messages at three instants a tie at a page's end and a message
that commits late; a chat of two members, one made admin, is enough for removals that
cross (they need two managers); three folders are one deleted between two overlapping
ones.  In `WsSystem_settles` three sockets let a device of two reconnect while its old
socket is still listed and evicts the other's; either may be the one that logs out, so
it is the first (`Leavers`), and the one on which connect is called repeatedly
(`Callers`).  The largest runs have 4 million states (`Purchases_races`), 3.5 million
(`AuthSessions_races`) and 1.3 million (`Routes_races`); `WsSystem_settles`, with
liveness, 1.1 million.  One fault per behaviour shows
what a single failure can do.  Requests are interchangeable, so the safety runs
of WalletRepo, Transfers, AuthSessions and Routes use their symmetry (Routes also that
of users and options); the liveness runs do not.

*Fairness.* `WF(Progress(p))`, `WF(Handle(p))`: the event loop resumes each
handler whose await has resolved, and a statement that can run does.
The client's Dart event loop is assumed the same: timers fire, `ready` and `onDone` are
delivered (`ClientFairness`).  The server's interval fires (`WF(Heartbeat)`) and its
sockets' events are heard; a ping that can be answered is, before the next one
(`Heartbeat`'s guard: 30 seconds); a cut link is given up in the end by TCP or by the
closing timeout; a stopped gateway is started again by its supervisor (`WF(Start)`).
`SF(Lock(p) \/ Insert(p))`: PostgreSQL queues waiters for a row, so one is not
overtaken for ever.  `WF(DeadlockVictim)`: its deadlock detector runs.  Nothing is
assumed of callers, customers, failures or restarts.

*Deadlock checking* is off only in `Payments_twice` and `Payments_currency`, where
nothing is left to do once the one order is settled.

### What the violations show

- **Transfers_twice.** accept reads `status = 'pending'`, pays, then writes
  'completed' without a condition; two accepts both pay.  The row lock protects
  the balance, not the request.  `StatusTellsPayment` says that nothing but an
  overlap or a broken-off handler does this.
- **Payments_twice.** the callback checks the status, asks the provider, then
  captures without a condition and credits; two callbacks both credit.
- **Payments_currency.** an order in USD is credited as paisa to an INR wallet.
- **Purchases_gateway.** `paymentSource: 'gateway'` activates a plan unpaid.

### What the exceptions in the properties mean

A property that holds "unless" names every way in which the code can break the plain
one; each exception was seen to happen in the run.

- `OnlyHiddenDeadlockHangs`: a call can hang in a circle through getOrCreateWallet.
  PostgreSQL sees one session waiting for another, and not that the other waits for the
  first one's application.
- `StatusTellsCredit`, `ChargedIsServed` (`cut`, `disturbed`): a charge or capture whose
  handler breaks off is lost to the user; withdraw debits and no code pays out.
- `CapturedIsCredited` does not speak of an order that was paid and is marked 'failed': a
  callback without a signature, or before the customer has paid, or on a gateway that
  lost its credentials, writes 'failed', and the right callback that follows is answered
  ORDER_ALREADY_PROCESSED.
- `OnlyWhatWasUnderWay` (`stood`): a member removed after the check still posts, an admin
  removed after the check still removes - once for each request that was past its check
  when he went, and never again.  Two managers who remove each other leave a chat
  that nobody can manage (`ManagedUntilGivenUp`, "crossed"); so does the last one's
  leaving, for no role is passed on.  editMessage asks for no membership at all.
- `GuessesBounded` (`uncounted`): a wrong guess is compared and answered before
  incrementOtpAttempts; when that statement fails, or the gateway stops before it, the
  guess was free.  One request at a time gets `maxAttempts`, parallel ones one more each.
- `LastVoteStands` (`mixed`): two votes of one user for different options both stay, also
  in a single-choice poll.  `ClosedIsFinal`: a vote checked before the closing commits
  after it.
- `HandedOutOnce` (`raced`, `again`): the inner SELECT takes no lock, so two sessions get
  one key; a repeated upload makes a consumed key free.  `KeyFitsBundle`: a new bundle
  removes no keys of the old one.
- `ReadyIsWhole` (`doubt`, `broken`): two completes of one upload write one file; a
  request that breaks off between object and row leaves one without the other.
- `NothingSkipped` (`cut`, `full`): messages of a page's last instant are skipped, and
  `after` gives the newest page of what is new, never the rest; a message that commits
  late, behind the cursor, is not asked for again.
- `RanksAreApart`: folders made at one time share a sort_order; unlinking the primary UPI
  account leaves none primary until the last one is gone.
- `DisconnectHolds`, `SocketsSettle` (`crossed`): a disconnect during connect is followed
  by connect's catch, which reconnects a user who has logged out; its channel may stay
  open with nobody listening.  A connect while disconnect awaits the closing is undone by
  what follows it.  A device that used up its attempts stays offline until
  the app calls connect, and a refused token (closed after `ready`) resets the count, so
  that its retries never back off.  More devices than `Limit` evict each other for ever.

Met while modelling, and no property: subscribe takes the plan's `price_usd` - cents -
when the caller's currency is not INR, and debits that number from a wallet kept in
paisa (`Subscribe`'s `currency`); cancel leaves a subscription active and no code
looks at `current_period_end`; `clientMessageId` is accepted and not used; POST /messages
pushes and the frame message.send broadcasts, neither does both; `is_online` is only ever
set TRUE although presence/routes.ts:93 speaks of disconnects; scheduled messages are
never sent; blocked users and push_enabled are never looked at when sending; a vote's
option may be of another poll; in the mobile interceptor a failure of the retried request
clears the tokens that were just refreshed.

## 4. Theorems

Proved by TLAPS for every set of users, requests, amounts, opening balances, every pool
size and number of calls, from the assumptions on constants stated in the modules.

- `LedgerKeepsBooks` (AtomicLedgerProofs): the atomic ledger is type correct, its
  rows chain to the balance, nobody is overdrawn, transfers are whole.  The
  argument: posting one row that starts from the last `balance_after` keeps the
  chain (`AppendChained`, `Posting`); a transfer is two postings, the credit on
  what the debit left, which makes from = to come out right; a call's rows are
  told from others by its fresh id.
- `RepoInvariant` (WalletRepoProofs): `IInv` is an invariant of `WalletRepo`.
  `NoOverdraft` alone is not inductive: that a commit does not overdraw depends
  on what was read before.  `IInv` says what the transaction carries from
  statement to statement: a process about to write holds the lock of its wallet and
  what it saw is still there (`SeenCurrent`); a written draft still fits the wallet
  it was computed from (`DraftFits`), also when payer and payee are one; locks are
  held only inside transactions; ids are distinct and have left nothing in the
  tables before the commit.
- `RepoImplementsLedger`: each step of the repository is a step of the atomic
  ledger or leaves the tables alone.  From it and `LedgerKeepsBooks` follow
  `RepoExplainsBalance`, `RepoNoOverdraft` and `RepoTransferAllOrNothing` - in
  particular the CHECK (balance >= 0) of migration 018, which is not modelled,
  never fires.  `RepoTypeOK` is the type invariant.
- `PaymentsCreditWasPaid` (PaymentsProofs): only a paid order is captured or
  credited, for any number of callbacks, faults and sets of credentials.  What makes
  it inductive is `PaidFirst`: a handler's signature, and its being on the way to
  capture or credit, imply that its order is paid already - and paid orders stay paid,
  so neither a second handler nor a restart can falsify it.  The step that matters is
  `VerifyKeeps`.
- `PaymentsUseLedger`: every step of the payment handlers is a step of the atomic
  ledger or leaves the wallets alone (the order names a user and an amount, the id of
  a credit is one of Ids).  `PaymentsKeepBooks` follows with `LedgerKeepsBooks`;
  `PaymentsTypeOK` is the type invariant.

- `PaymentsStatusTellsCredit`: an order's status says whether it was credited, but for
  callbacks that met and handlers cut off.  The strengthening (`OneHandler`) says of any
  other order that one handler at most has it, and that how far this handler is
  (`StatusAt`) gives the status and that nothing is credited yet; with nobody at work the
  status gives the credits.
- TransfersProofs: `TransfersCompletedWasPaid` and `TransfersMessagesTellTheTruth` need,
  of every handler, what it carries over its awaits (`Claim`: the terms are the row's, a
  handler about to mark the request has paid it), and that rows and transfers only grow
  (`Grows`), so that no other handler falsifies a claim.
  `TransfersStatusTellsPayment` is inductive as `Undisturbed`: on a request nobody has
  disturbed one accept at most is at work, and its label says whether the request is paid.
- PurchasesProofs: `PurchasesOwnedWasEarned` by `Claim` (what a handler has checked and
  charged when it writes) and `ActiveWasHad`; `PurchasesChargedOnce` and
  `PurchasesChargedIsServed` by `InOrder`: an undisturbed user has one request at work,
  what it found before the charge still holds at the INSERT, and every charge is served
  or on its way.  In particular the unique index never refuses such a user's INSERT.
- `TransfersUseLedger`, `TransfersKeepBooks`, `PurchasesUseLedger`,
  `PurchasesKeepBooks`, `TransfersTypeOK` and `PurchasesTypeOK` are as for Payments.
- AuthSessionsProofs: `Claim` is what a login, refresh or deletion relies on after an
  await (its code was typed in right and is used, its account is the code's or deleted,
  its token is nobody else's); from it, with sessions whose tokens are apart, follow
  `AuthTypeOK` and `AuthLoginWasProved`.  Each further property has a strengthening of
  its own about the requests under way: `GuessesFit` (wrong guesses counted or about to
  be, or cut off before, for `AuthGuessesBounded`), `LoginsApart` and `UsedAccounted`
  (`AuthCodeOpensOneSession`, `AuthUsedCodeLogsIn`), `RowsApart` (`AuthOneRowEach`; the
  UNIQUE identifiers keep the accounts apart, nothing does so for devices), `UsesApart`
  (`AuthTokenExchangedOnce`), `Gone` (`AuthErasedIsLoggedOut`).
- RoutesProofs: `RoutesInvariant` puts together an inductive invariant for each part: the
  part a behaviour is about has its own, the tables of the others are as they began.
  Polls (`VotesStand`, `ClosedPollsStay`): a vote that no other of its user has crossed
  will remove all of the user's rows.  PreKeys (`KeysHandedOutOnce`, `KeysFitBundles`): a
  key that was handed out is consumed, and a claim that met no other takes one that was
  not, unless it was uploaded again; rows are of the bundle or leftovers.  MediaUploads
  (`MediaIsWhole`): a complete that nothing interfered with is alone and the file holds
  what it has copied; an object is of the request that saved it until its row is there.
  History (`HistoryIsComplete`): on its way back a client has everything but what is
  older than its cursor or of the instant of an earlier one.  Chats (`ChatsManaged`): a
  request that was allowed still is, or its user's row changed since.  (`DepartedStop`):
  of a user who is out, what has run since and what still stands are together at most what
  stood when he went (`DeparturesInv`), because nobody who is out gets past a check
  (`OutsidersBeginNothing`) and what runs does not stand any more (`RunsLeave`).  Ranks
  (`RanksApart`): a folder in the making ranks after all that it has seen.
  `RoutesTypeOK` includes the bounds on rows: each request under way has its place.
- WsProofs: `MapListsOpen` and `WsTypeOK` rest on `ServerInv`: a socket is listed
  when the server's end is open, and otherwise only while it waits for the close event of
  a client that has left; the order of insertion is a strict total order, and so
  the oldest is one socket (`OneOldest`, by well-foundedness of inclusion on a finite
  set) and evicting it makes room (`RoomMade`).  `DisconnectIsFinal` rests on
  `DeviceFits`: unless a disconnect met a connect, a device asks for a token, opens one
  channel that nobody has listened to, talks by one channel, rests with its timer, or is
  gone, and each phase says which of its connections there can be.  It follows that
  the "already has a listener" error after `ready` (the first branch of `Ready`) is never
  met by such a device.

What the assumptions on constants mean: the sets of requests, orders, key ids and sockets
are finite, since the models count them; bounds are naturals; the markers for "none"
(`NoOrder`, `NoAsk`, `NoProc`, `NoOne`, `None`) are no real values; a pack is not a tier
(`Packs \cap Tiers = {}`: ids of different tables); a page's `Limit` is positive
(0 is read as 50, and PostgreSQL refuses a negative one); so are `maxAttempts` and the
limit of sockets per user, as the schema of `config/index.ts` has them.

Proving changed the models where they were wrong.  `ReadyIsWhole` was false with three
requests: when two requests already assembled one upload, the one that opened the file
third was not recorded as having met them, so that its row escaped the exception.
`OpenFinal` now records it; TLC's two requests could not show this.

Only model-checked: the liveness properties `OnlyHiddenDeadlockHangs`,
`CapturedIsCredited` and `SocketsSettle` (fairness is out of the prover's reach).  Every
invariant a passing run checks is also a theorem.

## 5. Not modelled, and why

- Components with status `not_modelled` in `PROJECT.json`: single statements on rows of
  one user that no other handler depends on (presence, stories, users, blocked, pins, ads,
  notification settings), rows nothing reads (scheduled messages), a cache without a
  caller, and wiring, logging and presentation without state of their own.
- GET handlers, which only read, but for pages of messages and prekeys.
- Of messages: deletion for oneself, read receipts, unread counts, typing frames,
  reactions.  Of sockets: the frames; message.send makes the repository calls that Chats
  has, and frames of one socket are handled at the same time, so that they may be
  answered out of order.
- `dispose` of the mobile WebSocketManager, which ends it for good; a close after a
  protocol error, which the server sees as any other.  connect and disconnect have no
  caller in the repository: the model lets the application call them at any time.
- POST /auth/sync, and the mobile auth interceptor.  The order in which PostgreSQL
  chooses among rows of equal rank is any order.
- A second device of a user in PreKeys, whose loop repeats what one device does.
- Amounts are unbounded integers: the schemas cap an amount at 10^7, and
  balances are BIGINT read by parseInt, exact to 2^53.
- Users are never deleted while a call runs, and keys of rows do not collide (uuid).
- Refunds and the statuses 'pending', 'expired', 'refunded': no code writes them.
- The schema of migrations 007 and 008 does not have columns that the chat and
  message code queries; the INSERT of a chat message is modelled as the code
  states it.  Migration 018 matches the wallet code.
- The stub provider by itself, which `getGatewayForCurrency` never selects.
- A failing `pool.connect()` other than by its timeout.  Handlers of other modules share
  the pool; they show as timeouts that come although these calls left a client.

## 6. Plan

Done: all modules above, their runs, and proofs of every safety invariant the passing
runs check.  Next, in this order:

1. Proofs of what the exceptions leave: bounds on how often a raced request is paid or an
   order credited (once per overlapping handler), and the action properties behind them.
2. **ClientAuth** - the interceptor's 401 and refresh against AuthSessions' rotation.
3. Frames of one socket, and read receipts, on top of WsServer and Chats.
