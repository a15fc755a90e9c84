------------------------------ MODULE PreKeys ------------------------------
(***************************************************************************)
(* The X3DH keys of one device (modules/e2ee): it uploads batches of       *)
(* one-time prekeys, with a new bundle (identity and signed prekey) or     *)
(* without, and whoever wants a session with it fetches the bundle and     *)
(* claims one of them.  The private halves of a bundle's keys are gone     *)
(* when the device makes a new identity.                                   *)
(***************************************************************************)
EXTENDS Handlers, FiniteSetsExt

CONSTANTS
    KeyIds,       \* key_id of one-time prekeys: numbers
    MaxBatches,   \* bound: batches the device makes
    MaxFetches,   \* bound: keys handed out
    MaxRetries    \* bound: batches sent again

ASSUME PreKeysAssumption ==
    /\ IsFiniteSet(KeyIds) /\ KeyIds \subseteq Nat
    /\ MaxBatches \in Nat /\ MaxFetches \in Nat /\ MaxRetries \in Nat

\* The key of batch n with key id k is known as <<n, k>>; 0: there is none.
VARIABLES
    batches,      \* what the device made: key ids, the bundle they belong to
    bundle,       \* key_bundles: the batch it came with
    opk,          \* one_time_prekeys by key_id: of which batch, consumed or not
    given,        \* what was handed out
    again,        \* history: keys uploaded again after they had been handed out
    late,         \* history: batches whose upload a new bundle overtook
    retries       \* number of batches sent again so far

keyTables == <<batches, bundle, opk>>
keyHistory == <<given, again, late, retries>>
keyVars == <<keyTables, keyHistory, handlers>>

Batches == 1..MaxBatches
NoKey == [n |-> 0, used |-> FALSE]

PreKeysInit ==
    /\ batches = <<>> /\ bundle = 0 /\ opk = [k \in KeyIds |-> NoKey]
    /\ given = <<>> /\ again = {} /\ late = {} /\ retries = 0

Fetching == [bundle : Batches, k : KeyIds \cup {0}, raced : BOOLEAN, stale : BOOLEAN]

PreKeysTypeOK ==
    /\ batches \in Seq([ids : SUBSET KeyIds, of : Batches]) /\ Len(batches) <= MaxBatches
    /\ bundle \in 0..Len(batches)
    /\ opk \in [KeyIds -> [n : 0..MaxBatches, used : BOOLEAN]]
    /\ given \in Seq([bundle : Batches, n : Batches, k : KeyIds,
                      raced : BOOLEAN, stale : BOOLEAN])
    /\ again \subseteq Batches \X KeyIds /\ late \subseteq Batches /\ retries \in 0..MaxRetries
    /\ \A p \in Procs :
          \/ pc[p] = "idle" /\ task[p] = NoTask
          \/ pc[p] \in {"claim", "take"} /\ task[p] \in Fetching
          \/ pc[p] = "prekeys" /\ task[p] \in [n : Batches, left : SUBSET KeyIds]

-----------------------------------------------------------------------------
Handed(n, k) == \E i \in DOMAIN given : given[i].n = n /\ given[i].k = k

\* Variant with a fault: the subquery lacks AND consumed_at IS NULL.
FreeOrUsed == {k \in KeyIds : opk[k].n # 0}

Free == {k \in KeyIds : opk[k].n # 0 /\ ~ opk[k].used}

\* INSERT ... ON CONFLICT DO UPDATE SET public_key, consumed_at = NULL.
Stored(n, ids) == [k \in KeyIds |-> IF k \in ids THEN [n |-> n, used |-> FALSE] ELSE opk[k]]

\* The device makes a batch, of its new bundle or of the one it has; or sends
\* its last one again, because the answer did not arrive.
Makes(n, ids, of) ==
    \/ /\ n = Len(batches) + 1 /\ n <= MaxBatches
       /\ batches' = Append(batches, [ids |-> ids, of |-> of])
       /\ UNCHANGED retries
    \/ /\ n = Len(batches) /\ batches # <<>>
       /\ batches[n] = [ids |-> ids, of |-> of]
       /\ retries < MaxRetries /\ retries' = retries + 1
       /\ UNCHANGED batches

\* History: those keys ids of batch n are written once more.
Rewrites(n, ids) == again' = again \cup {<<n, k>> : k \in {j \in ids : Handed(n, j)}}

\* Variant with a fault: the bundle is replaced without its one-time prekeys.
UploadBundleOnly(n, ids) ==
    /\ Makes(n, ids, n)
    /\ bundle' = n
    /\ UNCHANGED <<opk, given, again, late, pc, task>> /\ Works

(* POST /keys/bundle: one transaction, whose writes do not depend on what  *)
(* it reads: as if at its COMMIT.                                          *)
UploadBundle(n, ids) ==
    /\ Makes(n, ids, n)
    /\ bundle' = n /\ opk' = Stored(n, ids)
    /\ Rewrites(n, ids)
    /\ late' = late \cup {task[p].n : p \in Running({"prekeys"})}
    /\ task' = [p \in Procs |-> IF pc[p] \in {"claim", "take"}
                                THEN [task[p] EXCEPT !.stale = TRUE] ELSE task[p]]
    /\ Works /\ UNCHANGED <<given, pc>>

(* POST /keys/prekeys: one INSERT after the other, each for itself. *)
SendPrekeys(p, n, ids) ==
    /\ pc[p] = "idle" /\ bundle # 0 /\ ids # {}
    /\ Makes(n, ids, bundle)
    /\ At(p, "prekeys", [n |-> n, left |-> ids])
    /\ Works /\ UNCHANGED <<bundle, opk, given, again, late>>

StorePrekey(p) ==
    /\ pc[p] = "prekeys" /\ task[p].left # {}
    /\ LET k == Min(task[p].left)
       IN /\ opk' = Stored(task[p].n, {k})
          /\ Rewrites(task[p].n, {k})
          /\ At(p, "prekeys", [task[p] EXCEPT !.left = @ \ {k}])
    /\ Works /\ UNCHANGED <<batches, bundle, given, late, retries>>

\* The number of keys left is counted and answered.
CountPrekeys(p) ==
    /\ pc[p] = "prekeys" /\ task[p].left = {}
    /\ Answer(p)
    /\ Works /\ UNCHANGED <<keyTables, keyHistory>>

(* GET /keys/bundle/:userId: the SELECT of the bundle; 404 without one. *)
Fetch(p) ==
    /\ pc[p] = "idle" /\ bundle # 0
    /\ Len(given) + Cardinality(Running({"claim", "take"})) < MaxFetches
    /\ At(p, "claim", [bundle |-> bundle, k |-> 0, raced |-> FALSE, stale |-> FALSE])
    /\ Works /\ UNCHANGED <<keyTables, keyHistory>>

\* The subquery of the claim: the lowest free key id.  Without one the answer
\* has no one-time prekey.
Choose(p) ==
    /\ pc[p] = "claim"
    /\ IF Free = {}
       THEN Answer(p)
       ELSE At(p, "take", [task[p] EXCEPT !.k = Min(Free)])
    /\ Works /\ UNCHANGED <<keyTables, keyHistory>>

\* The UPDATE of that row, which it does not ask again whether it is free:
\* whoever chose the same one meanwhile gets it too.
Take(p) ==
    /\ pc[p] = "take"
    /\ LET t == task[p]
       IN /\ opk' = [opk EXCEPT ![t.k].used = TRUE]
          /\ given' = Append(given, [bundle |-> t.bundle, n |-> opk[t.k].n, k |-> t.k,
                                     raced |-> t.raced, stale |-> t.stale])
          /\ pc' = [pc EXCEPT ![p] = "idle"]
          /\ task' = [q \in Procs |->
                        IF q = p THEN NoTask ELSE
                        IF pc[q] = "take" /\ task[q].k = t.k
                        THEN [task[q] EXCEPT !.raced = TRUE] ELSE task[q]]
    /\ Works /\ UNCHANGED <<batches, bundle, again, late, retries>>

(* GET /keys/status, and GET /keys/bundle without a bundle, change nothing. *)
Status(p) == pc[p] = "idle" /\ UNCHANGED keyVars

KeyRequestFails(p) == Fails(p) /\ UNCHANGED <<keyTables, keyHistory>>
PreKeysRestart == Restarts /\ UNCHANGED <<keyTables, keyHistory>>

PreKeysNext ==
    \/ \E n \in Batches, ids \in SUBSET KeyIds :
          UploadBundle(n, ids) \/ \E p \in Procs : SendPrekeys(p, n, ids)
    \/ \E p \in Procs : \/ StorePrekey(p) \/ CountPrekeys(p)
                        \/ Fetch(p) \/ Choose(p) \/ Take(p) \/ Status(p) \/ KeyRequestFails(p)
    \/ PreKeysRestart

-----------------------------------------------------------------------------
(* A one-time prekey is handed out once, unless two claims chose it at the *)
(* same time or the device uploaded it again after it had been handed out  *)
(* (which makes a consumed key free).                                      *)
HandedOutOnce ==
    \A i, j \in DOMAIN given :
        i < j /\ given[i].n = given[j].n /\ given[i].k = given[j].k
            => given[j].raced \/ <<given[j].n, given[j].k>> \in again

(* The key handed out with a bundle is of that bundle, unless a new bundle *)
(* came between the two statements, or the row is a leftover: the bundle   *)
(* was uploaded without a key of this id, which the upload does not        *)
(* remove, or an upload of older keys was still under way.                 *)
KeyFitsBundle ==
    \A i \in DOMAIN given :
        LET g == given[i]
        IN \/ batches[g.n].of = g.bundle
           \/ g.stale \/ g.k \notin batches[g.bundle].ids \/ g.n \in late

=============================================================================
