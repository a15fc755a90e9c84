------------------------------- MODULE Polls -------------------------------
(***************************************************************************)
(* One poll: its creation, votes and closing (modules/polls), at the grain *)
(* of SQL statements.  A vote is checked outside of its transaction; the   *)
(* transaction removes the user's rows and inserts the new ones.           *)
(***************************************************************************)
EXTENDS Handlers, SequencesExt

CONSTANTS
    Options,      \* poll_options of the poll
    MaxChoices    \* bound: body.optionIds.length

ASSUME PollsAssumption == MaxChoices \in Nat

VARIABLES
    poll,         \* polls.poll_type; "none": not created yet
    closed,       \* is_closed, or closes_at is over
    votes,        \* poll_votes: <<user, option>>
    standing,     \* history: what each user's last vote to commit was for
    crossed,      \* history: votes whose DELETE did not see the last commit
    mixed,        \* history: users whose last vote to commit was crossed
    result        \* history: the votes, and whose were under way, at the closing

pollTables == <<poll, closed, votes>>
pollHistory == <<standing, crossed, mixed, result>>
pollVars == <<pollTables, pollHistory, handlers>>

\* The user, his choices in the order they are inserted, how many of them are
\* inserted, and the rows his DELETE is about (then: has removed).
Vote == [by : Users, opts : UNION {[1..n -> Options] : n \in 1..MaxChoices},
         n : 0..MaxChoices, gone : SUBSET Options]

PollsInit ==
    /\ poll = "none" /\ closed = FALSE /\ votes = {}
    /\ standing = [u \in Users |-> {}] /\ crossed = {} /\ mixed = {}
    /\ result = [votes |-> {}, open |-> {}]

PollsTypeOK ==
    /\ poll \in {"none", "single", "multiple"} /\ closed \in BOOLEAN
    /\ votes \subseteq Users \X Options
    /\ standing \in [Users -> SUBSET Options]
    /\ crossed \subseteq Procs /\ mixed \subseteq Users
    /\ result \in [votes : SUBSET (Users \X Options), open : SUBSET Users]
    /\ \A p \in Procs : \/ pc[p] = "idle" /\ task[p] = NoTask
                        \/ pc[p] \in {"vote", "delete", "insert"} /\ task[p] \in Vote

-----------------------------------------------------------------------------
VotesOf(u) == {o \in Options : <<u, o>> \in votes}
Put(t) == ToSet(SubSeq(t.opts, 1, t.n))

\* Requests of the same user that stand at one of the labels.
Rivals(p, labels) == {q \in Running(labels) \ {p} : task[q].by = task[p].by}

\* Whose COMMIT or ROLLBACK p's statement waits for: of a row both would
\* remove, of a key the other has inserted or removed.
Blockers(p) ==
    CASE pc[p] = "delete" ->
           {q \in Rivals(p, {"insert"}) : task[q].gone \cap task[p].gone # {}}
      [] pc[p] = "insert" /\ task[p].n < Len(task[p].opts) ->
           {q \in Rivals(p, {"insert"}) :
               task[p].opts[task[p].n + 1] \in Put(task[q]) \cup task[q].gone}
      [] OTHER -> {}

(* POST /polls: one transaction, seen when it commits. *)
CreatePoll(kind) ==
    /\ poll = "none" /\ poll' = kind
    /\ Works /\ UNCHANGED <<closed, votes, pollHistory, pc, task>>

\* Variant with a fault: the vote does not look at is_closed and closes_at.
AcceptableAlways(opts) == poll # "none" /\ (poll = "single" => Len(opts) = 1)

Acceptable(opts) ==
    /\ poll # "none" /\ ~ closed
    /\ poll = "single" => Len(opts) = 1

(* POST /polls/:id/vote: the SELECT of the poll. *)
CheckVote(p, u, opts) ==
    /\ pc[p] = "idle"
    /\ Acceptable(opts)
    /\ At(p, "vote", [by |-> u, opts |-> opts, n |-> 0, gone |-> {}])
    /\ Works /\ UNCHANGED <<pollTables, pollHistory>>

VoteRefused(p, opts) == pc[p] = "idle" /\ ~ Acceptable(opts) /\ UNCHANGED pollVars

\* Variant with a fault: only the options chosen now are removed.
PreviousChosen(t) == VotesOf(t.by) \cap ToSet(t.opts)

\* The rows the DELETE is about, in the snapshot it begins with.
Previous(t) == VotesOf(t.by)

BeginVote(p) ==
    /\ pc[p] = "vote"
    /\ At(p, "delete", [task[p] EXCEPT !.gone = Previous(task[p])])
    /\ crossed' = crossed \ {p}
    /\ Works /\ UNCHANGED <<pollTables, standing, mixed, result>>

\* Rows that another vote has removed meanwhile are skipped (its COMMIT takes
\* them from gone); rows it has inserted, the same ones again too, are not in
\* the snapshot.
DeleteVotes(p) ==
    /\ pc[p] = "delete" /\ Blockers(p) = {}
    /\ At(p, "insert", task[p])
    /\ Works /\ UNCHANGED <<pollTables, pollHistory>>

\* The primary key (poll_id, user_id, option_id) refuses a second row.
InsertVote(p) ==
    /\ pc[p] = "insert" /\ task[p].n < Len(task[p].opts) /\ Blockers(p) = {}
    /\ LET t == task[p]
           o == t.opts[t.n + 1]
       IN IF o \in Put(t) \cup (VotesOf(t.by) \ t.gone)
          THEN Answer(p)
          ELSE At(p, "insert", [t EXCEPT !.n = @ + 1])
    /\ Works /\ UNCHANGED <<pollTables, pollHistory>>

CommitVote(p) ==
    /\ pc[p] = "insert" /\ task[p].n = Len(task[p].opts)
    /\ LET t == task[p]
       IN /\ votes' = (votes \ ({t.by} \X t.gone)) \cup ({t.by} \X Put(t))
          /\ standing' = [standing EXCEPT ![t.by] = ToSet(t.opts)]
          /\ mixed' = IF p \in crossed THEN mixed \cup {t.by} ELSE mixed \ {t.by}
          /\ task' = [q \in Procs |->
                        IF q = p THEN NoTask ELSE
                        IF q \in Rivals(p, {"delete"}) THEN [task[q] EXCEPT !.gone = @ \ t.gone]
                        ELSE task[q]]
    /\ crossed' = (crossed \ {p}) \cup Rivals(p, {"delete", "insert"})
    /\ pc' = [pc EXCEPT ![p] = "idle"]
    /\ Works /\ UNCHANGED <<poll, closed, result>>

(* Votes that wait for each other: PostgreSQL aborts one. *)
VictimOfDeadlock(p) ==
    /\ \E S \in SUBSET Procs : p \in S /\ \A q \in S : Blockers(q) \cap S # {}
    /\ Answer(p)
    /\ Works /\ UNCHANGED <<pollTables, pollHistory>>

(* POST /polls/:id/close by the creator, or closes_at passes. *)
ClosePoll ==
    /\ poll # "none" /\ ~ closed
    /\ closed' = TRUE
    /\ result' = [votes |-> votes,
                  open |-> {task[p].by : p \in Running({"vote", "delete", "insert"})}]
    /\ Works /\ UNCHANGED <<poll, votes, standing, crossed, mixed, pc, task>>

VoteFails(p) == Fails(p) /\ UNCHANGED <<pollTables, pollHistory>>
PollsRestart == Restarts /\ UNCHANGED <<pollTables, pollHistory>>

PollsNext ==
    \/ \E kind \in {"single", "multiple"} : CreatePoll(kind)
    \/ ClosePoll \/ PollsRestart
    \/ \E p \in Procs :
          \/ \E n \in 1..MaxChoices : \E opts \in [1..n -> Options] :
                (\E u \in Users : CheckVote(p, u, opts)) \/ VoteRefused(p, opts)
          \/ BeginVote(p) \/ DeleteVotes(p) \/ InsertVote(p) \/ CommitVote(p)
          \/ VictimOfDeadlock(p) \/ VoteFails(p)

-----------------------------------------------------------------------------
(* The rows of a user are those of the last of his votes to commit, so at  *)
(* most one in a single-choice poll, although the DELETE and the INSERTs   *)
(* see different snapshots: unless another vote of his committed between   *)
(* that vote's DELETE and its COMMIT.                                      *)
LastVoteStands ==
    \A u \in Users \ mixed :
        /\ VotesOf(u) = standing[u]
        /\ poll = "single" => Cardinality(VotesOf(u)) <= 1

(* The result of a closed poll is the one at the moment of its closing,    *)
(* but for the users who then had a vote under way that was checked before *)
(* and commits, or changes nothing, afterwards.                            *)
ClosedIsFinal ==
    closed => \A u \in Users \ result.open :
                 VotesOf(u) = {o \in Options : <<u, o>> \in result.votes}

=============================================================================
