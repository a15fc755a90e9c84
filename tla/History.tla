------------------------------ MODULE History ------------------------------
(***************************************************************************)
(* The messages of one chat as a client pages through them (getMessages in *)
(* modules/chats) while others post.  created_at is NOW(), the instant at  *)
(* which the statement or transaction of an INSERT begins, and a message   *)
(* is seen when that commits: messages need not appear in the order of     *)
(* created_at.                                                             *)
(***************************************************************************)
EXTENDS Handlers, FiniteSetsExt

CONSTANTS
    Limit,        \* messages in a page
    MaxClock,     \* bound: instants
    MaxPosts      \* bound: messages

ASSUME HistoryAssumption ==
    Limit \in Nat \ {0} /\ MaxClock \in Nat \ {0} /\ MaxPosts \in Nat

VARIABLES
    clock,        \* NOW()
    posts,        \* created_at of the messages, in the order they commit
    walk          \* what the client has fetched

historyVars == <<clock, posts, walk, handlers>>

Clock == 1..MaxClock
NoWalk == [stage |-> "no", due |-> {}, got |-> {}, cursor |-> 0, cut |-> {}, full |-> FALSE]

HistoryInit == clock = 1 /\ posts = <<>> /\ walk = NoWalk

\* stage: on the way back, or done; due: what was asked for; cut: the instants
\* of the cursors used; full: a page of new messages was full.
HistoryTypeOK ==
    /\ clock \in Clock
    /\ posts \in Seq(Clock) /\ Len(posts) <= MaxPosts
    /\ walk \in [stage : {"no", "back", "done"}, due : SUBSET DOMAIN posts,
                 got : SUBSET DOMAIN posts, cursor : 0..Len(posts), cut : SUBSET Clock,
                 full : BOOLEAN]
    /\ \A p \in Procs : \/ pc[p] = "idle" /\ task[p] = NoTask
                        \/ pc[p] = "insert" /\ task[p] \in [at : Clock]

-----------------------------------------------------------------------------
Tick ==
    /\ clock < MaxClock /\ clock' = clock + 1
    /\ Works /\ UNCHANGED <<posts, walk, pc, task>>

(* createMessage's INSERT, or the transaction of a new poll, begins. *)
BeginPost(p) ==
    /\ pc[p] = "idle"
    /\ Len(posts) + Cardinality(Running({"insert"})) < MaxPosts
    /\ At(p, "insert", [at |-> clock])
    /\ Works /\ UNCHANGED <<clock, posts, walk>>

\* It commits.
EndPost(p) ==
    /\ pc[p] = "insert"
    /\ posts' = Append(posts, task[p].at)
    /\ Answer(p)
    /\ Works /\ UNCHANGED <<clock, walk>>

-----------------------------------------------------------------------------
Newest(S) == {m \in S : \A n \in S : posts[m] >= posts[n]}

\* rows.reverse() turns the array itself, so rows[0] is the oldest message.
Oldest(S) == {m \in S : \A n \in S : posts[m] <= posts[n]}

\* ORDER BY created_at DESC LIMIT: a page of the newest of S; messages of one
\* instant come in any order.
IsPage(page, S) ==
    /\ page \subseteq S
    /\ Cardinality(page) = Min({Limit, Cardinality(S)})
    /\ \A m \in page, n \in S \ page : posts[m] >= posts[n]

\* Variant with a fault: hasMore is rows.length > limit.
EndsAtLimit(page) == Cardinality(page) <= Limit

\* Not hasMore.
Ends(page) == Cardinality(page) < Limit

\* created_at < (SELECT created_at FROM messages WHERE id = cursor), or >.
Before(c) == {m \in DOMAIN posts : c # 0 => posts[m] < posts[c]}
After(c) == {m \in DOMAIN posts : posts[m] > posts[c]}

(* GET /chats/:id/messages begins at the newest message; with before =     *)
(* cursor it goes on, until hasMore is false.                              *)
PageBack(w, page) ==
    /\ IsPage(page, Before(w.cursor))
    /\ IF Ends(page)
       THEN walk' = [w EXCEPT !.stage = "done", !.got = @ \cup page]
       ELSE \E c \in Oldest(page) :
              walk' = [w EXCEPT !.stage = "back", !.got = @ \cup page, !.cursor = c,
                                !.cut = @ \cup {posts[c]}]
    /\ Works /\ UNCHANGED <<clock, posts, pc, task>>

Open(page) == walk.stage # "back" /\ PageBack([NoWalk EXCEPT !.due = DOMAIN posts], page)
GoBack(page) == walk.stage = "back" /\ PageBack(walk, page)

(* With after = the newest message it has, the client asks for what is     *)
(* new: it gets the newest page of it.                                     *)
CatchUp(page) ==
    /\ walk.stage = "done"
    /\ \E c \in Newest(walk.got) :
          /\ IsPage(page, After(c))
          /\ walk' = [walk EXCEPT !.due = @ \cup After(c), !.got = @ \cup page,
                                  !.full = @ \/ ~ Ends(page)]
    /\ Works /\ UNCHANGED <<clock, posts, pc, task>>

PostFails(p) == Fails(p) /\ UNCHANGED <<clock, posts, walk>>
HistoryRestart == Restarts /\ UNCHANGED <<clock, posts, walk>>

HistoryNext ==
    \/ Tick \/ HistoryRestart
    \/ \E p \in Procs : BeginPost(p) \/ EndPost(p) \/ PostFails(p)
    \/ \E page \in SUBSET DOMAIN posts : Open(page) \/ GoBack(page) \/ CatchUp(page)

-----------------------------------------------------------------------------
(* A client that has paged back to the beginning, and has asked for what   *)
(* is new since, has every message that was there for it when it asked:    *)
(* all of them when it opened the chat, and the ones newer than its newest *)
(* when it caught up.  A message that commits later with an instant its    *)
(* cursor has passed was not there, and is not spoken of; neither are      *)
(* messages of the same instant as the last one of a page, and nothing at  *)
(* all once a page of new messages was full.                               *)
NothingSkipped ==
    walk.stage = "done" =>
        \A m \in walk.due \ walk.got : posts[m] \in walk.cut \/ walk.full

=============================================================================
