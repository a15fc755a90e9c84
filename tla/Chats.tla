------------------------------- MODULE Chats -------------------------------
(***************************************************************************)
(* One chat: chat_members with their roles, and the messages of the chat   *)
(* (modules/chats, modules/messages).  No handler but createChat           *)
(* opens a transaction: each SELECT of a right and the statement it allows *)
(* are two actions, and other requests run between them.  The WebSocket    *)
(* frame message.send is the same repository call as POST .../messages     *)
(* followed by the same query of the members.                              *)
(***************************************************************************)
EXTENDS Handlers

CONSTANTS
    Members,      \* the users who can be members of the chat
    MaxMessages,  \* bound: messages posted
    MaxPromoted   \* bound: members an operator makes admin

ASSUME ChatsAssumption == MaxMessages \in Nat /\ MaxPromoted \in Nat

VARIABLES
    chat,       \* chats.state; "none": not created yet
    role,       \* chat_members.role; "none": no row
    state,      \* chat_members.member_state
    messages,   \* messages of the chat, in the order of their INSERTs
    lost,       \* history: requests whose user lost a right since it was checked
    ended,      \* history: how the last manager went
    stood,      \* history: requests past their check when their user went
    strays        \* history: statements that ran for a user since he went

chatTables == <<chat, role, state, messages>>
chatHistory == <<lost, ended>>
departures == <<stood, strays>>
chatVars == <<chatTables, chatHistory, handlers>>

Roles == {"none", "member", "admin", "owner"}
States == {"none", "active", "left", "removed"}

\* by asks; who is the member, m the message, it is about.
Errand == [by : Members, who : Members \cup {"nobody"}, m : 0..MaxMessages]
NewErrand(u) == [by |-> u, who |-> "nobody", m |-> 0]

ChatsInit ==
    /\ chat = "none" /\ messages = <<>>
    /\ role = [u \in Members |-> "none"] /\ state = [u \in Members |-> "none"]
    /\ lost = {} /\ ended = "no"
    /\ stood = [u \in Members |-> 0] /\ strays = [u \in Members |-> 0]

\* A user has a role where he has a state.
ChatsTypeOK ==
    /\ chat \in {"none", "active", "deleted"}
    /\ role \in [Members -> Roles] /\ state \in [Members -> States]
    /\ \A u \in Members : role[u] = "none" <=> state[u] = "none"
    /\ messages \in Seq([by : Members, text : {"said", "edited", "deleted"}])
    /\ Len(messages) <= MaxMessages
    /\ lost \subseteq Procs /\ ended \in {"no", "left", "crossed", "removed"}
    /\ stood \in [Members -> Nat] /\ strays \in [Members -> Nat]
    /\ \A p \in Procs :
          \/ pc[p] = "idle" /\ task[p] = NoTask
          \/ /\ pc[p] \in {"updateChat", "deleteChat", "addMember", "removeMember",
                           "createMessage", "touch", "tell", "deleteMessage"}
             /\ task[p] \in Errand

-----------------------------------------------------------------------------
Active(u) == state[u] = "active"
Managers == {u \in Members : Active(u) /\ role[u] \in {"owner", "admin"}}

Actor(p) == task[p].by

\* Variant with a fault: the SELECT lacks AND member_state = 'active'.
RightOfOld(label, t) ==
    CASE label \in {"updateChat", "addMember", "removeMember"} -> role[t.by] \in {"owner", "admin"}
      [] label = "deleteChat" -> role[t.by] = "owner"
      [] label = "createMessage"   -> role[t.by] # "none"
      [] OTHER            -> TRUE

\* What the SELECT before each statement asks for.  Of a message's deletion
\* it asks for the role only, so that a former admin still has it.
Right(label, t) ==
    CASE label \in {"updateChat", "addMember", "removeMember"} -> t.by \in Managers
      [] label = "deleteChat" -> Active(t.by) /\ role[t.by] = "owner"
      [] label = "createMessage"   -> Active(t.by)
      [] label = "deleteMessage"  -> \/ messages[t.m].by = t.by /\ role[t.by] # "none"
                             \/ role[t.by] \in {"owner", "admin"}
      [] OTHER            -> TRUE

\* History: whoever is not what he was has lost the rights his requests, other
\* than p, found; and p leaves the set of requests.
Note(p) ==
    lost' = {q \in Procs \ {p} :
               \/ q \in lost
               \/ \E u \in Members : /\ u = Actor(q)
                                  /\ <<state'[u], role'[u]>> # <<state[u], role[u]>>}

\* Nobody's rights change; p leaves the set of requests.
Quiet(p) == lost' = lost \ {p}

\* The statements that only an active member may have run; a message's
\* deletion asks for the role, which stays.
Errands == {"updateChat", "deleteChat", "addMember", "removeMember", "createMessage"}
Standing(u) == {p \in Running(Errands) : Actor(p) = u}

\* History: while u is in the chat, what he has standing; once he is out, what
\* runs for him.
Ran(u) == Works /\ \E p \in Standing(u) : pc'[p] # pc[p]
Recorded ==
    /\ stood' = [u \in Members |->
                   IF "active" \in {state[u], state'[u]} THEN Cardinality(Standing(u)') ELSE stood[u]]
    /\ strays' = [u \in Members |->
                  IF "active" \in {state[u], state'[u]} THEN 0 ELSE IF Ran(u) THEN strays[u] + 1 ELSE strays[u]]

-----------------------------------------------------------------------------
\* POST /chats/direct: with somebody else.  POST /chats/group: with any list.
DirectWith(u) == {{v} : v \in Members \ {u}}
GroupOf == SUBSET Members \ {{}}

(* createChat's transaction, which nobody sees before its COMMIT and which *)
(* leaves nothing when it fails.                                           *)
CreateChat(u, others) ==
    /\ chat = "none" /\ others \in DirectWith(u) \cup GroupOf
    /\ chat' = "active"
    /\ role' = [v \in Members |-> IF v = u THEN "owner" ELSE
                                IF v \in others THEN "member" ELSE "none"]
    /\ state' = [v \in Members |-> IF v \in others \cup {u} THEN "active" ELSE "none"]
    /\ UNCHANGED <<messages, pc, task, chatHistory>>

(* The SELECT of a right; without it the answer is FORBIDDEN. *)
Check(p, label, t) ==
    /\ pc[p] = "idle" /\ chat # "none" /\ Right(label, t)
    /\ At(p, label, t)
    /\ UNCHANGED <<chatTables, chatHistory>>

Forbidden(p, label, t) ==
    pc[p] = "idle" /\ chat # "none" /\ ~ Right(label, t) /\ UNCHANGED chatVars

\* Variant with a fault: the route does not tell leaving from removing.
MayRemoveAnybody(p, u, v) == Check(p, "removeMember", [NewErrand(u) EXCEPT !.who = v])

(* DELETE /chats/:id/members/:memberId of somebody else: removeMember. *)
MayRemove(p, u, v) == u # v /\ Check(p, "removeMember", [NewErrand(u) EXCEPT !.who = v])

Ask(p, u) ==
    \/ \E label \in {"updateChat", "deleteChat"} : Check(p, label, NewErrand(u))
    \/ \E v \in Members : \/ Check(p, "addMember", [NewErrand(u) EXCEPT !.who = v])
                        \/ MayRemove(p, u, v)
    \/ \E label \in {"updateChat", "deleteChat", "addMember", "removeMember", "createMessage"} :
           Forbidden(p, label, NewErrand(u))
    \* Bound: room for the messages the running requests will insert.
    \/ /\ Len(messages) + Cardinality({q \in Procs : pc[q] = "createMessage"}) < MaxMessages
       /\ Check(p, "createMessage", NewErrand(u))
    \/ \E m \in DOMAIN messages : \/ Check(p, "deleteMessage", [NewErrand(u) EXCEPT !.m = m])
                                  \/ Forbidden(p, "deleteMessage", [NewErrand(u) EXCEPT !.m = m])

(* updateChat: title, description, avatar and updated_at, then a SELECT. *)
UpdateChat(p) ==
    /\ pc[p] = "updateChat"
    /\ Answer(p) /\ Quiet(p)
    /\ UNCHANGED <<chatTables, ended>>

(* deleteChat. *)
DeleteChat(p) ==
    /\ pc[p] = "deleteChat"
    /\ chat' = "deleted"
    /\ Answer(p) /\ Quiet(p)
    /\ UNCHANGED <<role, state, messages, ended>>

\* INSERT ... ON CONFLICT DO UPDATE: a former member has his old role again.
Upsert(u) ==
    /\ state' = [state EXCEPT ![u] = "active"]
    /\ role' = [role EXCEPT ![u] = IF @ = "none" THEN "member" ELSE @]

(* addMember. *)
AddMember(p) ==
    /\ pc[p] = "addMember"
    /\ Upsert(task[p].who)
    /\ ended' = IF Managers' = {} THEN ended ELSE "no"
    /\ Answer(p) /\ Note(p)
    /\ UNCHANGED <<chat, messages>>

\* The rows of an active member get a new state; why: what took his place.
Depart(u, how, why) ==
    /\ state' = [state EXCEPT ![u] = IF @ = "active" THEN how ELSE @]
    /\ UNCHANGED <<chat, role, messages>>
    /\ ended' = IF Managers # {} /\ Managers' = {} THEN why ELSE ended

(* removeMember. *)
RemoveMember(p) ==
    /\ pc[p] = "removeMember"
    /\ Depart(task[p].who, "removed", IF p \in lost THEN "crossed" ELSE "removed")
    /\ Answer(p) /\ Note(p)

(* leaveChat, one statement; and what deleteUser does in every chat. *)
LeaveChat(p, u) ==
    /\ pc[p] = "idle" /\ Active(u)
    /\ Depart(u, "left", "left") /\ Note(p)
    /\ UNCHANGED <<pc, task>>

(* No code writes the role 'admin': an operator does, by hand. *)
Promote(u) ==
    /\ Active(u) /\ role[u] = "member"
    /\ Cardinality({v \in Members : role[v] = "admin"}) < MaxPromoted
    /\ role' = [role EXCEPT ![u] = "admin"]
    /\ ended' = "no"
    /\ lost' = lost \cup {q \in Procs : Actor(q) = u}
    /\ UNCHANGED <<chat, state, messages, pc, task>>

-----------------------------------------------------------------------------
(* createMessage: INSERT, UPDATE chats SET updated_at; then the members    *)
(* are read and told: push notifications, or a broadcast to their sockets. *)
CreateMessage(p) ==
    /\ pc[p] = "createMessage"
    /\ messages' = Append(messages, [by |-> Actor(p), text |-> "said"])
    /\ At(p, "touch", [task[p] EXCEPT !.m = Len(messages) + 1])
    /\ UNCHANGED <<chat, role, state, chatHistory>>

Touch(p) ==
    /\ pc[p] = "touch"
    /\ At(p, "tell", task[p])
    /\ UNCHANGED <<chatTables, chatHistory>>

Tell(p) ==
    /\ pc[p] = "tell"
    /\ Answer(p) /\ Quiet(p)
    /\ UNCHANGED <<chatTables, ended>>

Editable(u, m) == messages[m].by = u /\ messages[m].text # "deleted"

(* PATCH /messages/:id: one UPDATE with all its conditions.  Nothing asks  *)
(* whether the sender is still a member; the 48 hours may be over.         *)
EditMessage(u, m) ==
    /\ m \in DOMAIN messages /\ Editable(u, m)
    /\ messages' = [messages EXCEPT ![m].text = "edited"]
    /\ UNCHANGED <<chat, role, state, pc, task, chatHistory>>

(* DELETE /messages/:id?everyone=true, the UPDATE of deleteMessage. *)
DeleteMessage(p) ==
    /\ pc[p] = "deleteMessage"
    /\ messages' = [messages EXCEPT ![task[p].m].text = "deleted"]
    /\ Answer(p) /\ Quiet(p)
    /\ UNCHANGED <<chat, role, state, ended>>

-----------------------------------------------------------------------------
(* A statement fails: next(err), nothing is rolled back. *)
QueryFails(p) == Fails(p) /\ Quiet(p) /\ UNCHANGED <<chatTables, ended>>

ChatsRestart == Restarts /\ lost' = {} /\ UNCHANGED <<chatTables, ended>>

Step(p) ==
    \/ \E u \in Members : Ask(p, u) \/ LeaveChat(p, u)
    \/ UpdateChat(p) \/ DeleteChat(p) \/ AddMember(p) \/ RemoveMember(p)
    \/ CreateMessage(p) \/ Touch(p) \/ Tell(p) \/ DeleteMessage(p)

ChatStep ==
    \/ Works /\ \/ \E u \in Members, others \in SUBSET Members : CreateChat(u, others)
                \/ \E p \in Procs : Step(p)
                \/ \E u \in Members : Promote(u) \/ (\E m \in DOMAIN messages : EditMessage(u, m))
    \/ ChatsRestart \/ \E p \in Procs : QueryFails(p)

ChatsNext == ChatStep /\ Recorded

-----------------------------------------------------------------------------
(* Once a member has left or been removed, the statements that run for him *)
(* - a change or deletion of the chat, an addition, a removal, a message - *)
(* are at most as many as the requests of his that stood between their     *)
(* check and their statement when he went: nothing that he asks for        *)
(* afterwards gets as far, with what the others do in between.             *)
OnlyWhatWasUnderWay ==
    \A u \in Members : ~ Active(u) => strays[u] <= stood[u]

(* A chat is left without a manager by the last one's leaving (or the end  *)
(* of his account), or by two removals that crossed: whoever removes       *)
(* somebody, and has not been removed himself meanwhile, manages it on.    *)
(* Nobody could add, remove or delete anything in such a chat any more.    *)
ManagedUntilGivenUp ==
    chat # "none" /\ Managers = {} => ended \in {"left", "crossed"}

=============================================================================
