---------------------------- MODULE RoutesProofs ----------------------------
(***************************************************************************)
(* Proofs about the routes of six parts of the gateway: for every number   *)
(* of requests, users, rows, restarts and failing statements.  A section   *)
(* for each part proves an inductive invariant of that part alone; the     *)
(* last one puts them together.                                            *)
(***************************************************************************)
EXTENDS Routes, FiniteSetTheorems, WellFoundedInduction, TLAPS

-----------------------------------------------------------------------------
(* Requests at their awaits.                                               *)
Handling == DOMAIN pc = Procs /\ DOMAIN task = Procs

\* The others stand where they stood.
Others(p) == \A q \in Procs \ {p} : pc'[q] = pc[q] /\ task'[q] = task[q]

LEMMA Moves ==
    ASSUME Handling, NEW p \in Procs, NEW l, NEW t, At(p, l, t)
    PROVE  Handling' /\ pc'[p] = l /\ task'[p] = t /\ Others(p)
  BY DEF Handling, At, Others

LEMMA Answered ==
    ASSUME Handling, NEW p \in Procs, Answer(p)
    PROVE  Handling' /\ pc'[p] = "idle" /\ task'[p] = NoTask /\ Others(p)
  BY Moves DEF Answer

LEMMA Stopped0 ==
    ASSUME Restarts
    PROVE  Handling' /\ \A q \in Procs : pc'[q] = "idle" /\ task'[q] = NoTask
  BY DEF Restarts, Handling

LEMMA FaultsCounted ==
    ASSUME faults \in 0..MaxFaults
    PROVE  /\ Works => faults' \in 0..MaxFaults
           /\ Restarts => faults' \in 0..MaxFaults
           /\ \A p \in Procs : Fails(p) => faults' \in 0..MaxFaults
  BY HandlersAssumption DEF Works, Restarts, Fails

-----------------------------------------------------------------------------
(* Bounds: a place for each request that may yet need one.                 *)
LEMMA RunningFinite ==
    ASSUME NEW L
    PROVE  IsFiniteSet(Running(L)) /\ Cardinality(Running(L)) \in Nat
<1>1. Running(L) \subseteq Procs
  BY DEF Running
<1> QED BY <1>1, HandlersAssumption, FS_Subset, FS_CardinalityType

LEMMA RunningPrimed ==
    ASSUME NEW L
    PROVE  IsFiniteSet(Running(L)') /\ Cardinality(Running(L)') \in Nat
<1>1. Running(L)' \subseteq Procs
  BY DEF Running
<1> QED BY <1>1, HandlersAssumption, FS_Subset, FS_CardinalityType

LEMMA NobodyEnters ==
    ASSUME NEW L, \A q \in Procs : pc'[q] \in L => pc[q] \in L
    PROVE  Cardinality(Running(L)') <= Cardinality(Running(L))
<1>1. Running(L)' \subseteq Running(L)
  BY DEF Running
<1> QED BY <1>1, RunningFinite, FS_Subset

LEMMA OneEnters ==
    ASSUME NEW L, NEW p \in Procs, Others(p)
    PROVE  Cardinality(Running(L)') <= Cardinality(Running(L)) + 1
<1>1. Running(L)' \subseteq Running(L) \cup {p}
  BY DEF Running, Others
<1>2. /\ IsFiniteSet(Running(L) \cup {p})
      /\ Cardinality(Running(L) \cup {p}) <= Cardinality(Running(L)) + 1
  <2>1. /\ IsFiniteSet(Running(L) \cup {p})
        /\ \/ Cardinality(Running(L) \cup {p}) = Cardinality(Running(L))
           \/ Cardinality(Running(L) \cup {p}) = Cardinality(Running(L)) + 1
    BY RunningFinite, FS_AddElement
  <2> QED BY <2>1, RunningFinite
<1>3. Cardinality(Running(L)') <= Cardinality(Running(L) \cup {p})
  BY <1>1, <1>2, FS_Subset
<1>4. Cardinality(Running(L) \cup {p}) \in Nat
  BY <1>2, FS_CardinalityType
<1> QED BY <1>2, <1>3, <1>4, RunningFinite, RunningPrimed

LEMMA OneLeaves ==
    ASSUME NEW L, NEW p \in Procs, Others(p), pc[p] \in L, pc'[p] \notin L
    PROVE  Cardinality(Running(L)') <= Cardinality(Running(L)) - 1
<1>1. Running(L)' \subseteq Running(L) \ {p} /\ p \in Running(L)
  BY DEF Running, Others
<1>2. /\ IsFiniteSet(Running(L) \ {p})
      /\ Cardinality(Running(L) \ {p}) = Cardinality(Running(L)) - 1
  BY <1>1, RunningFinite, FS_RemoveElement
<1> QED BY <1>1, <1>2, FS_Subset

-----------------------------------------------------------------------------
(* Tables that grow, and small sets.                                       *)
LEMMA Rows ==
    ASSUME NEW S, NEW s \in Seq(S)
    PROVE  Len(s) \in Nat /\ DOMAIN s = 1..Len(s) /\ \A i \in 1..Len(s) : s[i] \in S
  OBVIOUS

LEMMA Appended ==
    ASSUME NEW S, NEW s \in Seq(S), NEW x \in S
    PROVE  /\ Append(s, x) \in Seq(S) /\ Len(Append(s, x)) = Len(s) + 1
           /\ Append(s, x)[Len(s) + 1] = x
           /\ \A i \in 1..Len(s) : Append(s, x)[i] = s[i]
  OBVIOUS

LEMMA Rewritten ==
    ASSUME NEW S, NEW s \in Seq(S), NEW i \in 1..Len(s), NEW x \in S
    PROVE  /\ [s EXCEPT ![i] = x] \in Seq(S) /\ Len([s EXCEPT ![i] = x]) = Len(s)
           /\ [s EXCEPT ![i] = x][i] = x
           /\ \A j \in 1..Len(s) : j # i => [s EXCEPT ![i] = x][j] = s[j]
  OBVIOUS

LEMMA OneAtMost ==
    ASSUME NEW S, \A x, y \in S : x = y
    PROVE  Cardinality(S) <= 1
<1>1. CASE S = {}
  BY <1>1, FS_EmptySet
<1>2. CASE S # {}
  <2>1. PICK x \in S : S = {x}
    BY <1>2
  <2> QED BY <2>1, FS_Singleton
<1> QED BY <1>1, <1>2

\* A finite set of numbers that is not empty has a largest and a smallest one:
\* the one whose set of numbers beyond it is minimal.
LEMMA SmallestOfSets ==
    ASSUME NEW S, IsFiniteSet(S), S # {}, NEW f \in [S -> SUBSET S]
    PROVE  \E x \in S : \A y \in S : f[y] \subseteq f[x] => f[y] = f[x]
<1>1. IsWellFoundedOn(StrictSubsetOrdering(S), SUBSET S)
  BY FS_StrictSubsetOrderingWellFounded, FS_FiniteSubsetsOfFinite
<1>2. PICK T : T = {f[x] : x \in S}
  OBVIOUS
<1>3. T \subseteq SUBSET S /\ T # {}
  BY <1>2
<1>4. PICK U \in T : \A V \in T : ~ (<<V, U>> \in StrictSubsetOrdering(S))
  BY <1>1, <1>3, WFMin
<1>5. \A V \in T : V \subseteq U => V = U
  BY <1>3, <1>4 DEF StrictSubsetOrdering
<1> QED BY <1>2, <1>5

LEMMA Largest ==
    ASSUME NEW S, \A x \in S : x \in Int, IsFiniteSet(S), S # {}
    PROVE  Max(S) \in S /\ \A y \in S : Max(S) >= y
<1>1. PICK f : f = [x \in S |-> {y \in S : y >= x}]
  OBVIOUS
<1>2. f \in [S -> SUBSET S] /\ \A x \in S : f[x] = {y \in S : y >= x}
  BY <1>1
<1>3. PICK x \in S : \A y \in S : f[y] \subseteq f[x] => f[y] = f[x]
  BY <1>2, SmallestOfSets
<1>4. ASSUME NEW y \in S PROVE x >= y
  <2>1. CASE y > x
    <3>1. x \in f[x] /\ x \notin f[y]
      BY <1>2, <2>1
    <3>2. \A z \in S : z >= y => z >= x
      BY <2>1
    <3>3. f[y] \subseteq f[x]
      BY <1>2, <3>2
    <3> QED BY <1>3, <3>1, <3>3
  <2> QED BY <2>1
<1> QED BY <1>4 DEF Max

LEMMA Smallest ==
    ASSUME NEW S, \A x \in S : x \in Int, IsFiniteSet(S), S # {}
    PROVE  Min(S) \in S /\ \A y \in S : Min(S) <= y
<1>1. PICK f : f = [x \in S |-> {y \in S : y <= x}]
  OBVIOUS
<1>2. f \in [S -> SUBSET S] /\ \A x \in S : f[x] = {y \in S : y <= x}
  BY <1>1
<1>3. PICK x \in S : \A y \in S : f[y] \subseteq f[x] => f[y] = f[x]
  BY <1>2, SmallestOfSets
<1>4. ASSUME NEW y \in S PROVE x <= y
  <2>1. CASE y < x
    <3>1. x \in f[x] /\ x \notin f[y]
      BY <1>2, <2>1
    <3>2. \A z \in S : z <= y => z <= x
      BY <2>1
    <3>3. f[y] \subseteq f[x]
      BY <1>2, <3>2
    <3> QED BY <1>3, <3>1, <3>3
  <2> QED BY <2>1
<1> QED BY <1>4 DEF Min

-----------------------------------------------------------------------------
(* Chats.  A request that has been allowed to do something may do it still, *)
(* or its user's row was changed since.  What has run for a user since he  *)
(* went, and what he still has standing, was standing when he went.        *)
ChatAwaits == {"updateChat", "deleteChat", "addMember", "removeMember",
               "createMessage", "touch", "tell", "deleteMessage"}
Said == [by : Members, text : {"said", "edited", "deleted"}]

RightHeld(p) ==
    /\ pc[p] \in {"updateChat", "deleteChat", "addMember", "removeMember"} => Actor(p) \in Managers
    /\ pc[p] = "deleteChat" => role[Actor(p)] = "owner"
    /\ pc[p] = "createMessage" => Active(Actor(p))
    /\ pc[p] = "deleteMessage" => \/ messages[task[p].m].by = Actor(p)
                                  \/ role[Actor(p)] \in {"owner", "admin"}

RequestFits(p) ==
    \/ pc[p] = "idle" /\ task[p] = NoTask
    \/ /\ chat # "none" /\ pc[p] \in ChatAwaits /\ task[p] \in Errand
       /\ pc[p] \in {"addMember", "removeMember"} => task[p].who \in Members
       /\ pc[p] = "removeMember" => task[p].who # task[p].by
       /\ pc[p] = "deleteMessage" => task[p].m \in 1..Len(messages)
       /\ p \notin lost => RightHeld(p)

ChatRows ==
    /\ chat \in {"none", "active", "deleted"}
    /\ role \in [Members -> Roles] /\ state \in [Members -> States]
    /\ \A u \in Members : role[u] = "none" <=> state[u] = "none"

ChatRoom ==
    Len(messages) + Cardinality(Running({"createMessage"})) <= MaxMessages

ChatsInv ==
    /\ Handling /\ faults \in 0..MaxFaults
    /\ ChatRows /\ messages \in Seq(Said)
    /\ lost \subseteq Procs /\ ended \in {"no", "left", "crossed", "removed"}
    /\ \A p \in Procs : RequestFits(p)
    /\ ChatRoom
    /\ ManagedUntilGivenUp

DeparturesInv ==
    /\ stood \in [Members -> Nat] /\ strays \in [Members -> Nat]
    /\ \A u \in Members : strays[u] + Cardinality(Standing(u)) <= stood[u]

LEMMA StandingFinite ==
    ASSUME NEW u
    PROVE  /\ IsFiniteSet(Standing(u)) /\ Cardinality(Standing(u)) \in Nat
           /\ IsFiniteSet(Standing(u)') /\ Cardinality(Standing(u)') \in Nat
<1>1. Standing(u) \subseteq Procs /\ Standing(u)' \subseteq Procs
  BY DEF Standing, Running
<1> QED BY <1>1, HandlersAssumption, FS_Subset, FS_CardinalityType

LEMMA ChatsFollow ==
    ASSUME ChatsInv, DeparturesInv
    PROVE  ChatsTypeOK /\ OnlyWhatWasUnderWay /\ ManagedUntilGivenUp
<1>1. Len(messages) \in Nat /\ Len(messages) <= MaxMessages
  BY RunningFinite, ChatsAssumption, Rows DEF ChatsInv, ChatRoom
<1>2. ChatsTypeOK
  BY <1>1 DEF ChatsInv, DeparturesInv, ChatsTypeOK, ChatRows, RequestFits, ChatAwaits, Said
<1>3. OnlyWhatWasUnderWay
  <2>1. SUFFICES ASSUME NEW u \in Members PROVE strays[u] <= stood[u]
    BY DEF OnlyWhatWasUnderWay
  <2>2. Cardinality(Standing(u)) \in Nat
    BY StandingFinite
  <2> QED BY <2>2 DEF DeparturesInv
<1> QED BY <1>2, <1>3 DEF ChatsInv

\* A step leaves q where it is, and its user as he is or q is in lost.
Kept(q) ==
    /\ pc'[q] = pc[q] /\ task'[q] = task[q]
    /\ q \notin lost' => /\ q \notin lost
                         /\ Actor(q) \in Members =>
                               state'[Actor(q)] = state[Actor(q)] /\ role'[Actor(q)] = role[Actor(q)]

MessagesStay ==
    /\ Len(messages) <= Len(messages')
    /\ \A m \in 1..Len(messages) : messages'[m].by = messages[m].by

LEMMA RequestStays ==
    ASSUME messages \in Seq(Said), messages' \in Seq(Said), MessagesStay,
           chat # "none" => chat' # "none",
           NEW q \in Procs, RequestFits(q), Kept(q)
    PROVE  RequestFits(q)'
<1>1. CASE pc[q] = "idle" /\ task[q] = NoTask
  BY <1>1 DEF RequestFits, Kept
<1>2. CASE pc[q] \in ChatAwaits /\ task[q] \in Errand /\ ~ (pc[q] = "idle" /\ task[q] = NoTask)
  <2>1. Len(messages) \in Nat /\ Len(messages') \in Nat
    BY Rows
  <2>2. Actor(q) \in Members /\ Actor(q)' = Actor(q)
    BY <1>2 DEF Errand, Actor, Kept
  <2>3. pc[q] = "deleteMessage" =>
           task[q].m \in 1..Len(messages') /\ messages'[task[q].m].by = messages[task[q].m].by
    BY <1>2, <2>1 DEF RequestFits, MessagesStay
  <2>4. ASSUME q \notin lost' PROVE RightHeld(q)'
    <3>1. RightHeld(q) /\ state'[Actor(q)] = state[Actor(q)] /\ role'[Actor(q)] = role[Actor(q)]
      BY <1>2, <2>2, <2>4 DEF RequestFits, Kept
    <3> QED BY <2>2, <2>3, <3>1 DEF RightHeld, Kept, Managers, Active
  <2> QED BY <1>2, <2>3, <2>4 DEF RequestFits, Kept
<1> QED BY <1>1, <1>2 DEF RequestFits

LostKept(q) ==
    q \notin lost' => /\ q \notin lost
                      /\ Actor(q) \in Members =>
                            state'[Actor(q)] = state[Actor(q)] /\ role'[Actor(q)] = role[Actor(q)]

LEMMA RequestMoves ==
    ASSUME ChatsInv, NEW p \in Procs, NEW l, NEW t, At(p, l, t), faults' \in 0..MaxFaults,
           ChatRows', messages' \in Seq(Said), MessagesStay, chat # "none" => chat' # "none",
           lost' \subseteq Procs, ended' \in {"no", "left", "crossed", "removed"},
           \A q \in Procs \ {p} : LostKept(q),
           RequestFits(p)', ChatRoom', ManagedUntilGivenUp'
    PROVE  ChatsInv'
<1>1. Handling' /\ Others(p)
  BY Moves DEF ChatsInv
<1>2. ASSUME NEW q \in Procs PROVE RequestFits(q)'
  <2>1. CASE q = p
    BY <2>1
  <2>2. CASE q # p
    <3>1. Kept(q)
      BY <1>1, <2>2 DEF Others, Kept, LostKept
    <3> QED BY <3>1, RequestStays DEF ChatsInv
  <2> QED BY <2>1, <2>2
<1> QED BY <1>1, <1>2 DEF ChatsInv

LEMMA NobodyMoves ==
    ASSUME ChatsInv, UNCHANGED <<pc, task, faults>>,
           ChatRows', messages' \in Seq(Said), Len(messages') = Len(messages),
           \A m \in 1..Len(messages) : messages'[m].by = messages[m].by,
           chat # "none" => chat' # "none",
           lost' \subseteq Procs, ended' \in {"no", "left", "crossed", "removed"},
           \A q \in Procs : LostKept(q) \/ pc[q] = "idle", ManagedUntilGivenUp'
    PROVE  ChatsInv'
<1>1. Handling' /\ faults' \in 0..MaxFaults
  BY DEF ChatsInv, Handling
<1>2. ASSUME NEW q \in Procs PROVE RequestFits(q)'
  <2>1. MessagesStay
    BY Rows DEF MessagesStay
  <2>2. CASE LostKept(q)
    <3>1. Kept(q)
      BY <2>2 DEF LostKept, Kept
    <3> QED BY <2>1, <3>1, RequestStays DEF ChatsInv
  <2>3. CASE pc[q] = "idle"
    BY <2>3 DEF ChatsInv, RequestFits, ChatAwaits
  <2> QED BY <2>2, <2>3
<1>3. ChatRoom'
  <2>1. Running({"createMessage"})' = Running({"createMessage"})
    BY DEF Running
  <2> QED BY <2>1 DEF ChatsInv, ChatRoom
<1> QED BY <1>1, <1>2, <1>3 DEF ChatsInv

LEMMA ChatRoomKept ==
    ASSUME ChatsInv, NEW p \in Procs, NEW l, NEW t, At(p, l, t), l # "createMessage",
           Len(messages') = Len(messages)
    PROVE  ChatRoom'
<1>1. \A q \in Procs : pc'[q] \in {"createMessage"} => pc[q] \in {"createMessage"}
  BY Moves DEF ChatsInv, Others
<1>2. Len(messages) \in Nat
  BY Rows DEF ChatsInv
<1> QED BY <1>1, <1>2, NobodyEnters, RunningFinite, RunningPrimed, ChatsAssumption DEF ChatsInv, ChatRoom

\* Requests that change no row of chat_members, no message, and not the chat.
LEMMA QuietMove ==
    ASSUME ChatsInv, NEW p \in Procs, NEW l, NEW t, At(p, l, t), l # "createMessage",
           faults' \in 0..MaxFaults, RequestFits(p)', UNCHANGED chatTables,
           lost' \in {lost, lost \ {p}}, UNCHANGED ended
    PROVE  ChatsInv'
<1> USE DEF chatTables
<1>1. ChatRoom'
  BY ChatRoomKept
<1>2. MessagesStay
  BY Rows DEF MessagesStay, ChatsInv
<1>3. \A q \in Procs \ {p} : LostKept(q)
  BY DEF LostKept
<1>4. ManagedUntilGivenUp'
  BY DEF ChatsInv, ManagedUntilGivenUp, Managers, Active
<1>5. ChatRows' /\ messages' \in Seq(Said) /\ lost' \subseteq Procs /\ ended' = ended
  BY DEF ChatsInv, ChatRows
<1> QED BY <1>1, <1>2, <1>3, <1>4, <1>5, RequestMoves DEF ChatsInv

LEMMA AnswerFits ==
    ASSUME ChatsInv, NEW p \in Procs, Answer(p)
    PROVE  RequestFits(p)' /\ At(p, "idle", NoTask)
  BY Moves DEF Answer, RequestFits, ChatsInv

LEMMA ChecksKeep ==
    ASSUME ChatsInv, Works, NEW p \in Procs, NEW u \in Members, Ask(p, u)
    PROVE  ChatsInv'
<1>1. faults' \in 0..MaxFaults
  BY DEF Works, ChatsInv
<1>2. ASSUME NEW label \in ChatAwaits, NEW t \in Errand, Check(p, label, t),
             label \in {"addMember", "removeMember"} => t.who \in Members,
             label = "removeMember" => t.who # t.by,
             label = "deleteMessage" => t.m \in 1..Len(messages)
      PROVE  RequestFits(p)' /\ At(p, label, t) /\ UNCHANGED <<chatTables, chatHistory>>
  <2>1. /\ At(p, label, t) /\ UNCHANGED <<chatTables, chatHistory>> /\ Right(label, t)
        /\ chat # "none"
    BY <1>2 DEF Check
  <2>2. pc'[p] = label /\ task'[p] = t
    BY <2>1, Moves DEF ChatsInv
  <2>3. RightHeld(p)'
    <3>1. /\ label \in {"updateChat", "addMember", "removeMember"} => t.by \in Managers
          /\ label = "deleteChat" => Active(t.by) /\ role[t.by] = "owner"
          /\ label = "createMessage" => Active(t.by)
          /\ label = "deleteMessage" => \/ messages[t.m].by = t.by
                                        \/ role[t.by] \in {"owner", "admin"}
      BY <2>1 DEF Right
    <3>2. t.by \in Members /\ Actor(p)' = t.by
      BY <2>2 DEF Errand, Actor
    <3> HIDE DEF Right
    <3> QED BY <2>1, <2>2, <3>1, <3>2 DEF RightHeld, Managers, Active, chatTables
  <2> QED BY <1>2, <2>1, <2>2, <2>3 DEF RequestFits, chatTables
<1>3. ASSUME NEW label \in ChatAwaits \ {"createMessage"}, NEW t \in Errand, Check(p, label, t),
             label \in {"addMember", "removeMember"} => t.who \in Members,
             label = "removeMember" => t.who # t.by,
             label = "deleteMessage" => t.m \in 1..Len(messages)
      PROVE  ChatsInv'
  <2>1. RequestFits(p)' /\ At(p, label, t) /\ UNCHANGED <<chatTables, chatHistory>>
    BY <1>2, <1>3
  <2> QED BY <1>1, <2>1, QuietMove DEF chatHistory
<1>4. /\ NewErrand(u) \in Errand
      /\ \A v \in Members : [NewErrand(u) EXCEPT !.who = v] \in Errand
                            /\ [NewErrand(u) EXCEPT !.who = v].who = v
                            /\ [NewErrand(u) EXCEPT !.who = v].by = u
      /\ \A m \in 0..MaxMessages : [NewErrand(u) EXCEPT !.m = m] \in Errand
                                  /\ [NewErrand(u) EXCEPT !.m = m].m = m
  BY ChatsAssumption DEF Errand, NewErrand
<1>5. ASSUME NEW label \in {"updateChat", "deleteChat"}, Check(p, label, NewErrand(u))
      PROVE  ChatsInv'
  BY <1>3, <1>4, <1>5 DEF ChatAwaits
<1>6. ASSUME NEW v \in Members, Check(p, "addMember", [NewErrand(u) EXCEPT !.who = v]) \/ MayRemove(p, u, v)
      PROVE  ChatsInv'
  <2>1. CASE Check(p, "addMember", [NewErrand(u) EXCEPT !.who = v])
    BY <1>3, <1>4, <2>1 DEF ChatAwaits
  <2>2. CASE MayRemove(p, u, v)
    BY <1>3, <1>4, <2>2 DEF ChatAwaits, MayRemove
  <2> QED BY <1>6, <2>1, <2>2
<1>7. ASSUME NEW label, NEW t, Forbidden(p, label, t)
      PROVE  ChatsInv'
  <2>1. UNCHANGED chatVars
    BY <1>7 DEF Forbidden
  <2>2. ChatRows' /\ ManagedUntilGivenUp'
    BY <2>1 DEF ChatsInv, ChatRows, ManagedUntilGivenUp, Managers, Active, chatVars, chatTables, chatHistory
  <2> QED BY <2>1, <2>2, NobodyMoves DEF ChatsInv, chatVars, chatTables, chatHistory, handlers, LostKept
<1>8. ASSUME Len(messages) + Cardinality({q \in Procs : pc[q] = "createMessage"}) < MaxMessages,
             Check(p, "createMessage", NewErrand(u))
      PROVE  ChatsInv'
  <2>1. RequestFits(p)' /\ At(p, "createMessage", NewErrand(u)) /\ UNCHANGED <<chatTables, chatHistory>>
    BY <1>2, <1>4, <1>8 DEF ChatAwaits
  <2>2. ChatRoom'
    <3>1. {q \in Procs : pc[q] = "createMessage"} = Running({"createMessage"})
      BY DEF Running
    <3>2. Others(p)
      BY <2>1, Moves DEF ChatsInv
    <3>3. Len(messages) \in Nat /\ Len(messages') = Len(messages)
      BY <2>1, Rows DEF ChatsInv, chatTables
    <3>4. /\ Cardinality(Running({"createMessage"})') <= Cardinality(Running({"createMessage"})) + 1
          /\ Cardinality(Running({"createMessage"})) \in Nat
          /\ Cardinality(Running({"createMessage"})') \in Nat
      BY <3>2, OneEnters, RunningFinite, RunningPrimed
    <3>5. Len(messages) + Cardinality(Running({"createMessage"})) < MaxMessages
      BY <1>8, <3>1
    <3> QED BY <3>3, <3>4, <3>5, ChatsAssumption DEF ChatRoom
  <2>3. /\ MessagesStay /\ ChatRows' /\ messages' \in Seq(Said) /\ lost' = lost /\ ended' = ended
        /\ chat' = chat /\ \A q \in Procs : LostKept(q)
    BY <2>1, Rows DEF MessagesStay, ChatsInv, chatTables, chatHistory, ChatRows, LostKept
  <2>4. ManagedUntilGivenUp'
    BY <2>1 DEF ChatsInv, ManagedUntilGivenUp, Managers, Active, chatTables, chatHistory
  <2> QED BY <1>1, <2>1, <2>2, <2>3, <2>4, RequestMoves DEF ChatsInv
<1>9. ASSUME NEW m \in DOMAIN messages,
             Check(p, "deleteMessage", [NewErrand(u) EXCEPT !.m = m])
      PROVE  ChatsInv'
  <2>1. m \in 1..Len(messages) /\ m \in 0..MaxMessages
    BY Rows, RunningFinite, ChatsAssumption DEF ChatsInv, ChatRoom
  <2> QED BY <1>3, <1>4, <1>9, <2>1 DEF ChatAwaits
<1> QED BY <1>5, <1>6, <1>7, <1>8, <1>9 DEF Ask

LEMMA NotesKeep ==
    ASSUME ChatsInv, NEW p \in Procs, Note(p)
    PROVE  lost' \subseteq Procs /\ \A q \in Procs \ {p} : LostKept(q)
<1>1. lost' \subseteq Procs
  BY DEF Note
<1>2. ASSUME NEW q \in Procs \ {p}, q \notin lost', Actor(q) \in Members
      PROVE  q \notin lost /\ state'[Actor(q)] = state[Actor(q)] /\ role'[Actor(q)] = role[Actor(q)]
  BY <1>2 DEF Note
<1>3. \A q \in Procs \ {p} : q \notin lost' => q \notin lost
  BY DEF Note
<1> QED BY <1>1, <1>2, <1>3 DEF LostKept

\* Members who are managers stay so, and ended with them.
LEMMA ManagersKept ==
    ASSUME ManagedUntilGivenUp, chat # "none",
           Managers' = {} => (Managers = {} /\ ended' = ended) \/ ended' \in {"left", "crossed"}
    PROVE  ManagedUntilGivenUp'
  BY DEF ManagedUntilGivenUp

LEMMA DepartKeeps ==
    ASSUME ChatsInv, NEW u, NEW how \in {"left", "removed"}, NEW why \in {"left", "crossed", "removed"},
           Depart(u, how, why)
    PROVE  /\ ChatRows' /\ ended' \in {"no", "left", "crossed", "removed"}
           /\ UNCHANGED <<chat, role, messages>>
           /\ \A v \in Members : v # u => state'[v] = state[v]
           /\ ManagedUntilGivenUp' \/ (Managers' = {} /\ why = "removed")
<1>1. /\ UNCHANGED <<chat, role, messages>>
      /\ state' = [state EXCEPT ![u] = IF @ = "active" THEN how ELSE @]
      /\ ended' = IF Managers # {} /\ Managers' = {} THEN why ELSE ended
  BY DEF Depart
<1>2. ChatRows'
  BY <1>1 DEF ChatsInv, ChatRows, States
<1>3. \A v \in Members : v # u => state'[v] = state[v]
  BY <1>1 DEF ChatsInv, ChatRows
<1>4. ManagedUntilGivenUp' \/ (Managers' = {} /\ why = "removed")
  BY <1>1 DEF ManagedUntilGivenUp, ChatsInv
<1> QED BY <1>1, <1>2, <1>3, <1>4 DEF ChatsInv

\* Whoever is at an await is about a chat that has been made.
LEMMA AwaitKnows ==
    ASSUME ChatsInv, NEW p \in Procs, pc[p] \in ChatAwaits
    PROVE  /\ chat # "none" /\ task[p] \in Errand
           /\ pc[p] \in {"addMember", "removeMember"} => task[p].who \in Members
           /\ pc[p] = "removeMember" => task[p].who # task[p].by
           /\ pc[p] = "deleteMessage" => task[p].m \in 1..Len(messages)
           /\ p \notin lost => RightHeld(p)
  BY DEF ChatsInv, RequestFits, ChatAwaits

LEMMA AddsKeep ==
    ASSUME ChatsInv, Works, NEW p \in Procs, AddMember(p)
    PROVE  ChatsInv'
<1> DEFINE u == task[p].who
<1>1. /\ pc[p] = "addMember" /\ Upsert(u) /\ Answer(p) /\ Note(p) /\ UNCHANGED <<chat, messages>>
      /\ ended' = (IF Managers' = {} THEN ended ELSE "no") /\ faults' = faults
  BY DEF AddMember, Works
<1>2. u \in Members /\ chat # "none"
  BY <1>1, AwaitKnows DEF ChatAwaits
<1>3. RequestFits(p)' /\ At(p, "idle", NoTask)
  BY <1>1, AnswerFits
<1>4. lost' \subseteq Procs /\ \A q \in Procs \ {p} : LostKept(q)
  BY <1>1, NotesKeep
<1>5. ChatRows'
  BY <1>1, <1>2 DEF ChatsInv, ChatRows, Upsert, States, Roles
<1>6. \A v \in Managers : v \in Managers'
  BY <1>1, <1>2 DEF Managers, Active, Upsert, ChatsInv, ChatRows
<1>7. ManagedUntilGivenUp'
  BY <1>1, <1>2, <1>6, ManagersKept DEF ChatsInv
<1>8. ChatRoom' /\ MessagesStay
  BY <1>1, <1>3, ChatRoomKept, Rows DEF MessagesStay, ChatsInv
<1> QED BY <1>1, <1>3, <1>4, <1>5, <1>7, <1>8, RequestMoves DEF ChatsInv

LEMMA RemovalsKeep ==
    ASSUME ChatsInv, Works, NEW p \in Procs, RemoveMember(p)
    PROVE  ChatsInv'
<1> DEFINE u == task[p].who
           why == IF p \in lost THEN "crossed" ELSE "removed"
<1>1. /\ pc[p] = "removeMember" /\ Depart(u, "removed", why) /\ Answer(p) /\ Note(p) /\ faults' = faults
  BY DEF RemoveMember, Works
<1>2. /\ u \in Members /\ chat # "none" /\ task[p].by # u /\ task[p] \in Errand
      /\ p \notin lost => RightHeld(p)
  BY <1>1, AwaitKnows DEF ChatAwaits
<1>3. RequestFits(p)' /\ At(p, "idle", NoTask)
  BY <1>1, AnswerFits
<1>4. lost' \subseteq Procs /\ \A q \in Procs \ {p} : LostKept(q)
  BY <1>1, NotesKeep
<1>5. /\ ChatRows' /\ ended' \in {"no", "left", "crossed", "removed"}
      /\ UNCHANGED <<chat, role, messages>> /\ \A v \in Members : v # u => state'[v] = state[v]
      /\ ManagedUntilGivenUp' \/ (Managers' = {} /\ why = "removed")
  <2>1. why \in {"left", "crossed", "removed"}
    OBVIOUS
  <2> HIDE DEF u, why
  <2> QED BY <1>1, <2>1, DepartKeeps
<1>6. p \notin lost => Managers' # {}
  <2>1. SUFFICES ASSUME p \notin lost PROVE task[p].by \in Managers'
    OBVIOUS
  <2>2. task[p].by \in Managers /\ task[p].by \in Members
    BY <1>1, <1>2, <2>1 DEF RightHeld, Actor, Errand
  <2> QED BY <1>2, <1>5, <2>2 DEF Managers, Active
<1>7. ManagedUntilGivenUp'
  BY <1>5, <1>6
<1>8. ChatRoom' /\ MessagesStay
  BY <1>3, <1>5, ChatRoomKept, Rows DEF MessagesStay, ChatsInv
<1> QED BY <1>1, <1>3, <1>4, <1>5, <1>7, <1>8, RequestMoves DEF ChatsInv

LEMMA LeavesKeep ==
    ASSUME ChatsInv, Works, NEW p \in Procs, NEW u \in Members, LeaveChat(p, u)
    PROVE  ChatsInv'
<1>1. /\ pc[p] = "idle" /\ Active(u) /\ Depart(u, "left", "left") /\ Note(p)
      /\ UNCHANGED <<pc, task, faults>>
  BY DEF LeaveChat, Works
<1>2. /\ ChatRows' /\ ended' \in {"no", "left", "crossed", "removed"}
      /\ UNCHANGED <<chat, role, messages>> /\ ManagedUntilGivenUp'
  BY <1>1, DepartKeeps
<1>3. lost' \subseteq Procs /\ \A q \in Procs : LostKept(q) \/ pc[q] = "idle"
  BY <1>1, NotesKeep
<1> QED BY <1>1, <1>2, <1>3, NobodyMoves DEF ChatsInv

LEMMA QuietStepsKeep ==
    ASSUME ChatsInv, NEW p \in Procs,
           \/ Works /\ (UpdateChat(p) \/ Touch(p) \/ Tell(p))
           \/ QueryFails(p)
    PROVE  ChatsInv'
<1>1. faults' \in 0..MaxFaults
  BY FaultsCounted DEF ChatsInv, QueryFails, Works
<1>2. ASSUME Answer(p) /\ Quiet(p) /\ UNCHANGED <<chatTables, ended>>
      PROVE  ChatsInv'
  <2>1. RequestFits(p)' /\ At(p, "idle", NoTask)
    BY <1>2, AnswerFits
  <2>2. UNCHANGED chatTables /\ UNCHANGED ended /\ lost' \in {lost, lost \ {p}}
    BY <1>2 DEF Quiet
  <2> QED BY <1>1, <2>1, <2>2, QuietMove
<1>3. ASSUME Touch(p) PROVE ChatsInv'
  <2>1. pc[p] = "touch" /\ At(p, "tell", task[p]) /\ UNCHANGED <<chatTables, chatHistory>>
    BY <1>3 DEF Touch
  <2>2. task[p] \in Errand /\ chat # "none" /\ pc'[p] = "tell" /\ task'[p] = task[p]
    BY <2>1, AwaitKnows, Moves DEF ChatAwaits, ChatsInv
  <2>3. RequestFits(p)'
    BY <2>1, <2>2 DEF RequestFits, RightHeld, ChatAwaits, chatTables
  <2>4. UNCHANGED chatTables /\ UNCHANGED ended /\ lost' \in {lost, lost \ {p}}
    BY <2>1 DEF chatHistory
  <2> QED BY <1>1, <2>1, <2>3, <2>4, QuietMove
<1> QED BY <1>2, <1>3 DEF UpdateChat, Tell, QueryFails, Fails

LEMMA ChatDeletionsKeep ==
    ASSUME ChatsInv, Works, NEW p \in Procs, DeleteChat(p)
    PROVE  ChatsInv'
<1>1. /\ pc[p] = "deleteChat" /\ chat' = "deleted" /\ Answer(p) /\ Quiet(p)
      /\ UNCHANGED <<role, state, messages, ended, faults>>
  BY DEF DeleteChat, Works
<1>2. chat # "none"
  BY <1>1, AwaitKnows DEF ChatAwaits
<1>3. RequestFits(p)' /\ At(p, "idle", NoTask)
  BY <1>1, AnswerFits
<1>4. ChatRoom' /\ MessagesStay
  BY <1>1, <1>3, ChatRoomKept, Rows DEF MessagesStay, ChatsInv
<1>5. ManagedUntilGivenUp'
  BY <1>1, <1>2 DEF ManagedUntilGivenUp, Managers, Active, ChatsInv
<1>6. lost' \subseteq Procs /\ \A q \in Procs \ {p} : LostKept(q)
  BY <1>1 DEF Quiet, LostKept, ChatsInv
<1>7. ChatRows'
  BY <1>1 DEF ChatsInv, ChatRows
<1> QED BY <1>1, <1>3, <1>4, <1>5, <1>6, <1>7, RequestMoves DEF ChatsInv

LEMMA PostsKeep ==
    ASSUME ChatsInv, Works, NEW p \in Procs, CreateMessage(p)
    PROVE  ChatsInv'
<1> DEFINE said == [by |-> Actor(p), text |-> "said"]
           t == [task[p] EXCEPT !.m = Len(messages) + 1]
           L == {"createMessage"}
<1>1. /\ pc[p] = "createMessage" /\ messages' = Append(messages, said) /\ At(p, "touch", t)
      /\ UNCHANGED <<chat, role, state, lost, ended, faults>>
  BY DEF CreateMessage, Works, chatHistory
<1>2. task[p] \in Errand /\ chat # "none" /\ said \in Said
  <2>1. task[p] \in Errand /\ chat # "none"
    BY <1>1, AwaitKnows DEF ChatAwaits
  <2> QED BY <2>1 DEF Errand, Said, Actor
<1>3. /\ messages' \in Seq(Said) /\ Len(messages') = Len(messages) + 1 /\ MessagesStay
  BY <1>1, <1>2, Appended, Rows DEF ChatsInv, MessagesStay
<1>4. pc'[p] = "touch" /\ task'[p] = t /\ Others(p)
  BY <1>1, Moves DEF ChatsInv
<1>5. ChatRoom' /\ Len(messages') <= MaxMessages
  <2>1. Cardinality(Running(L)') <= Cardinality(Running(L)) - 1
    BY <1>1, <1>4, OneLeaves
  <2>2. Len(messages) + Cardinality(Running(L)) <= MaxMessages
    BY DEF ChatsInv, ChatRoom
  <2>3. Len(messages) \in Nat
    BY Rows DEF ChatsInv
  <2> HIDE DEF L
  <2>4. Len(messages') + Cardinality(Running(L)') <= MaxMessages /\ Len(messages') <= MaxMessages
    BY <1>3, <2>1, <2>2, <2>3, RunningFinite, RunningPrimed, ChatsAssumption
  <2> QED BY <2>4 DEF ChatRoom, L
<1>6. RequestFits(p)'
  <2>1. t \in Errand
    BY <1>2, <1>3, <1>5, Rows, ChatsAssumption DEF Errand, ChatsInv
  <2> QED BY <1>1, <1>2, <1>4, <2>1 DEF RequestFits, RightHeld, ChatAwaits
<1>7. \A q \in Procs \ {p} : LostKept(q)
  BY <1>1 DEF LostKept
<1>8. ChatRows' /\ ManagedUntilGivenUp'
  BY <1>1 DEF ChatsInv, ChatRows, ManagedUntilGivenUp, Managers, Active
<1> QED BY <1>1, <1>3, <1>5, <1>6, <1>7, <1>8, RequestMoves DEF ChatsInv

\* A message's text changes, its sender never.
LEMMA TextChanges ==
    ASSUME ChatsInv, NEW m \in 1..Len(messages), NEW w \in {"said", "edited", "deleted"},
           messages' = [messages EXCEPT ![m].text = w]
    PROVE  /\ messages' \in Seq(Said) /\ Len(messages') = Len(messages) /\ MessagesStay
           /\ \A n \in 1..Len(messages) : messages'[n].by = messages[n].by
<1> DEFINE row == [messages[m] EXCEPT !.text = w]
<1>1. messages[m] \in Said /\ row \in Said /\ row.by = messages[m].by
  <2>1. messages[m] \in Said
    BY Rows DEF ChatsInv
  <2> QED BY <2>1 DEF Said
<1>2. messages' = [messages EXCEPT ![m] = row]
  OBVIOUS
<1>3. /\ messages' \in Seq(Said) /\ Len(messages') = Len(messages) /\ messages'[m] = row
      /\ \A n \in 1..Len(messages) : n # m => messages'[n] = messages[n]
  <2> HIDE DEF row
  <2> QED BY <1>1, <1>2, Rewritten DEF ChatsInv
<1>4. \A n \in 1..Len(messages) : messages'[n].by = messages[n].by
  BY <1>1, <1>3
<1> QED BY <1>3, <1>4, Rows DEF MessagesStay, ChatsInv

LEMMA EditsKeep ==
    ASSUME ChatsInv, Works, NEW u \in Members, NEW m \in DOMAIN messages, EditMessage(u, m)
    PROVE  ChatsInv'
<1>1. /\ messages' = [messages EXCEPT ![m].text = "edited"] /\ m \in 1..Len(messages)
      /\ UNCHANGED <<chat, role, state, pc, task, lost, ended, faults>>
  BY Rows DEF EditMessage, Works, chatHistory, ChatsInv
<1>2. /\ messages' \in Seq(Said) /\ Len(messages') = Len(messages)
      /\ \A n \in 1..Len(messages) : messages'[n].by = messages[n].by
  BY <1>1, TextChanges
<1>3. \A q \in Procs : LostKept(q)
  BY <1>1 DEF LostKept
<1>4. ChatRows' /\ ManagedUntilGivenUp'
  BY <1>1 DEF ChatsInv, ChatRows, ManagedUntilGivenUp, Managers, Active
<1> QED BY <1>1, <1>2, <1>3, <1>4, NobodyMoves DEF ChatsInv

LEMMA MessageDeletionsKeep ==
    ASSUME ChatsInv, Works, NEW p \in Procs, DeleteMessage(p)
    PROVE  ChatsInv'
<1>1. /\ pc[p] = "deleteMessage" /\ messages' = [messages EXCEPT ![task[p].m].text = "deleted"]
      /\ Answer(p) /\ Quiet(p) /\ UNCHANGED <<chat, role, state, ended, faults>>
  BY DEF DeleteMessage, Works
<1>2. task[p].m \in 1..Len(messages)
  BY <1>1, AwaitKnows DEF ChatAwaits
<1>3. messages' \in Seq(Said) /\ Len(messages') = Len(messages) /\ MessagesStay
  BY <1>1, <1>2, TextChanges
<1>4. RequestFits(p)' /\ At(p, "idle", NoTask)
  BY <1>1, AnswerFits
<1>5. ChatRoom'
  BY <1>3, <1>4, ChatRoomKept
<1>6. lost' \subseteq Procs /\ \A q \in Procs \ {p} : LostKept(q)
  BY <1>1 DEF Quiet, LostKept, ChatsInv
<1>7. ChatRows' /\ ManagedUntilGivenUp'
  BY <1>1 DEF ChatsInv, ChatRows, ManagedUntilGivenUp, Managers, Active
<1> QED BY <1>1, <1>3, <1>4, <1>5, <1>6, <1>7, RequestMoves DEF ChatsInv

LEMMA CreationsKeep ==
    ASSUME ChatsInv, Works, NEW u \in Members, NEW others \in SUBSET Members, CreateChat(u, others)
    PROVE  ChatsInv'
<1>1. /\ chat = "none" /\ chat' = "active"
      /\ role' = [v \in Members |-> IF v = u THEN "owner" ELSE
                                    IF v \in others THEN "member" ELSE "none"]
      /\ state' = [v \in Members |-> IF v \in others \cup {u} THEN "active" ELSE "none"]
      /\ UNCHANGED <<messages, pc, task, lost, ended, faults>>
  BY DEF CreateChat, Works, chatHistory
<1>2. ChatRows'
  BY <1>1 DEF ChatRows, Roles, States
<1>3. u \in Managers'
  BY <1>1 DEF Managers, Active
<1>4. ManagedUntilGivenUp'
  BY <1>3 DEF ManagedUntilGivenUp
<1>5. \A q \in Procs : pc[q] = "idle"
  BY <1>1 DEF ChatsInv, RequestFits
<1> QED BY <1>1, <1>2, <1>4, <1>5, NobodyMoves DEF ChatsInv

LEMMA PromotionsKeep ==
    ASSUME ChatsInv, Works, NEW u \in Members, Promote(u)
    PROVE  ChatsInv'
<1>1. /\ Active(u) /\ role[u] = "member" /\ role' = [role EXCEPT ![u] = "admin"] /\ ended' = "no"
      /\ lost' = lost \cup {q \in Procs : Actor(q) = u}
      /\ UNCHANGED <<chat, state, messages, pc, task, faults>>
  BY DEF Promote, Works
<1>2. ChatRows'
  BY <1>1 DEF ChatsInv, ChatRows, Roles
<1>3. u \in Managers'
  BY <1>1 DEF Managers, Active, ChatsInv, ChatRows
<1>4. ManagedUntilGivenUp'
  BY <1>3 DEF ManagedUntilGivenUp
<1>5. lost' \subseteq Procs /\ \A q \in Procs : LostKept(q)
  BY <1>1 DEF LostKept, ChatsInv, ChatRows
<1> QED BY <1>1, <1>2, <1>4, <1>5, NobodyMoves DEF ChatsInv

LEMMA ChatsRestartKeeps ==
    ASSUME ChatsInv, ChatsRestart
    PROVE  ChatsInv'
<1>1. /\ Restarts /\ lost' = {} /\ UNCHANGED <<chat, role, state, messages, ended>>
  BY DEF ChatsRestart, chatTables
<1>2. /\ Handling' /\ faults' \in 0..MaxFaults
      /\ \A q \in Procs : pc'[q] = "idle" /\ task'[q] = NoTask
  BY <1>1, Stopped0, FaultsCounted DEF ChatsInv
<1>3. \A q \in Procs : RequestFits(q)'
  BY <1>2 DEF RequestFits
<1>4. ChatRoom'
  <2>1. Cardinality(Running({"createMessage"})') <= Cardinality(Running({"createMessage"}))
    BY <1>2, NobodyEnters
  <2> QED BY <1>1, <2>1, RunningFinite, RunningPrimed, Rows, ChatsAssumption DEF ChatsInv, ChatRoom
<1>5. ChatRows' /\ ManagedUntilGivenUp'
  BY <1>1 DEF ChatsInv, ChatRows, ManagedUntilGivenUp, Managers, Active
<1> QED BY <1>1, <1>2, <1>3, <1>4, <1>5 DEF ChatsInv

LEMMA ChatsStarts ==
    ASSUME HandlersInit, ChatsInit
    PROVE  ChatsInv
<1>1. Handling /\ faults \in 0..MaxFaults /\ \A p \in Procs : RequestFits(p)
  BY HandlersAssumption DEF HandlersInit, Handling, RequestFits
<1>2. ChatRows /\ messages \in Seq(Said) /\ lost \subseteq Procs /\ ended = "no" /\ ManagedUntilGivenUp
  BY DEF ChatsInit, ChatRows, Roles, States, ManagedUntilGivenUp
<1>3. ChatRoom
  <2>1. Running({"createMessage"}) = {}
    BY DEF HandlersInit, Running
  <2>2. Len(messages) = 0 /\ Cardinality(Running({"createMessage"})) = 0
    BY <2>1, FS_EmptySet DEF ChatsInit
  <2> QED BY <2>2, ChatsAssumption DEF ChatRoom
<1> QED BY <1>1, <1>2, <1>3 DEF ChatsInv

LEMMA ChatsKeep ==
    ASSUME ChatsInv, ChatStep
    PROVE  ChatsInv'
<1>1. ASSUME Works, NEW p \in Procs, Step(p) PROVE ChatsInv'
  BY <1>1, ChecksKeep, LeavesKeep, QuietStepsKeep, ChatDeletionsKeep, AddsKeep, RemovalsKeep,
     PostsKeep, MessageDeletionsKeep DEF Step
<1> QED BY <1>1, CreationsKeep, PromotionsKeep, EditsKeep, ChatsRestartKeeps, QuietStepsKeep
        DEF ChatStep

\* Nobody who is out of the chat begins a request.
LEMMA OutsidersBeginNothing ==
    ASSUME ChatsInv, ChatStep, NEW u \in Members, ~ Active(u)
    PROVE  Standing(u)' \subseteq Standing(u)
<1>1. ASSUME NEW p \in Procs, NEW l, NEW t, At(p, l, t), l \in Errands => t.by # u
      PROVE  Standing(u)' \subseteq Standing(u)
  <2>1. pc'[p] = l /\ task'[p] = t /\ Others(p)
    BY <1>1, Moves DEF ChatsInv
  <2> QED BY <1>1, <2>1 DEF Others, Standing, Running, Actor
<1>2. ASSUME UNCHANGED <<pc, task>> PROVE Standing(u)' \subseteq Standing(u)
  BY <1>2 DEF Standing, Running, Actor
<1>3. ASSUME NEW p \in Procs, NEW l, NEW t, Check(p, l, t) \/ Forbidden(p, l, t)
      PROVE  Standing(u)' \subseteq Standing(u)
  <2>1. CASE Check(p, l, t)
    <3>1. At(p, l, t) /\ Right(l, t)
      BY <2>1 DEF Check
    <3>2. l \in Errands => t.by # u
      BY <3>1 DEF Right, Errands, Managers, Active
    <3> QED BY <1>1, <3>1, <3>2
  <2>2. CASE Forbidden(p, l, t)
    BY <1>2, <2>2 DEF Forbidden, chatVars, handlers
  <2> QED BY <1>3, <2>1, <2>2
<1>4. ASSUME NEW p \in Procs, NEW v \in Members, Ask(p, v) PROVE Standing(u)' \subseteq Standing(u)
  BY <1>3, <1>4 DEF Ask, MayRemove
<1>5. ASSUME NEW p \in Procs, Answer(p) PROVE Standing(u)' \subseteq Standing(u)
  BY <1>1, <1>5 DEF Answer, Errands
<1>6. ASSUME NEW p \in Procs, Step(p) PROVE Standing(u)' \subseteq Standing(u)
  <2>1. CASE \E v \in Members : LeaveChat(p, v)
    BY <1>2, <2>1 DEF LeaveChat
  <2>2. CASE CreateMessage(p) \/ Touch(p)
    <3>1. \E l \in {"touch", "tell"} : \E t : At(p, l, t)
      BY <2>2 DEF CreateMessage, Touch
    <3> QED BY <1>1, <3>1 DEF Errands
  <2>3. CASE UpdateChat(p) \/ DeleteChat(p) \/ AddMember(p) \/ RemoveMember(p) \/ Tell(p) \/ DeleteMessage(p)
    BY <1>5, <2>3 DEF UpdateChat, DeleteChat, AddMember, RemoveMember, Tell, DeleteMessage
  <2> QED BY <1>4, <1>6, <2>1, <2>2, <2>3 DEF Step
<1>7. CASE \E v \in Members, others \in SUBSET Members : CreateChat(v, others)
  BY <1>2, <1>7 DEF CreateChat
<1>8. CASE \E v \in Members : Promote(v) \/ (\E m \in DOMAIN messages : EditMessage(v, m))
  BY <1>2, <1>8 DEF Promote, EditMessage
<1>9. CASE ChatsRestart
  <2>1. \A p \in Procs : pc'[p] = "idle"
    BY <1>9, Stopped0 DEF ChatsRestart
  <2> QED BY <2>1 DEF Standing, Running, Errands
<1>10. CASE \E p \in Procs : QueryFails(p)
  BY <1>5, <1>10 DEF QueryFails, Fails
<1> QED BY <1>6, <1>7, <1>8, <1>9, <1>10 DEF ChatStep

\* Whoever has done an errand goes on to tell the others, or answers.
LEMMA RunsOut ==
    ASSUME ChatsInv, ChatStep, NEW p \in Procs, pc[p] \in Errands
    PROVE  pc'[p] \in {"idle", "touch", "tell", pc[p]}
<1>1. ASSUME NEW q \in Procs, NEW l, NEW t, At(q, l, t), q = p => l \in {"idle", "touch", "tell"}
      PROVE  pc'[p] \in {"idle", "touch", "tell", pc[p]}
  <2>1. pc'[q] = l /\ Others(q)
    BY <1>1, Moves DEF ChatsInv
  <2> QED BY <1>1, <2>1 DEF Others
<1>2. ASSUME NEW q \in Procs, NEW l, NEW t, Check(q, l, t) \/ Forbidden(q, l, t)
      PROVE  pc'[p] \in {"idle", "touch", "tell", pc[p]}
  <2>1. CASE Check(q, l, t)
    BY <1>1, <2>1 DEF Check, Errands
  <2>2. CASE Forbidden(q, l, t)
    BY <2>2 DEF Forbidden, chatVars, handlers
  <2> QED BY <1>2, <2>1, <2>2
<1>3. ASSUME NEW q \in Procs, NEW v \in Members, Ask(q, v)
      PROVE  pc'[p] \in {"idle", "touch", "tell", pc[p]}
  BY <1>2, <1>3 DEF Ask, MayRemove
<1>4. ASSUME NEW q \in Procs, Answer(q) PROVE pc'[p] \in {"idle", "touch", "tell", pc[p]}
  BY <1>1, <1>4 DEF Answer
<1>5. ASSUME NEW q \in Procs, Step(q) PROVE pc'[p] \in {"idle", "touch", "tell", pc[p]}
  <2>1. CASE \E v \in Members : LeaveChat(q, v)
    BY <2>1 DEF LeaveChat
  <2>2. CASE CreateMessage(q) \/ Touch(q)
    <3>1. \E l \in {"touch", "tell"} : \E t : At(q, l, t)
      BY <2>2 DEF CreateMessage, Touch
    <3> QED BY <1>1, <3>1
  <2>3. CASE UpdateChat(q) \/ DeleteChat(q) \/ AddMember(q) \/ RemoveMember(q) \/ Tell(q) \/ DeleteMessage(q)
    BY <1>4, <2>3 DEF UpdateChat, DeleteChat, AddMember, RemoveMember, Tell, DeleteMessage
  <2> QED BY <1>3, <1>5, <2>1, <2>2, <2>3 DEF Step
<1>6. CASE \E v \in Members, others \in SUBSET Members : CreateChat(v, others)
  BY <1>6 DEF CreateChat
<1>7. CASE \E v \in Members : Promote(v) \/ (\E m \in DOMAIN messages : EditMessage(v, m))
  BY <1>7 DEF Promote, EditMessage
<1>8. CASE ChatsRestart
  BY <1>8, Stopped0 DEF ChatsRestart
<1>9. CASE \E q \in Procs : QueryFails(q)
  BY <1>4, <1>9 DEF QueryFails, Fails
<1> QED BY <1>5, <1>6, <1>7, <1>8, <1>9 DEF ChatStep

\* A request of his that runs does not stand any more.
LEMMA RunsLeave ==
    ASSUME ChatsInv, ChatStep, NEW u \in Members, ~ Active(u), Ran(u)
    PROVE  Cardinality(Standing(u)') <= Cardinality(Standing(u)) - 1
<1>1. PICK p \in Standing(u) : pc'[p] # pc[p]
  BY DEF Ran
<1>2. p \in Procs /\ pc[p] \in Errands /\ Actor(p) = u
  BY <1>1 DEF Standing, Running
<1>3. p \notin Standing(u)'
  <2>1. SUFFICES ASSUME p \in Standing(u)' PROVE FALSE
    OBVIOUS
  <2>2. pc'[p] \in Errands
    BY <2>1 DEF Standing, Running
  <2>3. pc'[p] \in {"idle", "touch", "tell", pc[p]}
    BY <1>2, RunsOut
  <2> QED BY <1>1, <2>2, <2>3 DEF Errands
<1>4. Standing(u)' \subseteq Standing(u) \ {p}
  BY <1>3, OutsidersBeginNothing
<1>5. /\ Cardinality(Standing(u) \ {p}) = Cardinality(Standing(u)) - 1
      /\ IsFiniteSet(Standing(u) \ {p})
  BY <1>1, StandingFinite, FS_RemoveElement
<1> QED BY <1>4, <1>5, FS_Subset

LEMMA DeparturesKeep ==
    ASSUME ChatsInv, DeparturesInv, ChatsNext
    PROVE  DeparturesInv'
<1>1. ChatStep /\ Recorded
  BY DEF ChatsNext
<1>2. \A u \in Members : Cardinality(Standing(u)) \in Nat /\ Cardinality(Standing(u)') \in Nat
  BY StandingFinite
<1>3. stood' \in [Members -> Nat] /\ strays' \in [Members -> Nat]
  BY <1>1, <1>2 DEF Recorded, DeparturesInv
<1>4. ASSUME NEW u \in Members
      PROVE  strays'[u] + Cardinality(Standing(u)') <= stood'[u]
  <2>1. CASE "active" \in {state[u], state'[u]}
    <3>1. stood'[u] = Cardinality(Standing(u)') /\ strays'[u] = 0
      BY <1>1, <2>1 DEF Recorded
    <3> QED BY <1>2, <3>1
  <2>2. CASE ~ ("active" \in {state[u], state'[u]})
    <3>1. /\ stood'[u] = stood[u] /\ strays'[u] = (IF Ran(u) THEN strays[u] + 1 ELSE strays[u])
          /\ ~ Active(u)
      BY <1>1, <2>2 DEF Recorded, Active
    <3>2. Cardinality(Standing(u)') <= Cardinality(Standing(u))
      BY <1>1, <3>1, OutsidersBeginNothing, StandingFinite, FS_Subset
    <3>3. Ran(u) => Cardinality(Standing(u)') <= Cardinality(Standing(u)) - 1
      BY <1>1, <3>1, RunsLeave
    <3>4. /\ strays[u] + Cardinality(Standing(u)) <= stood[u]
          /\ strays[u] \in Nat /\ stood[u] \in Nat
      BY DEF DeparturesInv
    <3> QED BY <1>2, <3>1, <3>2, <3>3, <3>4
  <2> QED BY <2>1, <2>2
<1> QED BY <1>3, <1>4 DEF DeparturesInv

LEMMA DeparturesStart ==
    ASSUME HandlersInit, ChatsInit
    PROVE  DeparturesInv
<1>1. \A u \in Members : Standing(u) = {}
  BY DEF HandlersInit, Standing, Running, Errands
<1>2. \A u \in Members : Cardinality(Standing(u)) = 0
  BY <1>1, FS_EmptySet
<1> QED BY <1>2 DEF ChatsInit, DeparturesInv

-----------------------------------------------------------------------------
(* Polls.  A vote that no other vote of its user has crossed is about to   *)
(* remove all the rows of its user; its user had it under way when the     *)
(* poll closed, if it is closed.                                           *)
VoteFits(p) ==
    \/ pc[p] = "idle" /\ task[p] = NoTask
    \/ /\ poll # "none" /\ pc[p] \in {"vote", "delete", "insert"} /\ task[p] \in Vote
       /\ poll = "single" => Len(task[p].opts) = 1
       /\ pc[p] \in {"delete", "insert"} /\ p \notin crossed => task[p].gone = VotesOf(task[p].by)
       /\ closed => task[p].by \in result.open

PollTyped ==
    /\ poll \in {"none", "single", "multiple"} /\ closed \in BOOLEAN
    /\ votes \subseteq Users \X Options
    /\ standing \in [Users -> SUBSET Options]
    /\ crossed \subseteq Procs /\ mixed \subseteq Users
    /\ result \in [votes : SUBSET (Users \X Options), open : SUBSET Users]

Stands ==
    /\ poll = "none" => \A u \in Users : standing[u] = {}
    /\ \A u \in Users \ mixed : VotesOf(u) = standing[u]
    /\ poll = "single" => \A u \in Users : \A x, y \in standing[u] : x = y

PollsInv ==
    /\ Handling /\ faults \in 0..MaxFaults
    /\ PollTyped /\ Stands /\ ClosedIsFinal
    /\ \A p \in Procs : VoteFits(p)

LEMMA PollsFollow ==
    ASSUME PollsInv
    PROVE  PollsTypeOK /\ LastVoteStands /\ ClosedIsFinal
<1>1. PollsTypeOK
  BY DEF PollsInv, PollTyped, PollsTypeOK, VoteFits
<1>2. ASSUME NEW u \in Users \ mixed
      PROVE  /\ VotesOf(u) = standing[u]
             /\ poll = "single" => Cardinality(VotesOf(u)) <= 1
  <2>1. VotesOf(u) = standing[u]
    BY DEF PollsInv, Stands
  <2>2. ASSUME poll = "single" PROVE Cardinality(VotesOf(u)) <= 1
    <3>1. \A x, y \in standing[u] : x = y
      BY <2>2 DEF PollsInv, Stands
    <3> QED BY <2>1, <3>1, OneAtMost
  <2> QED BY <2>1, <2>2
<1> QED BY <1>1, <1>2 DEF PollsInv, LastVoteStands

\* What a vote chose.
LEMMA ChoicesOfVote ==
    ASSUME NEW t \in Vote
    PROVE  /\ t.opts \in Seq(Options) /\ Len(t.opts) \in 1..MaxChoices
           /\ ToSet(t.opts) \subseteq Options
           /\ Len(t.opts) = 1 => \A x, y \in ToSet(t.opts) : x = y
           /\ t.n = Len(t.opts) => Put(t) = ToSet(t.opts)
<1>1. PICK n \in 1..MaxChoices : t.opts \in [1..n -> Options]
  BY DEF Vote
<1>2. t.opts \in Seq(Options) /\ Len(t.opts) = n
  BY <1>1, PollsAssumption
<1>3. DOMAIN t.opts = 1..n
  BY <1>1
<1>4. ToSet(t.opts) \subseteq Options
  BY <1>1 DEF ToSet
<1>5. n = 1 => \A x, y \in ToSet(t.opts) : x = y
  BY <1>3 DEF ToSet
<1>6. t.n = n => Put(t) = ToSet(t.opts)
  <2>1. SUFFICES ASSUME t.n = n PROVE SubSeq(t.opts, 1, n) = t.opts
    BY DEF Put
  <2> QED BY <1>2
<1> QED BY <1>1, <1>2, <1>4, <1>5, <1>6

LEMMA VoteStays ==
    ASSUME NEW q \in Procs, VoteFits(q), pc'[q] = pc[q], task'[q] = task[q],
           pc[q] # "idle" => /\ poll' = poll
                             /\ closed' => task[q].by \in result'.open,
           pc[q] \in {"delete", "insert"} /\ q \notin crossed' =>
                 q \notin crossed /\ VotesOf(task[q].by)' = VotesOf(task[q].by)
    PROVE  VoteFits(q)'
<1>1. CASE pc[q] = "idle" /\ task[q] = NoTask
  BY <1>1 DEF VoteFits
<1>2. CASE ~ (pc[q] = "idle" /\ task[q] = NoTask)
  <2>1. pc[q] \in {"delete", "insert"} /\ q \notin crossed' =>
              task'[q].gone = VotesOf(task[q].by)'
    BY <1>2 DEF VoteFits
  <2> QED BY <1>2, <2>1 DEF VoteFits, VotesOf
<1> QED BY <1>1, <1>2

LEMMA VoteMoves ==
    ASSUME PollsInv, NEW p \in Procs, NEW l, NEW t, At(p, l, t), faults' \in 0..MaxFaults,
           UNCHANGED <<poll, closed, votes, standing, mixed, result>>,
           crossed' \in {crossed, crossed \ {p}}, VoteFits(p)'
    PROVE  PollsInv'
<1>1. Handling' /\ Others(p)
  BY Moves DEF PollsInv
<1>2. \A u : VotesOf(u)' = VotesOf(u)
  BY DEF VotesOf
<1>3. ASSUME NEW q \in Procs \ {p} PROVE VoteFits(q)'
  <2>1. pc'[q] = pc[q] /\ task'[q] = task[q] /\ VoteFits(q) /\ (q \notin crossed' => q \notin crossed)
    BY <1>1 DEF Others, PollsInv
  <2>2. closed' => (pc[q] # "idle" => task[q].by \in result'.open)
    BY <2>1 DEF VoteFits
  <2> QED BY <1>2, <2>1, <2>2, VoteStays
<1>4. PollTyped' /\ Stands' /\ ClosedIsFinal'
  BY <1>2 DEF PollsInv, PollTyped, Stands, ClosedIsFinal
<1> QED BY <1>1, <1>3, <1>4 DEF PollsInv

LEMMA VoteAnswered ==
    ASSUME PollsInv, NEW p \in Procs, Answer(p), faults' \in 0..MaxFaults,
           UNCHANGED <<pollTables, pollHistory>>
    PROVE  PollsInv'
<1>1. At(p, "idle", NoTask) /\ VoteFits(p)'
  BY Answered DEF PollsInv, Answer, VoteFits
<1> QED BY <1>1, VoteMoves DEF pollTables, pollHistory

LEMMA VoteChecked ==
    ASSUME PollsInv, NEW p \in Procs, NEW u \in Users, NEW n \in 1..MaxChoices,
           NEW opts \in [1..n -> Options], CheckVote(p, u, opts)
    PROVE  PollsInv'
<1>0. PICK t : t = [by |-> u, opts |-> opts, n |-> 0, gone |-> {}]
  OBVIOUS
<1>1. /\ Acceptable(opts) /\ At(p, "vote", t) /\ faults' = faults /\ UNCHANGED <<pollTables, pollHistory>>
  BY <1>0 DEF CheckVote, Works
<1>2. pc'[p] = "vote" /\ task'[p] = t
  BY <1>1, Moves DEF PollsInv
<1>3. t \in Vote
  BY <1>0, PollsAssumption DEF Vote
<1>4. VoteFits(p)'
  BY <1>0, <1>1, <1>2, <1>3 DEF VoteFits, Acceptable, pollTables, pollHistory
<1> QED BY <1>1, <1>4, VoteMoves DEF pollTables, pollHistory, PollsInv

LEMMA VoteBegins ==
    ASSUME PollsInv, NEW p \in Procs, BeginVote(p)
    PROVE  PollsInv'
<1>0. PICK t : t = [task[p] EXCEPT !.gone = VotesOf(task[p].by)]
  OBVIOUS
<1>1. /\ pc[p] = "vote" /\ At(p, "delete", t) /\ crossed' = crossed \ {p} /\ faults' = faults
      /\ UNCHANGED <<pollTables, standing, mixed, result>>
  BY <1>0 DEF BeginVote, Works, Previous
<1>2. pc'[p] = "delete" /\ task'[p] = t
  BY <1>1, Moves DEF PollsInv
<1>3. /\ poll # "none" /\ task[p] \in Vote
      /\ poll = "single" => Len(task[p].opts) = 1
      /\ closed => task[p].by \in result.open
  BY <1>1 DEF PollsInv, VoteFits
<1>4. t \in Vote /\ t.by = task[p].by /\ t.opts = task[p].opts /\ t.gone = VotesOf(task[p].by)
  BY <1>0, <1>3 DEF Vote, VotesOf
<1>5. VoteFits(p)'
  BY <1>1, <1>2, <1>3, <1>4 DEF VoteFits, VotesOf, pollTables
<1> QED BY <1>1, <1>5, VoteMoves DEF pollTables, PollsInv

LEMMA VotesDeleted ==
    ASSUME PollsInv, NEW p \in Procs, DeleteVotes(p)
    PROVE  PollsInv'
<1>0. PICK t : t = task[p]
  OBVIOUS
<1>1. /\ pc[p] = "delete" /\ At(p, "insert", t) /\ faults' = faults /\ UNCHANGED <<pollTables, pollHistory>>
  BY <1>0 DEF DeleteVotes, Works
<1>2. pc'[p] = "insert" /\ task'[p] = t
  BY <1>1, Moves DEF PollsInv
<1>3. /\ poll # "none" /\ task[p] \in Vote
      /\ poll = "single" => Len(task[p].opts) = 1
      /\ closed => task[p].by \in result.open
      /\ p \notin crossed => task[p].gone = VotesOf(task[p].by)
  BY <1>1 DEF PollsInv, VoteFits
<1>4. /\ t \in Vote /\ t.by = task[p].by /\ t.opts = task[p].opts
      /\ t.gone = task[p].gone
  BY <1>0, <1>3
<1>5. p \notin crossed => t.gone = VotesOf(t.by)
  BY <1>3, <1>4
<1>6. VoteFits(p)'
  BY <1>1, <1>2, <1>3, <1>4, <1>5 DEF VoteFits, VotesOf, pollTables, pollHistory
<1> QED BY <1>1, <1>6, VoteMoves DEF pollTables, pollHistory, PollsInv

LEMMA VoteInserted ==
    ASSUME PollsInv, NEW p \in Procs, InsertVote(p)
    PROVE  PollsInv'
<1>0. PICK t : t = [task[p] EXCEPT !.n = @ + 1]
  OBVIOUS
<1>1. /\ pc[p] = "insert" /\ task[p].n < Len(task[p].opts) /\ faults' = faults
      /\ Answer(p) \/ At(p, "insert", t) 
      /\ UNCHANGED <<pollTables, pollHistory>>
  BY <1>0 DEF InsertVote, Works
<1>2. ASSUME At(p, "insert", t) PROVE PollsInv'
  <2>1. pc'[p] = "insert" /\ task'[p] = t
    BY <1>2, Moves DEF PollsInv
  <2>2. /\ poll # "none" /\ task[p] \in Vote
        /\ poll = "single" => Len(task[p].opts) = 1
        /\ closed => task[p].by \in result.open
        /\ p \notin crossed => task[p].gone = VotesOf(task[p].by)
    BY <1>1 DEF PollsInv, VoteFits
  <2>3. /\ t \in Vote /\ t.by = task[p].by /\ t.opts = task[p].opts /\ t.gone = task[p].gone
    <3>1. Len(task[p].opts) \in 1..MaxChoices
      BY <2>2, ChoicesOfVote
    <3>2. task[p].n + 1 \in 0..MaxChoices
      BY <1>1, <2>2, <3>1, PollsAssumption DEF Vote
    <3> QED BY <1>0, <2>2, <3>2 DEF Vote
  <2>4. VoteFits(p)'
    BY <1>1, <2>1, <2>2, <2>3 DEF VoteFits, VotesOf, pollTables, pollHistory
  <2> QED BY <1>1, <1>2, <2>4, VoteMoves DEF pollTables, pollHistory, PollsInv
<1> QED BY <1>1, <1>2, VoteAnswered DEF PollsInv

LEMMA VoteCommits ==
    ASSUME PollsInv, NEW p \in Procs, CommitVote(p)
    PROVE  PollsInv'
<1>0. PICK t, u, chosen : t = task[p] /\ u = t.by /\ chosen = ToSet(t.opts)
  OBVIOUS
<1>1. /\ pc[p] = "insert" /\ t.n = Len(t.opts)
      /\ votes' = (votes \ ({u} \X t.gone)) \cup ({u} \X Put(t))
      /\ standing' = [standing EXCEPT ![u] = chosen]
      /\ mixed' = (IF p \in crossed THEN mixed \cup {u} ELSE mixed \ {u})
      /\ crossed' = (crossed \ {p}) \cup Rivals(p, {"delete", "insert"})
      /\ pc' = [pc EXCEPT ![p] = "idle"]
      /\ UNCHANGED <<poll, closed, result, faults>>
  BY <1>0 DEF CommitVote, Works
<1>2. /\ poll # "none" /\ t \in Vote /\ u \in Users
      /\ poll = "single" => Len(t.opts) = 1
      /\ closed => u \in result.open
      /\ p \notin crossed => t.gone = VotesOf(u)
  <2>1. VoteFits(p)
    BY DEF PollsInv
  <2> QED BY <1>0, <1>1, <2>1 DEF VoteFits, Vote
<1>3. /\ Put(t) = chosen /\ chosen \subseteq Options
      /\ poll = "single" => \A x, y \in chosen : x = y
  BY <1>0, <1>1, <1>2, ChoicesOfVote
<1>4. votes' = (votes \ ({u} \X t.gone)) \cup ({u} \X chosen)
  BY <1>1, <1>3
<1>5. ASSUME NEW v, v # u PROVE VotesOf(v)' = VotesOf(v)
  BY <1>4, <1>5 DEF VotesOf
<1>6. p \notin crossed => VotesOf(u)' = chosen
  <2>1. SUFFICES ASSUME p \notin crossed
                 PROVE  \A o \in Options : <<u, o>> \in votes' <=> o \in chosen
    BY <1>3 DEF VotesOf
  <2>2. t.gone = VotesOf(u)
    BY <1>2, <2>1
  <2> QED BY <1>4, <2>2 DEF VotesOf
<1>7. /\ Handling' /\ pc'[p] = "idle" /\ task'[p] = NoTask
      /\ \A q \in Procs \ {p} :
            /\ pc'[q] = pc[q]
            /\ q \in Rivals(p, {"delete"}) => task'[q] = [task[q] EXCEPT !.gone = @ \ t.gone]
            /\ q \notin Rivals(p, {"delete"}) => task'[q] = task[q]
  <2>0. PICK cut : cut = [q \in Procs |-> [task[q] EXCEPT !.gone = @ \ t.gone]]
    OBVIOUS
  <2>1. task' = [q \in Procs |->
                   IF q = p THEN NoTask ELSE IF q \in Rivals(p, {"delete"}) THEN cut[q] ELSE task[q]]
    BY <1>0, <2>0 DEF CommitVote
  <2>2. p \notin Rivals(p, {"delete"})
    BY DEF Rivals
  <2>3. DOMAIN pc = Procs
    BY DEF PollsInv, Handling
  <2>4. DOMAIN pc' = Procs /\ pc'[p] = "idle" /\ \A q \in Procs \ {p} : pc'[q] = pc[q]
    BY <1>1, <2>3
  <2>5. DOMAIN task' = Procs /\ task'[p] = NoTask
    BY <2>1
  <2>6. ASSUME NEW q \in Procs \ {p}
        PROVE  /\ q \in Rivals(p, {"delete"}) => task'[q] = [task[q] EXCEPT !.gone = @ \ t.gone]
               /\ q \notin Rivals(p, {"delete"}) => task'[q] = task[q]
    <3>1. /\ q \in Rivals(p, {"delete"}) => task'[q] = cut[q]
          /\ q \notin Rivals(p, {"delete"}) => task'[q] = task[q]
      BY <2>1, <2>6
    <3>2. cut[q] = [task[q] EXCEPT !.gone = @ \ t.gone]
      BY <2>0, Zenon
    <3> QED BY <3>1, <3>2
  <2> QED BY <2>4, <2>5, <2>6 DEF Handling
<1>8. ASSUME NEW q \in Procs PROVE VoteFits(q)'
  <2>1. CASE q = p
    BY <1>7, <2>1 DEF VoteFits
  <2>3. CASE q # p /\ q \in Rivals(p, {"delete"})
    <3>1. /\ pc'[q] = "delete" /\ q \in crossed' /\ VoteFits(q) /\ pc[q] = "delete"
          /\ task'[q] = [task[q] EXCEPT !.gone = @ \ t.gone]
      BY <1>1, <1>7, <2>3 DEF Rivals, Running, PollsInv
    <3>2. /\ task[q] \in Vote /\ (poll = "single" => Len(task[q].opts) = 1)
          /\ closed => task[q].by \in result.open
      BY <3>1 DEF VoteFits
    <3>3. task'[q] \in Vote /\ task'[q].by = task[q].by /\ task'[q].opts = task[q].opts
      BY <3>1, <3>2 DEF Vote
    <3> QED BY <1>1, <1>2, <3>1, <3>2, <3>3 DEF VoteFits
  <2>2. CASE q # p /\ q \notin Rivals(p, {"delete"})
    <3>1. pc'[q] = pc[q] /\ task'[q] = task[q] /\ VoteFits(q)
      BY <1>7, <2>2 DEF PollsInv
    <3>2. pc[q] # "idle" => poll' = poll /\ (closed' => task[q].by \in result'.open)
      BY <1>1, <3>1 DEF VoteFits
    <3>3. pc[q] \in {"delete", "insert"} /\ q \notin crossed' =>
             q \notin crossed /\ VotesOf(task[q].by)' = VotesOf(task[q].by)
      <4>1. SUFFICES ASSUME pc[q] \in {"delete", "insert"}, q \notin crossed'
                     PROVE  q \notin crossed /\ task[q].by # u
        BY <1>5, <3>1 DEF VotesOf
      <4> QED BY <1>0, <1>1, <2>2, <4>1 DEF Rivals, Running
    <3> QED BY <3>1, <3>2, <3>3, VoteStays
  <2> QED BY <2>1, <2>2, <2>3
<1>9. PollTyped'
  <2>1. votes' \subseteq Users \X Options
    BY <1>2, <1>3, <1>4 DEF PollsInv, PollTyped
  <2>2. standing' \in [Users -> SUBSET Options]
    BY <1>1, <1>3 DEF PollsInv, PollTyped
  <2>3. crossed' \subseteq Procs
    BY <1>1 DEF Rivals, Running, PollsInv, PollTyped
  <2>4. mixed' \subseteq Users
    BY <1>1, <1>2 DEF PollsInv, PollTyped
  <2> QED BY <1>1, <2>1, <2>2, <2>3, <2>4 DEF PollsInv, PollTyped
<1>10. \A v \in Users : standing'[v] = IF v = u THEN chosen ELSE standing[v]
  BY <1>1 DEF PollsInv, PollTyped
<1>11. Stands'
  <2>1. ASSUME NEW v \in Users \ mixed' PROVE VotesOf(v)' = standing'[v]
    <3>1. CASE v = u
      <4>1. p \notin crossed
        BY <1>1, <2>1, <3>1
      <4> QED BY <1>6, <1>10, <3>1, <4>1 DEF VotesOf
    <3>2. CASE v # u
      <4>1. v \notin mixed
        BY <1>1, <2>1, <3>2
      <4>2. VotesOf(v)' = VotesOf(v)
        BY <1>5, <3>2
      <4> QED BY <1>10, <3>2, <4>1, <4>2 DEF PollsInv, Stands
    <3> QED BY <3>1, <3>2
  <2>2. poll' = "single" => \A v \in Users : \A x, y \in standing'[v] : x = y
    BY <1>1, <1>3, <1>10 DEF PollsInv, Stands
  <2> QED BY <1>1, <1>2, <2>1, <2>2 DEF Stands
<1>12. ClosedIsFinal'
  <2>1. ASSUME closed', NEW v \in Users \ result'.open
        PROVE  VotesOf(v)' = {o \in Options : <<v, o>> \in result'.votes}
    <3>1. v # u /\ closed /\ v \in Users \ result.open
      BY <1>1, <1>2, <2>1
    <3>2. VotesOf(v)' = VotesOf(v)
      BY <1>5, <3>1
    <3> QED BY <1>1, <3>1, <3>2 DEF PollsInv, ClosedIsFinal
  <2> QED BY <2>1 DEF ClosedIsFinal
<1> QED BY <1>1, <1>7, <1>8, <1>9, <1>11, <1>12 DEF PollsInv

LEMMA PollCloses ==
    ASSUME PollsInv, ClosePoll
    PROVE  PollsInv'
<1>1. /\ poll # "none" /\ ~ closed /\ closed' = TRUE
      /\ result' = [votes |-> votes,
                    open |-> {task[p].by : p \in Running({"vote", "delete", "insert"})}]
      /\ UNCHANGED <<poll, votes, standing, crossed, mixed, pc, task, faults>>
  BY DEF ClosePoll, Works
<1>2. \A u : VotesOf(u)' = VotesOf(u)
  BY <1>1 DEF VotesOf
<1>3. ASSUME NEW q \in Procs PROVE VoteFits(q)'
  <2>1. VoteFits(q)
    BY DEF PollsInv
  <2>2. pc[q] # "idle" => task[q].by \in result'.open
    BY <1>1, <2>1 DEF VoteFits, Running
  <2> QED BY <1>1, <1>2, <2>1, <2>2, VoteStays
<1>4. PollTyped'
  <2>1. \A p \in Running({"vote", "delete", "insert"}) : task[p].by \in Users
    BY DEF PollsInv, VoteFits, Vote, Running
  <2>2. result' \in [votes : SUBSET (Users \X Options), open : SUBSET Users]
    BY <1>1, <2>1 DEF PollsInv, PollTyped
  <2> QED BY <1>1, <2>2 DEF PollsInv, PollTyped
<1>5. Stands' /\ ClosedIsFinal'
  BY <1>1, <1>2 DEF PollsInv, Stands, ClosedIsFinal, VotesOf
<1> QED BY <1>1, <1>3, <1>4, <1>5 DEF PollsInv, Handling

LEMMA PollMade ==
    ASSUME PollsInv, NEW kind \in {"single", "multiple"}, CreatePoll(kind)
    PROVE  PollsInv'
<1>1. /\ poll = "none" /\ poll' = kind
      /\ UNCHANGED <<closed, votes, standing, crossed, mixed, result, pc, task, faults>>
  BY DEF CreatePoll, Works, pollHistory
<1>2. \A u : VotesOf(u)' = VotesOf(u)
  BY <1>1 DEF VotesOf
<1>3. \A q \in Procs : VoteFits(q)'
  BY <1>1 DEF PollsInv, VoteFits
<1>4. PollTyped' /\ Stands' /\ ClosedIsFinal'
  BY <1>1, <1>2 DEF PollsInv, PollTyped, Stands, ClosedIsFinal
<1> QED BY <1>1, <1>3, <1>4 DEF PollsInv, Handling

LEMMA PollStands ==
    ASSUME PollsInv, UNCHANGED pollVars
    PROVE  PollsInv'
<1>1. UNCHANGED <<poll, closed, votes, standing, crossed, mixed, result, pc, task, faults>>
  BY DEF pollVars, pollTables, pollHistory, handlers
<1>2. \A u : VotesOf(u)' = VotesOf(u)
  BY <1>1 DEF VotesOf
<1>3. PollTyped' /\ Stands' /\ ClosedIsFinal'
  BY <1>1, <1>2 DEF PollsInv, PollTyped, Stands, ClosedIsFinal
<1>4. \A q \in Procs : VoteFits(q)'
  BY <1>1, <1>2 DEF PollsInv, VoteFits
<1> QED BY <1>1, <1>3, <1>4 DEF PollsInv, Handling

LEMMA PollsRestartKeeps ==
    ASSUME PollsInv, PollsRestart
    PROVE  PollsInv'
<1>1. Restarts /\ UNCHANGED <<poll, closed, votes, standing, crossed, mixed, result>>
  BY DEF PollsRestart, pollTables, pollHistory
<1>2. /\ Handling' /\ faults' \in 0..MaxFaults
      /\ \A q \in Procs : pc'[q] = "idle" /\ task'[q] = NoTask
  BY <1>1, Stopped0, FaultsCounted DEF PollsInv
<1>3. \A u : VotesOf(u)' = VotesOf(u)
  BY <1>1 DEF VotesOf
<1>4. PollTyped' /\ Stands' /\ ClosedIsFinal'
  BY <1>1, <1>3 DEF PollsInv, PollTyped, Stands, ClosedIsFinal
<1> QED BY <1>2, <1>4 DEF PollsInv, VoteFits

LEMMA PollsStarts ==
    ASSUME HandlersInit, PollsInit
    PROVE  PollsInv
<1>1. Handling /\ faults \in 0..MaxFaults /\ \A p \in Procs : VoteFits(p)
  BY HandlersAssumption DEF HandlersInit, Handling, VoteFits
<1>2. PollTyped /\ Stands /\ ClosedIsFinal
  BY DEF PollsInit, PollTyped, Stands, ClosedIsFinal, VotesOf
<1> QED BY <1>1, <1>2 DEF PollsInv

LEMMA PollsKeep ==
    ASSUME PollsInv, PollsNext
    PROVE  PollsInv'
<1>1. ASSUME NEW p \in Procs, NEW n \in 1..MaxChoices, NEW opts \in [1..n -> Options],
             (\E u \in Users : CheckVote(p, u, opts)) \/ VoteRefused(p, opts)
      PROVE  PollsInv'
  BY <1>1, VoteChecked, PollStands DEF VoteRefused
<1>2. ASSUME NEW p \in Procs, VictimOfDeadlock(p) \/ VoteFails(p)
      PROVE  PollsInv'
  <2>1. Answer(p) /\ UNCHANGED <<pollTables, pollHistory>>
    BY <1>2 DEF VictimOfDeadlock, VoteFails, Fails
  <2>2. faults' \in 0..MaxFaults
    BY <1>2, FaultsCounted DEF VictimOfDeadlock, VoteFails, PollsInv
  <2> QED BY <2>1, <2>2, VoteAnswered
<1> QED BY <1>1, <1>2, PollMade, PollCloses, PollsRestartKeeps, VoteBegins, VotesDeleted,
           VoteInserted, VoteCommits DEF PollsNext

-----------------------------------------------------------------------------
(* Prekeys.  A key that was handed out is consumed, unless it was uploaded *)
(* again; a claim that has met no other of its key takes one that was not  *)
(* handed out, unless it was uploaded again; the rows are of the bundle,   *)
(* or leftovers.                                                           *)
Batch == [ids : SUBSET KeyIds, of : Batches]
Row == [n : 0..MaxBatches, used : BOOLEAN]
Given == [bundle : Batches, n : Batches, k : KeyIds, raced : BOOLEAN, stale : BOOLEAN]
Sending == [n : Batches, left : SUBSET KeyIds]

Unspent(n, k) == Handed(n, k) => <<n, k>> \in again

OfBundle(n, k, b) == batches[n].of = b \/ k \notin batches[b].ids \/ n \in late

RowFits(k) ==
    /\ opk[k] \in Row /\ opk[k].n <= Len(batches)
    /\ opk[k].n # 0 => bundle # 0 /\ OfBundle(opk[k].n, k, bundle)
    /\ opk[k].n # 0 /\ ~ opk[k].used => Unspent(opk[k].n, k)

FetchFits(p) ==
    /\ task[p] \in Fetching /\ task[p].bundle <= Len(batches)
    /\ ~ task[p].stale => task[p].bundle = bundle

TakeFits(p) ==
    /\ task[p].k \in KeyIds /\ opk[task[p].k].n # 0
    /\ ~ task[p].raced => Unspent(opk[task[p].k].n, task[p].k)

KeyRequestFits(p) ==
    \/ pc[p] = "idle" /\ task[p] = NoTask
    \/ pc[p] = "claim" /\ FetchFits(p)
    \/ pc[p] = "take" /\ FetchFits(p) /\ TakeFits(p)
    \/ /\ pc[p] = "prekeys" /\ task[p] \in Sending /\ task[p].n <= Len(batches)
       /\ bundle # 0
       /\ batches[task[p].n].of = bundle \/ task[p].n \in late

GivenFits(i) ==
    /\ given[i].n <= Len(batches) /\ given[i].bundle <= Len(batches)
    /\ given[i].stale \/ OfBundle(given[i].n, given[i].k, given[i].bundle)

KeysTyped ==
    /\ batches \in Seq(Batch) /\ Len(batches) <= MaxBatches /\ bundle \in 0..Len(batches)
    /\ opk \in [KeyIds -> Row] /\ given \in Seq(Given)
    /\ again \subseteq Batches \X KeyIds /\ late \subseteq Batches /\ retries \in 0..MaxRetries

PreKeysInv ==
    /\ Handling /\ faults \in 0..MaxFaults
    /\ KeysTyped
    /\ \A k \in KeyIds : RowFits(k)
    /\ \A i \in 1..Len(given) : GivenFits(i)
    /\ HandedOutOnce
    /\ \A p \in Procs : KeyRequestFits(p)

LEMMA PreKeysFollow ==
    ASSUME PreKeysInv
    PROVE  PreKeysTypeOK /\ HandedOutOnce /\ KeyFitsBundle
<1>1. PreKeysTypeOK
  <2>1. /\ batches \in Seq([ids : SUBSET KeyIds, of : Batches]) /\ Len(batches) <= MaxBatches
        /\ bundle \in 0..Len(batches)
        /\ opk \in [KeyIds -> [n : 0..MaxBatches, used : BOOLEAN]]
        /\ given \in Seq([bundle : Batches, n : Batches, k : KeyIds,
                          raced : BOOLEAN, stale : BOOLEAN])
        /\ again \subseteq Batches \X KeyIds /\ late \subseteq Batches /\ retries \in 0..MaxRetries
    BY DEF PreKeysInv, KeysTyped, Batch, Row, Given
  <2>2. \A p \in Procs :
          \/ pc[p] = "idle" /\ task[p] = NoTask
          \/ pc[p] \in {"claim", "take"} /\ task[p] \in Fetching
          \/ pc[p] = "prekeys" /\ task[p] \in [n : Batches, left : SUBSET KeyIds]
    BY DEF PreKeysInv, KeyRequestFits, FetchFits, Sending
  <2> QED BY <2>1, <2>2 DEF PreKeysTypeOK
<1>2. KeyFitsBundle
  BY Rows DEF PreKeysInv, KeysTyped, GivenFits, OfBundle, KeyFitsBundle
<1> QED BY <1>1, <1>2 DEF PreKeysInv

-----------------------------------------------------------------------------
BatchesGrow ==
    /\ batches' \in Seq(Batch) /\ Len(batches) <= Len(batches') /\ Len(batches') <= MaxBatches
    /\ \A n \in 1..Len(batches) : batches'[n] = batches[n]

LEMMA BatchesSame ==
    ASSUME PreKeysInv, batches' = batches
    PROVE  BatchesGrow
  BY Rows DEF PreKeysInv, KeysTyped, BatchesGrow

LEMMA BatchMade ==
    ASSUME PreKeysInv, NEW n \in Batches, NEW ids \in SUBSET KeyIds, NEW of \in Batches,
           Makes(n, ids, of)
    PROVE  /\ BatchesGrow /\ n <= Len(batches') /\ retries' \in 0..MaxRetries
           /\ batches'[n] = [ids |-> ids, of |-> of]
<1>0. PICK b : b = [ids |-> ids, of |-> of]
  OBVIOUS
<1>1. b \in Batch /\ batches \in Seq(Batch) /\ Len(batches) \in Nat /\ Len(batches) <= MaxBatches
      /\ retries \in 0..MaxRetries
  BY <1>0, Rows DEF Batch, PreKeysInv, KeysTyped
<1>2. CASE n = Len(batches) + 1 /\ n <= MaxBatches /\ batches' = Append(batches, b) /\ UNCHANGED retries
  <2>1. /\ batches' \in Seq(Batch) /\ Len(batches') = Len(batches) + 1
        /\ batches'[Len(batches) + 1] = b
        /\ \A m \in 1..Len(batches) : batches'[m] = batches[m]
    BY <1>1, <1>2, Appended
  <2> QED BY <1>0, <1>1, <1>2, <2>1 DEF BatchesGrow
<1>3. CASE /\ n = Len(batches) /\ batches[n] = b /\ retries < MaxRetries /\ retries' = retries + 1
           /\ UNCHANGED batches
  BY <1>0, <1>1, <1>3, BatchesSame, PreKeysAssumption
<1> QED BY <1>0, <1>2, <1>3 DEF Makes

\* A key that fits a bundle still does when batches are added.
LEMMA BundleOfStays ==
    ASSUME PreKeysInv, BatchesGrow, late \subseteq late',
           NEW n \in 1..Len(batches), NEW b \in 1..Len(batches), NEW k, OfBundle(n, k, b)
    PROVE  OfBundle(n, k, b)'
  BY DEF OfBundle, BatchesGrow

LEMMA GivenStays ==
    ASSUME PreKeysInv, BatchesGrow, late \subseteq late',
           NEW i \in 1..Len(given), given'[i] = given[i]
    PROVE  GivenFits(i)'
<1>1. Len(batches) \in Nat /\ Len(batches') \in Nat
  BY Rows DEF BatchesGrow, PreKeysInv, KeysTyped
<1>2. GivenFits(i) /\ given[i].n \in Nat \ {0} /\ given[i].bundle \in Nat \ {0}
  <2>1. given[i] \in Given
    BY Rows DEF PreKeysInv, KeysTyped
  <2> QED BY <2>1, PreKeysAssumption DEF Given, Batches, PreKeysInv
<1>3. given[i].n \in 1..Len(batches) /\ given[i].bundle \in 1..Len(batches)
  BY <1>1, <1>2 DEF GivenFits
<1>4. ~ given[i].stale => OfBundle(given[i].n, given[i].k, given[i].bundle)'
  <2>1. PICK n, b, k : n = given[i].n /\ b = given[i].bundle /\ k = given[i].k
    OBVIOUS
  <2>2. ~ given[i].stale => OfBundle(n, k, b)'
    BY <1>2, <1>3, <2>1, BundleOfStays DEF GivenFits
  <2> QED BY <2>1, <2>2 DEF OfBundle
<1> QED BY <1>1, <1>2, <1>3, <1>4 DEF GivenFits, BatchesGrow, OfBundle

LEMMA KeysStored ==
    ASSUME PreKeysInv, NEW n \in Batches, NEW ids \in SUBSET KeyIds,
           opk' = Stored(n, ids), Rewrites(n, ids), given' = given
    PROVE  /\ again' \subseteq Batches \X KeyIds /\ again \subseteq again'
           /\ opk' \in [KeyIds -> Row]
           /\ \A k \in ids : opk'[k] = [n |-> n, used |-> FALSE] /\ Unspent(n, k)'
           /\ \A k \in KeyIds \ ids : opk'[k] = opk[k]
           /\ \A m, k : Unspent(m, k) => Unspent(m, k)'
<1>1. again' \subseteq Batches \X KeyIds /\ again \subseteq again'
  BY DEF Rewrites, PreKeysInv, KeysTyped
<1>2. n \in 0..MaxBatches
  BY PreKeysAssumption DEF Batches
<1>3. [n |-> n, used |-> FALSE] \in Row
  BY <1>2 DEF Row
<1>4. /\ opk' \in [KeyIds -> Row]
      /\ \A k \in ids : opk'[k] = [n |-> n, used |-> FALSE]
      /\ \A k \in KeyIds \ ids : opk'[k] = opk[k]
  BY <1>3 DEF Stored, PreKeysInv, KeysTyped
<1>5. ASSUME NEW k \in ids PROVE Unspent(n, k)'
  BY DEF Unspent, Rewrites, Handed
<1>6. \A m, k : Unspent(m, k) => Unspent(m, k)'
  BY <1>1 DEF Unspent, Handed
<1> QED BY <1>1, <1>4, <1>5, <1>6

\* The key a claim has chosen is written again, or not.
LEMMA TakeStays ==
    ASSUME PreKeysInv, NEW n \in Batches, NEW ids \in SUBSET KeyIds,
           opk' = Stored(n, ids), Rewrites(n, ids), given' = given,
           NEW q \in Procs, TakeFits(q),
           task'[q].k = task[q].k, task'[q].raced = task[q].raced
    PROVE  TakeFits(q)'
<1>1. /\ \A k \in ids : opk'[k] = [n |-> n, used |-> FALSE] /\ Unspent(n, k)'
      /\ \A k \in KeyIds \ ids : opk'[k] = opk[k]
      /\ \A m, k : Unspent(m, k) => Unspent(m, k)'
  BY KeysStored
<1>2. PICK k \in KeyIds : k = task[q].k
  BY DEF TakeFits
<1>3. opk[k].n # 0 /\ (~ task[q].raced => Unspent(opk[k].n, k))
  BY <1>2 DEF TakeFits
<1>4. PICK m : m = opk'[k].n
  OBVIOUS
<1>5. CASE k \in ids
  <2>1. m = n /\ m # 0 /\ Unspent(m, k)'
    BY <1>1, <1>4, <1>5, PreKeysAssumption DEF Batches
  <2> QED BY <1>2, <1>4, <2>1 DEF TakeFits, Unspent, Handed
<1>6. CASE k \notin ids
  <2>1. m # 0 /\ (~ task[q].raced => Unspent(m, k)')
    BY <1>1, <1>3, <1>4, <1>6
  <2> QED BY <1>2, <1>4, <2>1 DEF TakeFits, Unspent, Handed
<1> QED BY <1>5, <1>6

LEMMA RowStays ==
    ASSUME PreKeysInv, BatchesGrow, late \subseteq late', bundle' = bundle, NEW k \in KeyIds,
           opk'[k] = opk[k], Unspent(opk[k].n, k) => Unspent(opk[k].n, k)'
    PROVE  RowFits(k)'
<1>1. PICK n : n = opk[k].n
  OBVIOUS
<1>2. /\ RowFits(k) /\ Len(batches) \in Nat /\ Len(batches') \in Nat /\ n \in Nat
      /\ bundle \in 0..Len(batches)
  <2>1. opk[k] \in Row /\ Len(batches) \in Nat /\ Len(batches') \in Nat
    BY Rows DEF PreKeysInv, KeysTyped, BatchesGrow
  <2> QED BY <1>1, <2>1, PreKeysAssumption DEF Row, PreKeysInv, KeysTyped
<1>3. n # 0 => OfBundle(n, k, bundle)'
  <2>1. SUFFICES ASSUME n # 0 PROVE OfBundle(n, k, bundle)'
    OBVIOUS
  <2>2. PICK b : b = bundle
    OBVIOUS
  <2>3. n \in 1..Len(batches) /\ b \in 1..Len(batches) /\ OfBundle(n, k, b)
    BY <1>1, <1>2, <2>1, <2>2 DEF RowFits
  <2>4. OfBundle(n, k, b)'
    BY <2>3, BundleOfStays
  <2> QED BY <2>2, <2>4 DEF OfBundle
<1>4. n # 0 /\ ~ opk[k].used => Unspent(n, k)'
  BY <1>1, <1>2 DEF RowFits, Unspent, Handed
<1> QED BY <1>1, <1>2, <1>3, <1>4 DEF RowFits, BatchesGrow, OfBundle, Unspent, Handed

LEMMA OnceStays ==
    ASSUME PreKeysInv, given' = given, again \subseteq again'
    PROVE  HandedOutOnce'
  BY DEF PreKeysInv, HandedOutOnce

LEMMA GivensStay ==
    ASSUME PreKeysInv, BatchesGrow, late \subseteq late', given' = given
    PROVE  \A i \in 1..Len(given') : GivenFits(i)'
  BY GivenStays

LEMMA BundleUploaded ==
    ASSUME PreKeysInv, NEW n \in Batches, NEW ids \in SUBSET KeyIds, UploadBundle(n, ids)
    PROVE  PreKeysInv'
<1>1. /\ Makes(n, ids, n) /\ bundle' = n /\ opk' = Stored(n, ids) /\ Rewrites(n, ids)
      /\ late' = late \cup {task[p].n : p \in Running({"prekeys"})}
      /\ task' = [p \in Procs |-> IF pc[p] \in {"claim", "take"}
                                  THEN [task[p] EXCEPT !.stale = TRUE] ELSE task[p]]
      /\ UNCHANGED <<given, pc, faults>>
  BY DEF UploadBundle, Works
<1>2. /\ BatchesGrow /\ n <= Len(batches') /\ retries' \in 0..MaxRetries
      /\ batches'[n] = [ids |-> ids, of |-> n]
  BY <1>1, BatchMade
<1>3. /\ again' \subseteq Batches \X KeyIds /\ again \subseteq again'
      /\ opk' \in [KeyIds -> Row]
      /\ \A k \in ids : opk'[k] = [n |-> n, used |-> FALSE] /\ Unspent(n, k)'
      /\ \A k \in KeyIds \ ids : opk'[k] = opk[k]
      /\ \A m, k : Unspent(m, k) => Unspent(m, k)'
  BY <1>1, KeysStored
<1>4. n \in Nat \ {0} /\ Len(batches) \in Nat /\ Len(batches') \in Nat
  BY <1>2, Rows, PreKeysAssumption DEF Batches, BatchesGrow, PreKeysInv, KeysTyped
<1>5. late \subseteq late' /\ late' \subseteq Batches
  <2>1. \A p \in Running({"prekeys"}) : task[p].n \in Batches
    BY DEF Running, PreKeysInv, KeyRequestFits, Sending
  <2> QED BY <1>1, <2>1 DEF PreKeysInv, KeysTyped
<1>6. KeysTyped'
  BY <1>1, <1>2, <1>3, <1>4, <1>5 DEF KeysTyped, BatchesGrow, PreKeysInv
<1>7. ASSUME NEW k \in KeyIds PROVE RowFits(k)'
  <2>1. CASE k \in ids
    <3>1. opk'[k] \in Row
      BY <1>3
    <3>2. opk'[k].n = n /\ ~ opk'[k].used /\ Unspent(n, k)'
      BY <1>3, <2>1
    <3>3. OfBundle(n, k, n)'
      BY <1>2 DEF OfBundle
    <3> QED BY <1>1, <1>2, <1>4, <3>1, <3>2, <3>3 DEF RowFits, OfBundle, Unspent, Handed
  <2>2. CASE k \notin ids
    <3>1. opk'[k] = opk[k] /\ RowFits(k) /\ opk[k] \in Row
      BY <1>3, <2>2 DEF PreKeysInv, RowFits
    <3>2. k \notin batches'[n].ids
      BY <1>2, <2>2
    <3>3. opk[k].n \in Nat /\ opk[k].n <= Len(batches')
      BY <1>2, <1>4, <3>1, PreKeysAssumption DEF Row, RowFits, BatchesGrow
    <3>4. opk[k].n # 0 /\ ~ opk[k].used => Unspent(opk[k].n, k)'
      BY <1>3, <3>1 DEF RowFits, Unspent, Handed
    <3> QED BY <1>1, <1>4, <3>1, <3>2, <3>3, <3>4 DEF RowFits, OfBundle, Unspent, Handed
  <2> QED BY <2>1, <2>2
<1>8. ASSUME NEW q \in Procs PROVE KeyRequestFits(q)'
  <2>1. CASE pc[q] = "idle" /\ task[q] = NoTask
    BY <1>1, <2>1 DEF KeyRequestFits
  <2>2. CASE pc[q] \in {"claim", "take"}
    <3>1. FetchFits(q) /\ (pc[q] = "take" => TakeFits(q))
      BY <2>2 DEF PreKeysInv, KeyRequestFits
    <3>2. /\ task'[q] \in Fetching /\ task'[q].stale /\ task'[q].bundle = task[q].bundle
          /\ task'[q].k = task[q].k /\ task'[q].raced = task[q].raced
      BY <1>1, <2>2, <3>1 DEF FetchFits, Fetching
    <3>3. task'[q].bundle <= Len(batches')
      <4>1. task[q].bundle \in Nat /\ task[q].bundle <= Len(batches)
        BY <3>1, PreKeysAssumption DEF FetchFits, Fetching, Batches
      <4> QED BY <1>2, <1>4, <3>2, <4>1 DEF BatchesGrow
    <3>4. FetchFits(q)'
      BY <3>2, <3>3 DEF FetchFits
    <3>5. ASSUME pc[q] = "take" PROVE TakeFits(q)'
      BY <1>1, <3>1, <3>2, <3>5, TakeStays
    <3> QED BY <1>1, <2>2, <3>4, <3>5 DEF KeyRequestFits
  <2>3. CASE pc[q] = "prekeys"
    <3>1. task[q] \in Sending /\ task[q].n <= Len(batches) /\ task'[q] = task[q]
      BY <1>1, <2>3 DEF PreKeysInv, KeyRequestFits
    <3>2. task[q].n \in late' /\ task[q].n <= Len(batches')
      <4>1. task[q].n \in Nat
        BY <3>1, PreKeysAssumption DEF Sending, Batches
      <4> QED BY <1>1, <1>2, <1>4, <2>3, <3>1, <4>1 DEF Running, BatchesGrow
    <3> QED BY <1>1, <1>4, <2>3, <3>1, <3>2 DEF KeyRequestFits
  <2> QED BY <2>1, <2>2, <2>3 DEF PreKeysInv, KeyRequestFits
<1>9. HandedOutOnce' /\ \A i \in 1..Len(given') : GivenFits(i)'
  BY <1>1, <1>2, <1>3, <1>5, OnceStays, GivensStay
<1>10. Handling'
  BY <1>1 DEF Handling, PreKeysInv
<1> QED BY <1>1, <1>6, <1>7, <1>8, <1>9, <1>10 DEF PreKeysInv

\* A step that leaves the bundle and q's place alone.
LEMMA KeyRequestStays ==
    ASSUME PreKeysInv, BatchesGrow, late \subseteq late', bundle' = bundle,
           NEW q \in Procs, pc'[q] = pc[q], task'[q] = task[q],
           pc[q] = "take" => TakeFits(q)'
    PROVE  KeyRequestFits(q)'
<1>1. Len(batches) \in Nat /\ Len(batches') \in Nat /\ Len(batches) <= Len(batches')
  BY Rows DEF PreKeysInv, KeysTyped, BatchesGrow
<1>2. CASE pc[q] \in {"claim", "take"}
  <2>1. FetchFits(q)
    BY <1>2 DEF PreKeysInv, KeyRequestFits
  <2>2. task[q].bundle \in Nat
    BY <2>1, PreKeysAssumption DEF FetchFits, Fetching, Batches
  <2>3. FetchFits(q)'
    BY <1>1, <2>1, <2>2 DEF FetchFits
  <2> QED BY <1>2, <2>3 DEF KeyRequestFits
<1>3. CASE pc[q] = "prekeys"
  <2>1. /\ task[q] \in Sending /\ task[q].n <= Len(batches) /\ bundle # 0
        /\ batches[task[q].n].of = bundle \/ task[q].n \in late
    BY <1>3 DEF PreKeysInv, KeyRequestFits
  <2>2. task[q].n \in 1..Len(batches)
    BY <1>1, <2>1, PreKeysAssumption DEF Sending, Batches
  <2>3. task[q].n <= Len(batches') /\ batches'[task[q].n] = batches[task[q].n]
    BY <1>1, <2>2 DEF BatchesGrow
  <2> QED BY <1>3, <2>1, <2>3 DEF KeyRequestFits
<1> QED BY <1>2, <1>3 DEF PreKeysInv, KeyRequestFits

\* Requests that hand out and store nothing.
LEMMA KeyMoves ==
    ASSUME PreKeysInv, NEW p \in Procs, NEW l, NEW t, At(p, l, t), faults' \in 0..MaxFaults,
           BatchesGrow, retries' \in 0..MaxRetries, UNCHANGED <<bundle, opk, given, again, late>>,
           KeyRequestFits(p)'
    PROVE  PreKeysInv'
<1>1. Handling' /\ Others(p)
  BY Moves DEF PreKeysInv
<1>2. \A m, k : Unspent(m, k)' = Unspent(m, k)
  BY DEF Unspent, Handed
<1>3. ASSUME NEW q \in Procs \ {p} PROVE KeyRequestFits(q)'
  <2>1. pc'[q] = pc[q] /\ task'[q] = task[q]
    BY <1>1 DEF Others
  <2>2. pc[q] = "take" => TakeFits(q)'
    BY <2>1 DEF PreKeysInv, KeyRequestFits, TakeFits, Unspent, Handed
  <2> QED BY <2>1, <2>2, KeyRequestStays
<1>4. \A k \in KeyIds : RowFits(k)'
  BY <1>2, RowStays
<1>5. HandedOutOnce' /\ \A i \in 1..Len(given') : GivenFits(i)'
  BY OnceStays, GivensStay
<1>6. KeysTyped'
  <2>1. bundle \in Nat /\ Len(batches) \in Nat /\ Len(batches') \in Nat /\ bundle <= Len(batches)
    BY Rows DEF PreKeysInv, KeysTyped, BatchesGrow
  <2> QED BY <2>1 DEF KeysTyped, BatchesGrow, PreKeysInv
<1> QED BY <1>1, <1>3, <1>4, <1>5, <1>6 DEF PreKeysInv

LEMMA KeyAnswered ==
    ASSUME PreKeysInv, NEW p \in Procs, Answer(p), faults' \in 0..MaxFaults,
           UNCHANGED <<keyTables, keyHistory>>
    PROVE  PreKeysInv'
<1>1. At(p, "idle", NoTask) /\ KeyRequestFits(p)'
  BY Answered DEF PreKeysInv, Answer, KeyRequestFits
<1>2. BatchesGrow /\ retries' \in 0..MaxRetries /\ UNCHANGED <<bundle, opk, given, again, late>>
  BY BatchesSame DEF keyTables, keyHistory, PreKeysInv, KeysTyped
<1> QED BY <1>1, <1>2, KeyMoves

LEMMA PrekeysSent ==
    ASSUME PreKeysInv, NEW p \in Procs, NEW n \in Batches, NEW ids \in SUBSET KeyIds,
           SendPrekeys(p, n, ids)
    PROVE  PreKeysInv'
<1>0. PICK t : t = [n |-> n, left |-> ids]
  OBVIOUS
<1>1. /\ bundle # 0 /\ Makes(n, ids, bundle) /\ At(p, "prekeys", t)
      /\ UNCHANGED <<bundle, opk, given, again, late, faults>>
  BY <1>0 DEF SendPrekeys, Works
<1>2. bundle \in Batches
  <2>1. Len(batches) \in Nat /\ Len(batches) <= MaxBatches /\ bundle \in 0..Len(batches)
    BY Rows DEF PreKeysInv, KeysTyped
  <2> QED BY <1>1, <2>1, PreKeysAssumption DEF Batches
<1>3. /\ BatchesGrow /\ n <= Len(batches') /\ retries' \in 0..MaxRetries
      /\ batches'[n] = [ids |-> ids, of |-> bundle]
  BY <1>1, <1>2, BatchMade
<1>4. pc'[p] = "prekeys" /\ task'[p] = t
  BY <1>1, Moves DEF PreKeysInv
<1>5. KeyRequestFits(p)'
  <2>1. t \in Sending /\ t.n = n
    BY <1>0 DEF Sending
  <2> QED BY <1>1, <1>3, <1>4, <2>1 DEF KeyRequestFits
<1> QED BY <1>1, <1>3, <1>5, KeyMoves DEF PreKeysInv

LEMMA BundleFetched ==
    ASSUME PreKeysInv, NEW p \in Procs, Fetch(p)
    PROVE  PreKeysInv'
<1>0. PICK t : t = [bundle |-> bundle, k |-> 0, raced |-> FALSE, stale |-> FALSE]
  OBVIOUS
<1>1. /\ bundle # 0 /\ At(p, "claim", t) /\ UNCHANGED <<keyTables, keyHistory, faults>>
  BY <1>0 DEF Fetch, Works
<1>2. /\ bundle \in Batches /\ bundle <= Len(batches) /\ BatchesGrow /\ retries' \in 0..MaxRetries
      /\ UNCHANGED <<batches, bundle, opk, given, again, late>>
  <2>1. Len(batches) \in Nat /\ Len(batches) <= MaxBatches /\ bundle \in 0..Len(batches)
    BY Rows DEF PreKeysInv, KeysTyped
  <2> QED BY <1>1, <2>1, BatchesSame, PreKeysAssumption
          DEF Batches, keyTables, keyHistory, PreKeysInv, KeysTyped
<1>3. pc'[p] = "claim" /\ task'[p] = t
  BY <1>1, Moves DEF PreKeysInv
<1>4. KeyRequestFits(p)'
  <2>1. t \in Fetching /\ t.bundle = bundle
    BY <1>0, <1>2 DEF Fetching
  <2> QED BY <1>2, <1>3, <2>1 DEF KeyRequestFits, FetchFits
<1> QED BY <1>1, <1>2, <1>4, KeyMoves DEF PreKeysInv

LEMMA KeyChosen ==
    ASSUME PreKeysInv, NEW p \in Procs, Choose(p)
    PROVE  PreKeysInv'
<1>1. CASE Free = {}
  <2>1. Answer(p) /\ UNCHANGED <<keyTables, keyHistory, faults>>
    BY <1>1 DEF Choose, Works
  <2> QED BY <2>1, KeyAnswered DEF PreKeysInv
<1>2. CASE Free # {}
  <2>0. PICK k, t : k = Min(Free) /\ t = [task[p] EXCEPT !.k = k]
    OBVIOUS
  <2>1. /\ pc[p] = "claim" /\ At(p, "take", t) /\ UNCHANGED <<keyTables, keyHistory, faults>>
    BY <1>2, <2>0 DEF Choose, Works
  <2>2. k \in KeyIds /\ opk[k].n # 0 /\ ~ opk[k].used
    <3>1. Free \subseteq KeyIds
      BY DEF Free
    <3>2. IsFiniteSet(Free)
      BY <3>1, FS_Subset, PreKeysAssumption
    <3>3. \A x \in Free : x \in Int
      BY <3>1, PreKeysAssumption
    <3>4. k \in Free
      BY <1>2, <2>0, <3>2, <3>3, Smallest
    <3> QED BY <3>4 DEF Free
  <2>3. Unspent(opk[k].n, k)
    BY <2>2 DEF PreKeysInv, RowFits
  <2>4. FetchFits(p)
    BY <2>1 DEF PreKeysInv, KeyRequestFits
  <2>5. t \in Fetching /\ t.k = k /\ t.bundle = task[p].bundle /\ t.stale = task[p].stale
    BY <2>0, <2>2, <2>4 DEF FetchFits, Fetching
  <2>6. pc'[p] = "take" /\ task'[p] = t
    BY <2>1, Moves DEF PreKeysInv
  <2>7. /\ BatchesGrow /\ retries' \in 0..MaxRetries
        /\ UNCHANGED <<batches, bundle, opk, given, again, late>>
    BY <2>1, BatchesSame DEF keyTables, keyHistory, PreKeysInv, KeysTyped
  <2>8. FetchFits(p)'
    BY <2>4, <2>5, <2>6, <2>7 DEF FetchFits
  <2>9. TakeFits(p)'
    BY <2>2, <2>3, <2>5, <2>6, <2>7 DEF TakeFits, Unspent, Handed
  <2>10. KeyRequestFits(p)'
    BY <2>6, <2>8, <2>9 DEF KeyRequestFits
  <2> QED BY <2>1, <2>7, <2>10, KeyMoves DEF PreKeysInv
<1> QED BY <1>1, <1>2

LEMMA PrekeyStored ==
    ASSUME PreKeysInv, NEW p \in Procs, StorePrekey(p)
    PROVE  PreKeysInv'
<1>0. PICK n, k, t : /\ n = task[p].n /\ k = Min(task[p].left)
                     /\ t = [task[p] EXCEPT !.left = @ \ {k}]
  OBVIOUS
<1>1. /\ pc[p] = "prekeys" /\ task[p].left # {} /\ opk' = Stored(n, {k}) /\ Rewrites(n, {k})
      /\ At(p, "prekeys", t) /\ UNCHANGED <<batches, bundle, given, late, retries, faults>>
  BY <1>0 DEF StorePrekey, Works
<1>2. /\ task[p] \in Sending /\ n \in Batches /\ n <= Len(batches) /\ bundle # 0
      /\ batches[n].of = bundle \/ n \in late
  BY <1>0, <1>1 DEF PreKeysInv, KeyRequestFits, Sending
<1>3. k \in KeyIds
  <2>1. PICK S : S = task[p].left
    OBVIOUS
  <2>2. S \subseteq KeyIds /\ S # {}
    BY <1>1, <1>2, <2>1 DEF Sending
  <2>3. IsFiniteSet(S)
    BY <2>2, FS_Subset, PreKeysAssumption
  <2>4. \A x \in S : x \in Int
    BY <2>2, PreKeysAssumption
  <2>5. k \in S
    BY <1>0, <2>1, <2>2, <2>3, <2>4, Smallest
  <2> QED BY <2>2, <2>5
<1>4. t \in Sending /\ t.n = n
  BY <1>0, <1>2 DEF Sending
<1>5. Handling' /\ pc'[p] = "prekeys" /\ task'[p] = t /\ Others(p)
  BY <1>1, Moves DEF PreKeysInv
<1>6. BatchesGrow /\ n \in Nat \ {0} /\ Len(batches) \in Nat
  BY <1>1, <1>2, BatchesSame, Rows, PreKeysAssumption DEF Batches, PreKeysInv, KeysTyped
<1>7. /\ again' \subseteq Batches \X KeyIds /\ again \subseteq again'
      /\ opk' \in [KeyIds -> Row]
      /\ opk'[k] = [n |-> n, used |-> FALSE] /\ Unspent(n, k)'
      /\ \A j \in KeyIds \ {k} : opk'[j] = opk[j]
      /\ \A m, j : Unspent(m, j) => Unspent(m, j)'
  BY <1>1, <1>2, <1>3, KeysStored
<1>8. KeysTyped'
  BY <1>1, <1>7 DEF KeysTyped, PreKeysInv
<1>9. RowFits(k)'
  <2>1. OfBundle(n, k, bundle)'
    BY <1>1, <1>2 DEF OfBundle
  <2>2. opk'[k] \in Row
    BY <1>3, <1>7
  <2>3. opk'[k].n = n /\ ~ opk'[k].used
    BY <1>7
  <2> QED BY <1>1, <1>2, <1>7, <2>1, <2>2, <2>3 DEF RowFits, OfBundle, Unspent, Handed
<1>10. \A j \in KeyIds \ {k} : RowFits(j)'
  BY <1>1, <1>6, <1>7, RowStays
<1>11. ASSUME NEW q \in Procs \ {p} PROVE KeyRequestFits(q)'
  <2>1. pc'[q] = pc[q] /\ task'[q] = task[q]
    BY <1>5 DEF Others
  <2>2. pc[q] = "take" => TakeFits(q)
    BY DEF PreKeysInv, KeyRequestFits
  <2>3. pc[q] = "take" => TakeFits(q)'
    BY <1>1, <1>2, <1>3, <2>1, <2>2, TakeStays
  <2> QED BY <1>1, <1>6, <2>1, <2>3, KeyRequestStays
<1>12. KeyRequestFits(p)'
  BY <1>1, <1>2, <1>4, <1>5 DEF KeyRequestFits
<1>13. HandedOutOnce' /\ \A i \in 1..Len(given') : GivenFits(i)'
  BY <1>1, <1>6, <1>7, OnceStays, GivensStay
<1> QED BY <1>1, <1>5, <1>8, <1>9, <1>10, <1>11, <1>12, <1>13 DEF PreKeysInv

\* What is handed out fits the bundle it is handed out with; it was handed out
\* before only where the claim met another one or the key was uploaded again.
LEMMA KeyTaken ==
    ASSUME PreKeysInv, NEW p \in Procs, Take(p)
    PROVE  PreKeysInv'
<1>0. PICK t, k, n, g : /\ t = task[p] /\ k = t.k /\ n = opk[k].n
                        /\ g = [bundle |-> t.bundle, n |-> n, k |-> k,
                                raced |-> t.raced, stale |-> t.stale]
  OBVIOUS
<1>1. /\ pc[p] = "take" /\ opk' = [opk EXCEPT ![k].used = TRUE] /\ given' = Append(given, g)
      /\ pc' = [pc EXCEPT ![p] = "idle"]
      /\ task' = [q \in Procs |-> IF q = p THEN NoTask ELSE
                                  IF pc[q] = "take" /\ task[q].k = k
                                  THEN [task[q] EXCEPT !.raced = TRUE] ELSE task[q]]
      /\ UNCHANGED <<batches, bundle, again, late, retries, faults>>
  BY <1>0 DEF Take, Works
<1>2. FetchFits(p) /\ TakeFits(p)
  BY <1>1 DEF PreKeysInv, KeyRequestFits
<1>3. /\ k \in KeyIds /\ n # 0 /\ (~ t.raced => Unspent(n, k))
      /\ t \in Fetching /\ t.bundle <= Len(batches) /\ (~ t.stale => t.bundle = bundle)
  BY <1>0, <1>2 DEF FetchFits, TakeFits
<1>4. RowFits(k) /\ opk[k] \in Row /\ opk \in [KeyIds -> Row]
  BY <1>3 DEF PreKeysInv, KeysTyped
<1>5. n \in Batches /\ n <= Len(batches) /\ Len(batches) \in Nat
  BY <1>0, <1>3, <1>4, Rows, PreKeysAssumption DEF Batches, Row, RowFits, PreKeysInv, KeysTyped
<1>6. g \in Given
  BY <1>0, <1>3, <1>5 DEF Given, Fetching
<1>7. /\ given' \in Seq(Given) /\ Len(given) \in Nat /\ Len(given') = Len(given) + 1
      /\ given'[Len(given) + 1] = g
      /\ \A i \in 1..Len(given) : given'[i] = given[i]
  BY <1>1, <1>6, Rows, Appended DEF PreKeysInv, KeysTyped
<1>8. /\ opk' \in [KeyIds -> Row] /\ opk'[k].n = n /\ opk'[k].used
      /\ \A j \in KeyIds \ {k} : opk'[j] = opk[j]
  BY <1>0, <1>1, <1>3, <1>4 DEF Row
<1>9. \A m, j : j # k /\ Unspent(m, j) => Unspent(m, j)'
  <2>1. SUFFICES ASSUME NEW m, NEW j, j # k, Unspent(m, j), Handed(m, j)'
                 PROVE  <<m, j>> \in again
    BY <1>1 DEF Unspent
  <2>2. PICK i \in DOMAIN given' : given'[i].n = m /\ given'[i].k = j
    BY <2>1 DEF Handed
  <2>3. DOMAIN given' = 1..Len(given') /\ DOMAIN given = 1..Len(given) /\ g.k = k
    BY <1>0, <1>7, Rows DEF PreKeysInv, KeysTyped
  <2>4. i \in 1..Len(given) /\ given'[i] = given[i]
    BY <1>7, <2>1, <2>2, <2>3
  <2> QED BY <2>1, <2>2, <2>3, <2>4 DEF Unspent, Handed
<1>10. BatchesGrow /\ late \subseteq late' /\ bundle' = bundle
  BY <1>1, BatchesSame
<1>11. KeysTyped'
  BY <1>1, <1>7, <1>8 DEF KeysTyped, PreKeysInv
<1>12. \A j \in KeyIds : RowFits(j)'
  <2>1. ASSUME NEW j \in KeyIds, j # k PROVE RowFits(j)'
    BY <1>8, <1>9, <1>10, <2>1, RowStays
  <2>2. RowFits(k)'
    <3>1. n <= Len(batches) /\ bundle # 0 /\ OfBundle(n, k, bundle)
      BY <1>0, <1>3, <1>4 DEF RowFits
    <3>2. opk'[k] \in Row
      BY <1>3, <1>8
    <3> QED BY <1>1, <1>8, <3>1, <3>2 DEF RowFits, OfBundle
  <2> QED BY <2>1, <2>2
<1>13. \A i \in 1..Len(given') : GivenFits(i)'
  <2>1. ASSUME NEW i \in 1..Len(given) PROVE GivenFits(i)'
    BY <1>7, <1>10, GivenStays
  <2>2. PICK j : j = Len(given) + 1
    OBVIOUS
  <2>3. /\ given'[j].n = n /\ given'[j].bundle = t.bundle /\ given'[j].k = k
        /\ given'[j].stale = t.stale
    BY <1>0, <1>7, <2>2
  <2>4. t.stale \/ OfBundle(n, k, t.bundle)
    BY <1>0, <1>3, <1>4 DEF RowFits
  <2>5. GivenFits(j)'
    BY <1>1, <1>3, <1>5, <2>3, <2>4 DEF GivenFits, OfBundle
  <2> QED BY <1>7, <2>1, <2>2, <2>5
<1>14. HandedOutOnce'
  <2>1. DOMAIN given' = 1..Len(given') /\ DOMAIN given = 1..Len(given)
    BY <1>7, Rows DEF PreKeysInv, KeysTyped
  <2>2. SUFFICES ASSUME NEW i \in 1..Len(given'), NEW j \in 1..Len(given'), i < j,
                        given'[i].n = given'[j].n, given'[i].k = given'[j].k
                 PROVE  given'[j].raced \/ <<given'[j].n, given'[j].k>> \in again
    BY <1>1, <2>1 DEF HandedOutOnce
  <2>3. i \in 1..Len(given) /\ given'[i] = given[i]
    BY <1>7, <2>2
  <2>4. CASE j \in 1..Len(given)
    BY <1>7, <2>1, <2>2, <2>3, <2>4 DEF PreKeysInv, HandedOutOnce
  <2>5. CASE j = Len(given) + 1
    <3>1. given'[j].n = n /\ given'[j].k = k /\ given'[j].raced = t.raced
      BY <1>0, <1>7, <2>5
    <3>2. Handed(n, k)
      BY <2>1, <2>2, <2>3, <3>1 DEF Handed
    <3> QED BY <1>3, <3>1, <3>2 DEF Unspent
  <2> QED BY <1>7, <2>2, <2>4, <2>5
<1>15. Handling' /\ KeyRequestFits(p)'
  BY <1>1 DEF Handling, PreKeysInv, KeyRequestFits
<1>16. ASSUME NEW q \in Procs \ {p} PROVE KeyRequestFits(q)'
  <2>1. pc'[q] = pc[q]
    BY <1>1 DEF PreKeysInv, Handling
  <2>2. CASE pc[q] = "take" /\ task[q].k = k
    <3>1. FetchFits(q)
      BY <2>2 DEF PreKeysInv, KeyRequestFits
    <3>2. task'[q] = [task[q] EXCEPT !.raced = TRUE]
      BY <1>1, <2>2
    <3>3. /\ task'[q] \in Fetching /\ task'[q].raced /\ task'[q].k = k
          /\ task'[q].bundle = task[q].bundle /\ task'[q].stale = task[q].stale
      BY <2>2, <3>1, <3>2 DEF FetchFits, Fetching
    <3>4. FetchFits(q)' /\ TakeFits(q)'
      BY <1>1, <1>3, <1>8, <3>1, <3>3 DEF FetchFits, TakeFits
    <3> QED BY <2>1, <2>2, <3>4 DEF KeyRequestFits
  <2>3. CASE ~ (pc[q] = "take" /\ task[q].k = k)
    <3>1. task'[q] = task[q]
      BY <1>1, <2>3
    <3>2. ASSUME pc[q] = "take" PROVE TakeFits(q)'
      <4>1. TakeFits(q)
        BY <3>2 DEF PreKeysInv, KeyRequestFits
      <4>2. PICK j \in KeyIds : j = task[q].k /\ j # k
        BY <2>3, <3>2, <4>1 DEF TakeFits
      <4>3. opk'[j] = opk[j]
        BY <1>8, <4>2
      <4>4. PICK m : m = opk[j].n
        OBVIOUS
      <4>5. m # 0 /\ (~ task[q].raced => Unspent(m, j)')
        BY <1>9, <4>1, <4>2, <4>4 DEF TakeFits
      <4> QED BY <3>1, <4>2, <4>3, <4>4, <4>5 DEF TakeFits, Unspent, Handed
    <3> QED BY <1>10, <2>1, <3>1, <3>2, KeyRequestStays
  <2> QED BY <2>2, <2>3
<1> QED BY <1>1, <1>11, <1>12, <1>13, <1>14, <1>15, <1>16 DEF PreKeysInv

LEMMA PreKeysStart ==
    ASSUME HandlersInit, PreKeysInit
    PROVE  PreKeysInv
<1>1. Handling /\ faults \in 0..MaxFaults
  BY HandlersAssumption DEF HandlersInit, Handling
<1>2. KeysTyped
  <2>1. NoKey \in Row
    BY PreKeysAssumption DEF NoKey, Row
  <2> QED BY <2>1, PreKeysAssumption DEF PreKeysInit, KeysTyped
<1>3. \A k \in KeyIds : RowFits(k)
  BY PreKeysAssumption DEF PreKeysInit, RowFits, NoKey, Row
<1>4. HandedOutOnce /\ \A i \in 1..Len(given) : GivenFits(i)
  BY DEF PreKeysInit, HandedOutOnce
<1>5. \A p \in Procs : KeyRequestFits(p)
  BY DEF HandlersInit, KeyRequestFits
<1> QED BY <1>1, <1>2, <1>3, <1>4, <1>5 DEF PreKeysInv

LEMMA PreKeysKeep ==
    ASSUME PreKeysInv, PreKeysNext
    PROVE  PreKeysInv'
<1>1. ASSUME NEW p \in Procs, StorePrekey(p) \/ Take(p) \/ Fetch(p) \/ Choose(p)
      PROVE  PreKeysInv'
  BY <1>1, PrekeyStored, KeyTaken, BundleFetched, KeyChosen
<1>2. ASSUME NEW p \in Procs, CountPrekeys(p) PROVE PreKeysInv'
  BY <1>2, KeyAnswered DEF CountPrekeys, Works, PreKeysInv
<1>3. ASSUME NEW p \in Procs, KeyRequestFails(p) PROVE PreKeysInv'
  BY <1>3, KeyAnswered, FaultsCounted DEF KeyRequestFails, Fails, PreKeysInv
<1>4. ASSUME UNCHANGED keyVars PROVE PreKeysInv'
  BY <1>4 DEF keyVars, keyTables, keyHistory, handlers, PreKeysInv, Handling, KeysTyped,
              RowFits, OfBundle, Unspent, Handed, GivenFits, HandedOutOnce, KeyRequestFits,
              FetchFits, TakeFits
<1>5. CASE PreKeysRestart
  <2>1. /\ UNCHANGED <<batches, bundle, opk, given, again, late, retries>>
        /\ Handling' /\ faults' \in 0..MaxFaults
        /\ \A p \in Procs : pc'[p] = "idle" /\ task'[p] = NoTask
    BY <1>5, Stopped0, FaultsCounted DEF PreKeysRestart, keyTables, keyHistory, PreKeysInv
  <2>2. \A p \in Procs : KeyRequestFits(p)'
    BY <2>1 DEF KeyRequestFits
  <2>3. /\ KeysTyped' /\ \A k \in KeyIds : RowFits(k)'
        /\ \A i \in 1..Len(given') : GivenFits(i)'
        /\ HandedOutOnce'
    BY <2>1 DEF PreKeysInv, KeysTyped, RowFits, OfBundle, Unspent, Handed, GivenFits, HandedOutOnce
  <2> QED BY <2>1, <2>2, <2>3 DEF PreKeysInv
<1> QED BY <1>1, <1>2, <1>3, <1>4, <1>5, BundleUploaded, PrekeysSent DEF PreKeysNext, Status

-----------------------------------------------------------------------------
(* Media.  A complete that nothing interfered with is the only one there   *)
(* is, and the file holds what it has copied, if it is still there; an     *)
(* object is of the one request that saved it until its row is written,    *)
(* and who removes a row has deleted its object.                           *)
Creating == {"clear", "forget", "insert"}
Dropping == {"drop", "unrow"}

Copied(p) ==
    \/ final = NoFile
    \/ \A j \in Chunks : \/ final[j] = "whole"
                         \/ pc[p] = "chunk" /\ j >= task[p].i
                         \/ pc[p] = "unlink" /\ j > task[p].i

Sound(n) == object[n] = "whole" \/ n \in doubt

Owns(p) ==
    /\ task[p].n \in 1..Len(object) /\ task[p].n \notin rows /\ Sound(task[p].n)
    /\ \A q \in Procs \ {p} : pc[q] \in Creating \cup Dropping => task[q].n # task[p].n

JobFits(p) ==
    \/ pc[p] = "idle" /\ task[p] = NoTask
    \/ pc[p] \in {"put", "writing"} /\ task[p] \in Job
    \/ pc[p] = "open" /\ task[p] = NewJob
    \/ /\ pc[p] \in {"chunk", "unlink", "save"} /\ task[p] \in Job
       /\ task[p].met \/ (Assembling \subseteq {p} /\ Copied(p))
    \/ pc[p] \in Creating /\ task[p] \in Job /\ Owns(p)
    \/ pc[p] = "drop" /\ task[p] \in Job /\ task[p].n \in 1..Len(object)
    \/ /\ pc[p] = "unrow" /\ task[p] \in Job /\ task[p].n \in 1..Len(object)
       /\ object[task[p].n] = "deleted"

Saving == {"open", "chunk", "unlink", "save"}

StoresTyped ==
    /\ session \in {"none", "open", "gone"}
    /\ chunk \in [Chunks -> Contents] /\ final \in [Chunks -> Contents] \cup {NoFile}
    /\ object \in Seq({"whole", "partial", "deleted"})
    /\ rows \subseteq 1..Len(object) /\ doubt \subseteq 1..Len(object)
    /\ broken \subseteq 1..Len(object)

MediaInv ==
    /\ Handling /\ faults \in 0..MaxFaults
    /\ StoresTyped
    /\ Len(object) + Cardinality(Running(Saving)) <= MaxObjects
    /\ ReadyIsWhole
    /\ \A p \in Procs : JobFits(p)

LEMMA SavingIs == Running(Saving) = Assembling \cup Running({"open"})
  BY DEF Saving, Running, Assembling

LEMMA MediaFollow ==
    ASSUME MediaInv
    PROVE  MediaTypeOK /\ ReadyIsWhole
<1>1. Len(object) <= MaxObjects /\ DOMAIN object = 1..Len(object)
  <2>1. Len(object) \in Nat /\ DOMAIN object = 1..Len(object)
    BY Rows DEF MediaInv, StoresTyped
  <2> QED BY <2>1, RunningFinite, MediaAssumption DEF MediaInv
<1>2. NewJob \in Job
  BY MediaAssumption DEF NewJob, Job, Chunks
<1>3. ASSUME NEW p \in Procs
      PROVE  \/ pc[p] = "idle" /\ task[p] = NoTask
             \/ /\ pc[p] \in {"put", "writing", "open", "chunk", "unlink", "save", "clear",
                              "forget", "insert", "drop", "unrow"}
                /\ task[p] \in Job
  BY <1>2 DEF MediaInv, JobFits, Creating
<1> QED BY <1>1, <1>3 DEF MediaTypeOK, MediaInv, StoresTyped

-----------------------------------------------------------------------------
\* Objects are added, and deleted by whoever is at it.
ObjectsStay(p) ==
    /\ object' \in Seq({"whole", "partial", "deleted"})
    /\ Len(object) <= Len(object') /\ doubt \subseteq doubt'
    /\ \A n \in 1..Len(object) :
          \/ object'[n] = object[n]
          \/ object'[n] = "deleted" /\ pc[p] \in Dropping /\ n = task[p].n

LEMMA ObjectsSame ==
    ASSUME MediaInv, UNCHANGED <<object, doubt>>, NEW p
    PROVE  ObjectsStay(p)
  BY Rows DEF MediaInv, StoresTyped, ObjectsStay

\* The others' jobs, when p moves on.
LEMMA JobStays ==
    ASSUME MediaInv, NEW p \in Procs, NEW l, NEW t, At(p, l, t), ObjectsStay(p),
           l \in {"chunk", "unlink", "save"} => pc[p] \in {"chunk", "unlink", "save"},
           final' = final \/ final' = NoFile \/ pc[p] \in {"chunk", "unlink", "save"},
           \A n \in rows' \ rows : pc[p] \in Creating /\ n = task[p].n,
           l \in Creating \cup Dropping =>
              \/ pc[p] \in Creating \cup Dropping /\ t.n = task[p].n
              \/ t.n \in rows \/ t.n \notin 1..Len(object),
           NEW q \in Procs \ {p}
    PROVE  JobFits(q)'
<1>1. /\ pc'[p] = l /\ task'[p] = t /\ pc'[q] = pc[q] /\ task'[q] = task[q]
      /\ \A r \in Procs \ {p} : pc'[r] = pc[r] /\ task'[r] = task[r]
  BY Moves DEF MediaInv, Others
<1>2. /\ JobFits(q) /\ Len(object) \in Nat /\ Len(object') \in Nat /\ Len(object) <= Len(object')
      /\ \A n \in 1..Len(object) : n \in 1..Len(object')
  BY Rows DEF MediaInv, StoresTyped, ObjectsStay
<1>3. CASE pc[q] \in {"chunk", "unlink", "save"}
  <2>1. task[q] \in Job /\ (task[q].met \/ (Assembling \subseteq {q} /\ Copied(q)))
    BY <1>2, <1>3 DEF JobFits, Creating
  <2>2. ASSUME ~ task[q].met PROVE Assembling' \subseteq {q} /\ Copied(q)'
    <3>1. Assembling \subseteq {q} /\ Copied(q)
      BY <2>1, <2>2
    <3>2. pc[p] \notin {"chunk", "unlink", "save"}
      BY <3>1 DEF Assembling, Running
    <3>3. Assembling' \subseteq {q}
      BY <1>1, <3>1, <3>2 DEF Assembling, Running
    <3>4. Copied(q)'
      BY <1>1, <3>1, <3>2 DEF Copied
    <3> QED BY <3>3, <3>4
  <2>3. pc'[q] \in {"chunk", "unlink", "save"} /\ task'[q] \in Job
    BY <1>1, <1>3, <2>1
  <2> QED BY <1>1, <2>2, <2>3 DEF JobFits
<1>4. CASE pc[q] \in Creating
  <2>1. task[q] \in Job /\ Owns(q)
    BY <1>2, <1>4 DEF JobFits, Creating
  <2>2. PICK n : n = task[q].n
    OBVIOUS
  <2>3. /\ n \in 1..Len(object) /\ n \notin rows /\ Sound(n)
        /\ \A r \in Procs \ {q} : pc[r] \in Creating \cup Dropping => task[r].n # n
    BY <2>1, <2>2 DEF Owns
  <2>4. n \in 1..Len(object') /\ n \notin rows'
    BY <1>2, <2>3
  <2>5. Sound(n)'
    BY <2>3 DEF Sound, ObjectsStay
  <2>6. ASSUME NEW r \in Procs \ {q}, pc'[r] \in Creating \cup Dropping PROVE task'[r].n # n
    BY <1>1, <2>3, <2>6
  <2>7. Owns(q)'
    BY <1>1, <2>2, <2>4, <2>5, <2>6 DEF Owns, Sound
  <2> QED BY <1>1, <1>4, <2>1, <2>7 DEF JobFits
<1>5. CASE pc[q] \in Dropping
  <2>1. /\ task[q] \in Job /\ task[q].n \in 1..Len(object)
        /\ pc[q] = "unrow" => object[task[q].n] = "deleted"
    BY <1>2, <1>5 DEF JobFits, Dropping, Creating
  <2>2. PICK n : n = task[q].n
    OBVIOUS
  <2>3. /\ n \in 1..Len(object')
        /\ pc[q] = "unrow" => object'[n] = "deleted"
    BY <1>2, <2>1, <2>2 DEF ObjectsStay
  <2> QED BY <1>1, <1>5, <2>1, <2>2, <2>3 DEF JobFits, Dropping
<1>6. CASE pc[q] \in {"idle", "put", "writing", "open"}
  BY <1>1, <1>2, <1>6 DEF JobFits, Creating
<1> QED BY <1>2, <1>3, <1>4, <1>5, <1>6 DEF JobFits, Dropping

LEMMA MediaMoves ==
    ASSUME MediaInv, NEW p \in Procs, NEW l, NEW t, At(p, l, t), ObjectsStay(p),
           l \in {"chunk", "unlink", "save"} => pc[p] \in {"chunk", "unlink", "save"},
           final' = final \/ final' = NoFile \/ pc[p] \in {"chunk", "unlink", "save"},
           \A n \in rows' \ rows : pc[p] \in Creating /\ n = task[p].n,
           l \in Creating \cup Dropping =>
              \/ pc[p] \in Creating \cup Dropping /\ t.n = task[p].n
              \/ t.n \in rows \/ t.n \notin 1..Len(object),
           faults' \in 0..MaxFaults, StoresTyped', JobFits(p)', ReadyIsWhole',
           Len(object') + Cardinality(Running(Saving)') <= MaxObjects
    PROVE  MediaInv'
<1>1. Handling'
  BY Moves DEF MediaInv
<1>2. \A q \in Procs \ {p} : JobFits(q)'
  BY JobStays
<1> QED BY <1>1, <1>2 DEF MediaInv

\* No object and no row changes.
LEMMA ReadyStays ==
    ASSUME MediaInv, NEW p \in Procs, NEW l, NEW t, At(p, l, t), UNCHANGED <<object, rows, doubt>>,
           broken \subseteq broken',
           \A n \in Unsettled(p) : \/ n \in broken'
                                   \/ l \in {"clear", "forget", "insert", "unrow"} /\ n = t.n
    PROVE  ReadyIsWhole'
<1>1. pc'[p] = l /\ task'[p] = t /\ Others(p)
  BY Moves DEF MediaInv
<1>2. \A q \in Procs : \A n \in Unsettled(q) : n \in broken' \/ n \in Unsettled(q)'
  BY <1>1 DEF Unsettled, Others
<1> QED BY <1>2 DEF MediaInv, ReadyIsWhole

LEMMA SavingStays ==
    ASSUME MediaInv, NEW p \in Procs, NEW l, NEW t, At(p, l, t),
           l \in Saving => pc[p] \in Saving
    PROVE  Cardinality(Running(Saving)') <= Cardinality(Running(Saving))
<1>1. \A q \in Procs : pc'[q] \in Saving => pc[q] \in Saving
  BY Moves DEF MediaInv, Others
<1> QED BY <1>1, NobodyEnters

LEMMA MediaPasses ==
    ASSUME MediaInv, NEW p \in Procs, NEW l, NEW t, At(p, l, t),
           UNCHANGED <<object, rows, doubt, broken, faults>>,
           session' \in {"none", "open", "gone"}, chunk' \in [Chunks -> Contents],
           final' \in [Chunks -> Contents] \cup {NoFile},
           l \in {"chunk", "unlink", "save"} => pc[p] \in {"chunk", "unlink", "save"},
           l = "open" => pc[p] \in Saving,
           final' = final \/ final' = NoFile \/ pc[p] \in {"chunk", "unlink", "save"},
           l \in Creating \cup Dropping =>
              \/ pc[p] \in Creating \cup Dropping /\ t.n = task[p].n
              \/ t.n \in rows,
           \A n \in Unsettled(p) : l \in {"clear", "forget", "insert", "unrow"} /\ n = t.n,
           JobFits(p)'
    PROVE  MediaInv'
<1>1. Len(object') + Cardinality(Running(Saving)') <= MaxObjects
  <2>1. Cardinality(Running(Saving)') <= Cardinality(Running(Saving))
    BY SavingStays DEF Saving
  <2>2. Len(object) \in Nat
    BY Rows DEF MediaInv, StoresTyped
  <2> QED BY <2>1, <2>2, RunningFinite, RunningPrimed, MediaAssumption DEF MediaInv
<1>2. StoresTyped'
  BY DEF MediaInv, StoresTyped
<1>3. ReadyIsWhole'
  BY ReadyStays
<1>4. ObjectsStay(p)
  BY ObjectsSame
<1>5. faults' \in 0..MaxFaults
  BY DEF MediaInv
<1> QED BY <1>1, <1>2, <1>3, <1>4, <1>5, MediaMoves

-----------------------------------------------------------------------------
\* p at a label where it has nothing of its own.
LEMMA JobPlain ==
    ASSUME MediaInv, NEW p \in Procs, NEW l, NEW t, At(p, l, t),
           \/ l = "idle" /\ t = NoTask
           \/ l \in {"put", "writing"} /\ t \in Job
           \/ l = "open" /\ t = NewJob
    PROVE  JobFits(p)' /\ l \notin Creating \cup Dropping /\ l \notin {"chunk", "unlink", "save"}
<1>1. pc'[p] = l /\ task'[p] = t
  BY Moves DEF MediaInv
<1> QED BY <1>1 DEF JobFits, Creating, Dropping

LEMMA MediaAnswered ==
    ASSUME MediaInv, NEW p \in Procs, Answer(p), Unsettled(p) = {},
           UNCHANGED <<stores, mediaHistory, faults>>
    PROVE  MediaInv'
<1>1. At(p, "idle", NoTask) /\ UNCHANGED <<session, chunk, final, object, rows, doubt, broken, faults>>
  BY DEF Answer, stores, mediaHistory
<1>2. JobFits(p)'
  BY <1>1, JobPlain
<1> QED BY <1>1, <1>2, MediaPasses DEF MediaInv, StoresTyped, Creating, Dropping

LEMMA ChunkPut ==
    ASSUME MediaInv, NEW p \in Procs, NEW i \in Chunks, PutChunk(p, i)
    PROVE  MediaInv'
<1>0. PICK t : t = [NewJob EXCEPT !.i = i]
  OBVIOUS
<1>1. /\ pc[p] = "idle" /\ At(p, "put", t)
      /\ UNCHANGED <<session, chunk, final, object, rows, doubt, broken, faults>>
  BY <1>0 DEF PutChunk, WithSession, Works, stores, mediaHistory
<1>2. t \in Job
  BY <1>0 DEF NewJob, Job
<1>3. JobFits(p)'
  BY <1>1, <1>2, JobPlain
<1>4. Unsettled(p) = {}
  BY <1>1 DEF Unsettled
<1> QED BY <1>1, <1>3, <1>4, MediaPasses DEF MediaInv, StoresTyped, Creating, Dropping

LEMMA ChunkWritten ==
    ASSUME MediaInv, NEW p \in Procs, TruncateChunk(p) \/ WriteChunk(p)
    PROVE  MediaInv'
<1>1. CASE TruncateChunk(p)
  <2>1. /\ pc[p] = "put" /\ At(p, "writing", task[p])
        /\ chunk' = [chunk EXCEPT ![task[p].i] = "torn"]
        /\ UNCHANGED <<session, final, object, rows, doubt, broken, faults>>
    BY <1>1 DEF TruncateChunk, Works, mediaHistory
  <2>2. task[p] \in Job
    BY <2>1 DEF MediaInv, JobFits, Creating
  <2>3. chunk' \in [Chunks -> Contents]
    BY <2>1 DEF MediaInv, StoresTyped, Contents
  <2>4. JobFits(p)'
    BY <2>1, <2>2, JobPlain
  <2>5. Unsettled(p) = {}
    BY <2>1 DEF Unsettled
  <2> QED BY <2>1, <2>3, <2>4, <2>5, MediaPasses DEF MediaInv, StoresTyped, Creating, Dropping
<1>2. CASE WriteChunk(p)
  <2>1. /\ pc[p] = "writing" /\ At(p, "idle", NoTask)
        /\ UNCHANGED <<session, final, object, rows, doubt, broken, faults>>
    BY <1>2 DEF WriteChunk, Works, mediaHistory, Answer
  <2>2. chunk' \in [Chunks -> Contents]
    BY <1>2 DEF WriteChunk, MediaInv, StoresTyped, Contents
  <2>3. JobFits(p)'
    BY <2>1, JobPlain
  <2>4. Unsettled(p) = {}
    BY <2>1 DEF Unsettled
  <2> QED BY <2>1, <2>2, <2>3, <2>4, MediaPasses DEF MediaInv, StoresTyped, Creating, Dropping
<1> QED BY <1>1, <1>2

LEMMA Completing ==
    ASSUME MediaInv, NEW p \in Procs, Complete(p)
    PROVE  MediaInv'
<1>1. /\ pc[p] = "idle" /\ At(p, "open", NewJob) /\ Room
      /\ UNCHANGED <<session, chunk, final, object, rows, doubt, broken, faults>>
  BY DEF Complete, WithSession, Works, stores, mediaHistory
<1>2. JobFits(p)'
  BY <1>1, JobPlain
<1>3. Unsettled(p) = {}
  BY <1>1 DEF Unsettled
<1>4. Len(object') + Cardinality(Running(Saving)') <= MaxObjects
  <2>1. Others(p)
    BY <1>1, Moves DEF MediaInv
  <2>2. Cardinality(Running(Saving)') <= Cardinality(Running(Saving)) + 1
    BY <2>1, OneEnters
  <2>3. Len(object) \in Nat /\ Len(object') = Len(object)
    BY <1>1, Rows DEF MediaInv, StoresTyped
  <2>4. Len(object) + Cardinality(Running(Saving)) < MaxObjects
    BY <1>1, SavingIs DEF Room
  <2> QED BY <2>2, <2>3, <2>4, RunningFinite, RunningPrimed, MediaAssumption
<1>5. ReadyIsWhole'
  BY <1>1, <1>3, ReadyStays
<1>6. StoresTyped' /\ faults' \in 0..MaxFaults
  BY <1>1 DEF MediaInv, StoresTyped
<1>7. ObjectsStay(p)
  BY <1>1, ObjectsSame
<1> QED BY <1>1, <1>2, <1>4, <1>5, <1>6, <1>7, MediaMoves DEF Creating, Dropping

LEMMA ChunkCopied ==
    ASSUME MediaInv, NEW p \in Procs, CopyChunk(p)
    PROVE  MediaInv'
<1>0. PICK i, t : i = task[p].i /\ t = [task[p] EXCEPT !.met = @ \/ chunk[i] = "torn"]
  OBVIOUS
<1>1. /\ pc[p] = "chunk" /\ chunk[i] # "none" /\ At(p, "unlink", t)
      /\ final' = IF final = NoFile THEN NoFile ELSE [final EXCEPT ![i] = chunk[i]]
      /\ UNCHANGED <<session, chunk, object, rows, doubt, broken, faults>>
  BY <1>0 DEF CopyChunk, Missing, Works, mediaHistory
<1>2. task[p] \in Job /\ (task[p].met \/ (Assembling \subseteq {p} /\ Copied(p)))
  BY <1>1 DEF MediaInv, JobFits, Creating
<1>3. i \in Chunks /\ chunk[i] \in Contents
  BY <1>0, <1>2 DEF Job, MediaInv, StoresTyped
<1>4. t \in Job /\ t.i = i /\ t.met = (task[p].met \/ chunk[i] = "torn")
  BY <1>0, <1>2 DEF Job
<1>5. pc'[p] = "unlink" /\ task'[p] = t /\ Others(p)
  BY <1>1, Moves DEF MediaInv
<1>6. final' \in [Chunks -> Contents] \cup {NoFile}
  BY <1>1, <1>3 DEF MediaInv, StoresTyped
<1>7. ASSUME ~ t.met PROVE Assembling' \subseteq {p} /\ Copied(p)'
  <2>1. Assembling \subseteq {p} /\ Copied(p) /\ chunk[i] = "whole"
    BY <1>1, <1>2, <1>3, <1>4, <1>7 DEF Contents
  <2>2. Assembling' \subseteq {p}
    BY <1>5, <2>1 DEF Assembling, Running, Others
  <2>3. CASE final = NoFile
    BY <1>1, <2>2, <2>3 DEF Copied
  <2>4. CASE final # NoFile
    <3>1. /\ final \in [Chunks -> Contents] /\ final' = [final EXCEPT ![i] = "whole"]
          /\ \A j \in Chunks : final[j] = "whole" \/ j >= i
      BY <1>0, <1>1, <2>1, <2>4 DEF MediaInv, StoresTyped, Copied
    <3>2. \A j \in Chunks : final'[j] = "whole" \/ j > i
      <4>1. \A j \in Chunks : j = i \/ final'[j] = final[j]
        BY <3>1
      <4>2. final'[i] = "whole"
        BY <1>3, <3>1
      <4>3. \A j \in Chunks : j \in Int
        BY DEF Chunks
      <4> QED BY <1>3, <3>1, <4>1, <4>2, <4>3
    <3> QED BY <1>4, <1>5, <2>2, <3>2 DEF Copied
  <2> QED BY <2>3, <2>4
<1>8. JobFits(p)'
  BY <1>4, <1>5, <1>7 DEF JobFits
<1>9. Unsettled(p) = {}
  BY <1>1 DEF Unsettled
<1> QED BY <1>1, <1>6, <1>8, <1>9, MediaPasses DEF MediaInv, StoresTyped, Creating, Dropping

LEMMA ChunkUnlinked ==
    ASSUME MediaInv, NEW p \in Procs, UnlinkChunk(p)
    PROVE  MediaInv'
<1>0. PICK i, l, t : /\ i = task[p].i
                     /\ i < MaxChunk => l = "chunk" /\ t = [task[p] EXCEPT !.i = i + 1]
                     /\ ~ (i < MaxChunk) => l = "save" /\ t = task[p]
  <2>1. PICK l, t : /\ task[p].i < MaxChunk => l = "chunk" /\ t = [task[p] EXCEPT !.i = task[p].i + 1]
                    /\ ~ (task[p].i < MaxChunk) => l = "save" /\ t = task[p]
    <3>1. CASE task[p].i < MaxChunk
      BY <3>1
    <3>2. CASE ~ (task[p].i < MaxChunk)
      BY <3>2
    <3> QED BY <3>1, <3>2
  <2> QED BY <2>1
<1>1. /\ pc[p] = "unlink" /\ At(p, l, t) /\ chunk' = [chunk EXCEPT ![i] = "none"]
      /\ UNCHANGED <<session, final, object, rows, doubt, broken, faults>>
  BY <1>0 DEF UnlinkChunk, Works, mediaHistory
<1>2. task[p] \in Job /\ (task[p].met \/ (Assembling \subseteq {p} /\ Copied(p)))
  BY <1>1 DEF MediaInv, JobFits, Creating
<1>3. i \in Chunks /\ i \in Int
  BY <1>0, <1>2 DEF Job, Chunks
<1>4. t \in Job /\ t.met = task[p].met /\ l \in {"chunk", "save"}
  BY <1>0, <1>2, <1>3, MediaAssumption DEF Job, Chunks
<1>5. pc'[p] = l /\ task'[p] = t /\ Others(p)
  BY <1>1, Moves DEF MediaInv
<1>6. chunk' \in [Chunks -> Contents] /\ final' \in [Chunks -> Contents] \cup {NoFile}
  BY <1>1 DEF MediaInv, StoresTyped, Contents
<1>7. ASSUME ~ t.met PROVE Assembling' \subseteq {p} /\ Copied(p)'
  <2>1. Assembling \subseteq {p} /\ Copied(p)
    BY <1>2, <1>4, <1>7
  <2>2. Assembling' \subseteq {p}
    BY <1>5, <2>1 DEF Assembling, Running, Others
  <2>3. CASE final = NoFile
    BY <1>1, <2>2, <2>3 DEF Copied
  <2>4. CASE final # NoFile
    <3>1. \A j \in Chunks : j \in Int /\ (final'[j] = "whole" \/ j > i)
      BY <1>0, <1>1, <2>1, <2>4 DEF Copied, Chunks
    <3>2. CASE i < MaxChunk
      <4>1. l = "chunk" /\ t.i = i + 1
        BY <1>0, <1>2, <3>2 DEF Job
      <4>2. \A j \in Chunks : final'[j] = "whole" \/ j >= i + 1
        BY <1>3, <3>1
      <4> QED BY <1>5, <2>2, <4>1, <4>2 DEF Copied
    <3>3. CASE ~ (i < MaxChunk)
      <4>1. \A j \in Chunks : final'[j] = "whole"
        BY <1>3, <3>1, <3>3, MediaAssumption DEF Chunks
      <4> QED BY <2>2, <4>1 DEF Copied
    <3> QED BY <3>2, <3>3
  <2> QED BY <2>3, <2>4
<1>8. JobFits(p)'
  BY <1>4, <1>5, <1>7 DEF JobFits
<1>9. Unsettled(p) = {} /\ l \in {"chunk", "unlink", "save"} /\ l # "open"
      /\ l \notin Creating \cup Dropping
  BY <1>1, <1>4 DEF Unsettled, Creating, Dropping
<1> QED BY <1>1, <1>6, <1>8, <1>9, MediaPasses DEF MediaInv, StoresTyped

\* Two that are assembling have met.
LEMMA FinalOpened ==
    ASSUME MediaInv, NEW p \in Procs, OpenFinal(p)
    PROVE  MediaInv'
<1>1. /\ pc[p] = "open" /\ final' = Empty /\ pc' = [pc EXCEPT ![p] = "chunk"]
      /\ task' = [q \in Procs |-> IF q \in Assembling \cup {p}
                                  THEN [task[q] EXCEPT !.met = @ \/ Assembling # {}] ELSE task[q]]
      /\ UNCHANGED <<session, chunk, object, rows, doubt, broken, faults>>
  BY DEF OpenFinal, Works, mediaHistory
<1>2. task[p] = NewJob /\ NewJob \in Job
  BY <1>1, MediaAssumption DEF MediaInv, JobFits, Creating, NewJob, Job, Chunks
<1>3. /\ Handling' /\ pc'[p] = "chunk" /\ p \notin Assembling
      /\ \A q \in Procs \ {p} : pc'[q] = pc[q]
      /\ \A q \in Procs \ {p} : pc[q] \notin {"chunk", "unlink", "save"} => task'[q] = task[q]
  BY <1>1 DEF MediaInv, Handling, Assembling, Running
<1>4. PICK met \in BOOLEAN : met = (Assembling # {})
  OBVIOUS
<1>5. ASSUME NEW q \in Assembling PROVE JobFits(q)'
  <2>1. /\ q \in Procs /\ q # p /\ pc[q] \in {"chunk", "unlink", "save"} /\ task[q] \in Job
    BY <1>3 DEF Assembling, Running, MediaInv, JobFits, Creating
  <2>2. met = TRUE
    BY <1>4
  <2>3. task'[q] = [task[q] EXCEPT !.met = TRUE]
    <3>1. task'[q] = [task[q] EXCEPT !.met = @ \/ Assembling # {}]
      BY <1>1, <2>1
    <3>2. (task[q].met \/ Assembling # {}) = TRUE
      OBVIOUS
    <3> QED BY <3>1, <3>2, Zenon
  <2>4. task'[q] \in Job /\ task'[q].met
    BY <2>1, <2>3 DEF Job
  <2> QED BY <1>3, <2>1, <2>4 DEF JobFits
<1>6. JobFits(p)'
  <2>1. task'[p] = [NewJob EXCEPT !.met = @ \/ Assembling # {}]
    BY <1>1, <1>2
  <2>2. (NewJob.met \/ Assembling # {}) = met
    BY <1>4 DEF NewJob
  <2>3. task'[p] = [NewJob EXCEPT !.met = met]
    BY <2>1, <2>2, Zenon
  <2>4. task'[p] \in Job /\ task'[p].met = met /\ task'[p].i = 0
    BY <1>2, <2>3 DEF NewJob, Job
  <2>5. ASSUME ~ met PROVE Assembling' \subseteq {p}
    <3>1. Assembling = {}
      BY <1>4, <2>5
    <3> QED BY <1>3, <3>1 DEF Assembling, Running
  <2>6. Copied(p)'
    BY <1>3, <2>4 DEF Copied, Chunks
  <2> QED BY <1>3, <2>4, <2>5, <2>6 DEF JobFits
<1>7. ASSUME NEW q \in Procs \ {p}, q \notin Assembling PROVE JobFits(q)'
  <2>1. pc[q] \notin {"chunk", "unlink", "save"} /\ pc'[q] = pc[q] /\ task'[q] = task[q] /\ JobFits(q)
    BY <1>3, <1>7 DEF Assembling, Running, MediaInv
  <2>2. CASE pc[q] \in Creating
    <3>1. task[q] \in Job /\ Owns(q)
      BY <2>1, <2>2 DEF JobFits, Creating
    <3>2. Owns(q)'
      <4>1. \A r \in Procs : pc'[r] \in Creating \cup Dropping =>
                pc[r] \in Creating \cup Dropping /\ task'[r] = task[r]
        BY <1>3 DEF Creating, Dropping
      <4> QED BY <1>1, <2>1, <3>1, <4>1 DEF Owns, Sound
    <3> QED BY <2>1, <2>2, <3>1, <3>2 DEF JobFits
  <2>3. CASE pc[q] \notin Creating
    BY <1>1, <2>1, <2>3 DEF JobFits
  <2> QED BY <2>2, <2>3
<1>8. Len(object') + Cardinality(Running(Saving)') <= MaxObjects
  <2>1. \A q \in Procs : pc'[q] \in Saving => pc[q] \in Saving
    BY <1>1, <1>3 DEF Saving
  <2>2. Cardinality(Running(Saving)') <= Cardinality(Running(Saving))
    BY <2>1, NobodyEnters
  <2>3. Len(object) \in Nat /\ Len(object') = Len(object)
    BY <1>1, Rows DEF MediaInv, StoresTyped
  <2> QED BY <2>2, <2>3, RunningFinite, RunningPrimed, MediaAssumption DEF MediaInv
<1>9. StoresTyped' /\ faults' \in 0..MaxFaults
  BY <1>1 DEF MediaInv, StoresTyped, Empty, Contents
<1>10. ReadyIsWhole'
  <2>1. \A q \in Procs : Unsettled(q)' = Unsettled(q)
    BY <1>1, <1>3 DEF Unsettled
  <2> QED BY <1>1, <2>1 DEF MediaInv, ReadyIsWhole
<1> QED BY <1>3, <1>5, <1>6, <1>7, <1>8, <1>9, <1>10 DEF MediaInv

LEMMA JobOfObject ==
    ASSUME NEW n \in Objects
    PROVE  [NewJob EXCEPT !.n = n] \in Job /\ [NewJob EXCEPT !.n = n].n = n
<1>1. 0 \in Chunks
  BY MediaAssumption DEF Chunks
<1>2. NewJob = [i |-> 0, n |-> 0, met |-> FALSE]
  BY DEF NewJob
<1>3. NewJob \in Job
  BY <1>1, <1>2 DEF Job
<1> QED BY <1>2, <1>3 DEF Job

\* The object that is saved is whole, or in doubt.
LEMMA ObjectStored ==
    ASSUME MediaInv, NEW p \in Procs, NEW content \in {"whole", "partial"}, NEW label \in {"clear", "insert"},
           Stores(p, content, label), pc[p] \in {"idle", "save"},
           pc[p] = "idle" => Room,
           content = "whole" \/ (task[p] # NoTask /\ task[p].met)
    PROVE  MediaInv'
<1>0. PICK n, t : n = Len(object) + 1 /\ t = [NewJob EXCEPT !.n = n]
  OBVIOUS
<1>1. /\ object' = Append(object, content) /\ At(p, label, t)
      /\ doubt' = IF task[p] # NoTask /\ task[p].met THEN doubt \cup {n} ELSE doubt
      /\ UNCHANGED <<session, chunk, final, rows, broken, faults>>
  BY <1>0 DEF Stores, Works
<1>2. /\ object' \in Seq({"whole", "partial", "deleted"})
      /\ Len(object) \in Nat /\ Len(object') = n /\ n = Len(object) + 1 /\ object'[n] = content
      /\ \A m \in 1..Len(object) : object'[m] = object[m]
  BY <1>0, <1>1, Rows, Appended DEF MediaInv, StoresTyped
<1>3. /\ Len(object') + Cardinality(Running(Saving)') <= MaxObjects
  <2>1. CASE pc[p] = "idle"
    <3>1. Cardinality(Running(Saving)') <= Cardinality(Running(Saving))
      BY <1>1, SavingStays DEF Saving
    <3>2. Len(object) + Cardinality(Running(Saving)) < MaxObjects
      BY <2>1, SavingIs DEF Room
    <3> QED BY <1>2, <3>1, <3>2, RunningFinite, RunningPrimed, MediaAssumption
  <2>2. CASE pc[p] = "save"
    <3>1. Others(p) /\ pc[p] \in Saving /\ pc'[p] \notin Saving
      BY <1>1, <2>2, Moves DEF MediaInv, Saving
    <3>2. Cardinality(Running(Saving)') <= Cardinality(Running(Saving)) - 1
      BY <3>1, OneLeaves
    <3> QED BY <1>2, <3>2, RunningFinite, RunningPrimed, MediaAssumption DEF MediaInv
  <2> QED BY <2>1, <2>2
<1>4. n \in Objects
  <2>1. n <= MaxObjects
    BY <1>2, <1>3, RunningPrimed, MediaAssumption
  <2> QED BY <1>2, <2>1, MediaAssumption DEF Objects
<1>5. t \in Job /\ t.n = n
  BY <1>0, <1>4, JobOfObject
<1>6. pc'[p] = label /\ task'[p] = t /\ Others(p)
  BY <1>1, Moves DEF MediaInv
<1>7. doubt \subseteq doubt' /\ doubt' \subseteq doubt \cup {n} /\ Sound(n)'
  BY <1>1, <1>2 DEF Sound
<1>8. StoresTyped'
  <2>1. n \in 1..Len(object') /\ \A m \in 1..Len(object) : m \in 1..Len(object')
    BY <1>2
  <2>2. /\ rows' \subseteq 1..Len(object') /\ doubt' \subseteq 1..Len(object')
        /\ broken' \subseteq 1..Len(object')
    BY <1>1, <1>7, <2>1 DEF MediaInv, StoresTyped
  <2> QED BY <1>1, <1>2, <2>2 DEF MediaInv, StoresTyped
<1>9. ObjectsStay(p)
  BY <1>2, <1>7 DEF ObjectsStay
<1>10. n \notin 1..Len(object) /\ n \notin rows /\ n \in 1..n
  BY <1>2 DEF MediaInv, StoresTyped
<1>11. JobFits(p)'
  <2>1. ASSUME NEW q \in Procs \ {p}, pc'[q] \in Creating \cup Dropping PROVE task'[q].n # n
    <3>1. pc[q] \in Creating \cup Dropping /\ task'[q] = task[q]
      BY <1>6, <2>1 DEF Others
    <3>2. task[q].n \in 1..Len(object)
      BY <3>1 DEF MediaInv, JobFits, Owns, Creating, Dropping
    <3> QED BY <1>10, <3>1, <3>2
  <2>2. Owns(p)'
    BY <1>1, <1>2, <1>5, <1>6, <1>7, <1>10, <2>1 DEF Owns, Sound
  <2> QED BY <1>5, <1>6, <2>2 DEF JobFits, Creating
<1>12. ReadyIsWhole'
  <2>1. SUFFICES ASSUME NEW m \in DOMAIN object', m \notin broken
                 PROVE  \/ \E q \in Procs : m \in Unsettled(q)'
                        \/ m \in rows /\ (object'[m] = "whole" \/ m \in doubt')
                        \/ m \notin rows /\ object'[m] = "deleted"
    BY <1>1 DEF ReadyIsWhole
  <2>2. CASE m = n
    BY <1>5, <1>6, <2>2 DEF Unsettled
  <2>3. CASE m # n
    <3>1. m \in 1..Len(object) /\ m \in DOMAIN object /\ object'[m] = object[m]
      BY <1>2, <2>3, Rows DEF MediaInv, StoresTyped
    <3>2. \A q \in Procs : Unsettled(q) \subseteq Unsettled(q)'
      <4>1. Unsettled(p) = {}
        BY DEF Unsettled
      <4> QED BY <1>6, <4>1 DEF Unsettled, Others
    <3> QED BY <1>7, <2>1, <3>1, <3>2 DEF MediaInv, ReadyIsWhole
  <2> QED BY <2>2, <2>3
<1>13. faults' \in 0..MaxFaults
  BY <1>1 DEF MediaInv
<1> QED BY <1>1, <1>3, <1>5, <1>8, <1>9, <1>10, <1>11, <1>12, <1>13, MediaMoves

LEMMA ObjectSaved ==
    ASSUME MediaInv, NEW p \in Procs, Save(p)
    PROVE  MediaInv'
<1>0. PICK content : content = IF \A i \in Chunks : final[i] = "whole" THEN "whole" ELSE "partial"
  OBVIOUS
<1>1. pc[p] = "save" /\ final # NoFile /\ Stores(p, content, "clear")
  BY <1>0 DEF Save
<1>2. task[p] \in Job /\ (task[p].met \/ Copied(p))
  BY <1>1 DEF MediaInv, JobFits, Creating
<1>3. task[p] # NoTask
  BY <1>2 DEF Job, NoTask
<1>4. content \in {"whole", "partial"} /\ (content = "whole" \/ task[p].met)
  BY <1>0, <1>1, <1>2 DEF Copied
<1> QED BY <1>1, <1>3, <1>4, ObjectStored

LEMMA WholeUploaded ==
    ASSUME MediaInv, NEW p \in Procs, Upload(p)
    PROVE  MediaInv'
  BY ObjectStored DEF Upload

\* The assembled file, and the session, go.
LEMMA Cleared ==
    ASSUME MediaInv, NEW p \in Procs, UnlinkFinal(p) \/ ForgetSession(p)
    PROVE  MediaInv'
<1>0. PICK l : /\ UnlinkFinal(p) => l = "forget"
               /\ ForgetSession(p) => l = "insert"
  BY DEF UnlinkFinal, ForgetSession
<1>1. /\ pc[p] \in {"clear", "forget"} /\ l \in {"forget", "insert"} /\ At(p, l, task[p])
      /\ session' \in {"none", "open", "gone"} /\ (final' = final \/ final' = NoFile)
      /\ UNCHANGED <<chunk, object, rows, doubt, broken, faults>>
  BY <1>0 DEF UnlinkFinal, ForgetSession, Works, mediaHistory, MediaInv, StoresTyped
<1>2. task[p] \in Job /\ Owns(p)
  BY <1>1 DEF MediaInv, JobFits, Creating
<1>3. pc'[p] = l /\ task'[p] = task[p] /\ Others(p)
  BY <1>1, Moves DEF MediaInv
<1>4. Owns(p)'
  BY <1>1, <1>2, <1>3 DEF Owns, Sound, Others
<1>5. JobFits(p)'
  BY <1>1, <1>2, <1>3, <1>4 DEF JobFits, Creating
<1>6. pc[p] \in Creating \cup Dropping /\ \A n \in Unsettled(p) : n = task[p].n
  BY <1>1 DEF Creating, Unsettled
<1> QED BY <1>1, <1>5, <1>6, MediaPasses DEF MediaInv, StoresTyped

LEMMA RowInserted ==
    ASSUME MediaInv, NEW p \in Procs, InsertRow(p)
    PROVE  MediaInv'
<1>0. PICK n : n = task[p].n
  OBVIOUS
<1>1. /\ pc[p] = "insert" /\ rows' = rows \cup {n} /\ At(p, "idle", NoTask)
      /\ UNCHANGED <<session, chunk, final, object, doubt, broken, faults>>
  BY <1>0 DEF InsertRow, Works, mediaHistory, Answer
<1>2. n \in 1..Len(object) /\ Sound(n)
  BY <1>0, <1>1 DEF MediaInv, JobFits, Creating, Owns
<1>3. JobFits(p)'
  BY <1>1, JobPlain
<1>4. StoresTyped' /\ faults' \in 0..MaxFaults
  BY <1>1, <1>2 DEF MediaInv, StoresTyped
<1>5. ReadyIsWhole'
  <2>1. pc'[p] = "idle" /\ Others(p)
    BY <1>1, Moves DEF MediaInv
  <2>2. \A q \in Procs : \A m \in Unsettled(q) : m = n \/ m \in Unsettled(q)'
    BY <1>0, <2>1 DEF Unsettled, Others
  <2>3. object[n] = "whole" \/ n \in doubt
    BY <1>2 DEF Sound
  <2> QED BY <1>1, <2>2, <2>3 DEF MediaInv, ReadyIsWhole
<1>6. Len(object') + Cardinality(Running(Saving)') <= MaxObjects
  <2>1. Cardinality(Running(Saving)') <= Cardinality(Running(Saving))
    BY <1>1, SavingStays DEF Saving
  <2>2. Len(object) \in Nat /\ Len(object') = Len(object)
    BY <1>1, Rows DEF MediaInv, StoresTyped
  <2> QED BY <2>1, <2>2, RunningFinite, RunningPrimed, MediaAssumption DEF MediaInv
<1>7. ObjectsStay(p)
  BY <1>1, ObjectsSame
<1>8. pc[p] \in Creating /\ \A m \in rows' \ rows : m = n
  BY <1>1 DEF Creating
<1> QED BY <1>0, <1>1, <1>3, <1>4, <1>5, <1>6, <1>7, <1>8, MediaMoves DEF Creating, Dropping

LEMMA MediaDropped ==
    ASSUME MediaInv, NEW p \in Procs, NEW n \in Objects, DropMedia(p, n)
    PROVE  MediaInv'
<1>0. PICK t : t = [NewJob EXCEPT !.n = n]
  OBVIOUS
<1>1. /\ pc[p] = "idle" /\ n \in rows /\ At(p, "drop", t)
      /\ UNCHANGED <<session, chunk, final, object, rows, doubt, broken, faults>>
  BY <1>0 DEF DropMedia, Works, stores, mediaHistory
<1>2. t \in Job /\ t.n = n
  BY <1>0, JobOfObject
<1>3. JobFits(p)'
  <2>1. pc'[p] = "drop" /\ task'[p] = t
    BY <1>1, Moves DEF MediaInv
  <2>2. n \in 1..Len(object)
    BY <1>1 DEF MediaInv, StoresTyped
  <2> QED BY <1>1, <1>2, <2>1, <2>2 DEF JobFits
<1>4. Unsettled(p) = {}
  BY <1>1 DEF Unsettled
<1> QED BY <1>1, <1>2, <1>3, <1>4, MediaPasses DEF MediaInv, StoresTyped

LEMMA ObjectDeleted ==
    ASSUME MediaInv, NEW p \in Procs, DeleteObject(p)
    PROVE  MediaInv'
<1>0. PICK n, t : n = task[p].n /\ t = task[p]
  OBVIOUS
<1>1. /\ pc[p] = "drop" /\ object' = [object EXCEPT ![n] = "deleted"] /\ At(p, "unrow", t)
      /\ UNCHANGED <<session, chunk, final, rows, doubt, broken, faults>>
  BY <1>0 DEF DeleteObject, Works, mediaHistory
<1>2. t \in Job /\ n \in 1..Len(object) /\ t.n = n
  BY <1>0, <1>1 DEF MediaInv, JobFits, Creating
<1>3. /\ object' \in Seq({"whole", "partial", "deleted"}) /\ Len(object') = Len(object)
      /\ object'[n] = "deleted" /\ \A m \in 1..Len(object) : m # n => object'[m] = object[m]
  BY <1>1, <1>2, Rewritten DEF MediaInv, StoresTyped
<1>4. pc'[p] = "unrow" /\ task'[p] = t /\ Others(p)
  BY <1>1, Moves DEF MediaInv
<1>5. JobFits(p)'
  BY <1>2, <1>3, <1>4 DEF JobFits
<1>6. Len(object) \in Nat /\ DOMAIN object = 1..Len(object) /\ DOMAIN object' = 1..Len(object)
  BY <1>3, Rows DEF MediaInv, StoresTyped
<1>7. ObjectsStay(p)
  BY <1>0, <1>1, <1>3, <1>6 DEF ObjectsStay, Dropping
<1>8. StoresTyped' /\ faults' \in 0..MaxFaults
  BY <1>1, <1>3 DEF MediaInv, StoresTyped
<1>9. ReadyIsWhole'
  <2>1. \A q \in Procs : \A m \in Unsettled(q) : m \in Unsettled(q)'
    BY <1>1, <1>4 DEF Unsettled, Others
  <2>2. n \in Unsettled(p)'
    BY <1>2, <1>4 DEF Unsettled
  <2> QED BY <1>1, <1>3, <1>6, <2>1, <2>2 DEF MediaInv, ReadyIsWhole
<1>10. Len(object') + Cardinality(Running(Saving)') <= MaxObjects
  <2>1. Cardinality(Running(Saving)') <= Cardinality(Running(Saving))
    BY <1>1, SavingStays DEF Saving
  <2> QED BY <1>3, <1>6, <2>1, RunningFinite, RunningPrimed, MediaAssumption DEF MediaInv
<1>11. pc[p] \in Creating \cup Dropping /\ t.n = task[p].n
  BY <1>0, <1>1 DEF Dropping
<1> QED BY <1>1, <1>5, <1>7, <1>8, <1>9, <1>10, <1>11, MediaMoves

LEMMA RowDeleted ==
    ASSUME MediaInv, NEW p \in Procs, DeleteRow(p)
    PROVE  MediaInv'
<1>0. PICK n : n = task[p].n
  OBVIOUS
<1>1. /\ pc[p] = "unrow" /\ rows' = rows \ {n} /\ At(p, "idle", NoTask)
      /\ UNCHANGED <<session, chunk, final, object, doubt, broken, faults>>
  BY <1>0 DEF DeleteRow, Works, mediaHistory, Answer
<1>2. n \in 1..Len(object) /\ object[n] = "deleted"
  BY <1>0, <1>1 DEF MediaInv, JobFits, Creating
<1>3. JobFits(p)'
  BY <1>1, JobPlain
<1>4. StoresTyped' /\ faults' \in 0..MaxFaults
  BY <1>1 DEF MediaInv, StoresTyped
<1>5. ReadyIsWhole'
  <2>1. pc'[p] = "idle" /\ Others(p)
    BY <1>1, Moves DEF MediaInv
  <2>2. \A q \in Procs : \A m \in Unsettled(q) : m = n \/ m \in Unsettled(q)'
    BY <1>0, <2>1 DEF Unsettled, Others
  <2> QED BY <1>1, <1>2, <2>2 DEF MediaInv, ReadyIsWhole
<1>6. Len(object') + Cardinality(Running(Saving)') <= MaxObjects
  <2>1. Cardinality(Running(Saving)') <= Cardinality(Running(Saving))
    BY <1>1, SavingStays DEF Saving
  <2>2. Len(object) \in Nat /\ Len(object') = Len(object)
    BY <1>1, Rows DEF MediaInv, StoresTyped
  <2> QED BY <2>1, <2>2, RunningFinite, RunningPrimed, MediaAssumption DEF MediaInv
<1>7. ObjectsStay(p)
  BY <1>1, ObjectsSame
<1> QED BY <1>1, <1>3, <1>4, <1>5, <1>6, <1>7, MediaMoves DEF Creating, Dropping

LEMMA UnsettledExist ==
    ASSUME MediaInv, NEW p \in Procs
    PROVE  Unsettled(p) \subseteq 1..Len(object)
<1>1. pc[p] \in {"clear", "forget", "insert", "unrow"} => task[p].n \in 1..Len(object)
  BY DEF MediaInv, JobFits, Creating, Owns
<1> QED BY <1>1 DEF Unsettled

LEMMA MediaBreaksOff ==
    ASSUME MediaInv, NEW p \in Procs, MediaFails(p)
    PROVE  MediaInv'
<1>1. /\ At(p, "idle", NoTask) /\ broken' = broken \cup Unsettled(p)
      /\ UNCHANGED <<session, chunk, final, object, rows, doubt>>
      /\ faults' \in 0..MaxFaults
  BY FaultsCounted DEF MediaFails, Fails, Answer, stores, MediaInv
<1>2. JobFits(p)'
  BY <1>1, JobPlain
<1>3. StoresTyped'
  BY <1>1, UnsettledExist DEF MediaInv, StoresTyped
<1>4. ReadyIsWhole'
  BY <1>1, ReadyStays
<1>5. Len(object') + Cardinality(Running(Saving)') <= MaxObjects
  <2>1. Cardinality(Running(Saving)') <= Cardinality(Running(Saving))
    BY <1>1, SavingStays DEF Saving
  <2>2. Len(object) \in Nat /\ Len(object') = Len(object)
    BY <1>1, Rows DEF MediaInv, StoresTyped
  <2> QED BY <2>1, <2>2, RunningFinite, RunningPrimed, MediaAssumption DEF MediaInv
<1>6. ObjectsStay(p)
  BY <1>1, ObjectsSame
<1> QED BY <1>1, <1>2, <1>3, <1>4, <1>5, <1>6, MediaMoves DEF Creating, Dropping

LEMMA MediaRestarts ==
    ASSUME MediaInv, MediaRestart
    PROVE  MediaInv'
<1>1. /\ Handling' /\ \A p \in Procs : pc'[p] = "idle" /\ task'[p] = NoTask
      /\ broken' = broken \cup UNION {Unsettled(p) : p \in Procs}
      /\ UNCHANGED <<session, chunk, final, object, rows, doubt>>
      /\ faults' \in 0..MaxFaults
  BY FaultsCounted, Stopped0 DEF MediaRestart, stores, MediaInv
<1>2. \A p \in Procs : JobFits(p)'
  BY <1>1 DEF JobFits
<1>3. StoresTyped'
  BY <1>1, UnsettledExist DEF MediaInv, StoresTyped
<1>4. ReadyIsWhole'
  BY <1>1 DEF MediaInv, ReadyIsWhole
<1>5. Len(object') + Cardinality(Running(Saving)') <= MaxObjects
  <2>1. Cardinality(Running(Saving)') <= Cardinality(Running(Saving))
    BY <1>1, NobodyEnters DEF Saving
  <2>2. Len(object) \in Nat /\ Len(object') = Len(object)
    BY <1>1, Rows DEF MediaInv, StoresTyped
  <2> QED BY <2>1, <2>2, RunningFinite, RunningPrimed, MediaAssumption DEF MediaInv
<1> QED BY <1>1, <1>2, <1>3, <1>4, <1>5 DEF MediaInv

\* Steps that change at most the session.
LEMMA SessionChanges ==
    ASSUME MediaInv, UNCHANGED <<chunk, final, object, rows, doubt, broken, pc, task, faults>>,
           session' \in {"none", "open", "gone"}
    PROVE  MediaInv'
<1>1. Running(Saving)' = Running(Saving) /\ Assembling' = Assembling
  BY DEF Running, Assembling
<1>2. Handling' /\ StoresTyped' /\ faults' \in 0..MaxFaults
  BY DEF MediaInv, Handling, StoresTyped
<1>3. ReadyIsWhole'
  BY DEF MediaInv, ReadyIsWhole, Unsettled
<1>4. \A p \in Procs : JobFits(p)'
  BY <1>1 DEF MediaInv, JobFits, Copied, Owns, Sound
<1> QED BY <1>1, <1>2, <1>3, <1>4 DEF MediaInv

LEMMA MediaStarts ==
    ASSUME HandlersInit, MediaInit
    PROVE  MediaInv
<1>1. Handling /\ faults \in 0..MaxFaults
  BY HandlersAssumption DEF HandlersInit, Handling
<1>2. StoresTyped
  BY DEF MediaInit, StoresTyped, Empty, Contents
<1>3. Len(object) + Cardinality(Running(Saving)) <= MaxObjects
  <2>1. Running(Saving) = {}
    BY DEF HandlersInit, Running, Saving
  <2>2. Len(object) = 0
    BY DEF MediaInit
  <2> QED BY <2>1, <2>2, FS_EmptySet, MediaAssumption
<1>4. ReadyIsWhole
  BY DEF MediaInit, ReadyIsWhole
<1>5. \A p \in Procs : JobFits(p)
  BY DEF HandlersInit, JobFits
<1> QED BY <1>1, <1>2, <1>3, <1>4, <1>5 DEF MediaInv

LEMMA MediaKeeps ==
    ASSUME MediaInv, MediaNext
    PROVE  MediaInv'
<1>1. ASSUME CreateSession \/ Expire PROVE MediaInv'
  BY <1>1, SessionChanges DEF CreateSession, Expire, Works, mediaHistory
<1>2. ASSUME NEW p \in Procs, InvalidSession(p) PROVE MediaInv'
  BY <1>2, SessionChanges DEF InvalidSession, mediaVars, stores, mediaHistory, handlers,
                              MediaInv, StoresTyped
<1>3. ASSUME NEW p \in Procs, MissingChunk(p) \/ SaveFails(p) PROVE MediaInv'
  <2>1. Unsettled(p) = {}
    BY <1>3 DEF MissingChunk, SaveFails, Unsettled
  <2> QED BY <1>3, <2>1, MediaAnswered DEF MissingChunk, SaveFails, Works
<1>4. ASSUME NEW p \in Procs,
             \/ Complete(p) \/ TruncateChunk(p) \/ WriteChunk(p) \/ OpenFinal(p) \/ CopyChunk(p)
             \/ UnlinkChunk(p)
      PROVE  MediaInv'
  BY <1>4, Completing, ChunkWritten, FinalOpened, ChunkCopied, ChunkUnlinked
<1>5. ASSUME NEW p \in Procs,
             \/ Save(p) \/ UnlinkFinal(p) \/ ForgetSession(p) \/ InsertRow(p) \/ Upload(p)
             \/ DeleteObject(p) \/ DeleteRow(p) \/ MediaFails(p)
      PROVE  MediaInv'
  BY <1>5, ObjectSaved, Cleared, RowInserted, WholeUploaded, ObjectDeleted, RowDeleted,
     MediaBreaksOff
<1>6. ASSUME NEW p \in Procs, NEW i \in Chunks, PutChunk(p, i) PROVE MediaInv'
  BY <1>6, ChunkPut
<1>7. ASSUME NEW p \in Procs, NEW n \in Objects, DropMedia(p, n) PROVE MediaInv'
  BY <1>7, MediaDropped
<1> QED BY <1>1, <1>2, <1>3, <1>4, <1>5, <1>6, <1>7, MediaRestarts DEF MediaNext

-----------------------------------------------------------------------------
(* History.  On its way back, a client has everything it asked for but     *)
(* what is older than its cursor, or of the instant of an earlier one.     *)
Msgs == 1..MaxPosts
Walk == [stage : {"no", "back", "done"}, due : SUBSET Msgs, got : SUBSET Msgs,
         cursor : Nat, cut : SUBSET Clock, full : BOOLEAN]

\* Of messages there are.
Within(w) ==
    w.due \subseteq 1..Len(posts) /\ w.got \subseteq 1..Len(posts) /\ w.cursor <= Len(posts)

OlderLeft ==
    walk.stage = "back" =>
        /\ walk.cursor # 0
        /\ \A m \in walk.due \ walk.got : posts[m] \in walk.cut \/ posts[m] < posts[walk.cursor]

WalkFits ==
    /\ walk \in Walk /\ Within(walk)
    /\ OlderLeft /\ NothingSkipped

PostRoom == Len(posts) + Cardinality(Running({"insert"})) <= MaxPosts

PostFits(p) == \/ pc[p] = "idle" /\ task[p] = NoTask
               \/ pc[p] = "insert" /\ task[p] \in [at : Clock]

HistoryInv ==
    /\ Handling /\ faults \in 0..MaxFaults
    /\ clock \in Clock /\ posts \in Seq(Clock) /\ WalkFits /\ PostRoom
    /\ \A p \in Procs : PostFits(p)

LEMMA HistoryFollows ==
    ASSUME HistoryInv
    PROVE  HistoryTypeOK /\ NothingSkipped
<1>1. Len(posts) \in Nat /\ Len(posts) <= MaxPosts /\ DOMAIN posts = 1..Len(posts)
  BY RunningFinite, HistoryAssumption, Rows DEF HistoryInv, PostRoom
<1>2. walk \in [stage : {"no", "back", "done"}, due : SUBSET DOMAIN posts,
                got : SUBSET DOMAIN posts, cursor : 0..Len(posts), cut : SUBSET Clock,
                full : BOOLEAN]
  BY <1>1 DEF HistoryInv, WalkFits, Walk, Within, Msgs
<1> QED BY <1>1, <1>2 DEF HistoryInv, HistoryTypeOK, WalkFits, PostFits

LEMMA Smaller ==
    ASSUME NEW a \in Nat, NEW b \in Nat
    PROVE  Min({a, b}) = IF a <= b THEN a ELSE b
  BY DEF Min

\* The last page is all there is.
LEMMA LastPage ==
    ASSUME posts \in Seq(Clock), NEW S \in SUBSET (1..Len(posts)), NEW page, IsPage(page, S)
    PROVE  Ends(page) => page = S
<1>1. Len(posts) \in Nat
  BY Rows
<1>2. IsFiniteSet(1..Len(posts))
  BY <1>1, FS_Interval
<1>3. IsFiniteSet(S) /\ IsFiniteSet(page) /\ page \subseteq S
  BY <1>2, FS_Subset DEF IsPage
<1>4. Cardinality(S) \in Nat /\ Cardinality(page) \in Nat
  BY <1>3, FS_CardinalityType
<1>5. Cardinality(page) = IF Limit <= Cardinality(S) THEN Limit ELSE Cardinality(S)
  BY <1>4, Smaller, HistoryAssumption DEF IsPage
<1>6. Ends(page) => Cardinality(page) = Cardinality(S)
  BY <1>4, <1>5, HistoryAssumption DEF Ends
<1> QED BY <1>3, <1>6, FS_Subset

LEMMA Instants ==
    ASSUME posts \in Seq(Clock), PostRoom
    PROVE  /\ Len(posts) \in Nat /\ Len(posts) <= MaxPosts /\ MaxPosts \in Nat /\ DOMAIN posts = 1..Len(posts)
           /\ \A m \in 1..Len(posts) : posts[m] \in Clock /\ posts[m] \in Nat
<1>1. Len(posts) \in Nat /\ Len(posts) <= MaxPosts
  BY Rows, RunningFinite, HistoryAssumption DEF PostRoom
<1> QED BY <1>1, Rows, HistoryAssumption DEF Clock

\* A walk some of whose fields are other ones.
LEMMA WalkEnds ==
    ASSUME NEW w \in Walk, NEW page \in SUBSET Msgs,
           walk' = [w EXCEPT !.stage = "done", !.got = @ \cup page]
    PROVE  /\ walk' \in Walk /\ walk'.stage = "done" /\ walk'.due = w.due /\ walk'.got = w.got \cup page
           /\ walk'.cursor = w.cursor /\ walk'.cut = w.cut
  BY DEF Walk

LEMMA WalkGoesOn ==
    ASSUME NEW w \in Walk, NEW page \in SUBSET Msgs, NEW c \in Nat, NEW x \in Clock,
           walk' = [w EXCEPT !.stage = "back", !.got = @ \cup page, !.cursor = c, !.cut = @ \cup {x}]
    PROVE  /\ walk' \in Walk /\ walk'.stage = "back" /\ walk'.due = w.due /\ walk'.got = w.got \cup page
           /\ walk'.cursor = c /\ walk'.cut = w.cut \cup {x}
  BY DEF Walk

LEMMA WalkCatchesUp ==
    ASSUME NEW w \in Walk, NEW new \in SUBSET Msgs, NEW page \in SUBSET Msgs,
           walk' = [w EXCEPT !.due = @ \cup new, !.got = @ \cup page, !.full = @ \/ ~ Ends(page)]
    PROVE  /\ walk' \in Walk /\ walk'.stage = w.stage /\ walk'.due = w.due \cup new
           /\ walk'.got = w.got \cup page /\ walk'.cursor = w.cursor /\ walk'.cut = w.cut
           /\ w.full \/ ~ Ends(page) => walk'.full
  BY DEF Walk

LEMMA WalkBegins ==
    ASSUME NEW d \in SUBSET Msgs, NEW w, w = [NoWalk EXCEPT !.due = d]
    PROVE  w \in Walk /\ w.due = d /\ w.got = {} /\ w.cursor = 0
  BY DEF NoWalk, Walk

LEMMA MessagesAreMsgs ==
    ASSUME HistoryInv, NEW S, S \subseteq 1..Len(posts)
    PROVE  S \in SUBSET Msgs
  BY Instants DEF HistoryInv, Msgs

\* A page back, from a walk that has everything but what is before its cursor.
LEMMA PagesBack ==
    ASSUME HistoryInv, NEW w \in Walk, NEW page, PageBack(w, page),
           Within(w),
           \A m \in w.due \ w.got : posts[m] \in w.cut \/ m \in Before(w.cursor)
    PROVE  WalkFits'
<1>1. /\ IsPage(page, Before(w.cursor)) /\ UNCHANGED <<clock, posts, pc, task>>
      /\ IF Ends(page)
         THEN walk' = [w EXCEPT !.stage = "done", !.got = @ \cup page]
         ELSE \E c \in Oldest(page) :
                walk' = [w EXCEPT !.stage = "back", !.got = @ \cup page, !.cursor = c,
                                  !.cut = @ \cup {posts[c]}]
  BY DEF PageBack
<1>2. /\ Len(posts) \in Nat /\ Len(posts) <= MaxPosts /\ MaxPosts \in Nat
      /\ DOMAIN posts = 1..Len(posts)
      /\ \A m \in 1..Len(posts) : posts[m] \in Clock /\ posts[m] \in Nat
  BY Instants DEF HistoryInv
<1>3. Before(w.cursor) \subseteq 1..Len(posts) /\ page \subseteq 1..Len(posts)
      /\ page \subseteq Before(w.cursor)
  BY <1>1, <1>2 DEF Before, IsPage
<1>4. CASE Ends(page)
  <2>1. page = Before(w.cursor)
    BY <1>1, <1>3, <1>4, LastPage DEF HistoryInv
  <2>2. /\ walk' \in Walk /\ walk'.stage = "done" /\ walk'.due = w.due /\ walk'.got = w.got \cup page
        /\ walk'.cursor = w.cursor /\ walk'.cut = w.cut
    <3>1. page \in SUBSET Msgs
      BY <1>3, MessagesAreMsgs
    <3>2. walk' = [w EXCEPT !.stage = "done", !.got = @ \cup page]
      BY <1>1, <1>4
    <3> QED BY <3>1, <3>2, WalkEnds
  <2>3. \A m \in walk'.due \ walk'.got : posts[m] \in walk'.cut
    BY <2>1, <2>2
  <2> QED BY <1>1, <1>3, <2>2, <2>3 DEF WalkFits, OlderLeft, NothingSkipped, Within
<1>5. CASE ~ Ends(page)
  <2>1. PICK c \in Oldest(page) :
           walk' = [w EXCEPT !.stage = "back", !.got = @ \cup page, !.cursor = c,
                             !.cut = @ \cup {posts[c]}]
    BY <1>1, <1>5
  <2>2. c \in page /\ c \in 1..Len(posts)
    BY <1>3, <2>1 DEF Oldest
  <2>3. /\ walk' \in Walk /\ walk'.stage = "back" /\ walk'.due = w.due /\ walk'.got = w.got \cup page
        /\ walk'.cursor = c /\ walk'.cut = w.cut \cup {posts[c]}
    <3>1. page \in SUBSET Msgs
      BY <1>3, MessagesAreMsgs
    <3>2. c \in Nat /\ posts[c] \in Clock
      BY <1>2, <2>2
    <3> QED BY <2>1, <3>1, <3>2, WalkGoesOn
  <2>4. ASSUME NEW m \in walk'.due \ walk'.got
        PROVE  posts[m] \in walk'.cut \/ posts[m] < posts[c]
    <3>1. CASE posts[m] \in w.cut
      BY <2>3, <3>1
    <3>2. CASE posts[m] \notin w.cut
      <4>1. m \in Before(w.cursor) \ page /\ m \in 1..Len(posts)
        BY <1>3, <2>3, <2>4, <3>2
      <4>2. posts[c] >= posts[m]
        BY <1>1, <2>2, <4>1 DEF IsPage
      <4> QED BY <1>2, <2>2, <2>3, <4>1, <4>2
    <3> QED BY <3>1, <3>2
  <2>5. walk'.cursor # 0 /\ walk'.cursor <= Len(posts) /\ walk'.due \subseteq 1..Len(posts)
        /\ walk'.got \subseteq 1..Len(posts)
    <3>1. c # 0 /\ c <= Len(posts)
      BY <1>2, <2>2
    <3>2. w.due \subseteq 1..Len(posts) /\ w.got \cup page \subseteq 1..Len(posts)
      BY <1>3 DEF Within
    <3> QED BY <2>3, <3>1, <3>2
  <2> QED BY <1>1, <2>3, <2>4, <2>5 DEF WalkFits, OlderLeft, NothingSkipped, Within
<1> QED BY <1>4, <1>5

LEMMA ChatOpened ==
    ASSUME HistoryInv, NEW page, Open(page)
    PROVE  WalkFits'
<1>0. PICK w : w = [NoWalk EXCEPT !.due = DOMAIN posts]
  OBVIOUS
<1>1. PageBack(w, page)
  BY <1>0 DEF Open
<1>2. Len(posts) \in Nat /\ Len(posts) <= MaxPosts /\ MaxPosts \in Nat /\ DOMAIN posts = 1..Len(posts)
  BY Instants DEF HistoryInv
<1>3. /\ w \in Walk /\ w.due = 1..Len(posts) /\ w.got = {} /\ w.cursor = 0
  <2>1. PICK d \in SUBSET Msgs : d = DOMAIN posts
    BY <1>2, MessagesAreMsgs
  <2>2. w = [NoWalk EXCEPT !.due = d]
    BY <1>0, <2>1
  <2> QED BY <1>2, <2>1, <2>2, WalkBegins
<1>4. \A m \in w.due \ w.got : m \in Before(w.cursor)
  BY <1>2, <1>3 DEF Before
<1> QED BY <1>1, <1>2, <1>3, <1>4, PagesBack DEF Within

LEMMA ChatPagedBack ==
    ASSUME HistoryInv, NEW page, GoBack(page)
    PROVE  WalkFits'
<1>0. PICK w : w = walk
  OBVIOUS
<1>1. PageBack(w, page) /\ w.stage = "back"
  BY <1>0 DEF GoBack
<1>2. Len(posts) \in Nat /\ Len(posts) <= MaxPosts /\ MaxPosts \in Nat /\ DOMAIN posts = 1..Len(posts)
  BY Instants DEF HistoryInv
<1>3. w \in Walk /\ Within(w)
  BY <1>0 DEF HistoryInv, WalkFits
<1>4. \A m \in w.due \ w.got : posts[m] \in w.cut \/ m \in Before(w.cursor)
  BY <1>0, <1>1, <1>2, <1>3 DEF HistoryInv, WalkFits, OlderLeft, Before, Within
<1> QED BY <1>1, <1>3, <1>4, PagesBack

LEMMA CaughtUp ==
    ASSUME HistoryInv, NEW page, CatchUp(page)
    PROVE  WalkFits'
<1>0. PICK w : w = walk
  OBVIOUS
<1>1. PICK c \in Newest(w.got) :
         /\ IsPage(page, After(c))
         /\ walk' = [w EXCEPT !.due = @ \cup After(c), !.got = @ \cup page,
                              !.full = @ \/ ~ Ends(page)]
  BY <1>0 DEF CatchUp
<1>2. w.stage = "done" /\ UNCHANGED <<clock, posts, pc, task>>
  BY <1>0 DEF CatchUp
<1>3. Len(posts) \in Nat /\ Len(posts) <= MaxPosts /\ MaxPosts \in Nat /\ DOMAIN posts = 1..Len(posts)
  BY Instants DEF HistoryInv
<1>4. After(c) \subseteq 1..Len(posts) /\ page \subseteq After(c)
  BY <1>1, <1>3 DEF After, IsPage
<1>5. /\ w \in Walk /\ Within(w)
      /\ \A m \in w.due \ w.got : posts[m] \in w.cut \/ w.full
  BY <1>0, <1>2 DEF HistoryInv, WalkFits, NothingSkipped
<1>6. /\ walk' \in Walk /\ walk'.stage = "done"
      /\ walk'.due = w.due \cup After(c) /\ walk'.got = w.got \cup page
      /\ walk'.cursor = w.cursor /\ walk'.cut = w.cut
      /\ w.full \/ ~ Ends(page) => walk'.full
  <2>2. After(c) \in SUBSET Msgs /\ page \in SUBSET Msgs
    <3>1. page \subseteq 1..Len(posts)
      BY <1>4
    <3> QED BY <1>4, <3>1, MessagesAreMsgs
  <2>3. w \in Walk
    BY <1>5
  <2>4. walk' = [w EXCEPT !.due = @ \cup After(c), !.got = @ \cup page, !.full = @ \/ ~ Ends(page)]
    BY <1>1
  <2>5. /\ walk' \in Walk /\ walk'.stage = w.stage
        /\ walk'.due = w.due \cup After(c) /\ walk'.got = w.got \cup page
        /\ walk'.cursor = w.cursor /\ walk'.cut = w.cut
        /\ w.full \/ ~ Ends(page) => walk'.full
    BY <2>2, <2>3, <2>4, WalkCatchesUp
  <2> QED BY <1>2, <2>5
<1>7. ASSUME NEW m \in walk'.due \ walk'.got PROVE posts[m] \in walk'.cut \/ walk'.full
  <2>1. CASE m \in w.due \ w.got
    BY <1>5, <1>6, <2>1
  <2>2. CASE m \in After(c) \ page
    <3>1. ~ Ends(page)
      BY <1>1, <1>4, <2>2, LastPage DEF HistoryInv
    <3> QED BY <1>6, <3>1
  <2> QED BY <1>6, <1>7, <2>1, <2>2
<1> QED BY <1>2, <1>4, <1>5, <1>6, <1>7 DEF WalkFits, OlderLeft, NothingSkipped, Within

\* The walk is as it was, and messages have at most been added.
LEMMA WalkStays ==
    ASSUME HistoryInv, walk' = walk, posts' \in Seq(Clock), Len(posts) <= Len(posts'),
           \A m \in 1..Len(posts) : posts'[m] = posts[m]
    PROVE  WalkFits'
<1>1. Len(posts) \in Nat /\ Len(posts') \in Nat
  BY Rows DEF HistoryInv
<1>2. walk.cursor \in Nat /\ Within(walk)
  BY DEF HistoryInv, WalkFits, Walk
<1>3. Within(walk)'
  BY <1>1, <1>2 DEF Within
<1>4. \A m \in walk.due \ walk.got : posts'[m] = posts[m]
  BY <1>2 DEF Within
<1>5. OlderLeft'
  <2>1. ASSUME walk.stage = "back"
        PROVE  walk.cursor # 0 /\ posts'[walk.cursor] = posts[walk.cursor]
    BY <1>1, <1>2, <2>1 DEF HistoryInv, WalkFits, OlderLeft, Within
  <2> QED BY <1>4, <2>1 DEF HistoryInv, WalkFits, OlderLeft
<1>6. NothingSkipped'
  BY <1>4 DEF HistoryInv, WalkFits, NothingSkipped
<1> QED BY <1>3, <1>5, <1>6 DEF HistoryInv, WalkFits, Walk

LEMMA WalksKeep ==
    ASSUME HistoryInv, NEW page, Open(page) \/ GoBack(page) \/ CatchUp(page)
    PROVE  HistoryInv'
<1>1. WalkFits'
  BY ChatOpened, ChatPagedBack, CaughtUp
<1>2. UNCHANGED <<clock, posts, pc, task, faults>>
  BY DEF Open, GoBack, CatchUp, PageBack, Works
<1>3. PostRoom'
  BY <1>2 DEF HistoryInv, PostRoom, Running
<1> QED BY <1>1, <1>2, <1>3 DEF HistoryInv, Handling, PostFits

LEMMA ClockTicks ==
    ASSUME HistoryInv, Tick
    PROVE  HistoryInv'
<1>1. clock' \in Clock /\ UNCHANGED <<posts, walk, pc, task, faults>>
  BY HistoryAssumption DEF Tick, Works, HistoryInv, Clock
<1>2. WalkFits'
  BY <1>1 DEF HistoryInv, WalkFits, OlderLeft, NothingSkipped, Within
<1>3. PostRoom'
  BY <1>1 DEF HistoryInv, PostRoom, Running
<1> QED BY <1>1, <1>2, <1>3 DEF HistoryInv, Handling, PostFits

LEMMA PostBegins ==
    ASSUME HistoryInv, NEW p \in Procs, BeginPost(p)
    PROVE  HistoryInv'
<1>0. PICK t : t = [at |-> clock]
  OBVIOUS
<1>1. /\ Len(posts) + Cardinality(Running({"insert"})) < MaxPosts
      /\ At(p, "insert", t) /\ UNCHANGED <<clock, posts, walk, faults>>
  BY <1>0 DEF BeginPost, Works
<1>2. Handling' /\ pc'[p] = "insert" /\ task'[p] = t /\ Others(p)
  BY <1>1, Moves DEF HistoryInv
<1>3. \A q \in Procs : PostFits(q)'
  BY <1>0, <1>2 DEF HistoryInv, PostFits, Others
<1>4. PostRoom'
  <2>1. /\ Cardinality(Running({"insert"})') <= Cardinality(Running({"insert"})) + 1
        /\ Cardinality(Running({"insert"})) \in Nat /\ Cardinality(Running({"insert"})') \in Nat
    BY <1>2, OneEnters, RunningFinite, RunningPrimed
  <2> QED BY <1>1, <2>1, Rows, HistoryAssumption DEF PostRoom, HistoryInv
<1>5. WalkFits'
  BY <1>1 DEF HistoryInv, WalkFits, OlderLeft, NothingSkipped, Within
<1> QED BY <1>1, <1>2, <1>3, <1>4, <1>5 DEF HistoryInv

LEMMA PostEnds ==
    ASSUME HistoryInv, NEW p \in Procs, EndPost(p)
    PROVE  HistoryInv'
<1>1. /\ pc[p] = "insert" /\ posts' = Append(posts, task[p].at) /\ Answer(p)
      /\ UNCHANGED <<clock, walk, faults>>
  BY DEF EndPost, Works
<1>2. task[p].at \in Clock
  BY <1>1 DEF HistoryInv, PostFits
<1>3. /\ posts' \in Seq(Clock) /\ Len(posts') = Len(posts) + 1 /\ Len(posts) \in Nat
      /\ \A m \in 1..Len(posts) : posts'[m] = posts[m]
  BY <1>1, <1>2, Appended, Rows DEF HistoryInv
<1>4. Handling' /\ pc'[p] = "idle" /\ task'[p] = NoTask /\ Others(p)
  BY <1>1, Answered DEF HistoryInv
<1>5. \A q \in Procs : PostFits(q)'
  BY <1>4 DEF HistoryInv, PostFits, Others
<1>6. PostRoom'
  <2>1. Cardinality(Running({"insert"})') <= Cardinality(Running({"insert"})) - 1
    BY <1>1, <1>4, OneLeaves
  <2>2. Cardinality(Running({"insert"})) \in Nat /\ Cardinality(Running({"insert"})') \in Nat
    BY RunningFinite, RunningPrimed
  <2> QED BY <1>3, <2>1, <2>2, HistoryAssumption DEF PostRoom, HistoryInv
<1>7. WalkFits'
  BY <1>1, <1>3, WalkStays
<1> QED BY <1>1, <1>3, <1>4, <1>5, <1>6, <1>7 DEF HistoryInv

LEMMA PostsBreakOff ==
    ASSUME HistoryInv, HistoryRestart \/ \E p \in Procs : PostFails(p)
    PROVE  HistoryInv'
<1>1. UNCHANGED <<clock, posts, walk>> /\ faults' \in 0..MaxFaults
  BY FaultsCounted DEF HistoryInv, HistoryRestart, PostFails
<1>2. /\ Handling'
      /\ \A q \in Procs : \/ pc'[q] = "idle" /\ task'[q] = NoTask
                          \/ pc'[q] = pc[q] /\ task'[q] = task[q]
  <2>1. ASSUME HistoryRestart
        PROVE  Handling' /\ \A q \in Procs : pc'[q] = "idle" /\ task'[q] = NoTask
    BY <2>1, Stopped0 DEF HistoryRestart
  <2>2. ASSUME NEW p \in Procs, PostFails(p)
        PROVE  Handling' /\ pc'[p] = "idle" /\ task'[p] = NoTask /\ Others(p)
    <3>1. Answer(p)
      BY <2>2 DEF PostFails, Fails
    <3> QED BY <3>1, Answered DEF HistoryInv
  <2> QED BY <2>1, <2>2 DEF Others
<1>3. \A q \in Procs : PostFits(q)'
  BY <1>2 DEF HistoryInv, PostFits
<1>4. PostRoom'
  <2>1. \A q \in Procs : pc'[q] \in {"insert"} => pc[q] \in {"insert"}
    BY <1>2
  <2>2. Cardinality(Running({"insert"})') <= Cardinality(Running({"insert"}))
    BY <2>1, NobodyEnters
  <2> QED BY <1>1, <2>2, RunningFinite, RunningPrimed, Rows, HistoryAssumption DEF HistoryInv, PostRoom
<1>5. WalkFits'
  BY <1>1 DEF HistoryInv, WalkFits, OlderLeft, NothingSkipped, Within
<1> QED BY <1>1, <1>2, <1>3, <1>4, <1>5 DEF HistoryInv

LEMMA HistoryStarts ==
    ASSUME HandlersInit, HistoryInit
    PROVE  HistoryInv
<1>1. Handling /\ faults \in 0..MaxFaults /\ \A p \in Procs : PostFits(p)
  BY HandlersAssumption DEF HandlersInit, Handling, PostFits
<1>2. clock \in Clock /\ posts \in Seq(Clock) /\ Len(posts) = 0
  BY HistoryAssumption DEF HistoryInit, Clock
<1>3. WalkFits
  BY <1>2 DEF HistoryInit, NoWalk, WalkFits, Walk, Within, OlderLeft, NothingSkipped
<1>4. PostRoom
  <2>1. Running({"insert"}) = {}
    BY DEF HandlersInit, Running
  <2>2. Cardinality(Running({"insert"})) = 0
    BY <2>1, FS_EmptySet
  <2> QED BY <1>2, <2>2, HistoryAssumption DEF PostRoom
<1> QED BY <1>1, <1>2, <1>3, <1>4 DEF HistoryInv

LEMMA HistoryKeeps ==
    ASSUME HistoryInv, HistoryNext
    PROVE  HistoryInv'
  BY ClockTicks, PostBegins, PostEnds, PostsBreakOff, WalksKeep DEF HistoryNext

-----------------------------------------------------------------------------
(* Ranks.  A folder's place is not beyond the number of folders there had  *)
(* been; an INSERT of a first UPI account that has met no other finds no   *)
(* account linked.                                                         *)
LinkOf == [upi : Upis, first : BOOLEAN, met : BOOLEAN]
FolderOf == [row : Folder, chats : SUBSET Filed]

After0(row) ==
    /\ row.live /\ row.order <= row.seen /\ row.seen <= Len(folders)
    /\ \A i \in Live : i <= row.seen => folders[i].order < row.order

RankFits(p) ==
    \/ pc[p] = "idle" /\ task[p] = NoTask
    \/ pc[p] = "folder" /\ task[p] \in FolderOf /\ After0(task[p].row)
    \/ /\ pc[p] = "link" /\ task[p] \in LinkOf
       /\ task[p].first /\ ~ task[p].met => \A a \in Upis : upi[a] = "none"

FoldersFit ==
    /\ folders \in Seq(Folder) /\ items \subseteq Live \X Filed
    /\ \A j \in 1..Len(folders) : folders[j].order <= folders[j].seen /\ folders[j].seen < j
    /\ \A i, j \in Live : i <= folders[j].seen => folders[i].order < folders[j].order

OnePrimary ==
    /\ upi \in [Upis -> {"none", "linked", "primary", "second"}]
    /\ \A a, b \in Upis : upi[a] = "primary" /\ upi[b] = "primary" => a = b

RankRoom == Len(folders) + Cardinality(Running({"folder"})) <= MaxFolders

RanksInv ==
    /\ Handling /\ faults \in 0..MaxFaults
    /\ FoldersFit /\ OnePrimary /\ RankRoom
    /\ \A p \in Procs : RankFits(p)

LEMMA RanksFollow ==
    ASSUME RanksInv
    PROVE  RanksTypeOK /\ RanksAreApart
<1>1. Len(folders) <= MaxFolders
  BY RunningFinite, RanksAssumption, Rows DEF RanksInv, RankRoom, FoldersFit
<1>2. RanksTypeOK
  BY <1>1 DEF RanksInv, RanksTypeOK, FoldersFit, OnePrimary, RankFits, LinkOf, FolderOf
<1>3. Cardinality({a \in Upis : upi[a] = "primary"}) <= 1
  <2>1. \A x, y \in {a \in Upis : upi[a] = "primary"} : x = y
    BY DEF RanksInv, OnePrimary
  <2> QED BY <2>1, OneAtMost
<1> QED BY <1>2, <1>3 DEF RanksInv, FoldersFit, RanksAreApart

\* The folders there are have places below the next one.
LEMMA NextOrderIsAfter ==
    ASSUME RanksInv, Len(folders) < MaxFolders
    PROVE  /\ NextOrder \in 0..Len(folders)
           /\ \A i \in Live : folders[i].order < NextOrder
<1>1. /\ Len(folders) \in Nat /\ DOMAIN folders = 1..Len(folders)
      /\ \A i \in 1..Len(folders) : /\ folders[i] \in Folder /\ folders[i].order \in Nat
                                    /\ folders[i].order < Len(folders)
  <2>1. Len(folders) \in Nat /\ DOMAIN folders = 1..Len(folders)
        /\ \A i \in 1..Len(folders) : folders[i] \in Folder
    BY Rows DEF RanksInv, FoldersFit
  <2>2. ASSUME NEW i \in 1..Len(folders)
        PROVE  folders[i].order \in Nat /\ folders[i].order < Len(folders)
    <3>1. folders[i].order \in Nat /\ folders[i].seen \in Nat
      BY <2>1, RanksAssumption DEF Folder
    <3> QED BY <2>1, <3>1 DEF RanksInv, FoldersFit
  <2> QED BY <2>1, <2>2
<1>2. CASE Live = {}
  BY <1>1, <1>2 DEF NextOrder
<1>3. CASE Live # {}
  <2>1. Live \subseteq 1..Len(folders)
    BY <1>1 DEF Live
  <2>2. Orders \subseteq 0..Len(folders) /\ Orders # {}
    <3>1. \A i \in Live : folders[i].order \in 0..Len(folders)
      BY <1>1, <2>1
    <3> QED BY <1>3, <3>1 DEF Orders
  <2>3. IsFiniteSet(Orders)
    <3>1. IsFiniteSet(0..Len(folders))
      BY <1>1, FS_Interval
    <3> QED BY <2>2, <3>1, FS_Subset
  <2>4. \A x \in Orders : x \in Int
    BY <2>2
  <2>5. Max(Orders) \in Orders /\ \A y \in Orders : Max(Orders) >= y
    BY <2>2, <2>3, <2>4, Largest
  <2>6. PICK i \in Live : Max(Orders) = folders[i].order
    BY <2>5 DEF Orders
  <2>7. NextOrder = Max(Orders) + 1
    BY <1>3 DEF NextOrder
  <2>8. Max(Orders) \in Nat /\ Max(Orders) < Len(folders)
    BY <1>1, <2>1, <2>6
  <2>9. ASSUME NEW k \in Live PROVE folders[k].order < NextOrder
    <3>1. folders[k].order \in Orders /\ folders[k].order \in Nat
      BY <1>1, <2>1 DEF Orders
    <3> QED BY <2>5, <2>7, <2>8, <3>1
  <2> QED BY <1>1, <2>7, <2>8, <2>9
<1> QED BY <1>2, <1>3

FoldersKept ==
    /\ Len(folders) <= Len(folders')
    /\ \A i \in Live' : i <= Len(folders) => i \in Live /\ folders'[i].order = folders[i].order
UpisKept == \A a \in Upis : upi[a] = "none" => upi'[a] = "none"

LEMMA RankStays ==
    ASSUME FoldersFit, FoldersFit', FoldersKept, UpisKept,
           NEW q \in Procs, RankFits(q), pc'[q] = pc[q], task'[q] = task[q]
    PROVE  RankFits(q)'
<1>1. CASE pc[q] = "folder" /\ task[q] \in FolderOf /\ After0(task[q].row)
  <2> DEFINE row == task[q].row
  <2>1. row \in Folder /\ Len(folders) \in Nat /\ Len(folders') \in Nat
    BY <1>1, Rows DEF FolderOf, FoldersFit
  <2>2. row.live /\ row.order <= row.seen /\ row.seen <= Len(folders) /\ row.seen \in Nat
    BY <1>1, <2>1 DEF After0, Folder
  <2>3. ASSUME NEW i \in Live', i <= row.seen PROVE folders'[i].order < row.order
    <3>1. i <= Len(folders) /\ i \in Nat
      BY <2>1, <2>2, <2>3, Rows DEF Live, FoldersFit
    <3> QED BY <1>1, <2>3, <3>1 DEF FoldersKept, After0
  <2>4. row.seen <= Len(folders')
    BY <2>1, <2>2 DEF FoldersKept
  <2>5. After0(row)'
    BY <2>2, <2>3, <2>4 DEF After0
  <2> QED BY <1>1, <2>5 DEF RankFits
<1>2. CASE pc[q] = "link" /\ task[q] \in LinkOf
           /\ (task[q].first /\ ~ task[q].met => \A a \in Upis : upi[a] = "none")
  BY <1>2 DEF UpisKept, RankFits
<1>3. CASE pc[q] = "idle" /\ task[q] = NoTask
  BY <1>3 DEF RankFits
<1> QED BY <1>1, <1>2, <1>3 DEF RankFits

LEMMA FoldersSame ==
    ASSUME RanksInv, folders' = folders
    PROVE  FoldersKept /\ Live' = Live
           /\ (items' \subseteq Live' \X Filed => FoldersFit')
<1>1. Live' = Live
  BY DEF Live
<1>2. FoldersKept
  BY <1>1, Rows DEF FoldersKept, RanksInv, FoldersFit
<1> QED BY <1>1, <1>2 DEF RanksInv, FoldersFit

LEMMA RankRoomKept ==
    ASSUME RanksInv, Len(folders') = Len(folders),
           \A q \in Procs : pc'[q] = "folder" => pc[q] = "folder"
    PROVE  RankRoom'
<1>1. Cardinality(Running({"folder"})') <= Cardinality(Running({"folder"}))
  BY NobodyEnters
<1> QED BY <1>1, RunningFinite, RunningPrimed, Rows, RanksAssumption DEF RanksInv, RankRoom, FoldersFit

\* A request goes from one await to another.
LEMMA RankMoves ==
    ASSUME RanksInv, NEW p \in Procs, NEW l, NEW t, At(p, l, t), faults' \in 0..MaxFaults,
           FoldersFit', FoldersKept, UpisKept, OnePrimary', RankRoom', RankFits(p)'
    PROVE  RanksInv'
<1>1. Handling' /\ Others(p)
  BY Moves DEF RanksInv
<1>2. \A q \in Procs : RankFits(q)'
  BY <1>1, RankStays DEF RanksInv, Others
<1> QED BY <1>1, <1>2 DEF RanksInv

\* Nobody moves.
LEMMA RanksChange ==
    ASSUME RanksInv, UNCHANGED <<pc, task, faults>>,
           FoldersFit', FoldersKept, UpisKept, OnePrimary', Len(folders') = Len(folders)
    PROVE  RanksInv'
<1>1. \A q \in Procs : RankFits(q)'
  BY RankStays DEF RanksInv
<1>2. RankRoom'
  BY RankRoomKept
<1> QED BY <1>1, <1>2 DEF RanksInv, Handling

LEMMA RankAnswered ==
    ASSUME RanksInv, NEW p \in Procs, Answer(p)
    PROVE  /\ RankFits(p)' /\ At(p, "idle", NoTask) /\ Others(p) /\ pc'[p] = "idle"
           /\ Len(folders') = Len(folders) => RankRoom'
<1>1. At(p, "idle", NoTask) /\ pc'[p] = "idle" /\ task'[p] = NoTask /\ Others(p)
  BY Answered DEF Answer, RanksInv
<1>2. \A q \in Procs : pc'[q] = "folder" => pc[q] = "folder"
  BY <1>1 DEF Others
<1> QED BY <1>1, <1>2, RankRoomKept DEF RankFits

LEMMA FolderBegins ==
    ASSUME RanksInv, Works, NEW p \in Procs, NEW chats \in SUBSET Filed, BeginFolder(p, chats)
    PROVE  RanksInv'
<1>0. PICK row, t : /\ row = [order |-> NextOrder, live |-> TRUE, seen |-> Len(folders)]
                    /\ t = [row |-> row, chats |-> chats]
  OBVIOUS
<1>1. /\ pc[p] = "idle" /\ Len(folders) + Cardinality(Running({"folder"})) < MaxFolders
      /\ At(p, "folder", t) /\ UNCHANGED <<folders, items, upi, faults>>
  BY <1>0 DEF BeginFolder, Works, rankTables
<1>2. Len(folders) \in Nat /\ Len(folders) < MaxFolders
  BY <1>1, RunningFinite, Rows, RanksAssumption DEF RanksInv, FoldersFit
<1>3. NextOrder \in 0..Len(folders) /\ \A i \in Live : folders[i].order < NextOrder
  BY <1>2, NextOrderIsAfter
<1>4. row \in Folder
  BY <1>0, <1>2, <1>3, RanksAssumption DEF Folder
<1>5. FoldersKept /\ Live' = Live /\ FoldersFit'
  BY <1>1, FoldersSame DEF RanksInv, FoldersFit
<1>6. pc'[p] = "folder" /\ task'[p] = t /\ Others(p)
  BY <1>1, Moves DEF RanksInv
<1>7. RankFits(p)'
  <2>1. After0(row)'
    BY <1>0, <1>1, <1>2, <1>3, <1>5 DEF After0
  <2>2. t \in FolderOf
    BY <1>0, <1>4 DEF FolderOf
  <2> QED BY <1>0, <1>6, <2>1, <2>2 DEF RankFits
<1>8. RankRoom'
  <2>1. /\ Cardinality(Running({"folder"})') <= Cardinality(Running({"folder"})) + 1
        /\ Cardinality(Running({"folder"})) \in Nat /\ Cardinality(Running({"folder"})') \in Nat
    BY <1>6, OneEnters, RunningFinite, RunningPrimed
  <2> QED BY <1>1, <1>2, <2>1, RanksAssumption DEF RankRoom
<1>9. UpisKept /\ OnePrimary'
  BY <1>1 DEF UpisKept, OnePrimary, RanksInv
<1> QED BY <1>1, <1>5, <1>7, <1>8, <1>9, RankMoves DEF RanksInv

LEMMA FolderCommits ==
    ASSUME RanksInv, Works, NEW p \in Procs, CommitFolder(p)
    PROVE  RanksInv'
<1> DEFINE row == task[p].row
           n == Len(folders)
<1>1. /\ pc[p] = "folder" /\ folders' = Append(folders, row)
      /\ items' = items \cup ({Len(folders')} \X task[p].chats) /\ Answer(p) /\ UNCHANGED <<upi, faults>>
  BY DEF CommitFolder, Works
<1>2. task[p] \in FolderOf /\ After0(row) /\ row \in Folder /\ n \in Nat /\ folders \in Seq(Folder)
  <2>1. task[p] \in FolderOf /\ After0(row)
    BY <1>1 DEF RanksInv, RankFits
  <2> QED BY <2>1, Rows DEF FolderOf, RanksInv, FoldersFit
<1>3. /\ folders' \in Seq(Folder) /\ Len(folders') = n + 1 /\ folders'[n + 1] = row
      /\ \A i \in 1..n : folders'[i] = folders[i]
      /\ DOMAIN folders = 1..n /\ DOMAIN folders' = 1..(n + 1)
  <2>1. /\ folders' \in Seq(Folder) /\ Len(folders') = n + 1 /\ folders'[n + 1] = row
        /\ \A i \in 1..n : folders'[i] = folders[i]
    BY <1>1, <1>2, Appended
  <2> QED BY <1>2, <2>1, Rows
<1>4. Live' = Live \cup {n + 1} /\ \A i \in Live : i \in 1..n
  BY <1>2, <1>3 DEF Live, After0
<1>5. FoldersKept
  BY <1>2, <1>3, <1>4 DEF FoldersKept
<1>6. row.order \in Nat /\ row.seen \in Nat /\ row.order <= row.seen /\ row.seen < n + 1
      /\ \A i \in Live : i <= row.seen => folders[i].order < row.order
  BY <1>2, RanksAssumption DEF Folder, After0
<1>7. FoldersFit'
  <2>1. items' \subseteq Live' \X Filed
    <3>1. task[p].chats \subseteq Filed /\ items \subseteq Live \X Filed
      BY <1>2 DEF FolderOf, RanksInv, FoldersFit
    <3> QED BY <1>1, <1>3, <1>4, <3>1
  <2>2. ASSUME NEW j \in 1..Len(folders')
        PROVE  folders'[j].order <= folders'[j].seen /\ folders'[j].seen < j
    <3>1. CASE j = n + 1
      BY <1>3, <1>6, <3>1
    <3>2. CASE j \in 1..n
      BY <1>3, <3>2 DEF RanksInv, FoldersFit
    <3> QED BY <1>2, <1>3, <3>1, <3>2
  <2>3. ASSUME NEW i \in Live', NEW j \in Live', i <= folders'[j].seen
        PROVE  folders'[i].order < folders'[j].order
    <3>1. i \in 1..n
      <4>1. folders'[j].seen < j /\ j <= n + 1 /\ folders'[j].seen \in Nat /\ i \in 1..(n + 1) /\ j \in Nat
        <5>1. j \in 1..(n + 1) /\ i \in 1..(n + 1) /\ folders'[j] \in Folder
          BY <1>2, <1>3, <1>4, Rows
        <5> QED BY <1>2, <1>3, <2>2, <5>1, RanksAssumption DEF Folder
      <4> QED BY <1>2, <2>3, <4>1
    <3>2. i \in Live
      BY <1>2, <1>4, <3>1
    <3>3. CASE j = n + 1
      BY <1>3, <1>6, <2>3, <3>1, <3>2, <3>3
    <3>4. CASE j \in Live
      BY <1>3, <1>4, <2>3, <3>1, <3>2, <3>4 DEF RanksInv, FoldersFit
    <3> QED BY <1>4, <3>3, <3>4
  <2> QED BY <1>3, <2>1, <2>2, <2>3 DEF FoldersFit
<1>8. RankFits(p)' /\ At(p, "idle", NoTask) /\ Others(p) /\ pc'[p] = "idle"
  BY <1>1, RankAnswered
<1>9. RankRoom'
  <2>1. Cardinality(Running({"folder"})') <= Cardinality(Running({"folder"})) - 1
    BY <1>1, <1>8, OneLeaves
  <2>2. Cardinality(Running({"folder"})) \in Nat /\ Cardinality(Running({"folder"})') \in Nat
    BY RunningFinite, RunningPrimed
  <2>3. n + Cardinality(Running({"folder"})) <= MaxFolders
    BY DEF RanksInv, RankRoom
  <2> QED BY <1>2, <1>3, <2>1, <2>2, <2>3, RanksAssumption DEF RankRoom
<1>10. UpisKept /\ OnePrimary'
  BY <1>1 DEF UpisKept, OnePrimary, RanksInv
<1> QED BY <1>1, <1>5, <1>7, <1>8, <1>9, <1>10, RankMoves DEF RanksInv

LEMMA FoldersChange ==
    ASSUME RanksInv, Works,
           \/ \E i \in Live : \/ UpdateFolder(i) \/ DeleteFolder(i)
                              \/ \E c \in Filed : FileChat(i, c) \/ UnfileChat(i, c)
    PROVE  RanksInv'
<1>1. ASSUME NEW i \in Live, UpdateFolder(i) PROVE RanksInv'
  <2>1. UNCHANGED <<folders, items, upi, pc, task, faults>>
    BY <1>1 DEF UpdateFolder, rankVars, rankTables, handlers
  <2>2. FoldersKept /\ FoldersFit'
    BY <2>1, FoldersSame DEF RanksInv, FoldersFit
  <2> QED BY <2>1, <2>2, RanksChange DEF RanksInv, OnePrimary, UpisKept
<1>2. ASSUME NEW i \in Live, DeleteFolder(i) PROVE RanksInv'
  <2> DEFINE row == [folders[i] EXCEPT !.live = FALSE]
  <2>1. /\ folders' = [folders EXCEPT ![i].live = FALSE] /\ items' = {x \in items : x[1] # i}
        /\ UNCHANGED <<upi, pc, task, faults>>
    BY <1>2 DEF DeleteFolder, Works
  <2>2. i \in 1..Len(folders) /\ folders \in Seq(Folder) /\ folders[i] \in Folder
    BY Rows DEF Live, RanksInv, FoldersFit
  <2>3. row \in Folder /\ row.order = folders[i].order /\ row.seen = folders[i].seen /\ ~ row.live
    BY <2>2 DEF Folder
  <2>4. folders' = [folders EXCEPT ![i] = row]
    BY <2>1
  <2>5. /\ folders' \in Seq(Folder) /\ Len(folders') = Len(folders) /\ folders'[i] = row
        /\ \A j \in 1..Len(folders) : j # i => folders'[j] = folders[j]
    <3> HIDE DEF row
    <3> QED BY <2>2, <2>3, <2>4, Rewritten
  <2>6. DOMAIN folders = 1..Len(folders) /\ DOMAIN folders' = 1..Len(folders) /\ Len(folders) \in Nat
    BY <2>2, <2>5, Rows
  <2>7. \A j \in 1..Len(folders) : /\ folders'[j].order = folders[j].order
                                   /\ folders'[j].seen = folders[j].seen
    BY <2>3, <2>5
  <2>8. Live' = Live \ {i}
    <3> HIDE DEF row
    <3> QED BY <2>2, <2>3, <2>5, <2>6 DEF Live
  <2>9. FoldersKept
    BY <2>5, <2>6, <2>7, <2>8 DEF FoldersKept, Live
  <2>10. FoldersFit'
    <3>1. items' \subseteq Live' \X Filed
      BY <2>1, <2>8 DEF RanksInv, FoldersFit
    <3>2. \A j \in Live' : j \in Live /\ j \in 1..Len(folders)
      BY <2>6, <2>8 DEF Live
    <3> HIDE DEF row
    <3> QED BY <2>5, <2>7, <3>1, <3>2 DEF RanksInv, FoldersFit
  <2> QED BY <2>1, <2>5, <2>9, <2>10, RanksChange DEF RanksInv, OnePrimary, UpisKept
<1>3. ASSUME NEW i \in Live, NEW c \in Filed, FileChat(i, c) \/ UnfileChat(i, c) PROVE RanksInv'
  <2>1. /\ items' \subseteq items \cup {<<i, c>>} /\ UNCHANGED <<folders, upi, pc, task, faults>>
    BY <1>3 DEF FileChat, UnfileChat, Works
  <2>2. FoldersKept /\ FoldersFit'
    <3>1. Live' = Live
      BY <2>1, FoldersSame
    <3>2. items' \subseteq Live' \X Filed
      BY <2>1, <3>1 DEF RanksInv, FoldersFit
    <3> QED BY <2>1, <3>2, FoldersSame
  <2> QED BY <2>1, <2>2, RanksChange DEF RanksInv, OnePrimary, UpisKept
<1> QED BY <1>1, <1>2, <1>3

LEMMA LinkBegins ==
    ASSUME RanksInv, Works, NEW p \in Procs, NEW a \in Upis, BeginLink(p, a)
    PROVE  RanksInv'
<1>0. PICK t : t = [upi |-> a, first |-> Linked = {}, met |-> FALSE]
  OBVIOUS
<1>1. At(p, "link", t) /\ UNCHANGED <<folders, items, upi, faults>>
  BY <1>0 DEF BeginLink, Works, rankTables
<1>2. pc'[p] = "link" /\ task'[p] = t /\ Others(p)
  BY <1>1, Moves DEF RanksInv
<1>3. RankFits(p)'
  <2>1. t \in LinkOf
    BY <1>0 DEF LinkOf
  <2>2. t.first => \A b \in Upis : upi'[b] = "none"
    BY <1>0, <1>1 DEF Linked
  <2> QED BY <1>2, <2>1, <2>2 DEF RankFits
<1>4. FoldersKept /\ FoldersFit'
  BY <1>1, FoldersSame DEF RanksInv, FoldersFit
<1>5. RankRoom'
  BY <1>1, <1>2, RankRoomKept DEF Others
<1>6. UpisKept /\ OnePrimary'
  BY <1>1 DEF UpisKept, OnePrimary, RanksInv
<1> QED BY <1>1, <1>3, <1>4, <1>5, <1>6, RankMoves DEF RanksInv

LEMMA LinkEnds ==
    ASSUME RanksInv, Works, NEW p \in Procs, EndLink(p)
    PROVE  RanksInv'
<1> DEFINE t == task[p]
           rank == IF ~ t.first THEN "linked" ELSE IF t.met THEN "second" ELSE "primary"
<1>1. /\ pc[p] = "link" /\ upi' = [upi EXCEPT ![t.upi] = IF @ = "none" THEN rank ELSE @]
      /\ pc' = [pc EXCEPT ![p] = "idle"] /\ Met(p) /\ UNCHANGED <<folders, items, faults>>
  BY DEF EndLink, Works
<1>2. /\ t \in LinkOf
      /\ t.first /\ ~ t.met => \A a \in Upis : upi[a] = "none"
  BY <1>1 DEF RanksInv, RankFits
<1>3. FoldersKept /\ FoldersFit' /\ Live' = Live
  BY <1>1, FoldersSame DEF RanksInv, FoldersFit
<1>4. OnePrimary'
  <2>1. /\ upi' \in [Upis -> {"none", "linked", "primary", "second"}]
        /\ \A a \in Upis : a # t.upi => upi'[a] = upi[a]
    BY <1>1, <1>2 DEF RanksInv, OnePrimary, LinkOf
  <2>2. CASE t.first /\ ~ t.met
    BY <1>2, <2>1, <2>2 DEF OnePrimary
  <2>3. CASE ~ (t.first /\ ~ t.met)
    <3>1. \A a \in Upis : upi'[a] = "primary" => upi[a] = "primary"
      BY <1>1, <1>2, <2>3 DEF RanksInv, OnePrimary, LinkOf
    <3> QED BY <2>1, <3>1 DEF RanksInv, OnePrimary
  <2> QED BY <2>2, <2>3
<1>5. /\ Handling' /\ pc'[p] = "idle" /\ task'[p] = NoTask
      /\ \A q \in Procs \ {p} : pc'[q] = pc[q]
      /\ \A q \in Procs \ {p} :
            task'[q] = IF pc[q] = "link" THEN [task[q] EXCEPT !.met = TRUE] ELSE task[q]
  BY <1>1 DEF Met, Handling, RanksInv
<1>6. ASSUME NEW q \in Procs PROVE RankFits(q)'
  <2>1. CASE q = p
    BY <1>5, <2>1 DEF RankFits
  <2>2. CASE q # p /\ pc[q] = "link"
    <3>1. task[q] \in LinkOf
      BY <2>2 DEF RanksInv, RankFits
    <3>2. task'[q] \in LinkOf /\ task'[q].met
      BY <1>5, <2>2, <3>1 DEF LinkOf
    <3> QED BY <1>5, <2>2, <3>2 DEF RankFits
  <2>3. CASE q # p /\ pc[q] # "link"
    <3>1. RankFits(q) /\ pc'[q] = pc[q] /\ task'[q] = task[q]
      BY <1>5, <2>3 DEF RanksInv
    <3> QED BY <1>1, <1>3, <2>3, <3>1 DEF RankFits, After0
  <2> QED BY <2>1, <2>2, <2>3
<1>7. RankRoom'
  BY <1>1, <1>5, RankRoomKept
<1> QED BY <1>1, <1>3, <1>4, <1>5, <1>6, <1>7 DEF RanksInv

LEMMA UnlinksKeep ==
    ASSUME RanksInv, Works, NEW a \in Upis, UnlinkUpi(a)
    PROVE  RanksInv'
<1>1. upi' = [upi EXCEPT ![a] = "none"] /\ UNCHANGED <<folders, items, pc, task, faults>>
  BY DEF UnlinkUpi, Works
<1>2. FoldersKept /\ FoldersFit'
  BY <1>1, FoldersSame DEF RanksInv, FoldersFit
<1>3. UpisKept /\ OnePrimary'
  BY <1>1 DEF UpisKept, OnePrimary, RanksInv
<1> QED BY <1>1, <1>2, <1>3, RanksChange

LEMMA RankFaultsKeep ==
    ASSUME RanksInv, RanksRestart \/ \E p \in Procs : RankFails(p)
    PROVE  RanksInv'
<1>1. UNCHANGED <<folders, items, upi>> /\ faults' \in 0..MaxFaults
  BY FaultsCounted DEF RanksInv, RanksRestart, RankFails, rankTables
<1>2. FoldersKept /\ FoldersFit' /\ UpisKept /\ OnePrimary'
  BY <1>1, FoldersSame DEF RanksInv, FoldersFit, UpisKept, OnePrimary
<1>3. ASSUME NEW p \in Procs, RankFails(p) PROVE RanksInv'
  <2>1. Answer(p)
    BY <1>3 DEF RankFails, Fails
  <2>2. RankFits(p)' /\ At(p, "idle", NoTask) /\ RankRoom'
    BY <1>1, <2>1, RankAnswered
  <2> QED BY <1>1, <1>2, <2>2, RankMoves
<1>4. ASSUME RanksRestart PROVE RanksInv'
  <2>1. Handling' /\ \A q \in Procs : pc'[q] = "idle" /\ task'[q] = NoTask
    BY <1>4, Stopped0 DEF RanksRestart
  <2>2. RankRoom'
    BY <1>1, <2>1, RankRoomKept
  <2> QED BY <1>1, <1>2, <2>1, <2>2 DEF RanksInv, RankFits
<1> QED BY <1>3, <1>4

LEMMA RanksStarts ==
    ASSUME HandlersInit, RanksInit
    PROVE  RanksInv
<1>1. Handling /\ faults \in 0..MaxFaults /\ \A p \in Procs : RankFits(p)
  BY HandlersAssumption DEF HandlersInit, Handling, RankFits
<1>2. Live = {} /\ folders = <<>> /\ items = {} /\ Len(folders) = 0
  BY DEF RanksInit, Live
<1>3. FoldersFit /\ OnePrimary
  BY <1>2 DEF RanksInit, FoldersFit, OnePrimary
<1>4. RankRoom
  <2>1. Running({"folder"}) = {}
    BY DEF HandlersInit, Running
  <2>2. Cardinality(Running({"folder"})) = 0
    BY <2>1, FS_EmptySet
  <2> QED BY <1>2, <2>2, RanksAssumption DEF RankRoom
<1> QED BY <1>1, <1>3, <1>4 DEF RanksInv

LEMMA RanksKeep ==
    ASSUME RanksInv, RanksNext
    PROVE  RanksInv'
  BY FolderBegins, FolderCommits, FoldersChange, LinkBegins, LinkEnds, UnlinksKeep, RankFaultsKeep
     DEF RanksNext

-----------------------------------------------------------------------------
(* All of them.  A behaviour is about one part: its invariant holds, and   *)
(* the tables of the others are as they began.                             *)
IInv ==
    /\ part \in {"polls", "keys", "media", "history", "chats", "ranks"}
    /\ IF part = "polls" THEN PollsInv ELSE PollsInit
    /\ IF part = "keys" THEN PreKeysInv ELSE PreKeysInit
    /\ IF part = "media" THEN MediaInv ELSE MediaInit
    /\ IF part = "history" THEN HistoryInv ELSE HistoryInit
    /\ IF part = "chats" THEN ChatsInv /\ DeparturesInv ELSE ChatsInit
    /\ IF part = "ranks" THEN RanksInv ELSE RanksInit

LEMMA PartsStart ==
    ASSUME Init
    PROVE  IInv
  BY PollsStarts, PreKeysStart, MediaStarts, HistoryStarts, ChatsStarts, DeparturesStart, RanksStarts
     DEF Init, IInv

\* Where a part takes no step, its tables stay as they began.
LEMMA PartsRest ==
    /\ PollsInit /\ UNCHANGED PollVars => PollsInit'
    /\ PreKeysInit /\ UNCHANGED KeyVars => PreKeysInit'
    /\ MediaInit /\ UNCHANGED MediaVars => MediaInit'
    /\ HistoryInit /\ UNCHANGED PageVars => HistoryInit'
    /\ ChatsInit /\ UNCHANGED ChatVars => ChatsInit'
    /\ RanksInit /\ UNCHANGED rankTables => RanksInit'
<1>1. PollsInit /\ UNCHANGED PollVars => PollsInit'
  BY DEF PollVars, pollTables, pollHistory, PollsInit
<1>2. PreKeysInit /\ UNCHANGED KeyVars => PreKeysInit'
  BY DEF KeyVars, keyTables, keyHistory, PreKeysInit
<1>3. MediaInit /\ UNCHANGED MediaVars => MediaInit'
  BY DEF MediaVars, stores, mediaHistory, MediaInit
<1>4. HistoryInit /\ UNCHANGED PageVars => HistoryInit'
  BY DEF PageVars, HistoryInit
<1>5. ChatsInit /\ UNCHANGED ChatVars => ChatsInit'
  BY DEF ChatVars, chatTables, chatHistory, departures, ChatsInit
<1>6. RanksInit /\ UNCHANGED rankTables => RanksInit'
  BY DEF rankTables, RanksInit
<1> QED BY <1>1, <1>2, <1>3, <1>4, <1>5, <1>6

LEMMA PartsKeep ==
    ASSUME IInv, Next
    PROVE  IInv'
<1>1. CASE part = "polls" /\ PollsNext /\ UNCHANGED <<KeyVars, MediaVars, PageVars, ChatVars, rankTables, part>>
  BY <1>1, PollsKeep, PartsRest DEF IInv
<1>2. CASE part = "keys" /\ PreKeysNext /\ UNCHANGED <<PollVars, MediaVars, PageVars, ChatVars, rankTables, part>>
  BY <1>2, PreKeysKeep, PartsRest DEF IInv
<1>3. CASE part = "media" /\ MediaNext /\ UNCHANGED <<PollVars, KeyVars, PageVars, ChatVars, rankTables, part>>
  BY <1>3, MediaKeeps, PartsRest DEF IInv
<1>4. CASE part = "history" /\ HistoryNext /\ UNCHANGED <<PollVars, KeyVars, MediaVars, ChatVars, rankTables, part>>
  BY <1>4, HistoryKeeps, PartsRest DEF IInv
<1>5. CASE part = "chats" /\ ChatsNext /\ UNCHANGED <<PollVars, KeyVars, MediaVars, PageVars, rankTables, part>>
  <2>1. ChatsInv /\ DeparturesInv
    BY <1>5 DEF IInv
  <2>2. ChatsInv' /\ DeparturesInv'
    BY <1>5, <2>1, ChatsKeep, DeparturesKeep DEF ChatsNext
  <2> QED BY <1>5, <2>2, PartsRest DEF IInv
<1>6. CASE part = "ranks" /\ RanksNext /\ UNCHANGED <<PollVars, KeyVars, MediaVars, PageVars, ChatVars, part>>
  BY <1>6, RanksKeep, PartsRest DEF IInv
<1> QED BY <1>1, <1>2, <1>3, <1>4, <1>5, <1>6 DEF Next

\* A step of nobody.
LEMMA PartsStutter ==
    ASSUME IInv, UNCHANGED routesVars
    PROVE  IInv'
<1>0. UNCHANGED <<PollVars, KeyVars, MediaVars, PageVars, ChatVars, rankTables, handlers, part>>
  BY DEF routesVars, PollVars, KeyVars, MediaVars, PageVars, ChatVars
<1>1. PollsInv => PollsInv'
  BY <1>0 DEF PollVars, pollTables, pollHistory, handlers, PollsInv, Handling, PollTyped, Stands,
              VotesOf, ClosedIsFinal, VoteFits
<1>2. PreKeysInv => PreKeysInv'
  BY <1>0 DEF KeyVars, keyTables, keyHistory, handlers, PreKeysInv, Handling, KeysTyped,
              RowFits, OfBundle, Unspent, Handed, GivenFits, HandedOutOnce, KeyRequestFits,
              FetchFits, TakeFits
<1>3. MediaInv => MediaInv'
  BY <1>0, SessionChanges DEF MediaVars, stores, mediaHistory, handlers, MediaInv, StoresTyped
<1>4. HistoryInv => HistoryInv'
  BY <1>0 DEF PageVars, handlers, HistoryInv, Handling, WalkFits, PostRoom, Running, PostFits,
              Within, OlderLeft, NothingSkipped
<1>5. ChatsInv /\ DeparturesInv => ChatsInv' /\ DeparturesInv'
  BY <1>0 DEF ChatVars, chatTables, chatHistory, departures, handlers, ChatsInv, Handling, ChatRows,
              RequestFits, RightHeld, Managers, Active, Actor, ChatRoom, Running,
              ManagedUntilGivenUp, DeparturesInv, Standing
<1>6. RanksInv => RanksInv'
  BY <1>0 DEF rankTables, handlers, RanksInv, Handling, FoldersFit, Live, OnePrimary, RankRoom,
              Running, RankFits, After0
<1>7. part' = part
  BY <1>0
<1> QED BY <1>0, <1>1, <1>2, <1>3, <1>4, <1>5, <1>6, <1>7, PartsRest DEF IInv

(* In every reachable state the invariant of the part the behaviour is     *)
(* about holds.                                                            *)
THEOREM RoutesInvariant == Spec => []IInv
<1>1. Init => IInv
  BY PartsStart
<1>2. IInv /\ [Next]_routesVars => IInv'
  BY PartsKeep, PartsStutter
<1> QED BY <1>1, <1>2, PTL DEF Spec

-----------------------------------------------------------------------------
(* What every part's invariant says of the others' properties: nothing has *)
(* happened there.                                                         *)
LEMMA HandlersTyped ==
    ASSUME IInv
    PROVE  /\ Handling /\ faults \in 0..MaxFaults
           /\ part # "chats" => \A p \in Procs : pc[p] \notin ChatAwaits
<1>1. CASE part = "polls"
  BY <1>1 DEF IInv, PollsInv, VoteFits, ChatAwaits
<1>2. CASE part = "keys"
  BY <1>2 DEF IInv, PreKeysInv, KeyRequestFits, ChatAwaits
<1>3. CASE part = "media"
  BY <1>3 DEF IInv, MediaInv, JobFits, Creating, ChatAwaits
<1>4. CASE part = "history"
  BY <1>4 DEF IInv, HistoryInv, PostFits, ChatAwaits
<1>5. CASE part = "ranks"
  BY <1>5 DEF IInv, RanksInv, RankFits, ChatAwaits
<1>6. CASE part = "chats"
  BY <1>6 DEF IInv, ChatsInv
<1> QED BY <1>1, <1>2, <1>3, <1>4, <1>5, <1>6 DEF IInv

(* Every table, file and local variable of the part has its type.          *)
THEOREM RoutesTypeOK == Spec => []TypeOK
<1>1. IInv => TypeOK
  BY HandlersTyped, PollsFollow, PreKeysFollow, MediaFollow, HistoryFollows, ChatsFollow, RanksFollow
     DEF IInv, TypeOK, Handling
<1> QED BY <1>1, RoutesInvariant, PTL

(* The rows of a user are those of the last of his votes to commit, unless *)
(* another of his votes committed between that vote's DELETE and its       *)
(* COMMIT (POST /polls/:id/vote).                                          *)
THEOREM VotesStand == Spec => []LastVoteStands
<1>1. IInv => LastVoteStands
  <2>1. PollsInit => LastVoteStands
    BY DEF PollsInit, LastVoteStands, VotesOf
  <2> QED BY <2>1, PollsFollow DEF IInv
<1> QED BY <1>1, RoutesInvariant, PTL

(* The result of a closed poll is the one at the moment of its closing,    *)
(* but for the users who then had a vote under way.                        *)
THEOREM ClosedPollsStay == Spec => []ClosedIsFinal
<1>1. IInv => ClosedIsFinal
  BY PollsFollow DEF IInv, PollsInit, ClosedIsFinal
<1> QED BY <1>1, RoutesInvariant, PTL

(* A one-time prekey is handed out once, unless two claims chose it at the *)
(* same time or the device uploaded it again after it had been handed out. *)
THEOREM KeysHandedOutOnce == Spec => []HandedOutOnce
<1>1. IInv => HandedOutOnce
  BY PreKeysFollow DEF IInv, PreKeysInit, HandedOutOnce
<1> QED BY <1>1, RoutesInvariant, PTL

(* The one-time prekey handed out with a bundle is of that bundle, unless  *)
(* a new bundle came between the two statements or the row is a leftover.  *)
THEOREM KeysFitBundles == Spec => []KeyFitsBundle
<1>1. IInv => KeyFitsBundle
  BY PreKeysFollow DEF IInv, PreKeysInit, KeyFitsBundle
<1> QED BY <1>1, RoutesInvariant, PTL

(* Media with a row is whole and an object that is stored has its row, but *)
(* for completes of one upload that met, chunks that were being written    *)
(* and requests that broke off in between (modules/media).                 *)
THEOREM MediaIsWhole == Spec => []ReadyIsWhole
<1>1. IInv => ReadyIsWhole
  BY MediaFollow DEF IInv, MediaInit, ReadyIsWhole
<1> QED BY <1>1, RoutesInvariant, PTL

(* A client that has paged back to the beginning, and has asked for what   *)
(* is new since, has every message that was there when it asked, but for   *)
(* those of the instant of a page's last one, and unless a page of new     *)
(* messages was full (listMessages).                                       *)
THEOREM HistoryIsComplete == Spec => []NothingSkipped
<1>1. IInv => NothingSkipped
  <2>1. HistoryInit => NothingSkipped
    BY DEF HistoryInit, NothingSkipped, NoWalk
  <2> QED BY <2>1, HistoryFollows DEF IInv
<1> QED BY <1>1, RoutesInvariant, PTL

(* For a user who has left the chat or been removed run at most the        *)
(* statements of the requests that stood past their check when he went     *)
(* (modules/chats, modules/messages): of whatever he asks for afterwards,  *)
(* nothing that takes membership.                                          *)
THEOREM DepartedStop == Spec => []OnlyWhatWasUnderWay
<1>1. IInv => OnlyWhatWasUnderWay
  <2>1. ChatsInit => OnlyWhatWasUnderWay
    BY DEF ChatsInit, OnlyWhatWasUnderWay
  <2> QED BY <2>1, ChatsFollow DEF IInv
<1> QED BY <1>1, RoutesInvariant, PTL

(* A chat is left without a manager by the last one's leaving, or by two   *)
(* removals that crossed: in no other way.                                 *)
THEOREM ChatsManaged == Spec => []ManagedUntilGivenUp
<1>1. IInv => ManagedUntilGivenUp
  BY ChatsFollow DEF IInv, ChatsInit, ManagedUntilGivenUp
<1> QED BY <1>1, RoutesInvariant, PTL

(* A folder comes after all the folders that were there when it was made,  *)
(* and at most one UPI account is the primary one (modules/folders, the    *)
(* UPI routes of modules/wallet).                                          *)
THEOREM RanksApart == Spec => []RanksAreApart
<1>1. IInv => RanksAreApart
  <2>1. RanksInit => RanksAreApart
    <3>1. SUFFICES ASSUME RanksInit PROVE RanksAreApart
      OBVIOUS
    <3>2. {a \in Upis : upi[a] = "primary"} = {}
      BY <3>1 DEF RanksInit
    <3>3. Live = {}
      BY <3>1 DEF RanksInit, Live
    <3> QED BY <3>2, <3>3, FS_EmptySet DEF RanksAreApart
  <2> QED BY <2>1, RanksFollow DEF IInv
<1> QED BY <1>1, RoutesInvariant, PTL

=============================================================================
