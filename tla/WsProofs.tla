------------------------------ MODULE WsProofs ------------------------------
(***************************************************************************)
(* Proofs about WsSystem: for every number of devices, connections, faults *)
(* and attempts, the gateway's map lists the open sockets, and disconnect  *)
(* holds.                                                                  *)
(***************************************************************************)
EXTENDS WsSystem, FiniteSetTheorems, WellFoundedInduction, TLAPS

-----------------------------------------------------------------------------
(* The gateway: the map lists the open sockets, and closing ones whose     *)
(* client has left, each after those that came before it; when the gateway *)
(* is away it lists none.                                                  *)
Ordered ==
    /\ before \subseteq conns \X conns
    /\ \A s, t \in conns : s # t => (<<s, t>> \in before <=> <<t, s>> \notin before)
    /\ \A s, t, w \in conns : <<s, t>> \in before /\ <<t, w>> \in before => <<s, w>> \in before
    /\ \A s \in conns : <<s, s>> \notin before

Closing(s) == sock[s].server = "closing" /\ Left(s)

ServerInv ==
    /\ conns \subseteq Sockets /\ Cardinality(conns) <= Limit /\ alive \subseteq conns
    /\ Ordered
    /\ \A s \in Sockets : sock[s].server = "open" => s \in conns
    /\ \A s \in conns : sock[s].server = "open" \/ Closing(s)
    /\ ~ up => conns = {}

(* The wire: whoever is connecting or connected is a device.               *)
WireInv ==
    /\ up \in BOOLEAN /\ sock \in [Sockets -> Socket] /\ faults \in 0..MaxFaults
    /\ \A s \in Sockets : sock[s].client # "unused" => sock[s].dev \in Devices

(* A device: what its channel is; and, unless its disconnect met a         *)
(* connect, which of its connections there can be in each state.           *)
Live(s, d) == sock[s].dev = d /\ (s \in subs \/ sock[s].client \in {"opening", "open", "aborted"})

ChannelsApart ==
    /\ \A d \in Devices : manager[d].chan # None => sock[manager[d].chan].dev = d
    /\ \A d \in Devices : manager[d].sub # None => sock[manager[d].sub].dev = d

\* connect awaits the token.
Asks(d) ==
    /\ manager[d].state = "connecting" /\ manager[d].asking = 1
    /\ \A s \in Sockets : ~ Live(s, d)

\* connect awaits the channel, which nobody has listened to.
Opens(d) ==
    /\ manager[d].state = "connecting" /\ manager[d].asking = 0
    /\ manager[d].chan \notin heard
    /\ \A s \in Sockets : Live(s, d) => s = manager[d].chan /\ sock[s].client = "opening"

Talks(d) ==
    /\ manager[d].state = "connected" /\ manager[d].asking = 0
    /\ \A s \in Sockets : Live(s, d) => s = manager[d].chan /\ sock[s].client \in {"open", "shut"}
    /\ \A s \in subs : sock[s].dev = d => s = manager[d].sub

\* It waits for the timer, or has no attempts left.
Rests(d) ==
    /\ manager[d].asking = 0
    /\ manager[d].state \in {"reconnecting", "disconnected"}
    /\ \A s \in Sockets : ~ Live(s, d)

Gone(d) ==
    /\ ~ manager[d].timer /\ manager[d].asking = 0
    /\ manager[d].closing \/ manager[d].state = "disconnected"
    /\ \A s \in Sockets : ~ Live(s, d)

DeviceFits(d) ==
    IF manager[d].want
    THEN ~ manager[d].closing /\ (Asks(d) \/ Opens(d) \/ Talks(d) \/ Rests(d))
    ELSE Gone(d)

ClientInv ==
    /\ ClientTypeOK /\ ChannelsApart
    /\ \A d \in Devices \ crossed : DeviceFits(d)

IInv == WireInv /\ ServerInv /\ ClientInv

LEMMA Types ==
    ASSUME IInv
    PROVE  TypeOK /\ OpenIsListed
<1>1. TypeOK
  BY DEF IInv, WireInv, ServerInv, Ordered, ClientInv, TypeOK, ServerTypeOK
<1>2. Receivers = {s \in Sockets : sock[s].server = "open"}
  BY DEF IInv, ServerInv, Receivers
<1>3. \A s \in conns \ Receivers : sock[s].server = "closing" /\ Left(s)
  BY DEF IInv, ServerInv, Receivers, Closing
<1> QED BY <1>1, <1>2, <1>3 DEF OpenIsListed

LEMMA Disconnected ==
    ASSUME IInv
    PROVE  DisconnectHolds
<1>1. ASSUME NEW d \in Devices \ crossed, ~ manager[d].want
      PROVE  /\ manager[d].closing \/ manager[d].state = "disconnected"
             /\ ~ manager[d].timer /\ manager[d].asking = 0
             /\ \A s \in Sockets : sock[s].dev = d =>
                   s \notin subs /\ sock[s].client \in {"unused", "shut"}
  <2>1. Gone(d)
    BY <1>1 DEF IInv, ClientInv, DeviceFits
  <2>2. ASSUME NEW s \in Sockets, sock[s].dev = d
        PROVE  s \notin subs /\ sock[s].client \in {"unused", "shut"}
    BY <2>1, <2>2 DEF Gone, Live, IInv, WireInv, Socket
  <2> QED BY <2>1, <2>2 DEF Gone
<1> QED BY <1>1 DEF DisconnectHolds

-----------------------------------------------------------------------------
(* What a step leaves alone.                                               *)

\* The client's ends of the connections, and its managers.
ClientsRest ==
    /\ UNCHANGED clientVars
    /\ \A s \in Sockets : sock'[s].dev = sock[s].dev /\ sock'[s].client = sock[s].client

LEMMA ClientStays ==
    ASSUME IInv, ClientsRest
    PROVE  ClientInv'
<1>1. /\ UNCHANGED <<manager, subs, heard, logouts, crossed>>
      /\ \A s \in Sockets : sock'[s].dev = sock[s].dev /\ sock'[s].client = sock[s].client
  BY DEF ClientsRest, clientVars
<1>2. ClientTypeOK'
  BY <1>1 DEF IInv, ClientInv, ClientTypeOK
<1>3. ChannelsApart'
  BY <1>1 DEF IInv, ClientInv, ChannelsApart, ClientTypeOK, Manager
<1>4. ASSUME NEW d \in Devices \ crossed PROVE DeviceFits(d)'
  <2>1. \A s \in Sockets : Live(s, d)' = Live(s, d)
    BY <1>1 DEF Live
  <2>2. DeviceFits(d)
    BY DEF IInv, ClientInv
  <2>3. \A s \in subs : s \in Sockets
    BY DEF IInv, ClientInv, ClientTypeOK
  <2>4. /\ Asks(d) => Asks(d)'
        /\ Rests(d) => Rests(d)'
        /\ Gone(d) => Gone(d)'
    BY <1>1, <2>1 DEF Asks, Rests, Gone
  <2>5. /\ Opens(d) => Opens(d)'
        /\ Talks(d) => Talks(d)'
    BY <1>1, <2>1, <2>3 DEF Opens, Talks
  <2> QED BY <1>1, <2>2, <2>4, <2>5 DEF DeviceFits
<1> QED BY <1>1, <1>2, <1>3, <1>4 DEF ClientInv

\* No end of the gateway's opens; of the listed ones each stays as it is, or
\* is closing as its client has left.
MapFits ==
    /\ \A s \in Sockets : sock'[s].server = "open" => sock[s].server = "open"
    /\ \A s \in conns : /\ sock'[s].server = sock[s].server \/ Closing(s)'
                        /\ Left(s) => Left(s)'

LEMMA ServerStays ==
    ASSUME IInv, UNCHANGED <<conns, before>>, alive' \subseteq conns, up => up', MapFits
    PROVE  ServerInv'
<1>1. \A s \in Sockets : sock'[s].server = "open" => s \in conns'
  BY DEF IInv, ServerInv, MapFits
<1>2. ASSUME NEW s \in conns PROVE sock'[s].server = "open" \/ Closing(s)'
  BY DEF IInv, ServerInv, MapFits, Closing
<1>3. Ordered'
  BY DEF IInv, ServerInv, Ordered
<1> QED BY <1>1, <1>2, <1>3 DEF IInv, ServerInv

LEMMA FaultCounted ==
    ASSUME IInv, Fault
    PROVE  faults' \in 0..MaxFaults
  BY WireAssumption DEF IInv, WireInv, Fault

-----------------------------------------------------------------------------
(* The gateway's map.                                                      *)
LEMMA MapFinite ==
    ASSUME IInv
    PROVE  IsFiniteSet(conns) /\ Cardinality(conns) \in Nat
  BY WireAssumption, FS_Subset, FS_CardinalityType DEF IInv, ServerInv

\* Whose set of earlier ones is minimal is the oldest.
LEMMA OneOldest ==
    ASSUME IInv, conns # {}
    PROVE  \E s \in conns : {x \in conns : \A t \in conns \ {x} : <<x, t>> \in before} = {s}
<1>1. IsWellFoundedOn(StrictSubsetOrdering(conns), SUBSET conns)
  BY MapFinite, FS_StrictSubsetOrderingWellFounded, FS_FiniteSubsetsOfFinite
<1>2. PICK f : f = [x \in conns |-> {y \in conns : <<y, x>> \in before}]
  OBVIOUS
<1>3. PICK T : T = {f[x] : x \in conns}
  OBVIOUS
<1>4. T \subseteq SUBSET conns /\ T # {}
  BY <1>2, <1>3
<1>5. PICK U \in T : \A W \in T : ~ (<<W, U>> \in StrictSubsetOrdering(conns))
  BY <1>1, <1>4, WFMin
<1>6. \A W \in T : W \subseteq U => W = U
  BY <1>4, <1>5 DEF StrictSubsetOrdering
<1>7. PICK s \in conns : \A t \in conns : f[t] \subseteq f[s] => f[t] = f[s]
  <2>1. PICK s \in conns : U = f[s]
    BY <1>3
  <2>2. \A t \in conns : f[t] \in T
    BY <1>3
  <2> QED BY <1>6, <2>1, <2>2
<1>8. ASSUME NEW t \in conns \ {s} PROVE <<s, t>> \in before
  <2>1. SUFFICES ASSUME <<t, s>> \in before PROVE FALSE
    BY DEF IInv, ServerInv, Ordered
  <2>2. t \in f[s] /\ t \notin f[t]
    BY <1>2, <2>1 DEF IInv, ServerInv, Ordered
  <2>3. f[t] \subseteq f[s]
    BY <1>2, <2>1 DEF IInv, ServerInv, Ordered
  <2> QED BY <1>7, <2>2, <2>3
<1>9. ASSUME NEW x \in conns, \A t \in conns \ {x} : <<x, t>> \in before PROVE x = s
  BY <1>8, <1>9 DEF IInv, ServerInv, Ordered
<1> QED BY <1>8, <1>9

LEMMA RoomMade ==
    ASSUME IInv
    PROVE  IsFiniteSet(conns \ Evicted) /\ Cardinality(conns \ Evicted) + 1 <= Limit
<1>1. CASE Cardinality(conns) >= Limit
  <2>1. conns # {}
    BY <1>1, FS_EmptySet, ServerAssumption
  <2>2. PICK s \in conns : Evicted = {s}
    BY <1>1, <2>1, OneOldest DEF Evicted
  <2>3. IsFiniteSet(conns \ {s}) /\ Cardinality(conns \ {s}) = Cardinality(conns) - 1
    BY MapFinite, FS_RemoveElement
  <2> QED BY <2>2, <2>3, MapFinite, ServerAssumption DEF IInv, ServerInv
<1>2. CASE ~ (Cardinality(conns) >= Limit)
  <2>1. Evicted = {}
    BY <1>2 DEF Evicted
  <2>2. conns \ Evicted = conns
    BY <2>1
  <2> QED BY <1>2, <2>2, MapFinite, ServerAssumption
<1> QED BY <1>1, <1>2

LEMMA MapReduced ==
    ASSUME IInv, NEW kept \in SUBSET conns, Keeps(kept)
    PROVE  /\ conns' = kept /\ conns' \subseteq Sockets /\ Cardinality(conns') <= Limit
           /\ Ordered'
<1>1. Cardinality(kept) <= Cardinality(conns) /\ Cardinality(kept) \in Nat
  BY MapFinite, FS_Subset, FS_CardinalityType
<1>2. conns' = kept /\ before' = before \cap (kept \X kept)
  BY DEF Keeps
<1>3. Ordered'
  BY <1>2 DEF IInv, ServerInv, Ordered
<1> QED BY <1>1, <1>2, <1>3, MapFinite, ServerAssumption DEF IInv, ServerInv

LEMMA Accepted ==
    ASSUME IInv, NEW s \in Sockets, Accept(s), UNCHANGED clientVars
    PROVE  IInv'
<1>0. PICK kept : kept = conns \ Evicted
  OBVIOUS
<1>1. /\ up /\ sock[s].server = "none"
      /\ conns' = kept \cup {s}
      /\ before' = (before \cap (kept \X kept)) \cup (kept \X {s})
      /\ alive' = (alive \ Evicted) \cup {s}
      /\ sock' = [t \in Sockets |->
                    IF t = s THEN [sock[t] EXCEPT !.server = "open"] ELSE
                    IF t \in Evicted THEN [sock[t] EXCEPT !.server = "closing"] ELSE sock[t]]
      /\ UNCHANGED <<up, faults>>
  BY <1>0 DEF Accept, Arrives
<1>2. s \notin conns /\ kept \subseteq conns /\ Evicted \subseteq conns /\ conns \subseteq Sockets
  BY <1>0, <1>1 DEF IInv, ServerInv, Evicted, Closing
<1>3. Cardinality(conns') <= Limit
  <2>1. Cardinality(kept \cup {s}) = Cardinality(kept) + 1
    BY <1>0, <1>2, RoomMade, FS_AddElement
  <2> QED BY <1>0, <1>1, <2>1, RoomMade
<1>4. Ordered'
  BY <1>1, <1>2 DEF IInv, ServerInv, Ordered
<1>5. ASSUME NEW t \in Sockets
      PROVE  /\ sock'[t].server = "open" => t \in conns'
             /\ t \in conns' => sock'[t].server = "open" \/ (sock'[t] = sock[t] /\ Closing(t))
             /\ sock'[t] \in Socket /\ sock'[t].dev = sock[t].dev /\ sock'[t].client = sock[t].client
  <2>1. /\ sock[t] \in Socket
        /\ sock[t].server = "open" => t \in conns
        /\ t \in conns => sock[t].server = "open" \/ Closing(t)
    BY DEF IInv, WireInv, ServerInv
  <2>2. CASE t = s
    <3>1. sock'[t] = [sock[t] EXCEPT !.server = "open"] /\ t \in conns'
      BY <1>1, <2>2
    <3> QED BY <2>1, <3>1 DEF Socket
  <2>3. CASE t # s /\ t \in Evicted
    <3>1. sock'[t] = [sock[t] EXCEPT !.server = "closing"] /\ t \notin conns'
      BY <1>0, <1>1, <2>3
    <3> QED BY <2>1, <3>1 DEF Socket
  <2>4. CASE t # s /\ t \notin Evicted
    <3>1. sock'[t] = sock[t] /\ (t \in conns' <=> t \in conns)
      BY <1>0, <1>1, <2>4
    <3> QED BY <2>1, <3>1
  <2> QED BY <2>2, <2>3, <2>4
<1>6. ServerInv'
  <2>1. alive' \subseteq conns'
    BY <1>0, <1>1 DEF IInv, ServerInv
  <2>2. \A t \in conns' : t \in Sockets /\ (sock'[t].server = "open" \/ Closing(t)')
    BY <1>1, <1>2, <1>5 DEF Closing, Left
  <2> QED BY <1>1, <1>3, <1>4, <1>5, <2>1, <2>2 DEF ServerInv
<1>7. WireInv'
  <2>1. sock' \in [Sockets -> Socket]
    BY <1>1, <1>5
  <2> QED BY <1>1, <1>5, <2>1 DEF IInv, WireInv
<1>8. ClientInv'
  BY <1>5, ClientStays DEF ClientsRest
<1> QED BY <1>6, <1>7, <1>8 DEF IInv

\* Sockets go from the map, as their server's end goes from "open".
LEMMA MapFollows ==
    ASSUME IInv, NEW kept \in SUBSET conns, Keeps(kept), alive' \subseteq kept, UNCHANGED clientVars,
           NEW R \in SUBSET Sockets, NEW to \in {"closing", "gone"},
           sock' = [s \in Sockets |-> IF s \in R THEN [sock[s] EXCEPT !.server = to] ELSE sock[s]],
           conns \ R = kept, faults' \in 0..MaxFaults, up' \in BOOLEAN, up' \/ kept = {}
    PROVE  IInv'
<1>1. ASSUME NEW t \in Sockets
      PROVE  /\ sock'[t].server = "open" => t \in conns'
             /\ t \in conns' => sock'[t].server = "open" \/ (sock'[t] = sock[t] /\ Closing(t))
             /\ sock'[t] \in Socket /\ sock'[t].dev = sock[t].dev /\ sock'[t].client = sock[t].client
  <2>1. /\ sock[t] \in Socket /\ conns' = kept
        /\ sock[t].server = "open" => t \in conns
        /\ t \in conns => sock[t].server = "open" \/ Closing(t)
    BY DEF IInv, WireInv, ServerInv, Keeps
  <2>2. CASE t \in R
    BY <2>1, <2>2 DEF Socket
  <2>3. CASE t \notin R
    <3>1. sock'[t] = sock[t] /\ (t \in conns' <=> t \in conns)
      BY <2>1, <2>3
    <3> QED BY <2>1, <3>1
  <2> QED BY <2>2, <2>3
<1>2. ServerInv'
  <2>1. \A t \in conns' : sock'[t].server = "open" \/ Closing(t)'
    BY <1>1, MapReduced DEF Closing, Left
  <2> QED BY <1>1, <2>1, MapReduced DEF ServerInv
<1>3. WireInv'
  <2>1. sock' \in [Sockets -> Socket]
    BY <1>1
  <2> QED BY <1>1, <2>1 DEF IInv, WireInv
<1>4. ClientInv'
  BY <1>1, ClientStays DEF ClientsRest
<1> QED BY <1>2, <1>3, <1>4 DEF IInv

-----------------------------------------------------------------------------
(* The steps of the gateway and of the network.                            *)
LEMMA Closes ==
    ASSUME IInv, NEW s \in Sockets, CloseEvent(s), UNCHANGED clientVars
    PROVE  IInv'
<1>1. /\ Keeps(conns \ {s}) /\ alive' \subseteq conns \ {s} /\ UNCHANGED <<up, faults>>
      /\ sock' = [sock EXCEPT ![s].server = "gone"]
  BY DEF CloseEvent, Dropped
<1>2. sock' = [t \in Sockets |-> IF t \in {s} THEN [sock[t] EXCEPT !.server = "gone"] ELSE sock[t]]
  BY <1>1 DEF IInv, WireInv
<1>3. up' \in BOOLEAN /\ faults' \in 0..MaxFaults /\ (up' \/ conns \ {s} = {})
  BY <1>1 DEF IInv, WireInv, ServerInv
<1> QED BY <1>1, <1>2, <1>3, MapFollows

LEMMA Beats ==
    ASSUME IInv, Heartbeat, UNCHANGED clientVars
    PROVE  IInv'
<1>1. /\ Keeps(conns \ Stale) /\ alive' = {} /\ up /\ UNCHANGED <<up, faults>>
      /\ sock' = [t \in Sockets |-> IF t \in Stale THEN [sock[t] EXCEPT !.server = "gone"]
                                                   ELSE sock[t]]
  BY DEF Heartbeat
<1>2. Stale \in SUBSET Sockets /\ up' \in BOOLEAN /\ faults' \in 0..MaxFaults
  BY <1>1 DEF IInv, WireInv, ServerInv, Stale
<1> QED BY <1>1, <1>2, MapFollows

LEMMA Stops ==
    ASSUME IInv, Stop, UNCHANGED clientVars
    PROVE  IInv'
<1>1. /\ Keeps({}) /\ alive' = {} /\ up' = FALSE
      /\ sock' = [t \in Sockets |-> IF t \in conns THEN [sock[t] EXCEPT !.server = "closing"]
                                                   ELSE sock[t]]
  BY DEF Stop, Keeps, Listed
<1>2. conns \in SUBSET Sockets /\ faults' \in 0..MaxFaults
  BY FaultCounted DEF Stop, IInv, ServerInv
<1> QED BY <1>1, <1>2, MapFollows

\* Steps that open no end of the gateway's, and take none from the map.
LEMMA MapRests ==
    ASSUME IInv, UNCHANGED <<conns, before>>, alive' \subseteq conns, UNCHANGED clientVars,
           sock' \in [Sockets -> Socket], faults' \in 0..MaxFaults, up' \in BOOLEAN, up => up',
           \A s \in Sockets : sock'[s].dev = sock[s].dev /\ sock'[s].client = sock[s].client,
           MapFits
    PROVE  IInv'
<1>1. ServerInv'
  BY ServerStays
<1>2. WireInv'
  BY DEF IInv, WireInv
<1>3. ClientInv'
  BY ClientStays DEF ClientsRest
<1> QED BY <1>1, <1>2, <1>3 DEF IInv

LEMMA Refuses ==
    ASSUME IInv, NEW s \in Sockets, Refuse(s), UNCHANGED clientVars
    PROVE  IInv'
<1>1. /\ sock[s].server = "none" /\ sock' = [sock EXCEPT ![s].server = "closing"]
      /\ UNCHANGED <<up, conns, before, alive>>
  BY DEF Refuse, Arrives, serverVars
<1>2. ASSUME NEW t \in Sockets
      PROVE  /\ sock'[t] \in Socket /\ sock'[t].dev = sock[t].dev /\ sock'[t].client = sock[t].client
             /\ sock'[t].server = IF t = s THEN "closing" ELSE sock[t].server
  <2>1. sock[t] \in Socket /\ sock \in [Sockets -> Socket]
    BY DEF IInv, WireInv
  <2>2. CASE t = s
    BY <1>1, <2>1, <2>2 DEF Socket
  <2>3. CASE t # s
    BY <1>1, <2>1, <2>3
  <2> QED BY <2>2, <2>3
<1>3. sock' \in [Sockets -> Socket]
  BY <1>1, <1>2 DEF IInv, WireInv
<1>4. faults' \in 0..MaxFaults /\ up' \in BOOLEAN /\ alive' \subseteq conns
  BY <1>1, FaultCounted DEF Refuse, IInv, WireInv, ServerInv
<1>5. conns \subseteq Sockets /\ s \notin conns
  BY <1>1 DEF IInv, ServerInv, Closing
<1>6. MapFits
  BY <1>2, <1>5 DEF MapFits, Left
<1> QED BY <1>1, <1>2, <1>3, <1>4, <1>6, MapRests

LEMMA ClosesSeen ==
    ASSUME IInv, NEW s \in Sockets, SeesClose(s), UNCHANGED clientVars
    PROVE  IInv'
<1>1. /\ Left(s) /\ sock' = [sock EXCEPT ![s].server = "closing"]
      /\ UNCHANGED <<up, faults, conns, before, alive>>
  BY DEF SeesClose, serverVars
<1>2. ASSUME NEW t \in Sockets
      PROVE  /\ sock'[t] \in Socket /\ sock'[t].dev = sock[t].dev /\ sock'[t].client = sock[t].client
             /\ sock'[t].server = IF t = s THEN "closing" ELSE sock[t].server
  <2>1. sock[t] \in Socket /\ sock \in [Sockets -> Socket]
    BY DEF IInv, WireInv
  <2>2. CASE t = s
    BY <1>1, <2>1, <2>2 DEF Socket
  <2>3. CASE t # s
    BY <1>1, <2>1, <2>3
  <2> QED BY <2>2, <2>3
<1>3. sock' \in [Sockets -> Socket]
  BY <1>1, <1>2 DEF IInv, WireInv
<1>4. /\ faults' \in 0..MaxFaults /\ up' \in BOOLEAN /\ alive' \subseteq conns
      /\ conns \subseteq Sockets
  BY <1>1 DEF IInv, WireInv, ServerInv
<1>5. MapFits
  BY <1>1, <1>2, <1>4 DEF MapFits, Left, Closing
<1> QED BY <1>1, <1>2, <1>3, <1>4, <1>5, MapRests

LEMMA StartsAgain ==
    ASSUME IInv, Start, UNCHANGED clientVars
    PROVE  IInv'
<1>1. /\ ~ up /\ up' = TRUE /\ UNCHANGED <<conns, before, alive, faults>>
      /\ sock' = [t \in Sockets |-> IF sock[t].server \in {"open", "closing"}
                                    THEN [sock[t] EXCEPT !.server = "gone"] ELSE sock[t]]
  BY DEF Start, serverVars
<1>2. ASSUME NEW t \in Sockets
      PROVE  /\ sock'[t] \in Socket /\ sock'[t].dev = sock[t].dev /\ sock'[t].client = sock[t].client
             /\ sock'[t].server # "open"
  <2>1. sock[t] \in Socket /\ sock[t].server # "open"
    BY <1>1 DEF IInv, WireInv, ServerInv
  <2>2. CASE sock[t].server = "closing"
    BY <1>1, <2>1, <2>2 DEF Socket
  <2>3. CASE sock[t].server # "closing"
    BY <1>1, <2>1, <2>3
  <2> QED BY <2>2, <2>3
<1>3. sock' \in [Sockets -> Socket]
  BY <1>1, <1>2
<1>4. faults' \in 0..MaxFaults /\ alive' \subseteq conns /\ conns = {}
  BY <1>1 DEF IInv, WireInv, ServerInv
<1>5. MapFits
  BY <1>2, <1>4 DEF MapFits
<1> QED BY <1>1, <1>2, <1>3, <1>4, <1>5, MapRests

LEMMA Pongs ==
    ASSUME IInv, NEW s \in Sockets, Pong(s), UNCHANGED clientVars
    PROVE  IInv'
<1>1. s \in conns /\ alive' = alive \cup {s} /\ UNCHANGED <<up, conns, before, sock, faults>>
  BY DEF Pong, Listed
<1>2. /\ sock' \in [Sockets -> Socket] /\ faults' \in 0..MaxFaults /\ up' \in BOOLEAN
      /\ alive' \subseteq conns
  BY <1>1 DEF IInv, WireInv, ServerInv
<1>3. MapFits
  BY <1>1 DEF MapFits, Left
<1> QED BY <1>1, <1>2, <1>3, MapRests

LEMMA LinkLost ==
    ASSUME IInv, NEW s \in Sockets, CutLink(s), UNCHANGED <<serverVars, clientVars>>
    PROVE  IInv'
<1>1. /\ sock' = [sock EXCEPT ![s].link = "cut"] /\ UNCHANGED <<up, conns, before, alive>>
  BY DEF CutLink, serverVars
<1>2. ASSUME NEW t \in Sockets
      PROVE  /\ sock'[t] \in Socket /\ sock'[t].dev = sock[t].dev /\ sock'[t].client = sock[t].client
             /\ sock'[t].server = sock[t].server
  <2>1. sock[t] \in Socket /\ sock \in [Sockets -> Socket]
    BY DEF IInv, WireInv
  <2>2. CASE t = s
    BY <1>1, <2>1, <2>2 DEF Socket
  <2>3. CASE t # s
    BY <1>1, <2>1, <2>3
  <2> QED BY <2>2, <2>3
<1>3. sock' \in [Sockets -> Socket]
  BY <1>1, <1>2 DEF IInv, WireInv
<1>4. /\ faults' \in 0..MaxFaults /\ up' \in BOOLEAN /\ alive' \subseteq conns
      /\ conns \subseteq Sockets
  BY <1>1, FaultCounted DEF CutLink, IInv, WireInv, ServerInv
<1>5. MapFits
  BY <1>2, <1>4 DEF MapFits, Left
<1> QED BY <1>1, <1>2, <1>3, <1>4, <1>5, MapRests

LEMMA GatewayKeeps ==
    ASSUME IInv, ServerSteps \/ Loses
    PROVE  IInv'
  BY Accepted, Closes, ClosesSeen, Beats, Stops, Refuses, StartsAgain, Pongs, LinkLost
     DEF ServerSteps, ServerNext, Loses

-----------------------------------------------------------------------------
(* The managers of the devices.                                            *)
\* What connect does to state and asking, up to its first await.
Begins(m, n) ==
    IF m.state \in {"connecting", "connected"}
    THEN n.state = m.state /\ n.asking = m.asking
    ELSE n.state = "connecting" /\ n.asking = m.asking + 1

LEMMA ConnectingIs ==
    ASSUME NEW m \in Manager
    PROVE  /\ Connecting(m) \in Manager
           /\ Connecting(m).chan = m.chan /\ Connecting(m).sub = m.sub
           /\ Connecting(m).timer = m.timer /\ Connecting(m).attempts = m.attempts
           /\ Connecting(m).want = m.want /\ Connecting(m).closing = m.closing
           /\ Begins(m, Connecting(m))
<1>1. CASE m.state \in {"connecting", "connected"}
  BY <1>1 DEF Connecting, Begins
<1>2. CASE m.state \notin {"connecting", "connected"}
  <2>1. PICK r : r = [m EXCEPT !.state = "connecting", !.asking = @ + 1]
    OBVIOUS
  <2>2. Connecting(m) = r
    BY <1>2, <2>1 DEF Connecting
  <2>3. PICK n \in Nat : n = m.asking + 1
    BY DEF Manager
  <2>4. r = [m EXCEPT !.state = "connecting", !.asking = n]
    BY <2>1, <2>3 DEF Manager
  <2>5. r \in Manager
    BY <2>4 DEF Manager
  <2>6. /\ r.chan = m.chan /\ r.sub = m.sub /\ r.timer = m.timer /\ r.attempts = m.attempts
        /\ r.want = m.want /\ r.closing = m.closing
        /\ r.state = "connecting" /\ r.asking = n
    BY <2>4 DEF Manager
  <2> QED BY <1>2, <2>2, <2>3, <2>5, <2>6 DEF Begins
<1> QED BY <1>1, <1>2

LEMMA ScheduledIs ==
    ASSUME NEW m \in Manager
    PROVE  /\ Scheduled(m) \in Manager
           /\ Scheduled(m).asking = m.asking /\ Scheduled(m).chan = m.chan
           /\ Scheduled(m).sub = m.sub
           /\ Scheduled(m).want = m.want /\ Scheduled(m).closing = m.closing
           /\ \/ Scheduled(m).state = "reconnecting" /\ Scheduled(m).timer
              \/ Scheduled(m).state = "disconnected" /\ Scheduled(m).timer = m.timer
<1>1. CASE m.attempts >= MaxReconnectAttempts
  BY <1>1 DEF Scheduled, Manager
<1>2. CASE ~ (m.attempts >= MaxReconnectAttempts)
  <2>1. PICK n \in 0..MaxReconnectAttempts : n = m.attempts + 1
    BY <1>2, ClientAssumption DEF Manager
  <2>2. Scheduled(m) = [m EXCEPT !.state = "reconnecting", !.timer = TRUE, !.attempts = n]
    BY <1>2, <2>1 DEF Scheduled, Manager
  <2> QED BY <2>2 DEF Manager
<1> QED BY <1>1, <1>2

LEMMA ClosedIs ==
    ASSUME NEW m \in Manager
    PROVE  /\ Closed(m) \in Manager
           /\ Closed(m).chan = None /\ Closed(m).state = "disconnected"
           /\ Closed(m).sub = m.sub /\ Closed(m).want = m.want
           /\ Closed(m).timer = m.timer /\ Closed(m).asking = m.asking
<1>1. PICK n \in 0..MaxReconnectAttempts : n = 0
  BY ClientAssumption
<1>2. PICK c \in Sockets \cup {None} : c = None
  OBVIOUS
<1>3. Closed(m) = [m EXCEPT !.chan = c, !.state = "disconnected", !.attempts = n, !.closing = FALSE]
  BY <1>1, <1>2 DEF Closed
<1>4. Closed(m) \in Manager
  BY <1>3 DEF Manager
<1> QED BY <1>2, <1>3, <1>4 DEF Manager

LEMMA DeviceStays ==
    ASSUME IInv, NEW e \in Devices \ crossed, manager'[e] = manager[e],
           manager[e].chan \in heard' => manager[e].chan \in heard,
           \A s \in Sockets : sock'[s].dev = e =>
              /\ sock[s].dev = e /\ sock'[s].client = sock[s].client
              /\ s \in subs' => s \in subs,
           subs' \subseteq Sockets
    PROVE  DeviceFits(e)'
<1>1. \A s \in Sockets : Live(s, e)' => Live(s, e) /\ sock'[s].client = sock[s].client
  BY DEF Live
<1>2. DeviceFits(e)
  BY DEF IInv, ClientInv
<1>3. /\ Asks(e) => Asks(e)'
      /\ Rests(e) => Rests(e)'
      /\ Gone(e) => Gone(e)'
  BY <1>1 DEF Asks, Rests, Gone
<1>4. Opens(e) => Opens(e)'
  BY <1>1 DEF Opens
<1>5. Talks(e) => Talks(e)'
  BY <1>1 DEF Talks
<1> QED BY <1>2, <1>3, <1>4, <1>5 DEF DeviceFits

\* A step of d: the other devices, and the gateway's ends, stay as they are.
LEMMA DeviceMoves ==
    ASSUME IInv, NEW d \in Devices, NEW m \in Manager, Sets(d, m), UNCHANGED <<serverVars, up, faults>>,
           sock' \in [Sockets -> Socket],
           MapFits,
           \A s \in Sockets : sock'[s].client # "unused" => sock'[s].dev \in Devices,
           \A s \in Sockets : sock'[s].dev # d =>
              /\ sock'[s].dev = sock[s].dev /\ sock'[s].client = sock[s].client
              /\ s \in subs' => s \in subs
              /\ s \in heard' => s \in heard,
           \A s \in Sockets : \/ sock'[s].dev = sock[s].dev
                              \/ \A e \in Devices \ {d} : s \notin {manager[e].chan, manager[e].sub},
           subs' \subseteq heard', heard' \subseteq Sockets, logouts' \in 0..MaxLogouts,
           crossed \subseteq crossed', crossed' \subseteq Devices,
           m.chan # None => sock'[m.chan].dev = d,
           m.sub # None => sock'[m.sub].dev = d,
           d \notin crossed' => DeviceFits(d)'
    PROVE  IInv'
<1>1. manager \in [Devices -> Manager] /\ ChannelsApart
  BY DEF IInv, ClientInv, ClientTypeOK
<1>2. /\ manager' \in [Devices -> Manager] /\ manager'[d] = m
      /\ \A e \in Devices \ {d} : manager'[e] = manager[e]
  BY <1>1 DEF Sets
<1>3. WireInv'
  BY DEF IInv, WireInv
<1>4. ServerInv'
  BY ServerStays DEF IInv, ServerInv, serverVars
<1>5. ASSUME NEW e \in Devices \ {d}
      PROVE  /\ manager[e].chan # None => sock'[manager[e].chan].dev = e
             /\ manager[e].sub # None => sock'[manager[e].sub].dev = e
  <2>1. manager[e].chan \in Sockets \cup {None} /\ manager[e].sub \in Sockets \cup {None}
    BY <1>1 DEF Manager
  <2> QED BY <1>1, <2>1 DEF ChannelsApart
<1>6. ChannelsApart'
  BY <1>2, <1>5 DEF ChannelsApart
<1>7. ASSUME NEW e \in Devices \ crossed', e # d PROVE DeviceFits(e)'
  <2>1. manager[e].chan \in heard' => manager[e].chan \in heard
    <3>1. manager[e].chan \in heard' => sock'[manager[e].chan].dev = e /\ manager[e].chan \in Sockets
      BY <1>5, <1>7, WireAssumption
    <3> QED BY <1>7, <3>1
  <2> QED BY <1>2, <1>7, <2>1, DeviceStays
<1>8. \A e \in Devices \ crossed' : DeviceFits(e)'
  BY <1>7
<1> QED BY <1>2, <1>3, <1>4, <1>6, <1>8 DEF IInv, ClientInv, ClientTypeOK

\* Its connections stay as they are, too.
LEMMA ManagerMoves ==
    ASSUME IInv, NEW d \in Devices, NEW m \in Manager, Sets(d, m),
           UNCHANGED <<serverVars, wireVars, subs, heard>>, logouts' \in 0..MaxLogouts,
           crossed \subseteq crossed', crossed' \subseteq Devices,
           m.chan \in {None, manager[d].chan}, m.sub \in {None, manager[d].sub},
           d \notin crossed' => DeviceFits(d)'
    PROVE  IInv'
<1>1. UNCHANGED <<serverVars, up, sock, faults, subs, heard>>
  BY DEF wireVars
<1>2. /\ subs \subseteq heard /\ heard \subseteq Sockets /\ sock \in [Sockets -> Socket]
      /\ \A s \in Sockets : sock[s].client # "unused" => sock[s].dev \in Devices
      /\ manager[d].chan # None => sock[manager[d].chan].dev = d
      /\ manager[d].sub # None => sock[manager[d].sub].dev = d
  BY DEF IInv, WireInv, ClientInv, ClientTypeOK, ChannelsApart
<1>3. MapFits
  BY <1>1 DEF MapFits, Left
<1> QED BY <1>1, <1>2, <1>3, DeviceMoves

\* The state of d after a step that leaves its connections alone.
LEMMA LiveStays ==
    ASSUME UNCHANGED <<sock, subs>>, NEW d
    PROVE  \A s \in Sockets : Live(s, d)' = Live(s, d)
  BY DEF Live

\* A connect that is called while it may be.
LEMMA Begun ==
    ASSUME NEW d, DeviceFits(d), manager[d].want, UNCHANGED <<sock, subs, heard>>,
           manager'[d].want, manager'[d].closing = manager[d].closing,
           manager'[d].chan = manager[d].chan, manager'[d].sub = manager[d].sub,
           Begins(manager[d], manager'[d])
    PROVE  DeviceFits(d)'
<1>1. \A s \in Sockets : Live(s, d)' = Live(s, d)
  BY LiveStays
<1>2. /\ Asks(d) => Asks(d)'
      /\ Opens(d) => Opens(d)'
      /\ Talks(d) => Talks(d)'
      /\ Rests(d) => Asks(d)'
  BY <1>1 DEF Begins, Asks, Opens, Talks, Rests
<1> QED BY <1>2 DEF DeviceFits

LEMMA LogsIn ==
    ASSUME IInv, NEW d \in Devices, Login(d), UNCHANGED serverVars
    PROVE  IInv'
<1>0. PICK k, m : k = Connecting(manager[d]) /\ m = [k EXCEPT !.want = TRUE]
  OBVIOUS
<1>1. /\ Sets(d, m) /\ UNCHANGED <<wireVars, subs, heard, logouts, sock>>
      /\ crossed' = IF manager[d].closing THEN crossed \cup {d} ELSE crossed
  BY <1>0 DEF Login, wireVars
<1>2. manager \in [Devices -> Manager] /\ manager[d] \in Manager /\ logouts \in 0..MaxLogouts
      /\ crossed \subseteq Devices
  BY DEF IInv, ClientInv, ClientTypeOK
<1>3. /\ m \in Manager /\ m.chan = manager[d].chan /\ m.sub = manager[d].sub
      /\ m.closing = manager[d].closing /\ m.want
      /\ Begins(manager[d], m)
  <2>1. /\ k \in Manager /\ k.chan = manager[d].chan /\ k.sub = manager[d].sub
        /\ k.closing = manager[d].closing /\ Begins(manager[d], k)
    BY <1>0, <1>2, ConnectingIs
  <2> QED BY <1>0, <2>1 DEF Manager, Begins
<1>4. ASSUME d \notin crossed' PROVE DeviceFits(d)'
  <2>1. DeviceFits(d) /\ ~ manager[d].closing
    BY <1>1, <1>4 DEF IInv, ClientInv, DeviceFits
  <2>2. manager'[d] = m
    BY <1>1, <1>2 DEF Sets
  <2>3. CASE manager[d].want
    BY <1>1, <1>3, <2>1, <2>2, <2>3, Begun
  <2>4. CASE ~ manager[d].want
    <3>1. Gone(d) /\ manager[d].state = "disconnected"
      BY <2>1, <2>4 DEF DeviceFits, Gone
    <3>2. Asks(d)'
      BY <1>1, <1>3, <2>2, <3>1, LiveStays DEF Asks, Gone, Begins
    <3> QED BY <1>3, <2>1, <2>2, <3>2 DEF DeviceFits
  <2> QED BY <2>3, <2>4
<1> QED BY <1>1, <1>2, <1>3, <1>4, ManagerMoves

LEMMA TimerRings ==
    ASSUME IInv, NEW d \in Devices, TimerFires(d), UNCHANGED serverVars
    PROVE  IInv'
<1>0. PICK k, m : k = [manager[d] EXCEPT !.timer = FALSE] /\ m = Connecting(k)
  OBVIOUS
<1>1. /\ manager[d].timer /\ Sets(d, m)
      /\ UNCHANGED <<wireVars, subs, heard, logouts, crossed, sock>>
  BY <1>0 DEF TimerFires, wireVars
<1>2. manager \in [Devices -> Manager] /\ manager[d] \in Manager /\ logouts \in 0..MaxLogouts
      /\ crossed \subseteq Devices
  BY DEF IInv, ClientInv, ClientTypeOK
<1>3. /\ k \in Manager /\ k.chan = manager[d].chan /\ k.sub = manager[d].sub /\ ~ k.timer
      /\ k.closing = manager[d].closing /\ k.want = manager[d].want
      /\ k.state = manager[d].state /\ k.asking = manager[d].asking
  BY <1>0, <1>2 DEF Manager
<1>4. /\ m \in Manager /\ m.chan = manager[d].chan /\ m.sub = manager[d].sub
      /\ m.closing = manager[d].closing /\ m.want = manager[d].want
      /\ Begins(manager[d], m)
  <2>1. /\ m \in Manager /\ m.chan = k.chan /\ m.sub = k.sub
        /\ m.closing = k.closing /\ m.want = k.want /\ Begins(k, m)
    BY <1>0, <1>3, ConnectingIs
  <2> QED BY <1>3, <2>1 DEF Begins
<1>5. ASSUME d \notin crossed' PROVE DeviceFits(d)'
  <2>1. DeviceFits(d) /\ manager[d].want
    BY <1>1, <1>5 DEF IInv, ClientInv, DeviceFits, Gone
  <2>2. manager'[d] = m
    BY <1>1, <1>2 DEF Sets
  <2> QED BY <1>1, <1>4, <2>1, <2>2, Begun
<1> QED BY <1>1, <1>2, <1>4, <1>5, ManagerMoves

LEMMA TokenMissing ==
    ASSUME IInv, NEW d \in Devices, NoToken(d), UNCHANGED serverVars
    PROVE  IInv'
<1>0. PICK m : m = [manager[d] EXCEPT !.asking = @ - 1, !.state = "disconnected"]
  OBVIOUS
<1>1. /\ manager[d].asking > 0 /\ ~ manager[d].want /\ Sets(d, m)
      /\ UNCHANGED <<wireVars, subs, heard, logouts, crossed>>
  BY <1>0 DEF NoToken
<1>2. manager[d] \in Manager /\ logouts \in 0..MaxLogouts /\ crossed \subseteq Devices
  BY DEF IInv, ClientInv, ClientTypeOK
<1>3. m \in Manager /\ m.chan = manager[d].chan /\ m.sub = manager[d].sub
  <2>1. manager[d].asking - 1 \in Nat
    BY <1>1, <1>2 DEF Manager
  <2> QED BY <1>0, <1>2, <2>1 DEF Manager
<1>4. d \in crossed
  BY <1>1 DEF IInv, ClientInv, DeviceFits, Gone
<1> QED BY <1>1, <1>2, <1>3, <1>4, ManagerMoves

LEMMA DisconnectEnds ==
    ASSUME IInv, NEW d \in Devices, EndDisconnect(d), UNCHANGED serverVars
    PROVE  IInv'
<1>0. PICK m : m = Closed(manager[d])
  OBVIOUS
<1>1. manager[d].closing /\ Sets(d, m) /\ UNCHANGED <<wireVars, subs, heard, logouts, crossed, sock>>
  BY <1>0 DEF EndDisconnect, wireVars
<1>2. manager \in [Devices -> Manager] /\ manager[d] \in Manager /\ logouts \in 0..MaxLogouts
      /\ crossed \subseteq Devices
  BY DEF IInv, ClientInv, ClientTypeOK
<1>3. /\ m \in Manager /\ m.chan = None /\ m.sub = manager[d].sub /\ m.want = manager[d].want
      /\ m.state = "disconnected" /\ m.timer = manager[d].timer /\ m.asking = manager[d].asking
  BY <1>0, <1>2, ClosedIs
<1>4. ASSUME d \notin crossed' PROVE DeviceFits(d)'
  <2>1. ~ manager[d].want /\ Gone(d)
    BY <1>1, <1>4 DEF IInv, ClientInv, DeviceFits
  <2>2. manager'[d] = m
    BY <1>1, <1>2 DEF Sets
  <2>3. Gone(d)'
    BY <1>1, <1>3, <2>1, <2>2, LiveStays DEF Gone
  <2> QED BY <1>3, <2>1, <2>2, <2>3 DEF DeviceFits
<1> QED BY <1>1, <1>2, <1>3, <1>4, ManagerMoves

\* A channel is opened on a name that nobody refers to.
LEMMA Dials ==
    ASSUME IInv, NEW d \in Devices, Dial(d), UNCHANGED serverVars
    PROVE  IInv'
<1>0. PICK s \in Sockets : Unused(s, d) /\ s = CHOOSE t \in Sockets : Unused(t, d)
  BY DEF Dial
<1>1. PICK m : m = [manager[d] EXCEPT !.asking = @ - 1, !.chan = s, !.sub = IF @ = s THEN None ELSE @]
  OBVIOUS
<1>2. /\ manager[d].asking > 0 /\ Sets(d, m) /\ heard' = heard \ {s}
      /\ sock' = [sock EXCEPT ![s] = [dev |-> d, client |-> "opening", server |-> "none",
                                      link |-> "up"]]
      /\ UNCHANGED <<up, faults, subs, logouts, crossed>>
  BY <1>0, <1>1 DEF Dial
<1>3. /\ manager \in [Devices -> Manager] /\ manager[d] \in Manager /\ sock \in [Sockets -> Socket]
      /\ logouts \in 0..MaxLogouts /\ crossed \subseteq Devices
      /\ subs \subseteq heard /\ heard \subseteq Sockets
      /\ manager[d].sub # None => sock[manager[d].sub].dev = d
      /\ \A t \in Sockets : sock[t].client # "unused" => sock[t].dev \in Devices
  BY DEF IInv, WireInv, ClientInv, ClientTypeOK, ChannelsApart
<1>4. /\ sock[s].client \in {"unused", "shut"} /\ sock[s].server \in {"none", "gone"} /\ s \notin subs
      /\ \A e \in Devices \ {d} : s \notin {manager[e].chan, manager[e].sub}
  BY <1>0 DEF Unused
<1>5. /\ m \in Manager /\ m.chan = s /\ m.state = manager[d].state /\ m.timer = manager[d].timer
      /\ m.want = manager[d].want /\ m.closing = manager[d].closing
      /\ m.asking = manager[d].asking - 1
      /\ m.sub = IF manager[d].sub = s THEN None ELSE manager[d].sub
  <2>1. PICK n \in Nat : n = manager[d].asking - 1
    BY <1>2, <1>3 DEF Manager
  <2>2. PICK c \in Sockets \cup {None} : c = IF manager[d].sub = s THEN None ELSE manager[d].sub
    BY <1>3 DEF Manager
  <2>3. m = [manager[d] EXCEPT !.asking = n, !.chan = s, !.sub = c]
    BY <1>1, <1>3, <2>1, <2>2 DEF Manager
  <2>4. m \in Manager
    BY <1>3, <2>3 DEF Manager
  <2> QED BY <1>3, <2>1, <2>2, <2>3, <2>4 DEF Manager
<1>6. /\ sock'[s] \in Socket /\ sock'[s].dev = d /\ sock'[s].client = "opening"
      /\ sock'[s].server = "none"
  BY <1>2, <1>3 DEF Socket
<1>7. \A t \in Sockets \ {s} : sock'[t] = sock[t]
  BY <1>2, <1>3
<1>8. sock' \in [Sockets -> Socket]
  BY <1>2, <1>3, <1>6, <1>7
<1>9. ASSUME d \notin crossed' PROVE DeviceFits(d)'
  <2>1. manager'[d] = m
    BY <1>2, <1>3 DEF Sets
  <2>2. manager[d].want /\ ~ manager[d].closing /\ Asks(d)
    BY <1>2, <1>9 DEF IInv, ClientInv, DeviceFits, Gone, Asks, Opens, Talks, Rests
  <2>3. \A t \in Sockets : Live(t, d)' => t = s
    BY <1>2, <1>6, <1>7, <2>2 DEF Asks, Live
  <2>4. m.state = "connecting" /\ m.asking = 0
    BY <1>5, <2>2 DEF Asks
  <2>5. Opens(d)'
    BY <1>2, <1>5, <1>6, <2>1, <2>3, <2>4 DEF Opens
  <2> QED BY <1>5, <2>1, <2>2, <2>5 DEF DeviceFits
<1>10. MapFits
  <2>1. conns \subseteq Sockets /\ s \notin conns
    BY <1>4 DEF IInv, ServerInv, Closing
  <2> QED BY <1>6, <1>7, <2>1 DEF MapFits, Left
<1>11. \A t \in Sockets : sock'[t].client # "unused" => sock'[t].dev \in Devices
  BY <1>3, <1>6, <1>7
<1>12. \A t \in Sockets : sock'[t].dev # d =>
          /\ sock'[t].dev = sock[t].dev /\ sock'[t].client = sock[t].client
          /\ t \in subs' => t \in subs
          /\ t \in heard' => t \in heard
  BY <1>2, <1>6, <1>7
<1>13. \A t \in Sockets : \/ sock'[t].dev = sock[t].dev
                          \/ \A e \in Devices \ {d} : t \notin {manager[e].chan, manager[e].sub}
  BY <1>4, <1>7
<1>14. m.sub # None => sock'[m.sub].dev = d
  BY <1>3, <1>5, <1>7 DEF Manager
<1>15. subs' \subseteq heard' /\ heard' \subseteq Sockets /\ logouts' \in 0..MaxLogouts
       /\ crossed \subseteq crossed' /\ crossed' \subseteq Devices
  BY <1>2, <1>3, <1>4
<1>16. UNCHANGED <<serverVars, up, faults>>
  BY <1>2
<1> QED BY <1>2, <1>5, <1>6, <1>8, <1>9, <1>10, <1>11, <1>12, <1>13, <1>14, <1>15, <1>16, DeviceMoves

\* The client's end of s changes, and with it the manager of its device.
LEMMA ChannelMoves ==
    ASSUME IInv, NEW s \in Sockets, NEW d \in Devices, d = sock[s].dev,
           NEW c \in {"open", "shut"}, sock' = [sock EXCEPT ![s].client = c],
           Left(s) => c = "shut",
           NEW m \in Manager, Sets(d, m),
           UNCHANGED <<serverVars, up, faults, logouts, crossed>>,
           subs' \subseteq heard', heard' \subseteq Sockets,
           \A t \in Sockets : sock[t].dev # d => /\ t \in subs' => t \in subs
                                                 /\ t \in heard' => t \in heard,
           m.chan = manager[d].chan, m.sub \in {manager[d].sub, manager[d].chan},
           d \notin crossed => DeviceFits(d)'
    PROVE  IInv'
<1>1. /\ sock \in [Sockets -> Socket] /\ logouts \in 0..MaxLogouts /\ crossed \subseteq Devices
      /\ manager[d].chan # None => sock[manager[d].chan].dev = d
      /\ manager[d].sub # None => sock[manager[d].sub].dev = d
      /\ \A t \in Sockets : sock[t].client # "unused" => sock[t].dev \in Devices
  BY DEF IInv, WireInv, ClientInv, ClientTypeOK, ChannelsApart
<1>2. /\ sock'[s] \in Socket /\ sock'[s].dev = d /\ sock'[s].client = c
      /\ sock'[s].server = sock[s].server
  BY <1>1 DEF Socket
<1>3. \A t \in Sockets \ {s} : sock'[t] = sock[t]
  BY <1>1
<1>4. \A t \in Sockets : sock'[t].dev = sock[t].dev
  BY <1>2, <1>3
<1>5. sock' \in [Sockets -> Socket]
  BY <1>1, <1>2, <1>3
<1>6. m.chan # None => sock'[m.chan].dev = d
  <2>1. manager[d].chan \in Sockets \cup {None}
    BY DEF IInv, ClientInv, ClientTypeOK, Manager
  <2> QED BY <1>1, <1>4, <2>1
<1>7. m.sub # None => sock'[m.sub].dev = d
  <2>1. manager[d].chan \in Sockets \cup {None} /\ manager[d].sub \in Sockets \cup {None}
    BY DEF IInv, ClientInv, ClientTypeOK, Manager
  <2> QED BY <1>1, <1>4, <2>1
<1>8. MapFits
  <2>1. conns \subseteq Sockets
    BY DEF IInv, ServerInv
  <2> QED BY <1>2, <1>3, <2>1 DEF MapFits, Left
<1>9. \A t \in Sockets : sock'[t].client # "unused" => sock'[t].dev \in Devices
  BY <1>1, <1>2, <1>3
<1>10. \A t \in Sockets : sock'[t].dev # d =>
          /\ sock'[t].dev = sock[t].dev /\ sock'[t].client = sock[t].client
          /\ t \in subs' => t \in subs
          /\ t \in heard' => t \in heard
  BY <1>2, <1>3, <1>4
<1>11. /\ logouts' \in 0..MaxLogouts /\ crossed \subseteq crossed' /\ crossed' \subseteq Devices
       /\ UNCHANGED <<serverVars, up, faults>>
  BY <1>1
<1>12. d \notin crossed' => DeviceFits(d)'
  BY <1>11
<1> QED BY <1>4, <1>5, <1>6, <1>7, <1>8, <1>9, <1>10, <1>11, <1>12, DeviceMoves

\* What is known of the device of a channel that is opening or aborted.
LEMMA Expects ==
    ASSUME IInv, NEW s \in Sockets, sock[s].client \in {"opening", "aborted"},
           sock[s].dev \notin crossed
    PROVE  LET d == sock[s].dev
           IN  /\ d \in Devices /\ manager[d].want /\ ~ manager[d].closing /\ Opens(d)
               /\ s = manager[d].chan /\ sock[s].client = "opening" /\ s \notin heard
<1>1. PICK d : d = sock[s].dev
  OBVIOUS
<1>2. d \in Devices
  BY <1>1 DEF IInv, WireInv
<1>3. DeviceFits(d) /\ Live(s, d)
  BY <1>1, <1>2 DEF IInv, ClientInv, Live
<1>4. ~ Gone(d) /\ ~ Asks(d) /\ ~ Rests(d) /\ ~ Talks(d)
  BY <1>1, <1>3 DEF Gone, Asks, Rests, Talks
<1>5. manager[d].want /\ ~ manager[d].closing /\ Opens(d)
  BY <1>3, <1>4 DEF DeviceFits
<1> QED BY <1>1, <1>2, <1>3, <1>5 DEF Opens

LEMMA Readies ==
    ASSUME IInv, NEW s \in Sockets, Ready(s), UNCHANGED serverVars
    PROVE  IInv'
<1>1. PICK d \in Devices : d = sock[s].dev
  BY DEF Ready, IInv, WireInv
<1>2. PICK c, k : c = manager[d].chan
                  /\ k = [manager[d] EXCEPT !.state = "connected", !.attempts = 0]
  OBVIOUS
<1>3. /\ sock[s].client = "opening" /\ sock' = [sock EXCEPT ![s].client = "open"]
      /\ UNCHANGED <<up, faults, logouts, crossed>>
  BY DEF Ready
<1>4. IF c = None \/ c \in heard
      THEN Sets(d, Scheduled(k)) /\ UNCHANGED <<subs, heard>>
      ELSE /\ Sets(d, [k EXCEPT !.sub = c])
           /\ subs' = subs \cup {c} /\ heard' = heard \cup {c}
  BY <1>1, <1>2 DEF Ready
<1>5. /\ manager \in [Devices -> Manager] /\ manager[d] \in Manager /\ sock \in [Sockets -> Socket]
      /\ subs \subseteq heard /\ heard \subseteq Sockets
      /\ manager[d].chan # None => sock[manager[d].chan].dev = d
  BY DEF IInv, WireInv, ClientInv, ClientTypeOK, ChannelsApart
<1>6. /\ k \in Manager /\ k.chan = c /\ k.sub = manager[d].sub /\ k.timer = manager[d].timer
      /\ k.asking = manager[d].asking /\ k.want = manager[d].want
      /\ k.closing = manager[d].closing /\ k.state = "connected"
  <2>1. PICK n \in 0..MaxReconnectAttempts : n = 0
    BY ClientAssumption
  <2>2. k = [manager[d] EXCEPT !.state = "connected", !.attempts = n]
    BY <1>2, <2>1
  <2> QED BY <1>2, <1>5, <2>2 DEF Manager
<1>7. d \notin crossed =>
         /\ manager[d].want /\ ~ manager[d].closing /\ Opens(d)
         /\ s = c /\ s \notin heard
  BY <1>1, <1>2, <1>3, Expects
<1>8. CASE c = None \/ c \in heard
  <2>1. PICK m \in Manager : m = Scheduled(k) /\ m.chan = k.chan /\ m.sub = k.sub
    BY <1>6, ScheduledIs
  <2>2. Sets(d, m) /\ UNCHANGED <<subs, heard>>
    BY <1>4, <1>8, <2>1
  <2>3. d \in crossed
    BY <1>7, <1>8, WireAssumption
  <2>4. m.chan = manager[d].chan /\ m.sub \in {manager[d].sub, manager[d].chan}
    BY <1>2, <1>6, <2>1
  <2>5. subs' \subseteq heard' /\ heard' \subseteq Sockets
    BY <1>5, <2>2
  <2> QED BY <1>1, <1>3, <2>1, <2>2, <2>3, <2>4, <2>5, ChannelMoves DEF Left
<1>9. CASE ~ (c = None \/ c \in heard)
  <2>1. c \in Sockets
    BY <1>2, <1>5, <1>9 DEF Manager
  <2>2. PICK m : m = [k EXCEPT !.sub = c]
    OBVIOUS
  <2>3. /\ m \in Manager /\ m.chan = c /\ m.sub = c /\ m.timer = k.timer /\ m.asking = k.asking
        /\ m.want = k.want /\ m.closing = k.closing /\ m.state = "connected"
    BY <1>6, <2>1, <2>2 DEF Manager
  <2>4. Sets(d, m) /\ subs' = subs \cup {c} /\ heard' = heard \cup {c}
    BY <1>4, <1>9, <2>2
  <2>5. sock[c].dev = d
    BY <1>2, <1>5, <1>9
  <2>6. ASSUME d \notin crossed PROVE DeviceFits(d)'
    <3>1. manager'[d] = m
      BY <1>5, <2>4 DEF Sets
    <3>2. /\ manager[d].want /\ ~ manager[d].closing /\ Opens(d) /\ s = c /\ s \notin heard
      BY <1>7, <2>6
    <3>3. \A t \in Sockets : Live(t, d) => t = s
      BY <1>2, <3>2 DEF Opens
    <3>4. sock'[s].client = "open" /\ sock'[s].dev = d
      BY <1>1, <1>3, <1>5 DEF Socket
    <3>5. \A t \in Sockets \ {s} : sock'[t] = sock[t]
      BY <1>3, <1>5
    <3>6. \A t \in Sockets : Live(t, d)' => t = s
      BY <2>4, <3>2, <3>3, <3>5 DEF Live
    <3>7. \A t \in subs' : sock'[t].dev = d => t = s
      BY <1>5, <2>1, <2>4, <3>2, <3>6 DEF Live
    <3>8. m.asking = 0
      BY <1>6, <2>3, <3>2 DEF Opens
    <3>9. Talks(d)'
      BY <2>3, <3>1, <3>2, <3>4, <3>6, <3>7, <3>8 DEF Talks
    <3> QED BY <1>6, <2>3, <3>1, <3>2, <3>9 DEF DeviceFits
  <2>7. m.chan = manager[d].chan /\ m.sub \in {manager[d].sub, manager[d].chan}
    BY <1>2, <2>3
  <2>8. subs' \subseteq heard' /\ heard' \subseteq Sockets
    BY <1>5, <2>1, <2>4
  <2>9. \A t \in Sockets : sock[t].dev # d => /\ t \in subs' => t \in subs
                                              /\ t \in heard' => t \in heard
    BY <2>4, <2>5
  <2> QED BY <1>1, <1>3, <2>3, <2>4, <2>6, <2>7, <2>8, <2>9, ChannelMoves DEF Left
<1> QED BY <1>8, <1>9

LEMMA NotReadies ==
    ASSUME IInv, NEW s \in Sockets, NotReady(s), UNCHANGED serverVars
    PROVE  IInv'
<1>1. sock[s].client \in {"opening", "aborted"}
  BY DEF NotReady
<1>2. PICK d \in Devices : d = sock[s].dev
  BY <1>1 DEF IInv, WireInv
<1>3. PICK k, m : k = Scheduled(manager[d]) /\ m = IF s \in subs THEN Scheduled(k) ELSE k
  OBVIOUS
<1>4. /\ sock' = [sock EXCEPT ![s].client = "shut"] /\ Sets(d, m) /\ subs' = subs \ {s}
      /\ UNCHANGED <<up, faults, heard, logouts, crossed>>
  BY <1>2, <1>3 DEF NotReady
<1>5. /\ manager \in [Devices -> Manager] /\ manager[d] \in Manager /\ sock \in [Sockets -> Socket]
      /\ subs \subseteq heard /\ heard \subseteq Sockets
  BY DEF IInv, WireInv, ClientInv, ClientTypeOK
<1>6. k \in Manager /\ k.chan = manager[d].chan /\ k.sub = manager[d].sub
  BY <1>3, <1>5, ScheduledIs
<1>7. m \in Manager /\ m.chan = manager[d].chan /\ m.sub = manager[d].sub
  BY <1>3, <1>6, ScheduledIs
<1>8. ASSUME d \notin crossed PROVE DeviceFits(d)'
  <2>1. manager[d].want /\ ~ manager[d].closing /\ Opens(d) /\ s = manager[d].chan /\ s \notin heard
    BY <1>1, <1>2, <1>8, Expects
  <2>2. manager'[d] = k
    BY <1>3, <1>4, <1>5, <2>1 DEF Sets
  <2>3. /\ k.asking = manager[d].asking /\ k.want = manager[d].want /\ k.closing = manager[d].closing
        /\ \/ k.state = "reconnecting" /\ k.timer
           \/ k.state = "disconnected" /\ k.timer = manager[d].timer
    BY <1>3, <1>5, ScheduledIs
  <2>4. sock'[s].client = "shut" /\ \A t \in Sockets \ {s} : sock'[t] = sock[t]
    BY <1>4, <1>5 DEF Socket
  <2>5. \A t \in Sockets : ~ Live(t, d)'
    BY <1>4, <2>1, <2>4 DEF Opens, Live
  <2>6. Rests(d)'
    BY <2>1, <2>2, <2>3, <2>5 DEF Opens, Rests
  <2> QED BY <2>1, <2>2, <2>3, <2>6 DEF DeviceFits
<1>9. /\ subs' \subseteq heard' /\ heard' \subseteq Sockets
      /\ \A t \in Sockets : sock[t].dev # d => /\ t \in subs' => t \in subs
                                               /\ t \in heard' => t \in heard
  BY <1>4, <1>5
<1> QED BY <1>2, <1>4, <1>7, <1>8, <1>9, ChannelMoves

\* The channel that ends is the one its device talks by.
LEMMA Ended ==
    ASSUME IInv, NEW s \in Sockets, NEW d \in Devices \ crossed, sock[s].dev = d,
           sock[s].client \in {"open", "shut"}, sock[s].client = "shut" => s \in subs
    PROVE  manager[d].want /\ ~ manager[d].closing /\ Talks(d) /\ s = manager[d].chan
<1>1. DeviceFits(d) /\ Live(s, d)
  BY DEF IInv, ClientInv, Live
<1>2. ~ Gone(d) /\ ~ Asks(d) /\ ~ Rests(d) /\ ~ Opens(d)
  BY <1>1 DEF Gone, Asks, Rests, Opens
<1>3. manager[d].want /\ ~ manager[d].closing /\ Talks(d)
  BY <1>1, <1>2 DEF DeviceFits
<1> QED BY <1>1, <1>3 DEF Talks

LEMMA Dones ==
    ASSUME IInv, NEW s \in Sockets, Done(s), UNCHANGED serverVars
    PROVE  IInv'
<1>1. sock[s].client \in {"open", "shut"} /\ (sock[s].client = "shut" => s \in subs)
  BY DEF Done
<1>2. PICK d \in Devices : d = sock[s].dev
  BY <1>1 DEF IInv, WireInv
<1>3. /\ sock' = [sock EXCEPT ![s].client = "shut"] /\ subs' = subs \ {s}
      /\ IF s \in subs THEN Sets(d, Scheduled(manager[d])) ELSE UNCHANGED manager
      /\ UNCHANGED <<up, faults, heard, logouts, crossed>>
  BY <1>2 DEF Done
<1>4. /\ manager \in [Devices -> Manager] /\ manager[d] \in Manager /\ sock \in [Sockets -> Socket]
      /\ subs \subseteq heard /\ heard \subseteq Sockets
  BY DEF IInv, WireInv, ClientInv, ClientTypeOK
<1>5. PICK m : m = IF s \in subs THEN Scheduled(manager[d]) ELSE manager[d]
  OBVIOUS
<1>6. Sets(d, m) /\ manager'[d] = m
  BY <1>3, <1>4, <1>5 DEF Sets
<1>7. /\ m \in Manager /\ m.chan = manager[d].chan /\ m.sub = manager[d].sub
      /\ m.asking = manager[d].asking /\ m.want = manager[d].want /\ m.closing = manager[d].closing
  BY <1>4, <1>5, ScheduledIs
<1>8. ASSUME d \notin crossed PROVE DeviceFits(d)'
  <2>1. manager[d].want /\ ~ manager[d].closing /\ Talks(d) /\ s = manager[d].chan
    BY <1>1, <1>2, <1>8, Ended
  <2>2. sock'[s].client = "shut" /\ \A t \in Sockets \ {s} : sock'[t] = sock[t]
    BY <1>3, <1>4 DEF Socket
  <2>3. \A t \in Sockets : ~ Live(t, d)'
    BY <1>3, <2>1, <2>2 DEF Talks, Live
  <2>4. CASE s \in subs
    <3>1. \/ m.state = "reconnecting" /\ m.timer
          \/ m.state = "disconnected" /\ m.timer = manager[d].timer
      BY <1>4, <1>5, <2>4, ScheduledIs
    <3>2. Rests(d)'
      BY <1>6, <1>7, <2>1, <2>3, <3>1 DEF Talks, Rests
    <3> QED BY <1>6, <1>7, <2>1, <3>2 DEF DeviceFits
  <2>5. CASE s \notin subs
    <3>1. manager'[d] = manager[d]
      BY <1>5, <1>6, <2>5
    <3>2. \A t \in subs' : sock'[t].dev = d => t = manager[d].sub
      BY <1>3, <1>4, <2>1, <2>2 DEF Talks
    <3>3. Talks(d)'
      BY <2>1, <2>3, <3>1, <3>2 DEF Talks
    <3> QED BY <2>1, <3>1, <3>3 DEF DeviceFits
  <2> QED BY <2>4, <2>5
<1>9. /\ subs' \subseteq heard' /\ heard' \subseteq Sockets
      /\ \A t \in Sockets : sock[t].dev # d => /\ t \in subs' => t \in subs
                                               /\ t \in heard' => t \in heard
  BY <1>3, <1>4
<1> QED BY <1>1, <1>2, <1>3, <1>6, <1>7, <1>8, <1>9, ChannelMoves

LEMMA StoppedIs ==
    ASSUME NEW m \in Manager
    PROVE  /\ Stopped(m) \in Manager
           /\ Stopped(m).sub = None /\ ~ Stopped(m).want /\ ~ Stopped(m).timer
           /\ Stopped(m).chan = m.chan /\ Stopped(m).asking = m.asking
           /\ [Stopped(m) EXCEPT !.closing = TRUE] \in Manager
<1>1. PICK c \in Sockets \cup {None} : c = None
  OBVIOUS
<1>2. Stopped(m) = [m EXCEPT !.timer = FALSE, !.sub = c, !.want = FALSE]
  BY <1>1 DEF Stopped
<1>3. Stopped(m) \in Manager
  BY <1>2 DEF Manager
<1>4. /\ Stopped(m).sub = None /\ ~ Stopped(m).want /\ ~ Stopped(m).timer
      /\ Stopped(m).chan = m.chan /\ Stopped(m).asking = m.asking
  BY <1>1, <1>2 DEF Manager
<1>5. [Stopped(m) EXCEPT !.closing = TRUE] \in Manager
  BY <1>3 DEF Manager
<1> QED BY <1>3, <1>4, <1>5

LEMMA Disconnects ==
    ASSUME IInv, NEW d \in Devices, Disconnect(d), UNCHANGED serverVars
    PROVE  IInv'
<1>1. PICK o : o = manager[d]
  OBVIOUS
<1>2. PICK m : m = IF o.chan = None THEN Closed(Stopped(o)) ELSE [Stopped(o) EXCEPT !.closing = TRUE]
  OBVIOUS
<1>3. PICK Cut : Cut = [s \in Sockets |->
                        IF s # o.chan THEN sock[s] ELSE
                        CASE sock[s].client = "opening" -> [sock[s] EXCEPT !.client = "aborted"]
                          [] sock[s].client = "open"    -> [sock[s] EXCEPT !.client = "shut"]
                          [] OTHER                      -> sock[s]]
  OBVIOUS
<1>4. /\ o.want /\ logouts < MaxLogouts /\ logouts' = logouts + 1
      /\ Sets(d, m) /\ subs' = subs \ {o.sub} /\ sock' = Cut
      /\ crossed' = IF o.asking > 0 \/ Awaited(d) # {} THEN crossed \cup {d} ELSE crossed
      /\ UNCHANGED <<up, faults, heard>>
  BY <1>1, <1>2, <1>3 DEF Disconnect
<1>5. /\ manager \in [Devices -> Manager] /\ o \in Manager /\ sock \in [Sockets -> Socket]
      /\ logouts \in 0..MaxLogouts /\ crossed \subseteq Devices
      /\ subs \subseteq heard /\ heard \subseteq Sockets
      /\ o.chan # None => sock[o.chan].dev = d
      /\ \A t \in Sockets : sock[t].client # "unused" => sock[t].dev \in Devices
  BY <1>1 DEF IInv, WireInv, ClientInv, ClientTypeOK, ChannelsApart
<1>6. /\ m \in Manager /\ m.sub = None /\ ~ m.want /\ ~ m.timer /\ m.asking = o.asking
      /\ m.closing \/ m.state = "disconnected"
      /\ m.chan \in {None, o.chan}
  <2>1. PICK r \in Manager : /\ r = Stopped(o) /\ r.sub = None /\ ~ r.want /\ ~ r.timer
                             /\ r.chan = o.chan /\ r.asking = o.asking
                             /\ [r EXCEPT !.closing = TRUE] \in Manager
    BY <1>5, StoppedIs
  <2>2. CASE o.chan = None
    <3>1. m = Closed(r)
      BY <1>2, <2>1, <2>2
    <3> QED BY <2>1, <3>1, ClosedIs
  <2>3. CASE o.chan # None
    <3>1. m = [r EXCEPT !.closing = TRUE]
      BY <1>2, <2>1, <2>3
    <3> QED BY <2>1, <3>1 DEF Manager
  <2> QED BY <2>2, <2>3
<1>7. ASSUME NEW t \in Sockets
      PROVE  /\ sock'[t] \in Socket /\ sock'[t].dev = sock[t].dev
             /\ sock'[t].server = sock[t].server
             /\ t # o.chan => sock'[t] = sock[t]
             /\ t = o.chan /\ sock[t].client = "open" => sock'[t].client = "shut"
             /\ sock[t].client \in {"unused", "aborted", "shut"} => sock'[t].client = sock[t].client
  <2>1. sock[t] \in Socket
    BY <1>5
  <2>2. CASE t # o.chan
    BY <1>3, <1>4, <2>1, <2>2, Zenon
  <2>3. CASE t = o.chan /\ sock[t].client = "opening"
    <3>1. sock'[t] = [sock[t] EXCEPT !.client = "aborted"]
      BY <1>3, <1>4, <2>3
    <3> QED BY <2>1, <2>3, <3>1 DEF Socket
  <2>4. CASE t = o.chan /\ sock[t].client = "open"
    <3>1. sock'[t] = [sock[t] EXCEPT !.client = "shut"]
      BY <1>3, <1>4, <2>4
    <3> QED BY <2>1, <2>4, <3>1 DEF Socket
  <2>5. CASE t = o.chan /\ sock[t].client \notin {"opening", "open"}
    <3>1. sock'[t] = sock[t]
      BY <1>3, <1>4, <2>5
    <3> QED BY <2>1, <2>5, <3>1
  <2> QED BY <2>2, <2>3, <2>4, <2>5
<1>8. sock' \in [Sockets -> Socket]
  BY <1>3, <1>4, <1>7
<1>9. ASSUME d \notin crossed' PROVE DeviceFits(d)'
  <2>1. o.asking = 0 /\ (\A s \in Sockets : sock[s].dev = d => sock[s].client \notin {"opening", "aborted"})
        /\ d \notin crossed
    BY <1>4, <1>5, <1>9 DEF Awaited, Manager
  <2>2. DeviceFits(d) /\ ~ Asks(d)
    BY <1>1, <2>1 DEF IInv, ClientInv, Asks
  <2>3. Opens(d) \/ Talks(d) \/ Rests(d)
    BY <1>1, <1>4, <2>2 DEF DeviceFits
  <2>4. \A s \in Sockets : Live(s, d) =>
           s = o.chan /\ sock[s].client \in {"open", "shut"} /\ (s \in subs => s = o.sub)
    BY <1>1, <2>1, <2>3 DEF Opens, Talks, Rests, Live
  <2>5. \A s \in Sockets : sock[s].client \in {"unused", "opening", "open", "aborted", "shut"}
    BY <1>5 DEF Socket
  <2>6. \A s \in Sockets : ~ Live(s, d)'
    BY <1>4, <1>7, <2>1, <2>4, <2>5 DEF Live
  <2>7. manager'[d] = m
    BY <1>1, <1>4, <1>5 DEF Sets
  <2>8. Gone(d)'
    BY <1>6, <2>1, <2>6, <2>7 DEF Gone
  <2> QED BY <1>6, <2>7, <2>8 DEF DeviceFits
<1>10. m.chan # None => sock'[m.chan].dev = d
  <2>1. m.chan \in Sockets \cup {None}
    BY <1>6 DEF Manager
  <2> QED BY <1>5, <1>6, <1>7, <2>1
<1>11. \A t \in Sockets : sock'[t].dev # d =>
          /\ sock'[t].dev = sock[t].dev /\ sock'[t].client = sock[t].client
          /\ t \in subs' => t \in subs
          /\ t \in heard' => t \in heard
  BY <1>4, <1>5, <1>7, WireAssumption DEF Manager
<1>12. \A t \in Sockets : sock'[t].client # "unused" => sock'[t].dev \in Devices
  BY <1>5, <1>7
<1>13. logouts' \in 0..MaxLogouts /\ crossed \subseteq crossed' /\ crossed' \subseteq Devices
       /\ subs' \subseteq heard' /\ heard' \subseteq Sockets
  BY <1>4, <1>5, ClientAssumption
<1>14. UNCHANGED <<serverVars, up, faults>>
  BY <1>4
<1>15. MapFits
  <2>1. conns \subseteq Sockets
    BY DEF IInv, ServerInv
  <2> QED BY <1>7, <2>1 DEF MapFits, Left
<1> QED BY <1>4, <1>6, <1>7, <1>8, <1>9, <1>10, <1>11, <1>12, <1>13, <1>14, <1>15, DeviceMoves

LEMMA ClientKeeps ==
    ASSUME IInv, ClientSteps
    PROVE  IInv'
  BY LogsIn, TimerRings, TokenMissing, Disconnects, Dials, DisconnectEnds, Readies, NotReadies, Dones
     DEF ClientSteps, ClientNext

-----------------------------------------------------------------------------
LEMMA Starts ==
    ASSUME Init
    PROVE  IInv
<1>1. /\ sock = [s \in Sockets |-> [dev |-> None, client |-> "unused", server |-> "none", link |-> "up"]]
      /\ up = TRUE /\ faults = 0 /\ conns = {} /\ before = {} /\ alive = {}
      /\ manager = [d \in Devices |->
                      [state |-> "disconnected", asking |-> 0, chan |-> None, sub |-> None,
                       timer |-> FALSE, attempts |-> 0, want |-> FALSE, closing |-> FALSE]]
      /\ subs = {} /\ heard = {} /\ logouts = 0 /\ crossed = {}
  BY DEF Init, WireInit, ServerInit, ClientInit
<1>2. WireInv
  <2>1. sock \in [Sockets -> Socket]
    BY <1>1 DEF Socket
  <2> QED BY <1>1, <2>1, WireAssumption DEF WireInv
<1>3. ServerInv
  <2>1. Cardinality(conns) <= Limit
    BY <1>1, FS_EmptySet, ServerAssumption
  <2> QED BY <1>1, <2>1 DEF ServerInv, Ordered
<1>4. manager \in [Devices -> Manager]
  <2>1. PICK c, n : c = None /\ n = 0 /\ c \in Sockets \cup {None} /\ n \in 0..MaxReconnectAttempts
    BY ClientAssumption
  <2>2. [state |-> "disconnected", asking |-> 0, chan |-> c, sub |-> c,
         timer |-> FALSE, attempts |-> n, want |-> FALSE, closing |-> FALSE] \in Manager
    BY <2>1 DEF Manager
  <2> QED BY <1>1, <2>1, <2>2
<1>5. ClientTypeOK /\ ChannelsApart
  <2>1. logouts \in 0..MaxLogouts
    BY <1>1, ClientAssumption
  <2>2. ClientTypeOK
    BY <1>1, <1>4, <2>1 DEF ClientTypeOK
  <2>3. \A d \in Devices : manager[d].chan = None /\ manager[d].sub = None
    BY <1>1
  <2> QED BY <2>2, <2>3 DEF ChannelsApart
<1>6. ASSUME NEW d \in Devices PROVE DeviceFits(d)
  BY <1>1, WireAssumption DEF DeviceFits, Gone, Live
<1> QED BY <1>2, <1>3, <1>5, <1>6 DEF IInv, ClientInv

LEMMA Stutters ==
    ASSUME IInv, UNCHANGED vars
    PROVE  IInv'
<1>1. /\ UNCHANGED <<up, sock, faults, conns, before, alive>> /\ UNCHANGED clientVars
  BY DEF vars, wireVars, serverVars
<1>2. /\ sock' \in [Sockets -> Socket] /\ faults' \in 0..MaxFaults /\ up' \in BOOLEAN
      /\ alive' \subseteq conns
  BY <1>1 DEF IInv, WireInv, ServerInv
<1>3. MapFits
  BY <1>1 DEF MapFits, Left
<1> QED BY <1>1, <1>2, <1>3, MapRests

(* Map, wire and devices stay as their invariants say: whatever the devices *)
(* do meanwhile, the gateway's handlers see to its map, and whatever the    *)
(* gateway and the network do, the managers' callbacks see to the devices.  *)
THEOREM WsInvariant == Spec => []IInv
<1>1. Init => IInv
  BY Starts
<1>2. IInv /\ [Next]_vars => IInv'
  BY GatewayKeeps, ClientKeeps, Stutters DEF Next
<1> QED BY <1>1, <1>2, PTL DEF Spec

(* Both ends and the wire are well-formed; the map has no more sockets than *)
(* the limit, and one order.                                                *)
THEOREM WsTypeOK == Spec => []TypeOK
  BY WsInvariant, Types, PTL

(* broadcastToUser reaches every socket of the user that is open: no        *)
(* handler of a late close event, no eviction and no heartbeat takes one    *)
(* from the map that is open; and one that is listed and not open waits for *)
(* its close event because its client has left.                             *)
THEOREM MapListsOpen == Spec => []OpenIsListed
  BY WsInvariant, Types, PTL

(* After disconnect no timer, no subscription and no channel of the device  *)
(* is left, unless it met a connect.                                        *)
THEOREM DisconnectIsFinal == Spec => []DisconnectHolds
  BY WsInvariant, Disconnected, PTL
=============================================================================
