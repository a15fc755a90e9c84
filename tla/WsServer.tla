------------------------------ MODULE WsServer ------------------------------
(***************************************************************************)
(* The gateway's side of one user's sockets (websocket/ws-server.ts): his  *)
(* entry in the map of connections, which handlers of connections, closes, *)
(* the heartbeat and the stop of the server all change.  Each of them is   *)
(* one turn of the event loop.                                             *)
(***************************************************************************)
EXTENDS Wire

CONSTANT Limit    \* config.ws.maxConnectionsPerUser

ASSUME ServerAssumption == Limit \in Nat \ {0}

VARIABLES
    conns,        \* connections.get(userId): a Set
    before,       \* its order of insertion: <<s, t>> if s came before t
    alive         \* the sockets whose isAlive is true

serverVars == <<conns, before, alive>>

ServerInit == conns = {} /\ before = {} /\ alive = {}

ServerTypeOK ==
    /\ conns \subseteq Sockets /\ Cardinality(conns) <= Limit
    /\ before \subseteq conns \X conns
    /\ \A s, t \in conns : s # t => (<<s, t>> \in before) # (<<t, s>> \in before)
    /\ alive \subseteq conns

-----------------------------------------------------------------------------
Listed(s) == s \in conns

\* The entry is reduced to those kept.
Keeps(kept) == conns' = kept /\ before' = before \cap (kept \X kept)

\* Variant with a fault: the socket that is closed stays in the set.
EvictedStays == {}

\* The oldest socket, when there are as many as there may be.
Evicted == IF Cardinality(conns) >= Limit
           THEN {s \in conns : \A t \in conns \ {s} : <<s, t>> \in before} ELSE {}

Arrives(s) ==
    /\ up
    /\ sock[s].client = "opening" /\ sock[s].server = "none" /\ sock[s].link = "up"

(* handleConnection with a valid token. *)
Accept(s) ==
    /\ Arrives(s)
    /\ LET kept == conns \ Evicted
       IN /\ conns' = kept \cup {s}
          /\ before' = (before \cap (kept \X kept)) \cup (kept \X {s})
    /\ alive' = (alive \ Evicted) \cup {s}
    /\ sock' = [t \in Sockets |->
                  IF t = s THEN [sock[t] EXCEPT !.server = "open"] ELSE
                  IF t \in Evicted THEN [sock[t] EXCEPT !.server = "closing"] ELSE sock[t]]
    /\ UNCHANGED <<up, faults>>

(* handleConnection with an expired one: closed, and never listed. *)
Refuse(s) ==
    /\ Arrives(s) /\ Fault
    /\ sock' = [sock EXCEPT ![s].server = "closing"]
    /\ UNCHANGED <<up, serverVars>>

\* Variant with a fault: the user's whole entry is deleted.
DroppedEntry(s) == {}

\* What the close handler leaves of the user's entry.
Dropped(s) == conns \ {s}

\* The client has closed its end.
Left(s) == sock[s].client \in {"aborted", "shut"}

(* The client's close frame, or the end of its stream, is read: the socket *)
(* is CLOSING, and stays in the map until its close event.                 *)
SeesClose(s) ==
    /\ sock[s].server = "open" /\ sock[s].link = "up" /\ Left(s)
    /\ sock' = [sock EXCEPT ![s].server = "closing"]
    /\ UNCHANGED <<up, serverVars, faults>>

(* The close event of a closing socket: the stream has ended, or thirty    *)
(* seconds have passed.                                                    *)
CloseEvent(s) ==
    /\ sock[s].server = "closing" /\ (Left(s) \/ sock[s].link = "cut")
    /\ sock' = [sock EXCEPT ![s].server = "gone"]
    /\ Keeps(Dropped(s)) /\ alive' = alive \cap Dropped(s)
    /\ UNCHANGED <<up, faults>>

\* Variant with a fault: a socket that has not answered is left alone.
StaleNever == {}

\* The sockets that have not answered the last ping.
Stale == conns \ alive

(* The heartbeat terminates the stale sockets and pings the others.  A     *)
(* ping that can be answered is answered before the next one.              *)
Heartbeat ==
    /\ up /\ \A s \in conns \ alive : ~ Answers(s)
    /\ Keeps(conns \ Stale) /\ alive' = {}
    /\ sock' = [s \in Sockets |-> IF s \in Stale THEN [sock[s] EXCEPT !.server = "gone"]
                                                 ELSE sock[s]]
    /\ UNCHANGED <<up, faults>>

Pong(s) ==
    /\ Listed(s) /\ s \notin alive /\ Answers(s)
    /\ alive' = alive \cup {s}
    /\ UNCHANGED <<up, conns, before, sock, faults>>

(* stopWebSocketServer: every socket gets a close frame, the map is empty. *)
Stop ==
    /\ up /\ Fault
    /\ up' = FALSE /\ conns' = {} /\ before' = {} /\ alive' = {}
    /\ sock' = [s \in Sockets |-> IF Listed(s) THEN [sock[s] EXCEPT !.server = "closing"]
                                               ELSE sock[s]]

(* The gateway is started again; of the old process nothing is left. *)
Start ==
    /\ ~ up /\ up' = TRUE
    /\ sock' = [s \in Sockets |-> IF sock[s].server \in {"open", "closing"}
                                  THEN [sock[s] EXCEPT !.server = "gone"] ELSE sock[s]]
    /\ UNCHANGED <<serverVars, faults>>

ServerNext ==
    \/ Heartbeat \/ Stop \/ Start
    \/ \E s \in Sockets : Accept(s) \/ Refuse(s) \/ SeesClose(s) \/ CloseEvent(s) \/ Pong(s)

ServerFairness ==
    /\ WF_<<serverVars, wireVars>>(Heartbeat) /\ WF_<<serverVars, wireVars>>(Start)
    /\ \A s \in Sockets :
          WF_<<serverVars, wireVars>>(Accept(s) \/ SeesClose(s) \/ CloseEvent(s) \/ Pong(s))

-----------------------------------------------------------------------------
\* broadcastToUser: the listed sockets whose readyState is OPEN.
Receivers == {s \in conns : sock[s].server = "open"}

(* A broadcast reaches every socket the gateway has accepted and neither   *)
(* closed nor seen closing, in whatever order new connections, evictions,  *)
(* late close events and the heartbeat come; and what else the user's      *)
(* entry lists waits for its close event, because its client has closed:   *)
(* of the sockets the gateway itself has closed none is listed.            *)
OpenIsListed ==
    /\ Receivers = {s \in Sockets : sock[s].server = "open"}
    /\ \A s \in conns \ Receivers : sock[s].server = "closing" /\ Left(s)

=============================================================================
