------------------------------ MODULE WsSystem -----------------------------
(***************************************************************************)
(* The gateway and the devices of one user together, over a network that   *)
(* can lose a link without telling either end.                             *)
(***************************************************************************)
EXTENDS WsServer, WsClient

vars == <<wireVars, serverVars, clientVars>>

Init == WireInit /\ ServerInit /\ ClientInit

ServerSteps == ServerNext /\ UNCHANGED clientVars
ClientSteps == ClientNext /\ UNCHANGED serverVars
Loses == \E s \in Sockets : CutLink(s) /\ UNCHANGED <<serverVars, clientVars>>

Next == ServerSteps \/ ClientSteps \/ Loses

Spec == Init /\ [][Next]_vars /\ ServerFairness /\ ClientFairness

(* Both ends and the wire are well-formed.                                 *)
TypeOK ==
    /\ up \in BOOLEAN /\ sock \in [Sockets -> Socket] /\ faults \in 0..MaxFaults
    /\ ServerTypeOK /\ ClientTypeOK

-----------------------------------------------------------------------------
GaveUp(d) == manager[d].attempts = MaxReconnectAttempts /\ manager[d].state = "disconnected"

\* The device is connected by a channel it listens to and the gateway lists.
Settled(d) ==
    /\ manager[d].state = "connected"
    /\ manager[d].chan \in subs /\ Listed(manager[d].chan)
    /\ sock[manager[d].chan].link = "up"

(* When links are lost and the gateway stops only so often, the dead       *)
(* sockets disappear from the gateway's map, and every device that is to   *)
(* be connected is so in the end, or has used up its attempts while the    *)
(* gateway was away: although a stale socket takes the place of a live one *)
(* until the heartbeat finds it, and its eviction hits whichever is        *)
(* oldest.  Assumed: as many sockets are allowed as there are devices, and *)
(* no disconnect met a connect (which can leave a device two channels).    *)
SocketsSettle ==
    <>[](crossed = {} =>
           /\ \A s \in Sockets : Listed(s) => Answers(s)
           /\ \A d \in Devices : manager[d].want => Settled(d) \/ GaveUp(d))

=============================================================================
