------------------------------ MODULE WsClient ------------------------------
(***************************************************************************)
(* WebSocketManager of the mobile client (websocket_manager.dart), one on  *)
(* each device: connecting, losing the connection, reconnecting.  connect  *)
(* awaits the token and then the channel, disconnect the closing of the    *)
(* channel; neither they nor the timers know of one another.               *)
(***************************************************************************)
EXTENDS Wire

CONSTANTS
    MaxReconnectAttempts,  \* _maxReconnectAttempts
    Leavers,      \* the devices on which disconnect may be called
    Callers,      \* bound: the devices on which connect may be called repeatedly
    MaxLogouts    \* bound: calls of disconnect

ASSUME ClientAssumption == MaxReconnectAttempts \in Nat /\ MaxLogouts \in Nat

VARIABLES
    manager,      \* the manager of each device
    subs,         \* channels with a subscription that has not ended
    heard,        \* channels that were listened to (a stream has one listener)
    logouts,      \* number of calls of disconnect so far
    crossed       \* history: devices whose disconnect met a connect

clientVars == <<manager, subs, heard, logouts, crossed>>

\* state: _state; asking: connects that await the token; chan, sub: _channel
\* and the channel of _subscription; timer: _reconnectTimer runs; attempts:
\* _reconnectAttempts; want: the app has called connect last;
\* closing: a disconnect awaits.
Manager == [state : {"disconnected", "connecting", "connected", "reconnecting"},
            asking : Nat, chan : Sockets \cup {None}, sub : Sockets \cup {None},
            timer : BOOLEAN, attempts : 0..MaxReconnectAttempts, want : BOOLEAN,
            closing : BOOLEAN]

ClientInit ==
    /\ manager = [d \in Devices |->
                    [state |-> "disconnected", asking |-> 0, chan |-> None, sub |-> None,
                     timer |-> FALSE, attempts |-> 0, want |-> FALSE, closing |-> FALSE]]
    /\ subs = {} /\ heard = {} /\ logouts = 0 /\ crossed = {}

ClientTypeOK ==
    /\ manager \in [Devices -> Manager]
    /\ subs \subseteq heard /\ heard \subseteq Sockets
    /\ logouts \in 0..MaxLogouts /\ crossed \subseteq Devices

-----------------------------------------------------------------------------
Sets(d, m) == manager' = [manager EXCEPT ![d] = m]

\* connect() up to its first await.
Connecting(m) ==
    IF m.state \in {"connecting", "connected"}
    THEN m
    ELSE [m EXCEPT !.state = "connecting", !.asking = @ + 1]

\* _onDone, _onError and the catch of connect: disconnected, then
\* _scheduleReconnect.
Scheduled(m) ==
    IF m.attempts >= MaxReconnectAttempts
    THEN [m EXCEPT !.state = "disconnected"]
    ELSE [m EXCEPT !.state = "reconnecting", !.timer = TRUE, !.attempts = @ + 1]

\* The connects of d that await their channel.
Awaited(d) == {s \in Sockets : sock[s].dev = d /\ sock[s].client \in {"opening", "aborted"}}

(* The app calls connect: also again, while a timer is to do the same, or  *)
(* when the attempts are used up.                                          *)
Login(d) ==
    /\ ~ manager[d].want \/ d \in Callers
    /\ Sets(d, [Connecting(manager[d]) EXCEPT !.want = TRUE])
    /\ crossed' = IF manager[d].closing THEN crossed \cup {d} ELSE crossed
    /\ UNCHANGED <<wireVars, subs, heard, logouts>>

TimerFires(d) ==
    /\ manager[d].timer
    /\ Sets(d, Connecting([manager[d] EXCEPT !.timer = FALSE]))
    /\ UNCHANGED <<wireVars, subs, heard, logouts, crossed>>

\* Of a connection that both ends have done with nothing is left but a
\* reference.
Unused(s, d) ==
    /\ sock[s].client \in {"unused", "shut"} /\ sock[s].server \in {"none", "gone"}
    /\ s \notin subs
    /\ \A e \in Devices \ {d} : s \notin {manager[e].chan, manager[e].sub}

\* The token is there: a channel is opened.  Which of the unused names it gets
\* makes no difference.
Dial(d) ==
    /\ manager[d].asking > 0 /\ \E s \in Sockets : Unused(s, d)
    /\ LET s == CHOOSE s \in Sockets : Unused(s, d)
       IN /\ sock' = [sock EXCEPT ![s] = [dev |-> d, client |-> "opening",
                                          server |-> "none", link |-> "up"]]
          /\ heard' = heard \ {s}
          /\ Sets(d, [manager[d] EXCEPT !.asking = @ - 1, !.chan = s,
                                        !.sub = IF @ = s THEN None ELSE @])
    /\ UNCHANGED <<up, faults, subs, logouts, crossed>>

\* There is no token any more.
NoToken(d) ==
    /\ manager[d].asking > 0 /\ ~ manager[d].want
    /\ Sets(d, [manager[d] EXCEPT !.asking = @ - 1, !.state = "disconnected"])
    /\ UNCHANGED <<wireVars, subs, heard, logouts, crossed>>

\* The channel is ready: connected, and _channel, whichever that is now, is
\* listened to; if there is none, or it has a listener, that throws.
Ready(s) ==
    /\ sock[s].client = "opening" /\ sock[s].server # "none" /\ sock[s].link = "up"
    /\ sock' = [sock EXCEPT ![s].client = "open"]
    /\ LET d == sock[s].dev
           c == manager[d].chan
           m == [manager[d] EXCEPT !.state = "connected", !.attempts = 0]
       IN IF c = None \/ c \in heard
          THEN Sets(d, Scheduled(m)) /\ UNCHANGED <<subs, heard>>
          ELSE /\ Sets(d, [m EXCEPT !.sub = c])
               /\ subs' = subs \cup {c} /\ heard' = heard \cup {c}
    /\ UNCHANGED <<up, faults, logouts, crossed>>

\* The channel does not get ready: the gateway is not there, the link is lost,
\* or disconnect has closed it.  Its stream ends, too, if it has a listener.
NotReady(s) ==
    /\ \/ sock[s].client = "aborted"
       \/ /\ sock[s].client = "opening"
          /\ sock[s].link = "cut" \/ (sock[s].server = "none" /\ ~ up)
    /\ sock' = [sock EXCEPT ![s].client = "shut"]
    /\ LET m == Scheduled(manager[sock[s].dev])
       IN Sets(sock[s].dev, IF s \in subs THEN Scheduled(m) ELSE m)
    /\ subs' = subs \ {s}
    /\ UNCHANGED <<up, faults, heard, logouts, crossed>>

(* The stream of a channel ends: a close frame, TCP gives up, or it had     *)
(* ended before it was listened to.                                        *)
Done(s) ==
    /\ \/ sock[s].client = "open" /\ (sock[s].server \in {"closing", "gone"} \/ sock[s].link = "cut")
       \/ sock[s].client = "shut" /\ s \in subs
    /\ sock' = [sock EXCEPT ![s].client = "shut"]
    /\ subs' = subs \ {s}
    /\ IF s \in subs THEN Sets(sock[s].dev, Scheduled(manager[sock[s].dev]))
                     ELSE UNCHANGED manager
    /\ UNCHANGED <<up, faults, heard, logouts, crossed>>

\* Variant with a fault: the timer goes on.
StoppedButTimer(m) == [m EXCEPT !.sub = None, !.want = FALSE]

\* disconnect up to its await: the timer and the subscription are cancelled.
Stopped(m) == [m EXCEPT !.timer = FALSE, !.sub = None, !.want = FALSE]

\* What follows the await, if there was a channel.
Closed(m) == [m EXCEPT !.chan = None, !.state = "disconnected", !.attempts = 0,
                       !.closing = FALSE]

(* disconnect: the sink of the channel is closed, which is awaited. *)
Disconnect(d) ==
    /\ d \in Leavers /\ manager[d].want /\ logouts < MaxLogouts
    /\ logouts' = logouts + 1
    /\ LET m == manager[d]
       IN /\ Sets(d, IF m.chan = None THEN Closed(Stopped(m))
                     ELSE [Stopped(m) EXCEPT !.closing = TRUE])
          /\ subs' = subs \ {m.sub}
          /\ sock' = [s \in Sockets |->
                        IF s # m.chan THEN sock[s] ELSE
                        CASE sock[s].client = "opening" -> [sock[s] EXCEPT !.client = "aborted"]
                          [] sock[s].client = "open"    -> [sock[s] EXCEPT !.client = "shut"]
                          [] OTHER                      -> sock[s]]
          /\ crossed' = IF m.asking > 0 \/ Awaited(d) # {} THEN crossed \cup {d} ELSE crossed
    /\ UNCHANGED <<up, faults, heard>>

(* It goes on: whatever channel and state there is by now is forgotten. *)
EndDisconnect(d) ==
    /\ manager[d].closing
    /\ Sets(d, Closed(manager[d]))
    /\ UNCHANGED <<wireVars, subs, heard, logouts, crossed>>

ClientNext ==
    \/ \E d \in Devices : \/ Login(d) \/ TimerFires(d) \/ NoToken(d) \/ Disconnect(d)
                          \/ Dial(d) \/ EndDisconnect(d)
    \/ \E s \in Sockets : Ready(s) \/ NotReady(s) \/ Done(s)

ClientFairness ==
    /\ \A d \in Devices : /\ WF_<<clientVars, wireVars>>(TimerFires(d))
                          /\ WF_<<clientVars, wireVars>>(Dial(d))
                          /\ WF_<<clientVars, wireVars>>(EndDisconnect(d))
    /\ \A s \in Sockets : WF_<<clientVars, wireVars>>(Ready(s) \/ NotReady(s) \/ Done(s))

-----------------------------------------------------------------------------
(* After disconnect there is no timer, no open channel, no subscription    *)
(* that would start a reconnect, and, once the channel has closed, the     *)
(* manager is disconnected, until the app calls connect again.  The        *)
(* exception: disconnect was called while a connect was awaiting its token *)
(* or its channel, or connect while a disconnect was awaiting.             *)
DisconnectHolds ==
    \A d \in Devices \ crossed :
        ~ manager[d].want =>
            /\ manager[d].closing \/ manager[d].state = "disconnected"
            /\ ~ manager[d].timer /\ manager[d].asking = 0
            /\ \A s \in Sockets : sock[s].dev = d =>
                  s \notin subs /\ sock[s].client \in {"unused", "shut"}

=============================================================================
