-------------------------------- MODULE Wire --------------------------------
(***************************************************************************)
(* The WebSocket connections between the devices of one user and the       *)
(* gateway: what each end of a connection knows of it, and whether the     *)
(* network still carries it.                                               *)
(***************************************************************************)
EXTENDS Integers, FiniteSets

CONSTANTS
    Devices,      \* the user's devices
    Sockets,      \* connections there can be at one time
    None,         \* no connection
    MaxFaults     \* bound: lost links, refused tokens, stops of the gateway

ASSUME WireAssumption ==
    /\ IsFiniteSet(Sockets) /\ None \notin Sockets /\ None \notin Devices /\ MaxFaults \in Nat

VARIABLES
    up,           \* the gateway runs
    sock,         \* the connections
    faults        \* number of faults so far

wireVars == <<up, sock, faults>>

\* client: not used yet; opening (ready is awaited); open; aborted (closed by
\* the client while ready is awaited); shut.  server: not heard of; open;
\* closing (a close frame has been sent or received); gone.
Socket == [dev : Devices \cup {None},
           client : {"unused", "opening", "open", "aborted", "shut"},
           server : {"none", "open", "closing", "gone"},
           link : {"up", "cut"}]

WireInit ==
    /\ sock = [s \in Sockets |-> [dev |-> None, client |-> "unused",
                                  server |-> "none", link |-> "up"]]
    /\ up = TRUE /\ faults = 0

Fault == faults < MaxFaults /\ faults' = faults + 1

\* A ping is answered.
Answers(s) == sock[s].link = "up" /\ sock[s].client \in {"opening", "open"}

(* The network loses the link; neither end is told. *)
CutLink(s) ==
    /\ Fault
    /\ sock[s].link = "up"
    /\ sock[s].client \in {"opening", "open"} /\ sock[s].server = "open"
    /\ sock' = [sock EXCEPT ![s].link = "cut"]
    /\ UNCHANGED up

=============================================================================
