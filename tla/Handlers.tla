------------------------------ MODULE Handlers ------------------------------
(***************************************************************************)
(* Express handlers that run at the same time: what the modules of Routes  *)
(* share. A handler gives way to the others at each await; pc is the await *)
(* it stands at, task what it keeps in its local variables (and in its     *)
(* open transaction, which is gone when the handler is).                   *)
(***************************************************************************)
EXTENDS Integers, FiniteSets, Sequences

CONSTANTS
    Procs,        \* requests that can be handled at the same time
    Users,        \* the users
    MaxFaults     \* bound: restarts and failing statements

ASSUME HandlersAssumption == IsFiniteSet(Procs) /\ MaxFaults \in Nat

VARIABLES pc, task, faults

handlers == <<pc, task, faults>>

NoTask == [by |-> "nobody"]

HandlersInit ==
    /\ pc = [p \in Procs |-> "idle"] /\ task = [p \in Procs |-> NoTask]
    /\ faults = 0

At(p, label, t) == pc' = [pc EXCEPT ![p] = label] /\ task' = [task EXCEPT ![p] = t]
Answer(p) == At(p, "idle", NoTask)
Running(labels) == {p \in Procs : pc[p] \in labels}

\* A step that is neither a fault nor a restart.
Works == UNCHANGED faults

\* A statement or a file operation fails: ROLLBACK if a transaction is open,
\* next(err).
Fails(p) ==
    /\ pc[p] # "idle" /\ faults < MaxFaults
    /\ faults' = faults + 1
    /\ Answer(p)

\* The gateway restarts.
Restarts ==
    /\ faults < MaxFaults /\ \E p \in Procs : pc[p] # "idle"
    /\ faults' = faults + 1
    /\ pc' = [p \in Procs |-> "idle"] /\ task' = [p \in Procs |-> NoTask]

=============================================================================
