------------------------------ MODULE TaskPool ------------------------------
(***************************************************************************)
(* What the task queue promises to those who post tasks, without claims,   *)
(* ticks or transactions: a task is taken by one process of its agent at a *)
(* time, is never taken again, and its result, once there, stays.          *)
(* TaskQueue implements this module.                                       *)
(***************************************************************************)
EXTENDS Naturals

CONSTANTS
    Tasks,              \* the rows that may be posted
    Workers,            \* the processes that work on them
    Target,             \* task -> the agent it is for
    AgentOf,            \* process -> its agent
    NoOne               \* nobody owns the task

VARIABLES
    stage,              \* task -> where it is
    owner               \* task -> the process working on it, or NoOne

vars == <<stage, owner>>

Results == {"done", "failed"}
Stages == {"absent", "waiting", "owned", "lost"} \cup Results

Init ==
    /\ stage = [t \in Tasks |-> "absent"]
    /\ owner = [t \in Tasks |-> NoOne]

Owned(w) == {t \in Tasks : owner[t] = w}

Post(t) ==
    /\ stage[t] = "absent"
    /\ stage' = [stage EXCEPT ![t] = "waiting"]
    /\ UNCHANGED owner

Take(w, t) ==
    /\ stage[t] = "waiting"
    /\ Target[t] = AgentOf[w]
    /\ stage' = [stage EXCEPT ![t] = "owned"]
    /\ owner' = [owner EXCEPT ![t] = w]

\* Everything w owns leaves its hands at once: with its result, or lost.
Release(w, s) ==
    /\ stage' = [t \in Tasks |-> IF owner[t] = w THEN s ELSE stage[t]]
    /\ owner' = [t \in Tasks |-> IF owner[t] = w THEN NoOne ELSE owner[t]]

Settle(w, result) == Release(w, result)
Abandon(w) == Release(w, "lost")

Next ==
    \/ \E t \in Tasks : Post(t)
    \/ \E w \in Workers, t \in Tasks : Take(w, t)
    \/ \E w \in Workers, result \in Results : Settle(w, result)
    \/ \E w \in Workers : Abandon(w)

Spec == Init /\ [][Next]_vars
=============================================================================
