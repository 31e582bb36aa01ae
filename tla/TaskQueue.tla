------------------------------ MODULE TaskQueue ------------------------------
(***************************************************************************)
(* The task_queue table of shared-memory.db and the heartbeat services     *)
(* that poll it.  Every call opens a connection of its own, so each SELECT *)
(* and each committed UPDATE is one step, and other processes come between *)
(* them.  Two processes may run under one agent name (a second gateway, or *)
(* one started before the first has ended).                                *)
(*                                                                         *)
(* A tick of _run_loop reads HEARTBEAT.md, then this queue, then the mail  *)
(* and the discussions; the parts other than the queue leave the table     *)
(* alone, so a process in one of them is "idle" here.                      *)
(***************************************************************************)
EXTENDS Naturals, FiniteSets

CONSTANTS
    Tasks,              \* the rows other programs may insert
    Workers,            \* gateway processes with a heartbeat service
    Target,             \* task -> target_agent
    AgentOf,            \* process -> agent_name
    Rank,               \* task -> its place by priority and created_at
    Limit,              \* MAX_TASKS_PER_TICK
    NoOne,              \* nobody owns the task
    MaxCrashes,         \* bound: ends of a gateway process
    MaxFaults           \* bound: UPDATEs that raise (database is locked)

ASSUME LimitAssumption == Limit \in Nat \ {0}
ASSUME RankAssumption == Rank \in [Tasks -> Nat]
ASSUME NoOneAssumption == NoOne \notin Workers
ASSUME BoundsAssumption == MaxCrashes \in Nat /\ MaxFaults \in Nat

VARIABLES
    row,                \* task -> its status column, or "absent"
    phase,              \* process -> "down", "idle", "claiming", "turn"
    todo,               \* process -> the fetched tasks it has yet to claim
    mine,               \* process -> its list "claimed"
    starts,             \* task -> the turns it was given to (observation)
    crashes, faults

worker == <<phase, todo, mine>>
vars == <<row, worker, starts, crashes, faults>>

Results == {"done", "failed"}
Statuses == {"absent", "pending", "claimed"} \cup Results

TypeOK ==
    /\ row \in [Tasks -> Statuses]
    /\ phase \in [Workers -> {"down", "idle", "claiming", "turn"}]
    /\ todo \in [Workers -> SUBSET Tasks]
    /\ mine \in [Workers -> SUBSET Tasks]
    /\ starts \in [Tasks -> Nat]
    /\ crashes \in Nat
    /\ faults \in Nat

-----------------------------------------------------------------------------
(* The table                                                               *)

\* Mutation: WHERE target_agent = ? only.
AnyStatus(w) == {t \in Tasks : row[t] # "absent" /\ Target[t] = AgentOf[w]}

Pending(w) == {t \in Tasks : row[t] = "pending" /\ Target[t] = AgentOf[w]}

\* ORDER BY ... LIMIT ?: as many as there are up to Limit, none of them after
\* one that is left out.
First(S, T) ==
    /\ S \subseteq T
    /\ S = T \/ Cardinality(S) = Limit
    /\ Cardinality(S) <= Limit
    /\ \A t \in S, u \in T \ S : Rank[t] <= Rank[u]

\* Mutation: the status that _claim_task's docstring names.
ClaimedStatusOfDoc == "in_progress"
ClaimedStatus == "claimed"

\* Mutation: UPDATE without AND status = 'pending'.
UpdatableAlways(t) == TRUE
\* The WHERE clause of _claim_task finds the row.
Updatable(t) == row[t] = "pending"

\* Mutation: the result is written for one of the claimed tasks.
MarkedOne(ts, result) ==
    LET first == CHOOSE t \in ts : TRUE
    IN  [t \in Tasks |-> IF t = first THEN result ELSE row[t]]
\* _mark_tasks_done and _mark_tasks_failed.
Marked(ts, result) == [t \in Tasks |-> IF t \in ts THEN result ELSE row[t]]

UpdateRaises == faults < MaxFaults /\ faults' = faults + 1

-----------------------------------------------------------------------------
(* The program that posts tasks (not in this repository)                   *)

Post(t) ==
    /\ row[t] = "absent"
    /\ row' = [row EXCEPT ![t] = "pending"]
    /\ UNCHANGED <<worker, starts, crashes, faults>>

-----------------------------------------------------------------------------
(* A tick                                                                  *)

Boot(w) ==
    /\ phase[w] = "down"
    /\ phase' = [phase EXCEPT ![w] = "idle"]
    /\ UNCHANGED <<row, todo, mine, starts, crashes, faults>>

\* _fetch_pending_tasks.  A read that fails, or finds nothing, changes nothing.
Fetch(w) ==
    /\ phase[w] = "idle"
    /\ \E S \in SUBSET Pending(w) :
          /\ S # {}
          /\ First(S, Pending(w))
          /\ todo' = [todo EXCEPT ![w] = S]
    /\ phase' = [phase EXCEPT ![w] = "claiming"]
    /\ UNCHANGED <<row, mine, starts, crashes, faults>>

\* After the last claim the agent's turn starts, if there is anything to do.
AfterClaim(w, rest, held) ==
    LET turn == rest = {} /\ held # {}
    IN  /\ todo' = [todo EXCEPT ![w] = rest]
        /\ mine' = [mine EXCEPT ![w] = held]
        /\ phase' = [phase EXCEPT ![w] =
                        IF turn THEN "turn"
                        ELSE IF rest = {} THEN "idle" ELSE "claiming"]
        /\ starts' = [t \in Tasks |-> IF turn /\ t \in held
                                      THEN starts[t] + 1 ELSE starts[t]]

Claim(w, t) ==
    /\ Updatable(t)
    /\ row' = [row EXCEPT ![t] = ClaimedStatus]
    /\ AfterClaim(w, todo[w] \ {t}, mine[w] \cup {t})
    /\ UNCHANGED faults
\* The row is no longer pending: another process has claimed it.
ClaimLost(w, t) ==
    /\ ~Updatable(t)
    /\ AfterClaim(w, todo[w] \ {t}, mine[w])
    /\ UNCHANGED <<row, faults>>
ClaimRaises(w, t) ==
    /\ UpdateRaises
    /\ AfterClaim(w, todo[w] \ {t}, mine[w])
    /\ UNCHANGED row

\* One round of _tick's loop over the fetched tasks.
ClaimNext(w) ==
    /\ phase[w] = "claiming"
    /\ \E t \in todo[w] :
          /\ \A u \in todo[w] : Rank[t] <= Rank[u]
          /\ Claim(w, t) \/ ClaimLost(w, t) \/ ClaimRaises(w, t)
    /\ UNCHANGED crashes

\* Mutation: an exception of the turn is logged and nothing else.
RecordDone(w, result) ==
    /\ row' = IF result = "failed" THEN row ELSE Marked(mine[w], result)
    /\ UNCHANGED faults
\* One transaction for all tasks of the turn.
Record(w, result) ==
    /\ row' = Marked(mine[w], result)
    /\ UNCHANGED faults
RecordRaises == UpdateRaises /\ UNCHANGED row

\* on_heartbeat returns ("done") or raises ("failed").
TurnEnds(w, result) ==
    /\ phase[w] = "turn"
    /\ Record(w, result) \/ RecordRaises
    /\ phase' = [phase EXCEPT ![w] = "idle"]
    /\ mine' = [mine EXCEPT ![w] = {}]
    /\ UNCHANGED <<todo, starts, crashes>>

\* The process ends, orderly or not: stop() cancels the tick, and the
\* cancellation of a turn is no Exception.
Crash(w) ==
    /\ phase[w] # "down"
    /\ crashes < MaxCrashes
    /\ crashes' = crashes + 1
    /\ phase' = [phase EXCEPT ![w] = "down"]
    /\ todo' = [todo EXCEPT ![w] = {}]
    /\ mine' = [mine EXCEPT ![w] = {}]
    /\ UNCHANGED <<row, starts, faults>>

-----------------------------------------------------------------------------
Init ==
    /\ row = [t \in Tasks |-> "absent"]
    /\ phase = [w \in Workers |-> "down"]
    /\ todo = [w \in Workers |-> {}]
    /\ mine = [w \in Workers |-> {}]
    /\ starts = [t \in Tasks |-> 0]
    /\ crashes = 0
    /\ faults = 0

\* The next action of process w itself.
Step(w) ==
    \/ Fetch(w)
    \/ ClaimNext(w)
    \/ \E result \in Results : TurnEnds(w, result)

Next ==
    \/ \E t \in Tasks : Post(t)
    \/ \E w \in Workers : Boot(w) \/ Step(w) \/ Crash(w)

Spec == Init /\ [][Next]_vars

\* A running loop goes on: its sleep ends, its reads do not fail for ever and
\* the agent's turn, whose iterations are bounded, ends.
FairSpec == Spec /\ \A w \in Workers : WF_vars(Step(w))
-----------------------------------------------------------------------------
(* Properties                                                              *)

\* A task is given to the agent at most once, whatever processes poll, end,
\* start again or fail to write in between (_claim_task's guard, and its
\* answer, which decides what the turn is given).
StartedOnce == \A t \in Tasks : starts[t] <= 1

Settled(t) == row[t] \in Results
Held(t) == \E w \in Workers : t \in mine[w]

\* As long as no process ends and no write fails, a claimed task is in the
\* hands of a process that will record its result: none is forgotten in the
\* claimed status, which no query selects.
ClaimedIsHeld ==
    crashes = 0 /\ faults = 0 =>
        \A t \in Tasks : row[t] = "claimed" => Held(t)

\* The queue implements the task pool: a claimed task is owned by the process
\* that holds it, and lost when no process does.
stageBar == [t \in Tasks |->
                IF row[t] = "pending" THEN "waiting"
                ELSE IF row[t] # "claimed" THEN row[t]
                ELSE IF Held(t) THEN "owned" ELSE "lost"]
HolderOf(lists) ==
    [t \in Tasks |-> IF \E w \in Workers : t \in lists[w]
                     THEN CHOOSE w \in Workers : t \in lists[w] ELSE NoOne]
ownerBar == HolderOf(mine)
Pool == INSTANCE TaskPool WITH stage <- stageBar, owner <- ownerBar
ImplementsPool == Pool!Spec

\* A pending task is taken unless no process of its agent is running.
TasksAreTaken ==
    \A t \in Tasks :
        row[t] = "pending" ~>
            \/ row[t] # "pending"
            \/ \A w \in Workers : AgentOf[w] = Target[t] => phase[w] = "down"

\* A claimed task gets its result unless a process ends or a write fails.
ClaimedIsSettled ==
    \A t \in Tasks :
        row[t] = "claimed" ~> Settled(t) \/ crashes > 0 \/ faults > 0
=============================================================================
