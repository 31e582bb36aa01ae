----------------------------- MODULE VaultIntake -----------------------------
(***************************************************************************)
(* The intake of the vault engine: VaultWatcher, whose loops poll the      *)
(* tables of shared-memory.db, the MEMORY.md files and Gitea, and the      *)
(* Compressor, which takes the observations from their queue in batches    *)
(* and turns them into memories.  All loops run in one process, the        *)
(* database and file polls in threads of its executor, so that they        *)
(* interleave with the compressor and with the programs that write the     *)
(* tables.  What has been handed to the router counts as remembered: the   *)
(* router is not in this repository.                                       *)
(*                                                                         *)
(* A row is "shown" when the poll of its table reports it (a message, a    *)
(* finished task, an unspent debate, an agent that is active, in error or  *)
(* offline, a decided discussion) and "hidden" when it does not.  "own" is *)
(* the watcher's row of agent_heartbeat, "gone" a deleted one.             *)
(***************************************************************************)
EXTENDS Naturals, Sequences, FiniteSets

CONSTANTS
    Plans,              \* source -> bound: the rows other programs write, the
                        \* edits of each file, the issues that are closed
    Limit,              \* table -> LIMIT of its query
    Files,              \* the MEMORY.md files
    Issues,             \* Gitea issues, each in a repository of its own
    MaxCrashes,         \* bound: ends of the engine process
    MaxFaults           \* bound: queries that raise

\* The order of _poll_sqlite.
Order == <<"message_bus", "task_queue", "debate_utxo", "agent_heartbeat", "discussions">>
Tables == {Order[k] : k \in 1..5}
Sources == Tables \cup {"memory_md", "gitea"}

ASSUME PlansAssumption == Plans \subseteq [Sources -> Nat]
ASSUME LimitAssumption == Limit \in [Tables -> Nat \ {0}]
ASSUME BoundsAssumption == MaxCrashes \in Nat /\ MaxFaults \in Nat

VARIABLES
    plan,               \* what will be written (an element of Plans)
    table,              \* table -> its rows by id
    edits,              \* file -> its mtime, 0 when there is no file
    closed,             \* the closed issues
    up,                 \* the engine runs
    at,                 \* the query _poll_sqlite has come to, 0 when it sleeps
    fetched,            \* the rows of that query still to be handled
    mark,               \* table -> its watermark
    mtimes,             \* _file_mtimes
    asking,             \* the repositories _poll_gitea has yet to ask
    since, lastCheck,   \* the issues closed at the last two Gitea polls
    queue,              \* the observations
    stage,              \* the compressor: "waiting", "collecting", "compressing"
    batch,
    remembered,         \* observations that are in a memory
    skipped,            \* observations the LLM's answer leaves out
    crashes, faults

world == <<plan, table, edits, closed>>
sqlite == <<at, fetched, mark>>
gitea == <<asking, since, lastCheck>>
compressor == <<stage, batch, remembered, skipped>>
bounds == <<crashes, faults>>
vars == <<world, up, sqlite, mtimes, gitea, queue, compressor, bounds>>

\* What a RawObservation names: its source, the row, and the time it shows.
Observation(source, id, time) == [source |-> source, id |-> id, time |-> time]
Observations ==
    [source : Tables, id : Nat, time : {0}]
    \cup [source : {"memory_md"}, id : Files, time : Nat]
    \cup [source : {"gitea"}, id : Issues, time : {0}]

Unchecked == [checked |-> FALSE, closed |-> {}]
Checked(S) == [checked |-> TRUE, closed |-> S]

TypeOK ==
    /\ plan \in Plans
    /\ table \in [Tables -> Seq({"shown", "hidden", "own", "gone"})]
    /\ edits \in [Files -> Nat]
    /\ closed \subseteq Issues
    /\ up \in BOOLEAN
    /\ at \in 0..5
    /\ fetched \subseteq [row : Nat, told : BOOLEAN]
    /\ mark \in [Tables -> Nat]
    /\ mtimes \in [Files -> Nat]
    /\ asking \subseteq Issues
    /\ since \in [checked : BOOLEAN, closed : SUBSET Issues]
    /\ lastCheck \in [checked : BOOLEAN, closed : SUBSET Issues]
    /\ queue \in Seq(Observations)
    /\ stage \in {"waiting", "collecting", "compressing"}
    /\ batch \in Seq(Observations)
    /\ remembered \subseteq Observations
    /\ skipped \subseteq Observations
    /\ crashes \in Nat /\ faults \in Nat

Elements(s) == {s[k] : k \in DOMAIN s}

-----------------------------------------------------------------------------
(* The programs that write the sources (not in the engine)                 *)

\* SQLite gives a new row the id after the largest in use.
Grow(t, status) == table' = [table EXCEPT ![t] = Append(@, status)]
Rewrite(t, i, status) == table' = [table EXCEPT ![t][i] = status]
OthersRows(t) == {i \in DOMAIN table[t] : table[t][i] # "own"}

Insert(t) ==
    /\ Cardinality(OthersRows(t)) < plan[t]
    /\ \E status \in {"shown", "hidden"} :
          /\ t \in {"message_bus", "debate_utxo"} => status = "shown"
          /\ t \in {"task_queue", "discussions"} => status = "hidden"
          /\ Grow(t, status)
    /\ UNCHANGED <<plan, edits, closed, up, sqlite, mtimes, gitea, queue, compressor, bounds>>

\* A task or discussion ends, a debate is spent, an agent changes its status.
Update(t, i) ==
    /\ i \in DOMAIN table[t]
    /\ \/ /\ table[t][i] = "hidden"
          /\ t \in {"task_queue", "discussions", "agent_heartbeat"}
          /\ Rewrite(t, i, "shown")
       \/ /\ table[t][i] = "shown"
          /\ t \in {"debate_utxo", "agent_heartbeat"}
          /\ Rewrite(t, i, "hidden")
    /\ UNCHANGED <<plan, edits, closed, up, sqlite, mtimes, gitea, queue, compressor, bounds>>

Edit(f) ==
    /\ edits[f] < plan["memory_md"]
    /\ edits' = [edits EXCEPT ![f] = @ + 1]
    /\ UNCHANGED <<plan, table, closed, up, sqlite, mtimes, gitea, queue, compressor, bounds>>

Close(n) ==
    /\ n \in Issues \ closed
    /\ Cardinality(closed) < plan["gitea"]
    /\ closed' = closed \cup {n}
    /\ UNCHANGED <<plan, table, edits, up, sqlite, mtimes, gitea, queue, compressor, bounds>>

-----------------------------------------------------------------------------
(* The poll of the database                                                *)

Behind(t) == {i \in DOMAIN table[t] : i > mark[t] /\ table[t][i] # "gone"}
Shown(t) == {i \in DOMAIN table[t] : table[t][i] \in {"shown", "own"}}

\* Mutation: ORDER BY id DESC.
NewestRows(t, S) == {i \in S : Cardinality({j \in S : j >= i}) <= Limit[t]}
\* ORDER BY id ASC LIMIT.
FirstRows(t, S) == {i \in S : Cardinality({j \in S : j <= i}) <= Limit[t]}

\* Mutation: the poll never comes to its end.
AfterEver(k) == k + 1
After(k) == IF k = 5 THEN 0 ELSE k + 1
\* The poll goes on with the rest of a query, or with the next query.
Proceed(rows) ==
    /\ fetched' = rows
    /\ at' = IF rows = {} THEN After(at) ELSE at

\* The query for table t finds rows S; those in E are worth an observation.
Query(t, S, E) ==
    /\ up
    /\ fetched = {}
    /\ at \in 1..5
    /\ Order[at] = t
    /\ Proceed({[row |-> i, told |-> i \in E] : i \in FirstRows(t, S)})
    /\ UNCHANGED <<world, up, mark, mtimes, gitea, queue, compressor, bounds>>

PollMessageBus == Query("message_bus", Behind("message_bus"), Shown("message_bus"))
PollTaskQueue ==
    Query("task_queue", Behind("task_queue") \cap Shown("task_queue"), Shown("task_queue"))
PollDebateUtxo ==
    Query("debate_utxo", Behind("debate_utxo") \cap Shown("debate_utxo"), Shown("debate_utxo"))
\* The status is not in the query: rows of other statuses are passed over.
PollHeartbeat ==
    Query("agent_heartbeat", Behind("agent_heartbeat"), Shown("agent_heartbeat"))
PollDiscussions ==
    Query("discussions", Behind("discussions") \cap Shown("discussions"), Shown("discussions"))

Polls == PollMessageBus \/ PollTaskQueue \/ PollDebateUtxo \/ PollHeartbeat \/ PollDiscussions

\* The database is locked, or the table does not exist: the first two polls
\* raise, which ends the whole poll; the others return.
QueryRaises ==
    /\ up
    /\ fetched = {}
    /\ at \in 1..5
    /\ faults < MaxFaults
    /\ faults' = faults + 1
    /\ at' = IF at <= 2 THEN 0 ELSE After(at)
    /\ UNCHANGED <<world, up, fetched, mark, mtimes, gitea, queue, compressor, crashes>>

Larger(a, b) == IF a > b THEN a ELSE b

\* One row of the loop over the fetched ones: _emit, then the watermark.
Emit ==
    /\ up
    /\ \E r \in fetched :
          /\ \A q \in fetched : r.row <= q.row
          /\ queue' = IF r.told
                      THEN Append(queue, Observation(Order[at], r.row, 0)) ELSE queue
          /\ mark' = [mark EXCEPT ![Order[at]] = Larger(@, r.row)]
          /\ Proceed(fetched \ {r})
    /\ UNCHANGED <<world, up, mtimes, gitea, compressor, bounds>>

\* The sleep of _watch_sqlite_loop ends.
PollBegins ==
    /\ up
    /\ at = 0
    /\ at' = 1
    /\ UNCHANGED <<world, up, fetched, mark, mtimes, gitea, queue, compressor, bounds>>

-----------------------------------------------------------------------------
(* Files, Gitea, the watcher's own heartbeat                               *)

\* The first sight of a file only records its time.
Changed(f) == edits[f] > mtimes[f] /\ mtimes[f] > 0

PollFile(f) ==
    /\ up
    /\ edits[f] > 0
    /\ queue' = IF Changed(f)
                THEN Append(queue, Observation("memory_md", f, edits[f])) ELSE queue
    /\ mtimes' = [mtimes EXCEPT ![f] = edits[f]]
    /\ UNCHANGED <<world, up, sqlite, gitea, compressor, bounds>>

\* _poll_gitea notes the time before it asks; the first poll asks nothing.
GiteaBegins ==
    /\ up
    /\ plan["gitea"] > 0        \* there is a token
    /\ asking = {}
    /\ since' = lastCheck
    /\ lastCheck' = Checked(closed)
    /\ asking' = IF lastCheck.checked THEN Issues ELSE {}
    /\ UNCHANGED <<world, up, sqlite, mtimes, queue, compressor, bounds>>

\* One repository: its answer, or an exception that is logged.
GiteaAsks(n) ==
    /\ up
    /\ n \in asking
    /\ asking' = asking \ {n}
    /\ \/ /\ queue' = IF n \in closed \ since.closed
                      THEN Append(queue, Observation("gitea", n, 0)) ELSE queue
          /\ UNCHANGED faults
       \/ /\ faults < MaxFaults
          /\ faults' = faults + 1
          /\ UNCHANGED queue
    /\ UNCHANGED <<world, up, sqlite, mtimes, since, lastCheck, compressor, crashes>>

\* Deleted rows at the end free their ids.
Trimmed(rows) ==
    {SubSeq(rows, 1, n) :
        n \in {k \in 0..Len(rows) : /\ k > 0 => rows[k] # "gone"
                                    /\ \A j \in k+1..Len(rows) : rows[j] = "gone"}}

\* The upsert of the watcher's row and the pruning of old session rows.
WithOwn(rows) ==
    IF \E i \in DOMAIN rows : rows[i] = "own" THEN rows ELSE Append(rows, "own")
Without(rows, old) == [i \in DOMAIN rows |-> IF i \in old THEN "gone" ELSE rows[i]]
RegisterHeartbeat ==
    /\ up
    /\ plan["agent_heartbeat"] > 0
    /\ \E old \in SUBSET OthersRows("agent_heartbeat") :
          \E rows \in Trimmed(Without(WithOwn(table["agent_heartbeat"]), old)) :
             table' = [table EXCEPT !["agent_heartbeat"] = rows]
    /\ UNCHANGED <<plan, edits, closed, up, sqlite, mtimes, gitea, queue, compressor, bounds>>

-----------------------------------------------------------------------------
(* The compressor                                                          *)

\* _collect_batch waits for a first observation and takes more of them until
\* the batch window is over.
Take ==
    /\ up
    /\ stage \in {"waiting", "collecting"}
    /\ queue # <<>>
    /\ queue' = Tail(queue)
    /\ batch' = Append(batch, Head(queue))
    /\ stage' = "collecting"
    /\ UNCHANGED <<world, up, sqlite, mtimes, gitea, remembered, skipped, bounds>>

WindowEnds ==
    /\ up
    /\ stage = "collecting"
    /\ stage' = "compressing"
    /\ UNCHANGED <<world, up, sqlite, mtimes, gitea, queue, batch, remembered, skipped, bounds>>

\* Mutation: a failing LLM call empties the batch.
FallbackNone == {}
\* _fallback_memory for each observation.
Fallback == Elements(batch)

\* The LLM's answer makes memories of some observations and leaves out others
\* (importance 0, or not mentioned); without a usable answer, or when an item
\* of it is malformed, every observation becomes a memory of its own.
Compress ==
    /\ up
    /\ stage = "compressing"
    /\ \/ \E S \in SUBSET Elements(batch) :
             /\ remembered' = remembered \cup S
             /\ skipped' = skipped \cup (Elements(batch) \ S)
       \/ remembered' = remembered \cup Fallback /\ UNCHANGED skipped
    /\ stage' = "waiting"
    /\ batch' = <<>>
    /\ UNCHANGED <<world, up, sqlite, mtimes, gitea, queue, bounds>>

-----------------------------------------------------------------------------
\* Everything the engine knows is in memory.
Fresh ==
    /\ at' = 0
    /\ fetched' = {}
    /\ mark' = [t \in Tables |-> 0]
    /\ mtimes' = [f \in Files |-> 0]
    /\ asking' = {}
    /\ since' = Unchecked
    /\ lastCheck' = Unchecked
    /\ queue' = <<>>
    /\ stage' = "waiting"
    /\ batch' = <<>>

Boot ==
    /\ ~up
    /\ up' = TRUE
    /\ UNCHANGED <<world, sqlite, mtimes, gitea, queue, compressor, bounds>>

Crash ==
    /\ up
    /\ crashes < MaxCrashes
    /\ crashes' = crashes + 1
    /\ up' = FALSE
    /\ Fresh
    /\ UNCHANGED <<world, remembered, skipped, faults>>

Init ==
    /\ plan \in Plans
    /\ table = [t \in Tables |-> <<>>]
    /\ edits = [f \in Files |-> 0]
    /\ closed = {}
    /\ up = FALSE
    /\ at = 0 /\ fetched = {}
    /\ mark = [t \in Tables |-> 0]
    /\ mtimes = [f \in Files |-> 0]
    /\ asking = {} /\ since = Unchecked /\ lastCheck = Unchecked
    /\ queue = <<>> /\ stage = "waiting" /\ batch = <<>>
    /\ remembered = {} /\ skipped = {}
    /\ crashes = 0 /\ faults = 0

SqliteLoop == PollBegins \/ Polls \/ QueryRaises \/ Emit
GiteaLoop == GiteaBegins \/ \E n \in Issues : GiteaAsks(n)
Compressing == Take \/ WindowEnds \/ Compress
Environment ==
    \/ \E t \in Tables : Insert(t) \/ \E i \in DOMAIN table[t] : Update(t, i)
    \/ \E f \in Files : Edit(f)
    \/ \E n \in Issues : Close(n)

Next ==
    \/ Environment
    \/ Boot \/ Crash
    \/ SqliteLoop \/ GiteaLoop \/ RegisterHeartbeat
    \/ \E f \in Files : PollFile(f)
    \/ Compressing

Spec == Init /\ [][Next]_vars

\* The loops of a running engine go on.
FairSpec ==
    /\ Spec
    /\ WF_vars(SqliteLoop)
    /\ \A f \in Files : WF_vars(PollFile(f))
    /\ WF_vars(Compressing)
-----------------------------------------------------------------------------
(* Properties                                                              *)

Kept(o) == o \in Elements(batch \o queue) \cup remembered \cup skipped

\* Every message at or below the watermark has been handed on: it waits, or it
\* is in a memory, or an answer of the LLM left it out.  Queries that raise,
\* LIMIT and a failing LLM lose none (_poll_message_bus, _compress).
PassedIsKept ==
    \A i \in 1..mark["message_bus"] : Kept(Observation("message_bus", i, 0))

Settled(o) == o \in remembered \cup skipped

\* A later row of the table was observed first.
Overtaken(t, i) == mark[t] >= i /\ ~Kept(Observation(t, i, 0))

\* A message, a finished task or a decided discussion comes to be remembered
\* unless the engine ends, whatever it had handled before it ended the last
\* time; but a row that is finished after one with a higher id may never be
\* observed.
Reaches(t) ==
    \A i \in 1..2 :
        /\ i \in DOMAIN table[t] /\ table[t][i] = "shown"
            ~> Settled(Observation(t, i, 0)) \/ ~up
               \/ (t # "message_bus" /\ Overtaken(t, i))
RowsAreRemembered ==
    \A t \in {"message_bus", "task_queue", "discussions"} : Reaches(t)

\* An edit of a file the watcher has seen before is remembered, by itself or
\* with a later one, unless the engine ends.
EditsAreRemembered ==
    \A f \in Files, n \in 1..3 :
        up /\ mtimes[f] > 0 /\ mtimes[f] < n /\ edits[f] = n
            ~> \/ \E o \in remembered \cup skipped :
                     o.source = "memory_md" /\ o.id = f /\ o.time >= n
               \/ ~up

\* No source is forgotten: rows of the database and edits of the files that
\* the watcher is to see come to be remembered (_watch_sqlite_loop,
\* _watch_files_loop, Compressor.run).
ChangesAreRemembered == RowsAreRemembered /\ EditsAreRemembered
=============================================================================
