--------------------------- MODULE VaultReflection ---------------------------
(***************************************************************************)
(* The reflection runs of the vault on PostgreSQL: promotion makes a       *)
(* crystal of each important memory that has not decayed, synthesis one of *)
(* each cluster of similar memories, decay lowers the scores.  The flows   *)
(* are scheduled (hourly, daily) and can be started by hand, each in a     *)
(* process of its own; nothing keeps two of them apart.                    *)
(*                                                                         *)
(* psycopg2 opens a transaction at the first statement of a run and the    *)
(* run commits at its end, at the isolation level READ COMMITTED: a run    *)
(* reads what is committed and its own changes, and an UPDATE of a row     *)
(* waits for the transaction that has changed it.  An exception for one    *)
(* item rolls back the open transaction, and the run goes on.              *)
(***************************************************************************)
EXTENDS Integers, FiniteSets, Sequences, SequencesExt

CONSTANTS
    Memories,           \* the rows of vault.memories
    Early,              \* those that are stored when the clock starts
    Important,          \* those with importance >= PROMOTE_MIN_IMPORTANCE
    Place,              \* memory -> its place by importance and age
    EdgeLists,          \* what vault.edges may hold above SYNTH_SIMILARITY
    Processes,          \* processes that may execute a run
    Full,               \* a new memory's decay_score
    PromoteMin,         \* PROMOTE_MIN_DECAY
    ResurrectCeil,      \* RESURRECT_DECAY_CEIL
    Rate,               \* DECAY_RATE_PER_HOUR
    Day,                \* hours between two promotions
    MinCluster,         \* SYNTH_MIN_CLUSTER
    MaxHours,           \* bound: the clock
    MaxRuns,            \* bound: runs
    MaxFaults           \* bound: statements that raise, processes that end

ASSUME ScoresAssumption ==
    Full \in Nat /\ PromoteMin \in Nat /\ ResurrectCeil \in Nat /\ Rate \in Nat
ASSUME ScheduleAssumption == Day \in Nat \ {0} /\ MaxHours \in Nat
ASSUME ClusterAssumption == MinCluster \in Nat \ {0}
ASSUME BoundsAssumption == MaxRuns \in Nat /\ MaxFaults \in Nat
ASSUME MemoriesAssumption ==
    Early \subseteq Memories /\ Important \subseteq Memories /\ IsFiniteSet(Memories)
ASSUME PlaceAssumption == Place \in [Memories -> Nat]
ASSUME EdgesAssumption == EdgeLists \subseteq Seq(Memories \X Memories)

VARIABLES
    hour,               \* the clock
    due,                \* the flows the schedule wants to start this hour
    memory,             \* memory -> its row
    edges,              \* the similar pairs, in the order of the query
    crystals,           \* ixonaut_hub.crystals
    alerts,             \* the synthesis crystals the overseer was told of
    job,                \* process -> its run
    runs,               \* runs so far
    overlapped,         \* a run has begun during another (observation)
    faults

vars == <<hour, due, memory, edges, crystals, alerts, job, runs, overlapped, faults>>

Row(there, born, score, promoted, consumed) ==
    [there |-> there, born |-> born, score |-> score,
     promoted |-> promoted, consumed |-> consumed]
Rows == [there : BOOLEAN, born : Nat, score : Nat, promoted : BOOLEAN, consumed : BOOLEAN]

\* The run that wrote it is part of a crystal, so that two runs which make a
\* crystal of the same memories count as two.
Crystal(kind, no, of) == [kind |-> kind, no |-> no, of |-> of]
Kinds == {"promotion", "synthesis"}
Crystals == [kind : Kinds, no : Nat, of : SUBSET Memories]

\* A run: the memories it has chosen, the items (a memory or a cluster) found
\* among them, those to be handled, the one at hand with its resurrected
\* memories; and in the open transaction the items whose crystal has been
\* inserted and those whose memories have been marked.
NoJob == [kind |-> "none", no |-> 0, chosen |-> {}, found |-> {}, todo |-> {}, doing |-> {},
          ghosts |-> {}, inserted |-> {}, marked |-> {}]
Items == SUBSET SUBSET Memories
Jobs == [kind : Kinds \cup {"none"}, no : Nat, chosen : SUBSET Memories, found : Items,
         todo : Items, doing : SUBSET Memories, ghosts : SUBSET Memories,
         inserted : Items, marked : Items]

TypeOK ==
    /\ hour \in Nat
    /\ due \subseteq {"decay", "promotion"}
    /\ memory \in [Memories -> Rows]
    /\ edges \in EdgeLists
    /\ crystals \subseteq Crystals
    /\ alerts \subseteq Crystals
    /\ job \in [Processes -> Jobs]
    /\ runs \in Nat
    /\ overlapped \in BOOLEAN
    /\ faults \in Nat

-----------------------------------------------------------------------------
(* _find_clusters                                                          *)

\* One round of find's loop: the path is halved.
Halve(s) ==
    LET up == s.parent[s.parent[s.at]]
    IN  IF s.parent[s.at] = s.at THEN s
        ELSE [parent |-> [s.parent EXCEPT ![s.at] = up], at |-> up]

\* A path has no more nodes than there are candidates.
Find(parent, x) ==
    LET round[k \in 0..Cardinality(DOMAIN parent)] ==
            IF k = 0 THEN [parent |-> parent, at |-> x] ELSE Halve(round[k - 1])
    IN  round[Cardinality(DOMAIN parent)]

\* Mutation: the node itself is attached, not its root.
AttachNode(parent, a, b) == [Find(Find(parent, a).parent, b).parent EXCEPT ![a] = b]
\* union: the root of a is attached to the root of b.
Attach(parent, a, b) ==
    LET left == Find(parent, a)
        right == Find(left.parent, b)
    IN  [right.parent EXCEPT ![left.at] = right.at]

Join(parent, e) ==
    IF {e[1], e[2]} \subseteq DOMAIN parent THEN Attach(parent, e[1], e[2]) ELSE parent

FindClusters(S) ==
    LET joined[k \in 0..Len(edges)] ==
            IF k = 0 THEN [m \in S |-> m] ELSE Join(joined[k - 1], edges[k])
        parent == joined[Len(edges)]
    IN  {{m \in S : Find(parent, m).at = root} : root \in {Find(parent, m).at : m \in S}}

-----------------------------------------------------------------------------
(* Transactions                                                            *)

Locked(p) == UNION job[p].marked
Running(p) == job[p].kind # "none"
\* Nobody else has an uncommitted change of these rows.
Free(p, x) == \A q \in Processes \ {p} : Locked(q) \cap x = {}
Raises == faults < MaxFaults /\ faults' = faults + 1

Begin(p, kind, S, items) ==
    /\ ~Running(p)
    /\ runs < MaxRuns
    /\ runs' = runs + 1
    /\ job' = [job EXCEPT ![p] = [NoJob EXCEPT !.kind = kind, !.no = runs + 1,
                                               !.chosen = S, !.found = items, !.todo = items]]
    /\ overlapped' = (overlapped \/ \E q \in Processes : Running(q))

\* Mutation: promoted memories are chosen again.
PromotableEver ==
    {m \in Important : memory[m].there /\ memory[m].score >= PromoteMin}
Promotable ==
    {m \in Important : memory[m].there /\ memory[m].score >= PromoteMin
                       /\ ~memory[m].promoted}

BeginPromotion(p) ==
    /\ Begin(p, "promotion", Promotable, {{m} : m \in Promotable})
    /\ due' = due \ {"promotion"}
    /\ UNCHANGED <<hour, memory, edges, crystals, alerts, faults>>

\* Those that have an embedding and a summary, that is, all.
Candidates == {m \in Memories : memory[m].there /\ ~memory[m].consumed /\ ~memory[m].promoted}

BeginSynthesis(p) ==
    /\ Cardinality(Candidates) >= MinCluster
    /\ Begin(p, "synthesis", Candidates,
             {C \in FindClusters(Candidates) : Cardinality(C) >= MinCluster})
    /\ UNCHANGED <<hour, due, memory, edges, crystals, alerts, faults>>

\* _promote_one, for the candidates in their order.
FirstItems(p) ==
    {x \in job[p].todo : \A m \in x : \A n \in UNION job[p].todo : Place[m] <= Place[n]}
PromoteOne(p, x) ==
    /\ job[p].kind = "promotion"
    /\ job[p].doing = {}
    /\ x \in FirstItems(p)
    /\ job' = [job EXCEPT ![p].todo = @ \ {x}, ![p].doing = x, ![p].inserted = @ \cup {x}]
    /\ UNCHANGED <<hour, due, memory, edges, crystals, alerts, runs, overlapped, faults>>

\* Its UPDATE, which may have to wait.
MarkPromoted(p) ==
    LET x == job[p].doing IN
    /\ job[p].kind = "promotion"
    /\ x # {}
    /\ Free(p, x)
    /\ job' = [job EXCEPT ![p].doing = {}, ![p].marked = @ \cup {x}]
    /\ UNCHANGED <<hour, due, memory, edges, crystals, alerts, runs, overlapped, faults>>

\* What _resurrect may find: decayed memories outside the cluster that are
\* not consumed, promoted ones among them.  Which of them are close enough to
\* the centroid is left open.
Ghosts(p, x) ==
    {m \in Memories \ x : /\ memory[m].there /\ memory[m].score <= ResurrectCeil
                          /\ ~memory[m].consumed /\ m \notin Locked(p)}

\* _synthesize_cluster up to the LLM call, which holds the transaction open.
StartCluster(p, x) ==
    /\ job[p].kind = "synthesis"
    /\ job[p].doing = {}
    /\ x \in job[p].todo
    /\ \E G \in SUBSET Ghosts(p, x) :
          job' = [job EXCEPT ![p].todo = @ \ {x}, ![p].doing = x, ![p].ghosts = G]
    /\ UNCHANGED <<hour, due, memory, edges, crystals, alerts, runs, overlapped, faults>>

\* _alert_overseer writes to another database, at once, and swallows errors.
Alert(c, G) ==
    \/ alerts' = IF G = {} THEN alerts ELSE alerts \cup {c}
    \/ UNCHANGED alerts

\* The rest of it: the crystal is the LLM's or, when the call has failed, a
\* mechanical one.
FinishCluster(p) ==
    LET x == job[p].doing IN
    /\ job[p].kind = "synthesis"
    /\ x # {}
    /\ Free(p, x)
    /\ job' = [job EXCEPT ![p].doing = {}, ![p].ghosts = {},
                          ![p].inserted = @ \cup {x}, ![p].marked = @ \cup {x}]
    /\ Alert(Crystal("synthesis", job[p].no, x), job[p].ghosts)
    /\ UNCHANGED <<hour, due, memory, edges, crystals, runs, overlapped, faults>>

\* The items a process would handle next.
NextItems(p) ==
    IF job[p].doing # {} THEN {job[p].doing}
    ELSE IF job[p].kind = "promotion" THEN FirstItems(p) ELSE job[p].todo
WaitsFor(p, q) == Locked(q) \cap job[p].doing # {}

\* Mutation: an item that has failed half-way is left in the transaction.
KeptOpen(j, x) == [j EXCEPT !.todo = @ \ {x}, !.doing = {}, !.ghosts = {}]
\* conn.rollback() takes back the items before it as well.
RolledBack(j, x) == [j EXCEPT !.todo = @ \ {x}, !.doing = {}, !.ghosts = {},
                              !.inserted = {}, !.marked = {}]

\* An exception for one item: a statement fails, or the server resolves a
\* deadlock of two transactions.
ItemRaises(p, x) ==
    /\ x \in NextItems(p)
    /\ \/ Raises
       \/ /\ \E q \in Processes \ {p} : WaitsFor(p, q) /\ WaitsFor(q, p)
          /\ UNCHANGED faults
    /\ job' = [job EXCEPT ![p] = RolledBack(job[p], x)]
    /\ UNCHANGED <<hour, due, memory, edges, crystals, alerts, runs, overlapped>>

\* The changes that are committed.
Marked(p) ==
    [m \in Memories |->
        IF m \notin Locked(p) THEN memory[m]
        ELSE IF job[p].kind = "promotion" THEN [memory[m] EXCEPT !.promoted = TRUE]
        ELSE [memory[m] EXCEPT !.consumed = TRUE]]

Commit(p) ==
    /\ Running(p)
    /\ NextItems(p) = {}
    /\ memory' = Marked(p)
    /\ crystals' = crystals \cup
                      {Crystal(job[p].kind, job[p].no, x) : x \in job[p].inserted}
    /\ job' = [job EXCEPT ![p] = NoJob]
    /\ UNCHANGED <<hour, due, edges, alerts, runs, overlapped, faults>>

\* The process ends, or the commit fails: the server rolls back.
Abort(p) ==
    /\ Running(p)
    /\ Raises
    /\ job' = [job EXCEPT ![p] = NoJob]
    /\ UNCHANGED <<hour, due, memory, edges, crystals, alerts, runs, overlapped>>

-----------------------------------------------------------------------------
(* Decay, the clock, the router                                            *)

\* The decay of the docstring: what has passed since the last run.
LinearDecay(m) == Rate
\* Every run subtracts the decay of the whole age.
DecayOf(m) == Rate * (hour - memory[m].born)

\* Mutation: without GREATEST the score falls below zero.
LowerFreely(score, by) == score - by
Lower(score, by) == IF by > score THEN 0 ELSE score - by

Decays(m) == memory[m].there /\ ~memory[m].promoted /\ memory[m].score > 0
\* One UPDATE; it waits for rows that are locked.
Decay ==
    /\ runs < MaxRuns
    /\ runs' = runs + 1
    /\ \A p \in Processes : \A m \in Locked(p) : ~Decays(m)
    /\ memory' = [m \in Memories |->
                     IF Decays(m) THEN [memory[m] EXCEPT !.score = Lower(@, DecayOf(m))]
                     ELSE memory[m]]
    /\ due' = due \ {"decay"}
    /\ UNCHANGED <<hour, edges, crystals, alerts, job, overlapped, faults>>

\* The crons "0 * * * *" and "0 6 * * *".
Tick ==
    /\ hour < MaxHours
    /\ hour' = hour + 1
    /\ due' = {"decay"} \cup {f \in {"promotion"} : (hour + 1) % Day = 0}
    /\ UNCHANGED <<memory, edges, crystals, alerts, job, runs, overlapped, faults>>

\* The router (not in this repository) stores a memory.
Store(m) ==
    /\ ~memory[m].there
    /\ memory' = [memory EXCEPT ![m] = Row(TRUE, hour, Full, FALSE, FALSE)]
    /\ UNCHANGED <<hour, due, edges, crystals, alerts, job, runs, overlapped, faults>>

Init ==
    /\ hour = 0
    /\ due = {}
    /\ memory = [m \in Memories |-> IF m \in Early THEN Row(TRUE, 0, Full, FALSE, FALSE)
                                     ELSE Row(FALSE, 0, 0, FALSE, FALSE)]
    /\ edges \in EdgeLists
    /\ crystals = {} /\ alerts = {}
    /\ job = [p \in Processes |-> NoJob]
    /\ runs = 0
    /\ overlapped = FALSE
    /\ faults = 0

\* The next step of a run.
Work(p) ==
    \/ \E x \in job[p].todo : PromoteOne(p, x) \/ StartCluster(p, x)
    \/ MarkPromoted(p) \/ FinishCluster(p)
    \/ \E x \in NextItems(p) : ItemRaises(p, x)
    \/ Commit(p)

Next ==
    \/ \E p \in Processes : BeginPromotion(p) \/ BeginSynthesis(p) \/ Work(p) \/ Abort(p)
    \/ Decay \/ Tick
    \/ \E m \in Memories : Store(m)

Spec == Init /\ [][Next]_vars

\* The flows start when they are due, and end before the next hour.
OnSchedule ==
    /\ hour' # hour => due = {} /\ \A p \in Processes : ~Running(p)
    /\ runs' # runs => due' # due
ScheduledSpec == Init /\ [][Next /\ OnSchedule]_vars
-----------------------------------------------------------------------------
(* Properties                                                              *)

\* A memory is marked exactly when a crystal of its kind has been made of it:
\* no rollback, no end of a process and no other run separates the two writes
\* (_promote_one, _synthesize_cluster).
CrystalsMatchMarks ==
    \A m \in Memories :
        /\ memory[m].promoted <=> \E c \in crystals : c.kind = "promotion" /\ m \in c.of
        /\ memory[m].consumed <=> \E c \in crystals : c.kind = "synthesis" /\ m \in c.of

\* As long as runs do not overlap, a memory is promoted once and consumed by
\* one synthesis, and what has been promoted is not synthesized any more: two
\* crystals share a memory only when a promotion follows a synthesis, for
\* promotion does not look at consumed_by.
OneCrystalEach ==
    ~overlapped =>
        \A c, d \in crystals :
            c.no < d.no /\ c.of \cap d.of # {} =>
                c.kind = "synthesis" /\ d.kind = "promotion"

\* The least set with m that similarity does not lead out of.
Component(S, m) ==
    LET Closed(X) == \A k \in DOMAIN edges :
                        LET a == edges[k][1]
                            b == edges[k][2]
                        IN  {a, b} \subseteq S => (a \in X <=> b \in X)
    IN  {n \in S : \A X \in SUBSET S : m \in X /\ Closed(X) => n \in X}

\* The clusters of a synthesis are the connected components of its candidates
\* that are large enough, in whatever order the pairs come (_find_clusters).
ClustersAreComponents ==
    \A p \in Processes :
        job[p].kind = "synthesis" =>
            job[p].found = {C \in {Component(job[p].chosen, m) : m \in job[p].chosen} :
                                Cardinality(C) >= MinCluster}

\* On schedule, no important memory gets older than two days without having
\* been promoted.
ImportantArePromoted ==
    \A m \in Important :
        memory[m].there /\ hour - memory[m].born > 2 * Day => memory[m].promoted
=============================================================================
