--------------------------- MODULE VaultIntakeProofs ---------------------------
(***************************************************************************)
(* Proofs about VaultIntake for every set of files, issues and workloads,  *)
(* every limit and bound.  The inductive invariant says that the messages  *)
(* a poll has fetched and not yet handled are the very next ones behind    *)
(* the watermark, so that moving it to any of them passes no message by.   *)
(***************************************************************************)
EXTENDS VaultIntake, FiniteSetTheorems, TLAPS

MB == "message_bus"

\* Messages are neither hidden nor deleted.
MessagesShow == \A i \in DOMAIN table[MB] : table[MB][i] = "shown"

\* Between two polls nothing is fetched.
NothingFetched == at = 0 => fetched = {}

\* What is fetched of the messages is told, and with a message every one
\* between it and the watermark is fetched.
NextInLine ==
    at = 1 =>
        \A r \in fetched :
            /\ r.told
            /\ r.row > mark[MB]
            /\ \A i \in mark[MB] + 1 .. r.row : \E q \in fetched : q.row = i

IntakeInv == TypeOK /\ MessagesShow /\ NothingFetched /\ NextInLine /\ PassedIsKept

-----------------------------------------------------------------------------
(* Operators                                                               *)

\* The place of each table in a poll.
LEMMA OrderFacts ==
    /\ Order[1] = MB
    /\ \A k \in 1..5 : Order[k] \in Tables
    /\ \A k \in 1..5 : Order[k] = MB => k = 1
BY DEF Order, Tables, MB

LEMMA MBIsTable == MB \in Tables /\ "agent_heartbeat" \in Tables /\ MB # "agent_heartbeat"
BY DEF Order, Tables, MB

\* The elements of a sequence and of one that has grown.
LEMMA ElementsAppend ==
    ASSUME NEW S, NEW s \in Seq(S), NEW e \in S
    PROVE  Elements(Append(s, e)) = Elements(s) \cup {e}
<1>1. DOMAIN Append(s, e) = 1..Len(s) + 1
  OBVIOUS
<1>2. \A k \in DOMAIN s : Append(s, e)[k] = s[k]
  OBVIOUS
<1>3. Append(s, e)[Len(s) + 1] = e
  OBVIOUS
<1>4. DOMAIN s = 1..Len(s) /\ Len(s) \in Nat
  OBVIOUS
<1>5. \A k \in DOMAIN Append(s, e) : k \in DOMAIN s \/ k = Len(s) + 1
  BY <1>1, <1>4
<1>6. DOMAIN s \subseteq DOMAIN Append(s, e) /\ Len(s) + 1 \in DOMAIN Append(s, e)
  BY <1>1, <1>4
<1> QED
  BY <1>2, <1>3, <1>5, <1>6, Zenon DEF Elements

LEMMA ElementsConcat ==
    ASSUME NEW S, NEW s \in Seq(S), NEW t \in Seq(S)
    PROVE  Elements(s \o t) = Elements(s) \cup Elements(t)
<1>1. \A k \in DOMAIN (s \o t) :
         (s \o t)[k] = IF k <= Len(s) THEN s[k] ELSE t[k - Len(s)]
  OBVIOUS
<1>2. ASSUME NEW k \in DOMAIN t PROVE t[k] = (s \o t)[k + Len(s)] /\ k + Len(s) \in DOMAIN (s \o t)
  OBVIOUS
<1>3. ASSUME NEW k \in DOMAIN s PROVE s[k] = (s \o t)[k] /\ k \in DOMAIN (s \o t)
  OBVIOUS
<1>4. Elements(s \o t) \subseteq Elements(s) \cup Elements(t)
  BY <1>1 DEF Elements
<1>5. Elements(s) \cup Elements(t) \subseteq Elements(s \o t)
  BY <1>2, <1>3 DEF Elements
<1> QED
  BY <1>4, <1>5

LEMMA ElementsTail ==
    ASSUME NEW S, NEW s \in Seq(S), s # <<>>
    PROVE  /\ Head(s) \in S /\ Tail(s) \in Seq(S)
           /\ Elements(s) = Elements(Tail(s)) \cup {Head(s)}
<1>1. Head(s) \in S /\ Tail(s) \in Seq(S)
  OBVIOUS
<1>2. \A k \in DOMAIN s : s[k] = Head(s) \/ (k - 1 \in DOMAIN Tail(s) /\ s[k] = Tail(s)[k - 1])
  OBVIOUS
<1>3. \A k \in DOMAIN Tail(s) : k + 1 \in DOMAIN s /\ Tail(s)[k] = s[k + 1]
  OBVIOUS
<1>4. 1 \in DOMAIN s /\ Head(s) = s[1]
  OBVIOUS
<1>5. Elements(s) \subseteq Elements(Tail(s)) \cup {Head(s)}
  BY <1>2, Zenon DEF Elements
<1>6. Elements(Tail(s)) \cup {Head(s)} \subseteq Elements(s)
  <2>1. ASSUME NEW k \in DOMAIN Tail(s) PROVE Tail(s)[k] \in Elements(s)
    BY <1>3, Zenon DEF Elements
  <2>2. Head(s) \in Elements(s)
    BY <1>4, Zenon DEF Elements
  <2> QED
    BY <2>1, <2>2, Zenon DEF Elements
<1> QED
  BY <1>1, <1>5, <1>6

\* A query takes, with a row, the rows before it.
LEMMA FirstRowsClosed ==
    ASSUME NEW t \in Tables, NEW S \in SUBSET Nat, NEW i \in FirstRows(t, S),
           NEW j \in S, j <= i
    PROVE  j \in FirstRows(t, S)
<1> DEFINE upTo(n) == {k \in S : k <= n}
<1>1. i \in S
  BY DEF FirstRows
<1>2. Cardinality(upTo(i)) <= Limit[t]
  BY Zenon DEF FirstRows
<1>3. i \in Nat /\ j \in Nat /\ \A k \in S : k \in Nat
  BY <1>1
<1>4. upTo(i) \subseteq 0..i /\ upTo(j) \subseteq upTo(i)
  <2>1. \A k \in S : (k <= i => k \in 0..i) /\ (k <= j => k <= i)
    BY <1>3
  <2> QED
    BY <2>1, Zenon
<1>5. IsFiniteSet(upTo(i))
  <2>1. IsFiniteSet(0..i)
    BY <1>3, FS_Interval
  <2> HIDE DEF upTo
  <2> QED
    BY <1>4, <2>1, FS_Subset
<1>6. Cardinality(upTo(j)) <= Cardinality(upTo(i)) /\ IsFiniteSet(upTo(j))
  BY <1>4, <1>5, FS_Subset
<1>7. Limit[t] \in Nat /\ Cardinality(upTo(i)) \in Nat /\ Cardinality(upTo(j)) \in Nat
  BY <1>5, <1>6, LimitAssumption, FS_CardinalityType
<1> HIDE DEF upTo
<1>8. Cardinality(upTo(j)) <= Limit[t]
  BY <1>2, <1>6, <1>7
<1> QED
  BY <1>8, Zenon DEF FirstRows, upTo

\* Freeing the ids at the end leaves rows.
LEMMA TrimmedType ==
    ASSUME NEW S, NEW rows \in Seq(S), NEW new \in Trimmed(rows)
    PROVE  new \in Seq(S)
BY DEF Trimmed

-----------------------------------------------------------------------------
(* Types                                                                   *)

LEMMA InitTyped == Init => TypeOK
<1> SUFFICES ASSUME Init PROVE TypeOK
  OBVIOUS
<1>1. table \in [Tables -> Seq({"shown", "hidden", "own", "gone"})]
  BY DEF Init
<1>2. queue \in Seq(Observations) /\ batch \in Seq(Observations)
  BY DEF Init
<1>3. /\ since \in [checked : BOOLEAN, closed : SUBSET Issues]
      /\ lastCheck \in [checked : BOOLEAN, closed : SUBSET Issues]
  BY DEF Init, Unchecked
<1>4. /\ edits \in [Files -> Nat] /\ mtimes \in [Files -> Nat] /\ mark \in [Tables -> Nat]
      /\ fetched \subseteq [row : Nat, told : BOOLEAN] /\ at \in 0..5
  BY DEF Init
<1> QED
  BY <1>1, <1>2, <1>3, <1>4 DEF Init, TypeOK

LEMMA WorldTyped ==
    ASSUME TypeOK, Environment \/ RegisterHeartbeat
    PROVE  TypeOK'
<1> USE DEF TypeOK, sqlite, gitea, compressor, bounds
<1>1. CASE \E t \in Tables : Insert(t)
  BY <1>1 DEF Insert, Grow
<1>2. CASE \E t \in Tables : \E i \in DOMAIN table[t] : Update(t, i)
  <2>0. PICK t \in Tables : \E i \in DOMAIN table[t] : Update(t, i)
    BY <1>2
  <2> PICK i \in DOMAIN table[t] : Update(t, i)
    BY <2>0
  <2>1. PICK status \in {"shown", "hidden"} : table' = [table EXCEPT ![t][i] = status]
    BY DEF Update, Rewrite
  <2>2. [table[t] EXCEPT ![i] = status] \in Seq({"shown", "hidden", "own", "gone"})
    <3>1. table[t] \in Seq({"shown", "hidden", "own", "gone"})
      OBVIOUS
    <3> QED
      BY <3>1
  <2>3. table' = [table EXCEPT ![t] = [table[t] EXCEPT ![i] = status]]
    BY <2>1
  <2>4. table' \in [Tables -> Seq({"shown", "hidden", "own", "gone"})]
    BY <2>2, <2>3
  <2> QED
    BY <1>2, <2>4 DEF Update
<1>3. CASE \E f \in Files : Edit(f)
  BY <1>3 DEF Edit
<1>4. CASE \E n \in Issues : Close(n)
  BY <1>4 DEF Close
<1>5. CASE RegisterHeartbeat
  <2> DEFINE R == {"shown", "hidden", "own", "gone"}
  <2>1. table["agent_heartbeat"] \in Seq(R)
    BY MBIsTable
  <2>2. WithOwn(table["agent_heartbeat"]) \in Seq(R)
    BY <2>1 DEF WithOwn
  <2>3. \A old : Without(WithOwn(table["agent_heartbeat"]), old) \in Seq(R)
    <3> SUFFICES ASSUME NEW x \in Seq(R), NEW old PROVE Without(x, old) \in Seq(R)
      BY <2>2
    <3>1. Without(x, old) = [i \in 1..Len(x) |-> IF i \in old THEN "gone" ELSE x[i]]
      BY DEF Without
    <3> QED
      BY <3>1
  <2>4. PICK rows \in Seq(R) : table' = [table EXCEPT !["agent_heartbeat"] = rows]
    BY <1>5, <2>3, TrimmedType DEF RegisterHeartbeat
  <2>5. table' \in [Tables -> Seq(R)]
    BY <2>4
  <2> QED
    BY <1>5, <2>5 DEF RegisterHeartbeat
<1> QED
  BY <1>1, <1>2, <1>3, <1>4, <1>5 DEF Environment

LEMMA PollsTyped ==
    ASSUME TypeOK, NothingFetched, SqliteLoop
    PROVE  TypeOK'
<1> USE DEF TypeOK, world, gitea, compressor, bounds
<1>1. CASE PollBegins
  BY <1>1 DEF PollBegins
<1>2. CASE Polls
  <2>1. PICK t \in Tables, S \in SUBSET Nat : \E E : Query(t, S, E)
    <3>1. \A t \in Tables : Behind(t) \subseteq Nat /\ (Behind(t) \cap Shown(t)) \subseteq Nat
      BY DEF Behind
    <3>2. {"message_bus", "task_queue", "debate_utxo", "agent_heartbeat", "discussions"} \subseteq Tables
      BY DEF Tables, Order
    <3> QED
      BY <1>2, <3>1, <3>2
         DEF Polls, PollMessageBus, PollTaskQueue, PollDebateUtxo, PollHeartbeat, PollDiscussions
  <2> PICK E : Query(t, S, E)
    BY <2>1
  <2>2. FirstRows(t, S) \subseteq Nat
    BY DEF FirstRows
  <2>3. at' \in 0..5
    BY DEF Query, Proceed, After
  <2>4. fetched' \subseteq [row : Nat, told : BOOLEAN]
    <3>1. fetched' = {[row |-> i, told |-> i \in E] : i \in FirstRows(t, S)}
      BY DEF Query, Proceed
    <3>2. \A i \in FirstRows(t, S) :
             [row |-> i, told |-> i \in E] \in [row : Nat, told : BOOLEAN]
      BY <2>2
    <3> QED
      BY <3>1, <3>2, Zenon
  <2> QED
    BY <2>3, <2>4 DEF Query
<1>3. CASE QueryRaises
  BY <1>3 DEF QueryRaises, After
<1>4. CASE Emit
  <2>1. PICK r \in fetched :
           /\ queue' = IF r.told
                       THEN Append(queue, Observation(Order[at], r.row, 0)) ELSE queue
           /\ mark' = [mark EXCEPT ![Order[at]] = Larger(@, r.row)]
           /\ Proceed(fetched \ {r})
    BY <1>4 DEF Emit
  <2>2. r.row \in Nat /\ r.told \in BOOLEAN /\ at \in 1..5
    BY DEF NothingFetched
  <2>3. Order[at] \in Tables /\ mark[Order[at]] \in Nat
    BY <2>2, OrderFacts
  <2>4. Larger(mark[Order[at]], r.row) \in Nat
    BY <2>2, <2>3 DEF Larger
  <2>5. mark' \in [Tables -> Nat]
    BY <2>1, <2>3, <2>4
  <2>6. Observation(Order[at], r.row, 0) \in Observations
    BY <2>2, <2>3 DEF Observation, Observations
  <2>7. queue' \in Seq(Observations)
    BY <2>1, <2>6
  <2>8. fetched' \subseteq [row : Nat, told : BOOLEAN] /\ at' \in 0..5
    BY <2>1, <2>2 DEF Proceed, After
  <2> QED
    BY <1>4, <2>5, <2>7, <2>8 DEF Emit
<1> QED
  BY <1>1, <1>2, <1>3, <1>4 DEF SqliteLoop

LEMMA OthersTyped ==
    ASSUME TypeOK,
           GiteaLoop \/ (\E f \in Files : PollFile(f)) \/ Boot \/ Crash
    PROVE  TypeOK'
<1> USE DEF TypeOK, world, sqlite, gitea, compressor, bounds
<1>1. CASE \E f \in Files : PollFile(f)
  <2>1. PICK f \in Files : PollFile(f)
    BY <1>1
  <2>2. Observation("memory_md", f, edits[f]) \in Observations
    BY DEF Observation, Observations
  <2>3. queue' \in Seq(Observations) /\ mtimes' \in [Files -> Nat]
    BY <2>1, <2>2 DEF PollFile
  <2> QED
    BY <2>1, <2>3 DEF PollFile
<1>2. CASE GiteaBegins
  <2>1. lastCheck' \in [checked : BOOLEAN, closed : SUBSET Issues]
    BY <1>2 DEF GiteaBegins, Checked
  <2> QED
    BY <1>2, <2>1 DEF GiteaBegins
<1>3. CASE \E n \in Issues : GiteaAsks(n)
  <2>1. PICK n \in Issues : GiteaAsks(n)
    BY <1>3
  <2>2. Observation("gitea", n, 0) \in Observations
    BY DEF Observation, Observations
  <2>3. Append(queue, Observation("gitea", n, 0)) \in Seq(Observations)
    BY <2>2
  <2>4. queue' = queue \/ queue' = Append(queue, Observation("gitea", n, 0))
    BY <2>1 DEF GiteaAsks
  <2>5. queue' \in Seq(Observations)
    BY <2>3, <2>4
  <2>6. faults' \in Nat
    BY <2>1 DEF GiteaAsks
  <2> QED
    BY <2>1, <2>5, <2>6 DEF GiteaAsks
<1>4. CASE Boot
  BY <1>4 DEF Boot
<1>5. CASE Crash
  <2>1. /\ since' \in [checked : BOOLEAN, closed : SUBSET Issues]
        /\ lastCheck' \in [checked : BOOLEAN, closed : SUBSET Issues]
    BY <1>5 DEF Crash, Fresh, Unchecked
  <2>2. mark' \in [Tables -> Nat] /\ mtimes' \in [Files -> Nat]
    BY <1>5 DEF Crash, Fresh
  <2>3. queue' \in Seq(Observations) /\ batch' \in Seq(Observations)
    BY <1>5 DEF Crash, Fresh
  <2>4. /\ at' \in 0..5 /\ fetched' \subseteq [row : Nat, told : BOOLEAN]
        /\ asking' \subseteq Issues /\ stage' \in {"waiting", "collecting", "compressing"}
    BY <1>5 DEF Crash, Fresh
  <2>5. /\ UNCHANGED <<plan, table, edits, closed, remembered, skipped, faults>>
        /\ crashes' \in Nat
    BY <1>5 DEF Crash
  <2>6. up' \in BOOLEAN
    BY <1>5 DEF Crash
  <2> QED
    BY <2>1, <2>2, <2>3, <2>4, <2>5, <2>6
<1> QED
  BY <1>1, <1>2, <1>3, <1>4, <1>5 DEF GiteaLoop

LEMMA CompressingTyped ==
    ASSUME TypeOK, Compressing
    PROVE  TypeOK'
<1> USE DEF TypeOK, world, sqlite, gitea, bounds
<1>1. CASE Take
  <2>1. Head(queue) \in Observations /\ Tail(queue) \in Seq(Observations)
    BY <1>1, ElementsTail DEF Take
  <2>2. queue' \in Seq(Observations) /\ batch' \in Seq(Observations)
    BY <1>1, <2>1 DEF Take
  <2> QED
    BY <1>1, <2>2 DEF Take
<1>2. CASE WindowEnds
  BY <1>2 DEF WindowEnds
<1>3. CASE Compress
  <2>1. Elements(batch) \subseteq Observations
    BY DEF Elements
  <2>2. remembered' \subseteq Observations /\ skipped' \subseteq Observations
    BY <1>3, <2>1 DEF Compress, Fallback
  <2> QED
    BY <1>3, <2>2 DEF Compress
<1> QED
  BY <1>1, <1>2, <1>3 DEF Compressing

-----------------------------------------------------------------------------
(* The line of messages                                                    *)

Message(i) == Observation(MB, i, 0)
Known == Elements(batch) \cup Elements(queue) \cup remembered \cup skipped

\* Where an observation is kept, queue by queue.
LEMMA KeptIsKnown ==
    ASSUME TypeOK
    PROVE  \A o : Kept(o) <=> o \in Known
BY ElementsConcat DEF TypeOK, Kept, Known

\* A step that leaves the messages, the poll and the watermark of the messages
\* alone and forgets no observation keeps the line.
LEMMA CalmStep ==
    ASSUME IntakeInv, TypeOK',
           MessagesShow', NothingFetched',
           UNCHANGED mark[MB],
           at' # 1 \/ (at = 1 /\ UNCHANGED fetched) \/ fetched' = {},
           Known \subseteq Known'
    PROVE  IntakeInv'
<1>1. \A o : Kept(o) => Kept(o)'
  <2>1. \A o : Kept(o)' <=> o \in Known'
    BY ElementsConcat DEF TypeOK, Kept, Known
  <2> QED
    BY <2>1, KeptIsKnown DEF IntakeInv
<1>2. PassedIsKept'
  BY <1>1 DEF IntakeInv, PassedIsKept, MB
<1>3. NextInLine'
  BY DEF IntakeInv, NextInLine
<1> QED
  BY <1>2, <1>3 DEF IntakeInv

\* No program and no step of the engine changes a message.
LEMMA MessagesStay ==
    ASSUME IntakeInv, Next, ~Crash
    PROVE  MessagesShow'
<1> USE DEF IntakeInv, MessagesShow
<1>1. ASSUME NEW t \in Tables, Insert(t) PROVE MessagesShow'
  <2>1. CASE t = MB
    <3>1. table'[MB] = Append(table[MB], "shown")
      BY <1>1, <2>1 DEF Insert, Grow, MB, TypeOK
    <3>2. table[MB] \in Seq({"shown", "hidden", "own", "gone"})
      BY MBIsTable DEF TypeOK
    <3> QED
      BY <3>1, <3>2
  <2>2. CASE t # MB
    <3>1. table'[MB] = table[MB]
      BY <1>1, <2>2, MBIsTable DEF Insert, Grow, TypeOK
    <3> QED
      BY <3>1
  <2> QED
    BY <2>1, <2>2
<1>2. ASSUME NEW t \in Tables, NEW i \in DOMAIN table[t], Update(t, i) PROVE MessagesShow'
  <2>1. t # MB
    BY <1>2 DEF Update, MB
  <2>2. table'[MB] = table[MB]
    BY <1>2, <2>1, MBIsTable DEF Update, Rewrite, TypeOK
  <2> QED
    BY <2>2
<1>3. CASE RegisterHeartbeat
  <2>1. table'[MB] = table[MB]
    BY <1>3, MBIsTable DEF RegisterHeartbeat, TypeOK
  <2> QED
    BY <2>1
<1>4. CASE UNCHANGED table
  BY <1>4
<1>5. (\E t \in Tables : Insert(t) \/ \E i \in DOMAIN table[t] : Update(t, i))
      \/ RegisterHeartbeat \/ UNCHANGED table
  BY DEF Next, Environment, Edit, Close, Boot, SqliteLoop, PollBegins, Polls, QueryRaises, Emit,
         PollMessageBus, PollTaskQueue, PollDebateUtxo, PollHeartbeat, PollDiscussions, Query,
         GiteaLoop, GiteaBegins, GiteaAsks, PollFile, Compressing, Take, WindowEnds, Compress, world
<1> QED
  BY <1>1, <1>2, <1>3, <1>4, <1>5

LEMMA WorldKeepsLine ==
    ASSUME IntakeInv, TypeOK', MessagesShow', Environment \/ RegisterHeartbeat \/ Boot
    PROVE  IntakeInv'
<1>1. UNCHANGED <<at, fetched, mark, batch, queue, remembered, skipped>>
  BY DEF Environment, Insert, Update, Edit, Close, RegisterHeartbeat, Boot, sqlite, compressor
<1> QED
  BY <1>1, CalmStep DEF IntakeInv, NothingFetched, Known

LEMMA FilesAndGiteaKeepLine ==
    ASSUME IntakeInv, TypeOK', MessagesShow', GiteaLoop \/ \E f \in Files : PollFile(f)
    PROVE  IntakeInv'
<1>1. UNCHANGED <<at, fetched, mark, batch, remembered, skipped>>
  BY DEF GiteaLoop, GiteaBegins, GiteaAsks, PollFile, sqlite, compressor
<1>2. \/ queue' = queue
      \/ \E o \in Observations : queue' = Append(queue, o)
  BY DEF GiteaLoop, GiteaBegins, GiteaAsks, PollFile, Observation, Observations, IntakeInv, TypeOK
<1>3. Elements(queue) \subseteq Elements(queue')
  <2>1. \A o \in Observations : Elements(queue) \subseteq Elements(Append(queue, o))
    BY ElementsAppend DEF IntakeInv, TypeOK
  <2> QED
    BY <1>2, <2>1
<1>4. Known \subseteq Known'
  BY <1>1, <1>3 DEF Known
<1> QED
  BY <1>1, <1>4, CalmStep DEF IntakeInv, NothingFetched

LEMMA CompressorKeepsLine ==
    ASSUME IntakeInv, TypeOK', MessagesShow', Compressing
    PROVE  IntakeInv'
<1>1. UNCHANGED <<at, fetched, mark>>
  BY DEF Compressing, Take, WindowEnds, Compress, sqlite
<1>2. ASSUME Take PROVE Known \subseteq Known'
  <2>1. Elements(queue) = Elements(queue') \cup {Head(queue)}
    BY <1>2, ElementsTail DEF Take, IntakeInv, TypeOK
  <2>2. Elements(batch') = Elements(batch) \cup {Head(queue)}
    BY <1>2, ElementsTail, ElementsAppend DEF Take, IntakeInv, TypeOK
  <2> QED
    BY <1>2, <2>1, <2>2 DEF Known, Take
<1>3. ASSUME WindowEnds PROVE Known \subseteq Known'
  BY <1>3 DEF WindowEnds, Known
<1>4. ASSUME Compress PROVE Known \subseteq Known'
  <2>1. Elements(batch) \subseteq remembered' \cup skipped'
    BY <1>4 DEF Compress, Fallback
  <2>2. remembered \subseteq remembered' /\ skipped \subseteq skipped' /\ queue' = queue
    BY <1>4 DEF Compress
  <2> QED
    BY <2>1, <2>2 DEF Known
<1>5. Known \subseteq Known'
  BY <1>2, <1>3, <1>4 DEF Compressing
<1> QED
  BY <1>1, <1>5, CalmStep DEF IntakeInv, NothingFetched

LEMMA PollsKeepLine ==
    ASSUME IntakeInv, TypeOK', MessagesShow', PollBegins \/ Polls \/ QueryRaises
    PROVE  IntakeInv'
<1>1. UNCHANGED <<table, mark, batch, queue, remembered, skipped>>
  BY DEF PollBegins, Polls, QueryRaises, PollMessageBus, PollTaskQueue, PollDebateUtxo,
         PollHeartbeat, PollDiscussions, Query, world, compressor
<1>2. Known \subseteq Known'
  BY <1>1 DEF Known
<1>3. CASE PollBegins
  <2>1. fetched' = {}
    BY <1>3 DEF PollBegins, IntakeInv, NothingFetched
  <2> QED
    BY <1>1, <1>2, <2>1, CalmStep DEF NothingFetched
<1>4. CASE QueryRaises
  <2>1. fetched' = {}
    BY <1>4 DEF QueryRaises
  <2> QED
    BY <1>1, <1>2, <2>1, CalmStep DEF NothingFetched
<1>5. ASSUME NEW t \in Tables, NEW S, NEW E, Query(t, S, E), t # MB
      PROVE  IntakeInv'
  <2>1. at \in 2..5
    BY <1>5, OrderFacts DEF Query
  <2>2. NothingFetched' /\ at' # 1
    BY <1>5, <2>1 DEF Query, Proceed, After, NothingFetched
  <2> QED
    BY <1>1, <1>2, <2>2, CalmStep
<1>6. CASE PollMessageBus
  <2> DEFINE S == Behind(MB)
             new == {[row |-> i, told |-> i \in Shown(MB)] : i \in FirstRows(MB, S)}
  <2>1. Proceed(new) /\ at \in 1..5 /\ Order[at] = MB
    BY <1>6 DEF PollMessageBus, Query, MB
  <2>2. at = 1 /\ fetched' = new
    BY <2>1, OrderFacts DEF Proceed
  <2>3. NothingFetched'
    BY <2>1, <2>2 DEF NothingFetched, Proceed, After
  <2>4. S = {i \in DOMAIN table[MB] : i > mark[MB]} /\ S \in SUBSET Nat
    BY MBIsTable DEF Behind, IntakeInv, TypeOK, MessagesShow
  <2>5. ASSUME NEW i \in FirstRows(MB, S)
        PROVE  /\ i \in S /\ i \in Shown(MB)
               /\ \A j \in mark[MB] + 1 .. i : j \in FirstRows(MB, S)
    <3>1. i \in S
      BY DEF FirstRows
    <3>2. i \in Shown(MB)
      BY <2>4, <3>1 DEF Shown, IntakeInv, MessagesShow
    <3>3. ASSUME NEW j \in mark[MB] + 1 .. i PROVE j \in S /\ j <= i
      <4>1. mark[MB] \in Nat /\ table[MB] \in Seq({"shown", "hidden", "own", "gone"})
        BY MBIsTable DEF IntakeInv, TypeOK
      <4>2. i \in 1..Len(table[MB]) /\ i > mark[MB]
        BY <2>4, <3>1, <4>1
      <4> QED
        BY <2>4, <4>1, <4>2
    <3>4. ASSUME NEW j \in mark[MB] + 1 .. i PROVE j \in FirstRows(MB, S)
      BY <2>4, <3>3, MBIsTable, FirstRowsClosed
    <3> QED
      BY <3>1, <3>2, <3>4
  <2>6. NextInLine'
    <3> SUFFICES ASSUME NEW r \in new
                 PROVE  /\ r.told /\ r.row > mark[MB]
                        /\ \A i \in mark[MB] + 1 .. r.row : \E q \in new : q.row = i
      BY <1>1, <2>2 DEF NextInLine
    <3>1. PICK i \in FirstRows(MB, S) : r = [row |-> i, told |-> i \in Shown(MB)]
      OBVIOUS
    <3>2. r.told /\ r.row = i /\ i > mark[MB]
      BY <2>4, <2>5, <3>1
    <3>3. ASSUME NEW j \in FirstRows(MB, S) PROVE \E q \in new : q.row = j
      <4>1. [row |-> j, told |-> j \in Shown(MB)] \in new
        OBVIOUS
      <4> QED
        BY <4>1
    <3> QED
      BY <2>5, <3>2, <3>3
  <2>7. PassedIsKept'
    BY <1>1 DEF IntakeInv, PassedIsKept, Kept
  <2> QED
    BY <2>3, <2>6, <2>7 DEF IntakeInv
<1> QED
  <2>1. {"task_queue", "debate_utxo", "agent_heartbeat", "discussions"} \subseteq Tables \ {MB}
    BY DEF Tables, Order, MB
  <2> QED
    BY <1>3, <1>4, <1>5, <1>6, <2>1
       DEF Polls, PollTaskQueue, PollDebateUtxo, PollHeartbeat, PollDiscussions

\* The row at hand is the next one: its observation is queued and the
\* watermark moves by one.
LEMMA EmitKeepsLine ==
    ASSUME IntakeInv, TypeOK', MessagesShow', Emit
    PROVE  IntakeInv'
<1>1. PICK r \in fetched :
         /\ \A q \in fetched : r.row <= q.row
         /\ queue' = IF r.told THEN Append(queue, Observation(Order[at], r.row, 0)) ELSE queue
         /\ mark' = [mark EXCEPT ![Order[at]] = Larger(@, r.row)]
         /\ Proceed(fetched \ {r})
  BY DEF Emit
<1>2. at \in 1..5 /\ Order[at] \in Tables /\ r.row \in Nat /\ mark[MB] \in Nat
  <2>1. at \in 1..5
    BY DEF IntakeInv, TypeOK, NothingFetched
  <2>2. r.row \in Nat /\ mark[MB] \in Nat
    BY MBIsTable DEF IntakeInv, TypeOK
  <2> QED
    BY <2>1, <2>2, OrderFacts
<1>3. UNCHANGED <<batch, remembered, skipped>>
  BY DEF Emit, compressor
<1>4. Observation(Order[at], r.row, 0) \in Observations
  BY <1>2 DEF Observation, Observations
<1>5. /\ Elements(queue) \subseteq Elements(queue')
      /\ r.told => Observation(Order[at], r.row, 0) \in Elements(queue')
  BY <1>1, <1>4, ElementsAppend DEF IntakeInv, TypeOK
<1>6. Known \subseteq Known' /\ (r.told => Observation(Order[at], r.row, 0) \in Known')
  BY <1>3, <1>5 DEF Known
<1>7. NothingFetched'
  BY <1>1, <1>2 DEF NothingFetched, Proceed
<1>8. CASE at # 1
  <2>1. mark'[MB] = mark[MB]
    BY <1>1, <1>2, <1>8, OrderFacts, MBIsTable DEF IntakeInv, TypeOK
  <2>2. at' # 1 \/ fetched' = {}
    BY <1>1, <1>2, <1>8 DEF Proceed
  <2> QED
    BY <1>6, <1>7, <2>1, <2>2, CalmStep
<1>9. CASE at = 1
  <2>1. Order[at] = MB
    BY <1>9, OrderFacts
  <2>2. r.told /\ r.row > mark[MB] /\ \A i \in mark[MB] + 1 .. r.row : \E q \in fetched : q.row = i
    BY <1>9 DEF IntakeInv, NextInLine
  <2>3. r.row = mark[MB] + 1
    <3>1. mark[MB] + 1 \in mark[MB] + 1 .. r.row
      BY <1>2, <2>2
    <3>2. PICK q \in fetched : q.row = mark[MB] + 1
      BY <2>2, <3>1
    <3>3. r.row <= mark[MB] + 1
      BY <1>1, <3>2
    <3> QED
      BY <1>2, <2>2, <3>3
  <2>4. mark'[MB] = mark[MB] + 1
    BY <1>1, <1>2, <2>1, <2>3, MBIsTable DEF Larger, IntakeInv, TypeOK
  <2>5. ASSUME NEW i \in 1..mark'[MB] PROVE Kept(Observation("message_bus", i, 0))'
    <3>1. CASE i \in 1..mark[MB]
      <4>1. Kept(Observation("message_bus", i, 0))
        BY <3>1 DEF IntakeInv, PassedIsKept, MB
      <4>2. Observation("message_bus", i, 0) \in Known
        BY <4>1, KeptIsKnown DEF IntakeInv
      <4> QED
        BY <1>6, <4>2, ElementsConcat DEF TypeOK, Kept, Known
    <3>2. CASE i = r.row
      <4>1. Observation("message_bus", i, 0) \in Known'
        BY <1>6, <2>1, <2>2, <3>2 DEF MB
      <4> QED
        BY <4>1, ElementsConcat DEF TypeOK, Kept, Known
    <3> QED
      BY <1>2, <2>3, <2>4, <3>1, <3>2
  <2>6. PassedIsKept'
    BY <2>5 DEF PassedIsKept, MB
  <2>7. NextInLine'
    <3>1. CASE fetched' = {}
      BY <3>1 DEF NextInLine
    <3>2. CASE fetched' # {}
      <4> SUFFICES ASSUME NEW q \in fetched'
                   PROVE  /\ q.told /\ q.row > mark'[MB]
                          /\ \A i \in mark'[MB] + 1 .. q.row : \E p \in fetched' : p.row = i
        BY DEF NextInLine
      <4>1. fetched' = fetched \ {r} /\ q \in fetched /\ q # r
        BY <1>1 DEF Proceed
      <4>2. q.told /\ q.row > mark[MB] /\ \A i \in mark[MB] + 1 .. q.row : \E p \in fetched : p.row = i
        BY <1>9, <4>1 DEF IntakeInv, NextInLine
      <4>3. q.row # r.row
        <5>1. q = [row |-> q.row, told |-> TRUE] /\ r = [row |-> r.row, told |-> TRUE]
          BY <2>2, <4>1, <4>2 DEF IntakeInv, TypeOK
        <5> QED
          BY <4>1, <5>1
      <4>4. q.row > mark'[MB] /\ q.row \in Nat
        BY <1>2, <2>3, <2>4, <4>1, <4>2, <4>3 DEF IntakeInv, TypeOK
      <4>5. ASSUME NEW i \in mark'[MB] + 1 .. q.row PROVE \E p \in fetched' : p.row = i
        <5>1. i \in mark[MB] + 1 .. q.row /\ i # r.row
          BY <1>2, <2>3, <2>4, <4>4
        <5>2. PICK p \in fetched : p.row = i
          BY <4>2, <5>1
        <5> QED
          BY <4>1, <5>1, <5>2
      <4> QED
        BY <4>2, <4>4, <4>5
    <3> QED
      BY <3>1, <3>2
  <2> QED
    BY <1>7, <2>6, <2>7 DEF IntakeInv
<1> QED
  BY <1>8, <1>9

LEMMA CrashKeepsLine ==
    ASSUME IntakeInv, TypeOK', Crash
    PROVE  IntakeInv'
<1>1. UNCHANGED table /\ at' = 0 /\ fetched' = {} /\ mark'[MB] = 0
  BY MBIsTable DEF Crash, Fresh, world
<1> QED
  BY <1>1 DEF IntakeInv, MessagesShow, NothingFetched, NextInLine, PassedIsKept, MB

-----------------------------------------------------------------------------
(* Theorems                                                                *)

LEMMA InitInv == Init => IntakeInv
<1> SUFFICES ASSUME Init PROVE IntakeInv
  OBVIOUS
<1>1. table[MB] = <<>> /\ mark[MB] = 0 /\ at = 0 /\ fetched = {}
  BY MBIsTable DEF Init
<1>2. MessagesShow
  BY <1>1 DEF MessagesShow
<1> QED
  BY <1>1, <1>2, InitTyped DEF IntakeInv, NothingFetched, NextInLine, PassedIsKept, MB

LEMMA StepTyped ==
    ASSUME IntakeInv, Next
    PROVE  TypeOK'
BY WorldTyped, PollsTyped, OthersTyped, CompressingTyped DEF Next, IntakeInv

LEMMA StepInv == IntakeInv /\ [Next]_vars => IntakeInv'
<1> SUFFICES ASSUME IntakeInv, [Next]_vars PROVE IntakeInv'
  OBVIOUS
<1>1. CASE Crash
  BY <1>1, StepTyped, CrashKeepsLine DEF Next
<1>2. CASE Next /\ ~Crash
  <2>1. TypeOK' /\ MessagesShow'
    BY <1>2, StepTyped, MessagesStay
  <2> QED
    BY <1>2, <2>1, WorldKeepsLine, FilesAndGiteaKeepLine, CompressorKeepsLine, PollsKeepLine,
       EmitKeepsLine DEF Next, SqliteLoop
<1>3. CASE UNCHANGED vars
  BY <1>3 DEF vars, world, sqlite, gitea, compressor, bounds, IntakeInv, TypeOK, MessagesShow,
              NothingFetched, NextInLine, PassedIsKept, Kept, Shown
<1> QED
  BY <1>1, <1>2, <1>3

\* Every variable keeps its type, whatever the sources hold and however the
\* loops of the engine interleave.
THEOREM TypeCorrect == Spec => []TypeOK
<1>1. IntakeInv => TypeOK
  BY DEF IntakeInv
<1> QED
  BY InitInv, StepInv, <1>1, PTL DEF Spec

\* No message is passed by: each at or below the watermark waits in the queue
\* or the batch, or is in a memory, or was left out by the LLM, for any limit
\* of the query, any number of failing queries and ends of the engine.
THEOREM MessagesAreKept == Spec => []PassedIsKept
<1>1. IntakeInv => PassedIsKept
  BY DEF IntakeInv
<1> QED
  BY InitInv, StepInv, <1>1, PTL DEF Spec
=============================================================================
