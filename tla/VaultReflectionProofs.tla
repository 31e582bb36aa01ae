------------------------- MODULE VaultReflectionProofs -------------------------
(***************************************************************************)
(* Proofs about VaultReflection for every set of memories and processes,   *)
(* every threshold, rate and bound.  The invariant follows the transaction *)
(* of a run: what it has inserted and what it has marked are the same      *)
(* memories, but for the one between its two statements.                   *)
(***************************************************************************)
EXTENDS VaultReflection, FiniteSetTheorems, WellFoundedInduction, TLAPS

\* A run works on memories it has chosen, and writes a crystal and the marks
\* of an item in one transaction.
Sound(j) ==
    /\ \A x \in j.todo \cup j.inserted \cup j.marked : x \subseteq j.chosen
    /\ j.doing \subseteq j.chosen
    /\ j.kind = "promotion" => UNION j.inserted = (UNION j.marked) \cup j.doing
    /\ j.kind = "synthesis" => UNION j.inserted = UNION j.marked

SoundJobs == \A p \in Processes : Sound(job[p])

\* Runs choose memories that are stored; nothing marks another.
ChosenExist == \A p \in Processes : \A m \in job[p].chosen : memory[m].there
AbsentUnmarked ==
    \A m \in Memories : ~memory[m].there => ~memory[m].promoted /\ ~memory[m].consumed

\* Until a run begins during another, there is one at a time, and nobody marks
\* what it has chosen.
OneRun ==
    ~overlapped =>
        \A p, q \in Processes : Running(p) /\ Running(q) => p = q
ChosenUnmarked ==
    ~overlapped =>
        \A p \in Processes : Running(p) =>
            \A m \in job[p].chosen :
                /\ ~memory[m].promoted
                /\ job[p].kind = "synthesis" => ~memory[m].consumed

\* A run has a larger number than the crystals before it.
NumbersGrow ==
    /\ \A c \in crystals : c.no <= runs
    /\ \A p \in Processes : job[p].no <= runs
    /\ ~overlapped =>
          \A p \in Processes : Running(p) => \A c \in crystals : c.no < job[p].no

MarksInv ==
    /\ TypeOK
    /\ SoundJobs
    /\ ChosenExist
    /\ AbsentUnmarked
    /\ CrystalsMatchMarks

RunsInv ==
    /\ OneRun
    /\ ChosenUnmarked
    /\ NumbersGrow
    /\ OneCrystalEach

ReflectionInv == MarksInv /\ RunsInv

-----------------------------------------------------------------------------
(* The steps of a run                                                      *)

\* Process p goes on with its run, whose state becomes j.
Continues(p, j) ==
    /\ j \in Jobs /\ Sound(j)
    /\ j.kind = job[p].kind /\ j.no = job[p].no /\ j.chosen = job[p].chosen
    /\ job' = [job EXCEPT ![p] = j]
    /\ UNCHANGED <<hour, due, memory, edges, crystals, runs, overlapped>>

LEMMA UnionAdd ==
    ASSUME NEW A, NEW x
    PROVE  UNION (A \cup {x}) = (UNION A) \cup x
<1>1. ASSUME NEW y, y \in UNION (A \cup {x}) PROVE y \in (UNION A) \cup x
  <2>1. PICK z \in A \cup {x} : y \in z
    BY <1>1
  <2>2. CASE z \in A
    <3>1. y \in UNION A
      BY <2>1, <2>2
    <3> QED
      BY <3>1
  <2>3. CASE z = x
    <3>1. y \in x
      BY <2>1, <2>3
    <3> QED
      BY <3>1
  <2> QED
    BY <2>1, <2>2, <2>3
<1>2. ASSUME NEW y, y \in (UNION A) \cup x PROVE y \in UNION (A \cup {x})
  <2>1. ASSUME NEW z, z \in A \cup {x}, y \in z PROVE y \in UNION (A \cup {x})
    BY <2>1
  <2>2. CASE \E z \in A : y \in z
    BY <2>1, <2>2
  <2>3. CASE y \in x
    BY <2>1, <2>3
  <2>4. (\E z \in A : y \in z) \/ y \in x
    BY <1>2
  <2> QED
    BY <2>2, <2>3, <2>4
<1> QED
  BY <1>1, <1>2

\* What makes a run sound.
LEMMA SoundRun ==
    ASSUME NEW j,
           \A x \in j.todo \cup j.inserted \cup j.marked : x \subseteq j.chosen,
           j.doing \subseteq j.chosen,
           j.kind = "promotion" => UNION j.inserted = (UNION j.marked) \cup j.doing,
           j.kind = "synthesis" => UNION j.inserted = UNION j.marked
    PROVE  Sound(j)
BY DEF Sound

LEMMA PromoteOneContinues ==
    ASSUME MarksInv, NEW p \in Processes, NEW x \in job[p].todo, PromoteOne(p, x)
    PROVE  \E j : Continues(p, j)
<1> DEFINE j == [job[p] EXCEPT !.todo = @ \ {x}, !.doing = x, !.inserted = @ \cup {x}]
<1>1. job[p] \in Jobs /\ Sound(job[p])
  BY DEF MarksInv, SoundJobs, TypeOK
<1>2. x \in SUBSET Memories
  BY <1>1 DEF Jobs, Items
<1>3. j \in Jobs
  BY <1>1, <1>2 DEF Jobs, Items
<1>4. /\ j.kind = "promotion" /\ job[p].kind = "promotion" /\ job[p].doing = {}
      /\ j.no = job[p].no /\ j.chosen = job[p].chosen /\ j.todo = job[p].todo \ {x}
      /\ j.doing = x /\ j.inserted = job[p].inserted \cup {x} /\ j.marked = job[p].marked
  BY <1>1 DEF PromoteOne, Jobs
<1>6. job' = [job EXCEPT ![p] = j]
  BY DEF PromoteOne
<1> HIDE DEF j
<1>5. Sound(j)
  <2>1. \A y \in j.todo \cup j.inserted \cup j.marked : y \subseteq j.chosen
    BY <1>1, <1>4 DEF Sound
  <2>2. j.doing \subseteq j.chosen
    BY <1>1, <1>4 DEF Sound
  <2>3. UNION j.inserted = (UNION j.marked) \cup j.doing
    <3>1. UNION j.inserted = (UNION job[p].inserted) \cup x
      <4>1. UNION (job[p].inserted \cup {x}) = (UNION job[p].inserted) \cup x
        BY UnionAdd
      <4> QED
        BY <1>4, <4>1
    <3>2. UNION job[p].inserted = (UNION job[p].marked) \cup job[p].doing
      BY <1>1, <1>4 DEF Sound
    <3> QED
      BY <1>4, <3>1, <3>2
  <2> QED
    BY <1>4, <2>1, <2>2, <2>3, SoundRun
<1> QED
  BY <1>3, <1>4, <1>5, <1>6 DEF Continues, PromoteOne

LEMMA MarkPromotedContinues ==
    ASSUME MarksInv, NEW p \in Processes, MarkPromoted(p)
    PROVE  \E j : Continues(p, j)
<1> DEFINE j == [job[p] EXCEPT !.doing = {}, !.marked = @ \cup {job[p].doing}]
<1>1. job[p] \in Jobs /\ Sound(job[p])
  BY DEF MarksInv, SoundJobs, TypeOK
<1>2. j \in Jobs
  BY <1>1 DEF Jobs, Items
<1>3. /\ j.kind = "promotion" /\ job[p].kind = "promotion"
      /\ j.no = job[p].no /\ j.chosen = job[p].chosen /\ j.todo = job[p].todo
      /\ j.doing = {} /\ j.inserted = job[p].inserted
      /\ j.marked = job[p].marked \cup {job[p].doing}
  BY <1>1 DEF MarkPromoted, Jobs
<1>5. job' = [job EXCEPT ![p] = j]
  BY DEF MarkPromoted
<1> HIDE DEF j
<1>4. Sound(j)
  <2>1. \A y \in j.todo \cup j.inserted \cup j.marked : y \subseteq j.chosen
    BY <1>1, <1>3 DEF Sound
  <2>2. UNION j.inserted = (UNION j.marked) \cup j.doing
    <3>1. UNION j.marked = (UNION job[p].marked) \cup job[p].doing
      <4>1. UNION (job[p].marked \cup {job[p].doing}) = (UNION job[p].marked) \cup job[p].doing
        BY UnionAdd
      <4> QED
        BY <1>3, <4>1
    <3>2. UNION job[p].inserted = (UNION job[p].marked) \cup job[p].doing
      BY <1>1, <1>3 DEF Sound
    <3> QED
      BY <1>3, <3>1, <3>2
  <2> QED
    BY <1>3, <2>1, <2>2, SoundRun
<1> QED
  BY <1>2, <1>3, <1>4, <1>5 DEF Continues, MarkPromoted

LEMMA StartClusterContinues ==
    ASSUME MarksInv, NEW p \in Processes, NEW x \in job[p].todo, StartCluster(p, x)
    PROVE  \E j : Continues(p, j)
<1>1. job[p] \in Jobs /\ Sound(job[p])
  BY DEF MarksInv, SoundJobs, TypeOK
<1>2. PICK G \in SUBSET Ghosts(p, x) :
         job' = [job EXCEPT ![p].todo = @ \ {x}, ![p].doing = x, ![p].ghosts = G]
  BY DEF StartCluster
<1> DEFINE j == [job[p] EXCEPT !.todo = @ \ {x}, !.doing = x, !.ghosts = G]
<1>3. x \in SUBSET Memories /\ G \in SUBSET Memories
  BY <1>1 DEF Jobs, Items, Ghosts
<1>4. j \in Jobs
  BY <1>1, <1>3 DEF Jobs, Items
<1>5. /\ j.kind = "synthesis" /\ job[p].kind = "synthesis"
      /\ j.no = job[p].no /\ j.chosen = job[p].chosen /\ j.todo = job[p].todo \ {x}
      /\ j.doing = x /\ j.inserted = job[p].inserted /\ j.marked = job[p].marked
  BY <1>1 DEF StartCluster, Jobs
<1>6. Sound(j)
  BY <1>1, <1>5 DEF Sound
<1>7. job' = [job EXCEPT ![p] = j]
  BY <1>2
<1> QED
  BY <1>4, <1>5, <1>6, <1>7 DEF Continues, StartCluster

LEMMA FinishClusterContinues ==
    ASSUME MarksInv, NEW p \in Processes, FinishCluster(p)
    PROVE  \E j : Continues(p, j)
<1> DEFINE x == job[p].doing
           j == [job[p] EXCEPT !.doing = {}, !.ghosts = {},
                               !.inserted = @ \cup {x}, !.marked = @ \cup {x}]
<1>1. job[p] \in Jobs /\ Sound(job[p])
  BY DEF MarksInv, SoundJobs, TypeOK
<1>2. j \in Jobs
  BY <1>1 DEF Jobs, Items
<1>3. /\ j.kind = "synthesis" /\ job[p].kind = "synthesis"
      /\ j.no = job[p].no /\ j.chosen = job[p].chosen /\ j.todo = job[p].todo
      /\ j.doing = {} /\ j.inserted = job[p].inserted \cup {x}
      /\ j.marked = job[p].marked \cup {x}
  BY <1>1 DEF FinishCluster, Jobs
<1>4. Sound(j)
  BY <1>1, <1>3 DEF Sound
<1>5. job' = [job EXCEPT ![p] = j]
  BY DEF FinishCluster
<1> QED
  BY <1>2, <1>3, <1>4, <1>5 DEF Continues, FinishCluster

LEMMA ItemRaisesContinues ==
    ASSUME MarksInv, NEW p \in Processes, NEW x, ItemRaises(p, x)
    PROVE  \E j : Continues(p, j)
<1> DEFINE j == [job[p] EXCEPT !.todo = @ \ {x}, !.doing = {}, !.ghosts = {},
                               !.inserted = {}, !.marked = {}]
<1>1. job[p] \in Jobs /\ Sound(job[p])
  BY DEF MarksInv, SoundJobs, TypeOK
<1>2. j \in Jobs
  BY <1>1 DEF Jobs, Items
<1>3. /\ j.kind = job[p].kind
      /\ j.no = job[p].no /\ j.chosen = job[p].chosen /\ j.todo = job[p].todo \ {x}
      /\ j.doing = {} /\ j.inserted = {} /\ j.marked = {}
  BY <1>1 DEF Jobs
<1>4. Sound(j)
  BY <1>1, <1>3 DEF Sound
<1>5. job' = [job EXCEPT ![p] = j]
  <2>1. RolledBack(job[p], x) = j
    BY <1>1 DEF RolledBack, Jobs
  <2>2. job' = [job EXCEPT ![p] = RolledBack(job[p], x)]
    BY DEF ItemRaises
  <2> QED
    BY <2>1, <2>2
<1> QED
  BY <1>2, <1>3, <1>4, <1>5 DEF Continues, ItemRaises

LEMMA ContinuesKeeps ==
    ASSUME ReflectionInv, NEW p \in Processes, NEW j, Continues(p, j),
           alerts' \subseteq Crystals, faults' \in Nat
    PROVE  ReflectionInv'
<1>1. /\ job[p] \in Jobs /\ job \in [Processes -> Jobs] /\ j \in Jobs
      /\ j.kind = job[p].kind /\ j.no = job[p].no /\ j.chosen = job[p].chosen /\ Sound(j)
      /\ UNCHANGED <<hour, due, memory, edges, crystals, runs, overlapped>>
  BY DEF ReflectionInv, MarksInv, TypeOK, Continues
<1>2. job' = [job EXCEPT ![p] = j]
  BY DEF Continues
<1>3. ASSUME NEW q \in Processes
      PROVE  /\ job'[q].kind = job[q].kind /\ job'[q].no = job[q].no
             /\ job'[q].chosen = job[q].chosen /\ Sound(job'[q])
  <2>1. Sound(job[q])
    BY DEF ReflectionInv, MarksInv, SoundJobs
  <2>2. job'[q] = IF q = p THEN j ELSE job[q]
    BY <1>1, <1>2
  <2> QED
    BY <1>1, <2>1, <2>2
<1>4. TypeOK'
  <2>1. job' \in [Processes -> Jobs]
    BY <1>1, <1>2
  <2> QED
    BY <1>1, <2>1 DEF ReflectionInv, MarksInv, TypeOK
<1>5. SoundJobs'
  BY <1>3 DEF SoundJobs, Sound
<1>6. ChosenExist'
  BY <1>1, <1>3 DEF ReflectionInv, MarksInv, ChosenExist
<1>7. AbsentUnmarked'
  BY <1>1 DEF ReflectionInv, MarksInv, AbsentUnmarked
<1>8. CrystalsMatchMarks'
  BY <1>1 DEF ReflectionInv, MarksInv, CrystalsMatchMarks
<1>9. OneRun'
  BY <1>1, <1>3 DEF ReflectionInv, RunsInv, OneRun, Running
<1>10. ChosenUnmarked'
  BY <1>1, <1>3 DEF ReflectionInv, RunsInv, ChosenUnmarked, Running
<1>11. NumbersGrow'
  BY <1>1, <1>3 DEF ReflectionInv, RunsInv, NumbersGrow, Running
<1>12. OneCrystalEach'
  BY <1>1 DEF ReflectionInv, RunsInv, OneCrystalEach
<1> QED
  BY <1>4, <1>5, <1>6, <1>7, <1>8, <1>9, <1>10, <1>11, <1>12
  DEF ReflectionInv, MarksInv, RunsInv

-----------------------------------------------------------------------------
(* The beginning of a run                                                  *)

LEMMA BeginKeeps ==
    ASSUME ReflectionInv, NEW p \in Processes, NEW kind \in Kinds,
           NEW S \in SUBSET Memories, NEW items \in SUBSET SUBSET S,
           Begin(p, kind, S, items),
           \A m \in S : memory[m].there /\ ~memory[m].promoted,
           kind = "synthesis" => \A m \in S : ~memory[m].consumed,
           due' \subseteq due,
           UNCHANGED <<hour, memory, edges, crystals, alerts, faults>>
    PROVE  ReflectionInv'
<1> DEFINE j == [NoJob EXCEPT !.kind = kind, !.no = runs + 1,
                              !.chosen = S, !.found = items, !.todo = items]
<1>1. /\ job \in [Processes -> Jobs] /\ runs \in Nat /\ overlapped \in BOOLEAN
  BY DEF ReflectionInv, MarksInv, TypeOK
<1>2. /\ runs' = runs + 1
      /\ job' = [job EXCEPT ![p] = j]
      /\ overlapped' = (overlapped \/ \E q \in Processes : Running(q))
  BY DEF Begin
<1>3. /\ j.kind = kind /\ j.no = runs + 1 /\ j.chosen = S /\ j.found = items /\ j.todo = items
      /\ j.doing = {} /\ j.ghosts = {} /\ j.inserted = {} /\ j.marked = {}
  BY DEF NoJob
<1>4. j \in Jobs
  <2>1. items \in Items /\ {} \in Items
    BY DEF Items
  <2>2. kind \in Kinds \cup {"none"} /\ runs + 1 \in Nat /\ {} \in SUBSET Memories
    BY <1>1
  <2>3. NoJob \in Jobs
    BY <2>1 DEF NoJob, Jobs
  <2> QED
    BY <2>1, <2>2, <2>3 DEF Jobs
<1> HIDE DEF j
<1>5. Sound(j)
  BY <1>3 DEF Sound
<1>6. \A q \in Processes : job'[q] = IF q = p THEN j ELSE job[q]
  BY <1>1, <1>2
<1>7. TypeOK'
  <2>1. job' \in [Processes -> Jobs]
    BY <1>1, <1>2, <1>4
  <2>2. runs' \in Nat /\ overlapped' \in BOOLEAN
    BY <1>1, <1>2
  <2> QED
    BY <2>1, <2>2 DEF ReflectionInv, MarksInv, TypeOK
<1>8. SoundJobs'
  <2>1. ASSUME NEW q \in Processes PROVE Sound(job'[q])
    BY <1>5, <1>6 DEF ReflectionInv, MarksInv, SoundJobs
  <2> QED
    BY <2>1 DEF SoundJobs, Sound
<1>9. ChosenExist'
  BY <1>3, <1>6 DEF ReflectionInv, MarksInv, ChosenExist
<1>10. AbsentUnmarked'
  BY DEF ReflectionInv, MarksInv, AbsentUnmarked
<1>11. CrystalsMatchMarks'
  BY DEF ReflectionInv, MarksInv, CrystalsMatchMarks
<1>12. ASSUME ~overlapped', NEW q \in Processes, Running(q)' PROVE q = p /\ ~overlapped
  BY <1>2, <1>6, <1>12 DEF Running
<1>13. OneRun'
  BY <1>12 DEF OneRun
<1>14. ChosenUnmarked'
  <2>1. ASSUME ~overlapped', NEW q \in Processes, Running(q)', NEW m \in job'[q].chosen
        PROVE  ~memory'[m].promoted /\ (job'[q].kind = "synthesis" => ~memory'[m].consumed)
    <3>1. job'[q] = j
      BY <1>6, <1>12, <2>1
    <3> QED
      BY <1>3, <2>1, <3>1
  <2> QED
    BY <2>1 DEF ChosenUnmarked
<1>15. NumbersGrow'
  <2>1. \A c \in crystals : c.no \in Nat
    BY DEF ReflectionInv, MarksInv, TypeOK, Crystals
  <2>2. \A q \in Processes : job[q].no \in Nat
    BY <1>1 DEF Jobs
  <2>3. (\A c \in crystals : c.no <= runs) /\ \A q \in Processes : job[q].no <= runs
    BY DEF ReflectionInv, RunsInv, NumbersGrow
  <2>4. \A c \in crystals : c.no <= runs' /\ c.no < runs + 1
    BY <1>1, <1>2, <2>1, <2>3
  <2>5. \A q \in Processes : job'[q].no <= runs'
    BY <1>1, <1>2, <1>3, <1>6, <2>2, <2>3
  <2>6. ASSUME ~overlapped', NEW q \in Processes, Running(q)', NEW c \in crystals'
        PROVE  c.no < job'[q].no
    BY <1>3, <1>6, <1>12, <2>4, <2>6
  <2> QED
    BY <2>4, <2>5, <2>6 DEF NumbersGrow
<1>16. OneCrystalEach'
  BY <1>2 DEF ReflectionInv, RunsInv, OneCrystalEach
<1> QED
  BY <1>7, <1>8, <1>9, <1>10, <1>11, <1>13, <1>14, <1>15, <1>16
  DEF ReflectionInv, MarksInv, RunsInv

LEMMA BeginPromotionKeeps ==
    ASSUME ReflectionInv, NEW p \in Processes, BeginPromotion(p)
    PROVE  ReflectionInv'
<1> DEFINE items == {{m} : m \in Promotable}
<1>1. Promotable \in SUBSET Memories
  BY MemoriesAssumption DEF Promotable
<1>2. items \in SUBSET SUBSET Promotable
  OBVIOUS
<1>3. \A m \in Promotable : memory[m].there /\ ~memory[m].promoted
  BY DEF Promotable
<1>4. /\ Begin(p, "promotion", Promotable, items)
      /\ due' \subseteq due
      /\ UNCHANGED <<hour, memory, edges, crystals, alerts, faults>>
  BY DEF BeginPromotion
<1>5. "promotion" \in Kinds
  BY DEF Kinds
<1> HIDE DEF items
<1> QED
  BY <1>1, <1>2, <1>3, <1>4, <1>5, BeginKeeps

LEMMA BeginSynthesisKeeps ==
    ASSUME ReflectionInv, NEW p \in Processes, BeginSynthesis(p)
    PROVE  ReflectionInv'
<1> DEFINE items == {C \in FindClusters(Candidates) : Cardinality(C) >= MinCluster}
<1>1. Candidates \in SUBSET Memories
  BY DEF Candidates
<1>2. items \in SUBSET SUBSET Candidates
  <2>1. \A C \in FindClusters(Candidates) : C \subseteq Candidates
    BY DEF FindClusters
  <2> QED
    BY <2>1
<1>3. \A m \in Candidates : memory[m].there /\ ~memory[m].promoted /\ ~memory[m].consumed
  BY DEF Candidates
<1>4. /\ Begin(p, "synthesis", Candidates, items)
      /\ due' \subseteq due
      /\ UNCHANGED <<hour, memory, edges, crystals, alerts, faults>>
  BY DEF BeginSynthesis
<1>5. "synthesis" \in Kinds
  BY DEF Kinds
<1> HIDE DEF items
<1> QED
  BY <1>1, <1>2, <1>3, <1>4, <1>5, BeginKeeps

-----------------------------------------------------------------------------
(* The end of a run                                                        *)

\* What is true of a process without a run.
LEMMA NoJobIsSound == NoJob \in Jobs /\ Sound(NoJob)
<1>1. {} \in Items
  BY DEF Items
<1> QED
  BY <1>1 DEF NoJob, Jobs, Sound

LEMMA AbortKeeps ==
    ASSUME ReflectionInv, NEW p \in Processes, Abort(p)
    PROVE  ReflectionInv'
<1>1. /\ job \in [Processes -> Jobs] /\ faults \in Nat /\ runs \in Nat
  BY DEF ReflectionInv, MarksInv, TypeOK
<1>2. /\ job' = [job EXCEPT ![p] = NoJob] /\ faults' = faults + 1
      /\ UNCHANGED <<hour, due, memory, edges, crystals, alerts, runs, overlapped>>
  BY DEF Abort, Raises
<1>3. NoJob.kind = "none" /\ NoJob.no = 0 /\ NoJob.chosen = {}
  BY DEF NoJob
<1>4. \A q \in Processes : job'[q] = IF q = p THEN NoJob ELSE job[q]
  BY <1>1, <1>2
<1>5. TypeOK'
  <2>1. job' \in [Processes -> Jobs]
    BY <1>1, <1>2, NoJobIsSound
  <2>2. faults' \in Nat
    BY <1>1, <1>2
  <2> QED
    BY <1>2, <2>1, <2>2 DEF ReflectionInv, MarksInv, TypeOK
<1>6. SoundJobs'
  <2>1. ASSUME NEW q \in Processes PROVE Sound(job'[q])
    BY <1>4, NoJobIsSound DEF ReflectionInv, MarksInv, SoundJobs
  <2> QED
    BY <2>1 DEF SoundJobs, Sound
<1>7. ChosenExist'
  BY <1>2, <1>3, <1>4 DEF ReflectionInv, MarksInv, ChosenExist
<1>8. AbsentUnmarked' /\ CrystalsMatchMarks'
  BY <1>2 DEF ReflectionInv, MarksInv, AbsentUnmarked, CrystalsMatchMarks
<1>9. OneRun'
  BY <1>2, <1>3, <1>4 DEF ReflectionInv, RunsInv, OneRun, Running
<1>10. ChosenUnmarked'
  BY <1>2, <1>3, <1>4 DEF ReflectionInv, RunsInv, ChosenUnmarked, Running
<1>11. NumbersGrow'
  <2>1. \A q \in Processes : job'[q].no <= runs
    BY <1>1, <1>3, <1>4 DEF ReflectionInv, RunsInv, NumbersGrow
  <2> QED
    BY <1>2, <1>3, <1>4, <2>1 DEF ReflectionInv, RunsInv, NumbersGrow, Running
<1>12. OneCrystalEach'
  BY <1>2 DEF ReflectionInv, RunsInv, OneCrystalEach
<1> QED
  BY <1>5, <1>6, <1>7, <1>8, <1>9, <1>10, <1>11, <1>12 DEF ReflectionInv, MarksInv, RunsInv

LEMMA CommitKeeps ==
    ASSUME ReflectionInv, NEW p \in Processes, Commit(p)
    PROVE  ReflectionInv'
<1> DEFINE j == job[p]
           new == {Crystal(j.kind, j.no, x) : x \in j.inserted}
<1>1. /\ job \in [Processes -> Jobs] /\ memory \in [Memories -> Rows] /\ runs \in Nat
      /\ crystals \subseteq Crystals
  BY DEF ReflectionInv, MarksInv, TypeOK
<1>2. /\ memory' = Marked(p) /\ crystals' = crystals \cup new
      /\ job' = [job EXCEPT ![p] = NoJob]
      /\ UNCHANGED <<hour, due, edges, alerts, runs, overlapped, faults>>
  BY DEF Commit
<1>3. NoJob.kind = "none" /\ NoJob.no = 0 /\ NoJob.chosen = {}
  BY DEF NoJob
<1>4. \A q \in Processes : job'[q] = IF q = p THEN NoJob ELSE job[q]
  BY <1>1, <1>2
<1>5. j \in Jobs /\ Sound(j) /\ j.kind \in Kinds
  BY <1>1 DEF ReflectionInv, MarksInv, SoundJobs, Commit, Running, Jobs
<1>6. j.doing = {}
  BY DEF Commit, NextItems
<1>7. UNION j.inserted = Locked(p)
  BY <1>5, <1>6 DEF Sound, Locked, Kinds
<1>8. Locked(p) \subseteq j.chosen
  BY <1>5 DEF Sound, Locked
<1>9. ASSUME NEW m \in Memories
      PROVE  /\ memory'[m].there = memory[m].there
             /\ memory'[m].promoted <=> (memory[m].promoted \/ (m \in Locked(p) /\ j.kind = "promotion"))
             /\ memory'[m].consumed <=> (memory[m].consumed \/ (m \in Locked(p) /\ j.kind = "synthesis"))
             /\ memory'[m] \in Rows
  <2>1. memory[m] \in Rows
    BY <1>1
  <2>2. memory'[m] = IF m \notin Locked(p) THEN memory[m]
                     ELSE IF j.kind = "promotion" THEN [memory[m] EXCEPT !.promoted = TRUE]
                     ELSE [memory[m] EXCEPT !.consumed = TRUE]
    BY <1>2 DEF Marked
  <2>3. CASE m \notin Locked(p)
    BY <2>1, <2>2, <2>3
  <2>4. CASE m \in Locked(p) /\ j.kind = "promotion"
    BY <2>1, <2>2, <2>4 DEF Rows
  <2>5. CASE m \in Locked(p) /\ j.kind = "synthesis"
    BY <2>1, <2>2, <2>5 DEF Rows
  <2> QED
    BY <1>5, <2>3, <2>4, <2>5 DEF Kinds
<1>10. ASSUME NEW c \in new
       PROVE  c.kind = j.kind /\ c.no = j.no /\ c.of \in j.inserted /\ c \in Crystals
  <2>1. PICK x \in j.inserted : c = Crystal(j.kind, j.no, x)
    OBVIOUS
  <2>2. x \in SUBSET Memories /\ j.no \in Nat
    BY <1>5 DEF Jobs, Items
  <2> QED
    BY <1>5, <2>1, <2>2 DEF Crystal, Crystals
<1>11. ASSUME NEW x \in j.inserted
       PROVE  \E c \in new : c.kind = j.kind /\ c.of = x
  <2>1. Crystal(j.kind, j.no, x) \in new
    OBVIOUS
  <2> QED
    BY <2>1 DEF Crystal
<1> HIDE DEF j, new
<1>12. TypeOK'
  <2>1. job' \in [Processes -> Jobs]
    BY <1>1, <1>2, NoJobIsSound
  <2>2. memory' \in [Memories -> Rows]
    BY <1>2, <1>9 DEF Marked
  <2>3. crystals' \subseteq Crystals
    BY <1>1, <1>2, <1>10
  <2> QED
    BY <1>2, <2>1, <2>2, <2>3 DEF ReflectionInv, MarksInv, TypeOK
<1>13. SoundJobs'
  <2>1. ASSUME NEW q \in Processes PROVE Sound(job'[q])
    BY <1>4, NoJobIsSound DEF ReflectionInv, MarksInv, SoundJobs
  <2> QED
    BY <2>1 DEF SoundJobs, Sound
<1>14. ChosenExist'
  <2>1. ASSUME NEW q \in Processes, NEW m \in job'[q].chosen PROVE memory'[m].there
    <3>1. job'[q] = job[q] /\ m \in job[q].chosen
      BY <1>3, <1>4, <2>1
    <3>2. m \in Memories
      BY <1>1, <3>1 DEF Jobs
    <3> QED
      BY <1>9, <3>1, <3>2 DEF ReflectionInv, MarksInv, ChosenExist
  <2> QED
    BY <2>1 DEF ChosenExist
<1>15. AbsentUnmarked'
  <2>1. ASSUME NEW m \in Memories, ~memory'[m].there
        PROVE  ~memory'[m].promoted /\ ~memory'[m].consumed
    <3>1. ~memory[m].there
      BY <1>9, <2>1
    <3>2. m \notin Locked(p)
      BY <1>8, <3>1 DEF ReflectionInv, MarksInv, ChosenExist, j
    <3> QED
      BY <1>9, <3>1, <3>2 DEF ReflectionInv, MarksInv, AbsentUnmarked
  <2> QED
    BY <2>1 DEF AbsentUnmarked
<1>16. CrystalsMatchMarks'
  <2>1. ASSUME NEW m \in Memories, NEW kind \in Kinds
        PROVE  (\E c \in crystals' : c.kind = kind /\ m \in c.of)
               <=> \/ \E c \in crystals : c.kind = kind /\ m \in c.of
                   \/ m \in Locked(p) /\ j.kind = kind
    <3>1. ASSUME NEW c \in new, c.kind = kind, m \in c.of
          PROVE  m \in Locked(p) /\ j.kind = kind
      <4>1. c.kind = j.kind /\ c.of \in j.inserted
        BY <1>10
      <4>2. m \in UNION j.inserted
        BY <3>1, <4>1
      <4> QED
        BY <1>7, <3>1, <4>1, <4>2
    <3>2. ASSUME m \in Locked(p), j.kind = kind
          PROVE  \E c \in new : c.kind = kind /\ m \in c.of
      <4>1. PICK x \in j.inserted : m \in x
        BY <1>7, <3>2
      <4>2. PICK c \in new : c.kind = j.kind /\ c.of = x
        BY <1>11
      <4> QED
        BY <3>2, <4>1, <4>2
    <3> QED
      BY <1>2, <3>1, <3>2
  <2>2. ASSUME NEW m \in Memories
        PROVE  /\ memory'[m].promoted <=> \E c \in crystals' : c.kind = "promotion" /\ m \in c.of
               /\ memory'[m].consumed <=> \E c \in crystals' : c.kind = "synthesis" /\ m \in c.of
    <3>1. "promotion" \in Kinds /\ "synthesis" \in Kinds
      BY DEF Kinds
    <3>2. /\ memory[m].promoted <=> \E c \in crystals : c.kind = "promotion" /\ m \in c.of
          /\ memory[m].consumed <=> \E c \in crystals : c.kind = "synthesis" /\ m \in c.of
      BY DEF ReflectionInv, MarksInv, CrystalsMatchMarks
    <3> QED
      BY <1>9, <2>1, <3>1, <3>2
  <2> QED
    BY <2>2 DEF CrystalsMatchMarks
<1>17. ASSUME ~overlapped', NEW q \in Processes PROVE ~Running(q)'
  <2>1. ~overlapped /\ Running(p)
    BY <1>2, <1>17 DEF Commit
  <2>2. Running(q) => p = q
    BY <2>1 DEF ReflectionInv, RunsInv, OneRun
  <2> QED
    BY <1>3, <1>4, <2>2 DEF Running
<1>18. OneRun' /\ ChosenUnmarked'
  BY <1>17 DEF OneRun, ChosenUnmarked
<1>19. NumbersGrow'
  <2>1. \A c \in crystals' : c.no <= runs'
    BY <1>2, <1>10 DEF ReflectionInv, RunsInv, NumbersGrow, j
  <2>2. \A q \in Processes : job'[q].no <= runs'
    BY <1>1, <1>2, <1>3, <1>4 DEF ReflectionInv, RunsInv, NumbersGrow
  <2> QED
    BY <1>17, <2>1, <2>2 DEF NumbersGrow
<1>20. OneCrystalEach'
  <2>1. ASSUME ~overlapped', NEW c \in crystals', NEW d \in crystals', c.no < d.no,
               NEW m, m \in c.of, m \in d.of
        PROVE  c.kind = "synthesis" /\ d.kind = "promotion"
    <3>1. ~overlapped /\ Running(p)
      BY <1>2, <2>1 DEF Commit
    <3>2. \A e \in crystals : e.no < j.no
      BY <3>1 DEF ReflectionInv, RunsInv, NumbersGrow, j
    <3>3. j.no \in Nat /\ \A e \in crystals : e.no \in Nat
      BY <1>1, <1>5 DEF Jobs, Crystals
    <3>4. CASE c \in crystals /\ d \in crystals
      BY <2>1, <3>1, <3>4 DEF ReflectionInv, RunsInv, OneCrystalEach
    <3>5. CASE c \in new
      BY <1>2, <1>10, <2>1, <3>2, <3>3, <3>5
    <3>6. CASE c \in crystals /\ d \in new
      <4>1. d.kind = j.kind /\ d.of \in j.inserted
        BY <1>10, <3>6
      <4>2. m \in j.chosen
        BY <1>5, <2>1, <4>1 DEF Sound
      <4>3. m \in Memories
        BY <1>5, <4>2 DEF Jobs
      <4>4. /\ ~memory[m].promoted
            /\ j.kind = "synthesis" => ~memory[m].consumed
        BY <3>1, <4>2 DEF ReflectionInv, RunsInv, ChosenUnmarked, j
      <4>5. /\ c.kind = "promotion" => memory[m].promoted
            /\ c.kind = "synthesis" => memory[m].consumed
        BY <2>1, <3>6, <4>3 DEF ReflectionInv, MarksInv, CrystalsMatchMarks
      <4>6. c.kind \in Kinds
        BY <1>1, <3>6 DEF Crystals
      <4> QED
        BY <1>5, <4>1, <4>4, <4>5, <4>6 DEF Kinds
    <3> QED
      BY <1>2, <3>4, <3>5, <3>6
  <2> QED
    BY <2>1 DEF OneCrystalEach
<1> QED
  BY <1>12, <1>13, <1>14, <1>15, <1>16, <1>18, <1>19, <1>20 DEF ReflectionInv, MarksInv, RunsInv

-----------------------------------------------------------------------------
(* Steps outside the runs                                                  *)

\* They leave the marks alone, and no memory is taken away.
LEMMA RowsChange ==
    ASSUME ReflectionInv, memory' \in [Memories -> Rows],
           hour' \in Nat, due' \subseteq {"decay", "promotion"}, runs' \in {runs, runs + 1},
           \A m \in Memories : /\ memory'[m].promoted = memory[m].promoted
                               /\ memory'[m].consumed = memory[m].consumed
                               /\ memory[m].there => memory'[m].there,
           UNCHANGED <<edges, crystals, alerts, job, overlapped, faults>>
    PROVE  ReflectionInv'
<1>1. runs \in Nat /\ job \in [Processes -> Jobs] /\ crystals \subseteq Crystals
  BY DEF ReflectionInv, MarksInv, TypeOK
<1>2. TypeOK'
  BY <1>1 DEF ReflectionInv, MarksInv, TypeOK
<1>3. SoundJobs'
  BY DEF ReflectionInv, MarksInv, SoundJobs, Sound
<1>4. \A p \in Processes : job[p].chosen \subseteq Memories
  BY <1>1 DEF Jobs
<1>5. ChosenExist'
  BY <1>4 DEF ReflectionInv, MarksInv, ChosenExist
<1>6. AbsentUnmarked' /\ CrystalsMatchMarks'
  BY DEF ReflectionInv, MarksInv, AbsentUnmarked, CrystalsMatchMarks
<1>7. OneRun'
  BY DEF ReflectionInv, RunsInv, OneRun, Running
<1>8. ChosenUnmarked'
  BY <1>4 DEF ReflectionInv, RunsInv, ChosenUnmarked, Running
<1>9. NumbersGrow'
  <2>1. (\A c \in crystals : c.no \in Nat) /\ \A p \in Processes : job[p].no \in Nat
    BY <1>1 DEF Crystals, Jobs
  <2>2. (\A c \in crystals : c.no <= runs') /\ \A p \in Processes : job[p].no <= runs'
    BY <1>1, <2>1 DEF ReflectionInv, RunsInv, NumbersGrow
  <2> QED
    BY <2>2 DEF ReflectionInv, RunsInv, NumbersGrow, Running
<1>10. OneCrystalEach'
  BY DEF ReflectionInv, RunsInv, OneCrystalEach
<1> QED
  BY <1>2, <1>3, <1>5, <1>6, <1>7, <1>8, <1>9, <1>10 DEF ReflectionInv, MarksInv, RunsInv

LEMMA DecayKeeps ==
    ASSUME ReflectionInv, Decay
    PROVE  ReflectionInv'
<1>1. memory \in [Memories -> Rows] /\ hour \in Nat /\ due \subseteq {"decay", "promotion"}
  BY DEF ReflectionInv, MarksInv, TypeOK
<1>2. ASSUME NEW m \in Memories
      PROVE  /\ memory'[m] \in Rows
             /\ memory'[m].promoted = memory[m].promoted
             /\ memory'[m].consumed = memory[m].consumed
             /\ memory'[m].there = memory[m].there
  <2> DEFINE score == Lower(memory[m].score, DecayOf(m))
  <2>1. memory[m] \in Rows
    BY <1>1
  <2>2. DecayOf(m) \in Int
    <3>1. Rate \in Int /\ hour - memory[m].born \in Int
      BY <1>1, <2>1, ScoresAssumption DEF Rows
    <3> QED
      BY <3>1 DEF DecayOf
  <2>3. score \in Nat
    BY <2>1, <2>2 DEF Lower, Rows
  <2>4. memory'[m] = IF Decays(m) THEN [memory[m] EXCEPT !.score = score] ELSE memory[m]
    BY DEF Decay
  <2> HIDE DEF score
  <2> QED
    BY <2>1, <2>3, <2>4 DEF Rows
<1>3. memory' \in [Memories -> Rows]
  BY <1>2 DEF Decay
<1>4. /\ hour' \in Nat /\ due' \subseteq {"decay", "promotion"} /\ runs' \in {runs, runs + 1}
      /\ UNCHANGED <<edges, crystals, alerts, job, overlapped, faults>>
  BY <1>1 DEF Decay
<1> QED
  BY <1>2, <1>3, <1>4, RowsChange

LEMMA TickKeeps ==
    ASSUME ReflectionInv, Tick
    PROVE  ReflectionInv'
<1>1. memory \in [Memories -> Rows] /\ hour \in Nat
  BY DEF ReflectionInv, MarksInv, TypeOK
<1>2. /\ hour' = hour + 1 /\ due' \subseteq {"decay", "promotion"}
      /\ UNCHANGED <<memory, edges, crystals, alerts, job, runs, overlapped, faults>>
  BY DEF Tick
<1>3. hour' \in Nat /\ runs' \in {runs, runs + 1} /\ memory' \in [Memories -> Rows]
  BY <1>1, <1>2
<1> QED
  BY <1>2, <1>3, RowsChange

LEMMA StoreKeeps ==
    ASSUME ReflectionInv, NEW m \in Memories, Store(m)
    PROVE  ReflectionInv'
<1> DEFINE row == Row(TRUE, hour, Full, FALSE, FALSE)
<1>1. memory \in [Memories -> Rows] /\ hour \in Nat /\ due \subseteq {"decay", "promotion"}
  BY DEF ReflectionInv, MarksInv, TypeOK
<1>2. /\ ~memory[m].there /\ memory' = [memory EXCEPT ![m] = row]
      /\ UNCHANGED <<hour, due, edges, crystals, alerts, job, runs, overlapped, faults>>
  BY DEF Store
<1>3. row \in Rows /\ row.there /\ row.promoted = FALSE /\ row.consumed = FALSE
  BY <1>1, ScoresAssumption DEF Row, Rows
<1>4. memory[m].promoted = FALSE /\ memory[m].consumed = FALSE
  <2>1. memory[m].promoted \in BOOLEAN /\ memory[m].consumed \in BOOLEAN
    BY <1>1 DEF Rows
  <2> QED
    BY <1>2, <2>1 DEF ReflectionInv, MarksInv, AbsentUnmarked
<1> HIDE DEF row
<1>5. memory' \in [Memories -> Rows]
  BY <1>1, <1>2, <1>3
<1>6. \A k \in Memories : /\ memory'[k].promoted = memory[k].promoted
                          /\ memory'[k].consumed = memory[k].consumed
                          /\ memory[k].there => memory'[k].there
  BY <1>1, <1>2, <1>3, <1>4
<1> QED
  BY <1>1, <1>2, <1>5, <1>6, RowsChange

-----------------------------------------------------------------------------
(* The invariant                                                           *)

LEMMA InitReflection == Init => ReflectionInv
<1> SUFFICES ASSUME Init PROVE ReflectionInv
  OBVIOUS
<1>1. ASSUME NEW m \in Memories
      PROVE  /\ memory[m] \in Rows
             /\ memory[m].promoted = FALSE /\ memory[m].consumed = FALSE
  BY ScoresAssumption DEF Init, Row, Rows
<1>2. ASSUME NEW p \in Processes
      PROVE  job[p] = NoJob /\ ~Running(p) /\ job[p].chosen = {} /\ job[p].no = 0
  BY DEF Init, NoJob, Running
<1>3. crystals = {} /\ alerts = {} /\ runs = 0
  BY DEF Init
<1>4. TypeOK
  <2>1. memory \in [Memories -> Rows]
    BY <1>1 DEF Init
  <2>2. job \in [Processes -> Jobs]
    BY NoJobIsSound DEF Init
  <2> QED
    BY <2>1, <2>2 DEF Init, TypeOK
<1>5. SoundJobs
  BY <1>2, NoJobIsSound DEF SoundJobs
<1>6. ChosenExist /\ AbsentUnmarked /\ CrystalsMatchMarks
  BY <1>1, <1>2, <1>3 DEF ChosenExist, AbsentUnmarked, CrystalsMatchMarks
<1>7. OneRun /\ ChosenUnmarked /\ NumbersGrow /\ OneCrystalEach
  BY <1>2, <1>3 DEF OneRun, ChosenUnmarked, NumbersGrow, OneCrystalEach
<1> QED
  BY <1>4, <1>5, <1>6, <1>7 DEF ReflectionInv, MarksInv, RunsInv

LEMMA WorkKeeps ==
    ASSUME ReflectionInv, NEW p \in Processes, Work(p)
    PROVE  ReflectionInv'
<1> USE DEF ReflectionInv
<1>1. alerts \subseteq Crystals /\ faults \in Nat
  BY DEF MarksInv, TypeOK
<1>2. ASSUME NEW x \in job[p].todo, PromoteOne(p, x) PROVE ReflectionInv'
  <2>1. alerts' \subseteq Crystals /\ faults' \in Nat
    BY <1>1, <1>2 DEF PromoteOne
  <2> QED
    BY <1>2, <2>1, PromoteOneContinues, ContinuesKeeps
<1>3. ASSUME NEW x \in job[p].todo, StartCluster(p, x) PROVE ReflectionInv'
  <2>1. alerts' \subseteq Crystals /\ faults' \in Nat
    BY <1>1, <1>3 DEF StartCluster
  <2> QED
    BY <1>3, <2>1, StartClusterContinues, ContinuesKeeps
<1>4. CASE MarkPromoted(p)
  <2>1. alerts' \subseteq Crystals /\ faults' \in Nat
    BY <1>1, <1>4 DEF MarkPromoted
  <2> QED
    BY <1>4, <2>1, MarkPromotedContinues, ContinuesKeeps
<1>5. CASE FinishCluster(p)
  <2>1. faults' \in Nat
    BY <1>1, <1>5 DEF FinishCluster
  <2>2. alerts' \subseteq Crystals
    <3> DEFINE c == Crystal("synthesis", job[p].no, job[p].doing)
    <3>1. job[p] \in Jobs
      BY DEF MarksInv, TypeOK
    <3>2. c \in Crystals
      BY <3>1 DEF Jobs, Crystals, Crystal, Kinds
    <3>3. Alert(c, job[p].ghosts)
      BY <1>5 DEF FinishCluster
    <3> HIDE DEF c
    <3> QED
      BY <1>1, <3>2, <3>3 DEF Alert
  <2> QED
    BY <1>5, <2>1, <2>2, FinishClusterContinues, ContinuesKeeps
<1>6. ASSUME NEW x \in NextItems(p), ItemRaises(p, x) PROVE ReflectionInv'
  <2>1. alerts' \subseteq Crystals /\ faults' \in Nat
    BY <1>1, <1>6 DEF ItemRaises, Raises
  <2> QED
    BY <1>6, <2>1, ItemRaisesContinues, ContinuesKeeps
<1>7. CASE Commit(p)
  BY <1>7, CommitKeeps
<1> QED
  BY <1>2, <1>3, <1>4, <1>5, <1>6, <1>7 DEF Work

LEMMA NextReflection ==
    ASSUME ReflectionInv, [Next]_vars
    PROVE  ReflectionInv'
<1>1. ASSUME NEW p \in Processes,
             BeginPromotion(p) \/ BeginSynthesis(p) \/ Work(p) \/ Abort(p)
      PROVE  ReflectionInv'
  BY <1>1, BeginPromotionKeeps, BeginSynthesisKeeps, WorkKeeps, AbortKeeps
<1>2. CASE Decay
  BY <1>2, DecayKeeps
<1>3. CASE Tick
  BY <1>3, TickKeeps
<1>4. ASSUME NEW m \in Memories, Store(m) PROVE ReflectionInv'
  BY <1>4, StoreKeeps
<1>5. CASE UNCHANGED vars
  <2>1. memory' \in [Memories -> Rows] /\ hour' \in Nat /\ due' \subseteq {"decay", "promotion"}
    BY <1>5 DEF ReflectionInv, MarksInv, TypeOK, vars
  <2>2. UNCHANGED <<memory, runs, edges, crystals, alerts, job, overlapped, faults>>
    BY <1>5 DEF vars
  <2> QED
    BY <2>1, <2>2, RowsChange
<1> QED
  BY <1>1, <1>2, <1>3, <1>4, <1>5 DEF Next

\* The inductive invariant, from which the properties below follow
\* (run_promotion, run_synthesis, run_decay in every interleaving).
THEOREM ReflectionInvariant == Spec => []ReflectionInv
<1>1. Init => ReflectionInv
  BY InitReflection
<1>2. ReflectionInv /\ [Next]_vars => ReflectionInv'
  BY NextReflection
<1> QED
  BY <1>1, <1>2, PTL DEF Spec

-----------------------------------------------------------------------------
(* What follows                                                            *)

\* Every row of the memories, the crystals and a run's transaction has the
\* form the code gives it; scores never fall below zero (run_decay's GREATEST).
THEOREM TypeCorrect == Spec => []TypeOK
<1>1. ReflectionInv => TypeOK
  BY DEF ReflectionInv, MarksInv
<1> QED
  BY <1>1, ReflectionInvariant, PTL

\* A memory is marked exactly when it has a crystal of the kind, in every
\* interleaving of runs, rollbacks and ends of processes (_promote_one,
\* _synthesize_cluster, run_promotion's and run_synthesis's commits).
THEOREM MarksMatch == Spec => []CrystalsMatchMarks
<1>1. ReflectionInv => CrystalsMatchMarks
  BY DEF ReflectionInv, MarksInv
<1> QED
  BY <1>1, ReflectionInvariant, PTL

\* Runs that do not overlap make one crystal of a memory, or a synthesis and
\* after it a promotion (run_promotion, run_synthesis).
THEOREM OneCrystal == Spec => []OneCrystalEach
<1>1. ReflectionInv => OneCrystalEach
  BY DEF ReflectionInv, RunsInv
<1> QED
  BY <1>1, ReflectionInvariant, PTL

-----------------------------------------------------------------------------
(* Rounds                                                                  *)

\* Any set of numbers has a least one: the intervals below them are finite sets.
LEMMA NatHasLeast ==
    ASSUME NEW T, T \subseteq Nat, T # {}
    PROVE  \E n \in T : \A m \in T : n <= m
<1>1. PICK F : F = {0..n : n \in T}
  OBVIOUS
<1>2. F \subseteq FiniteSubsetsOf(Nat) /\ F # {}
  <2>1. ASSUME NEW n \in T PROVE 0..n \in FiniteSubsetsOf(Nat)
    <3>1. 0 \in Int /\ n \in Int /\ 0..n \subseteq Nat
      OBVIOUS
    <3> QED
      BY <3>1, FS_Interval DEF FiniteSubsetsOf
  <2> QED
    BY <1>1, <2>1
<1>3. PICK X \in F : \A Y \in F : ~ (<<Y, X>> \in StrictSubsetOrdering(Nat))
  BY <1>2, FS_StrictSubsetOrderingWellFounded, WFMin
<1>4. PICK n \in T : X = 0..n
  BY <1>1
<1>5. ASSUME NEW m \in T, m < n PROVE FALSE
  <2>1. 0..m \subseteq 0..n /\ 0..m # 0..n
    <3>1. n \in 0..n /\ n \notin 0..m
      BY <1>5
    <3> QED
      BY <1>5, <3>1
  <2>2. 0..m \in SUBSET Nat /\ 0..n \in SUBSET Nat
    OBVIOUS
  <2>3. <<0..m, 0..n>> \in StrictSubsetOrdering(Nat)
    BY <2>1, <2>2 DEF StrictSubsetOrdering
  <2> QED
    BY <1>1, <1>3, <1>4, <2>3
<1> QED
  BY <1>5

\* Induction up to n, by the least number that is missing.
LEMMA UpTo ==
    ASSUME NEW n \in Nat, NEW T, 0 \in T, \A k \in 1..n : k - 1 \in T => k \in T
    PROVE  0..n \subseteq T
<1> DEFINE Missing == {k \in 0..n : k \notin T}
<1>1. SUFFICES ASSUME Missing # {} PROVE FALSE
  OBVIOUS
<1>2. Missing \subseteq Nat
  OBVIOUS
<1>3. PICK k \in Missing : \A m \in Missing : k <= m
  BY <1>1, <1>2, NatHasLeast
<1>4. k \in 1..n /\ k - 1 \in 0..n
  OBVIOUS
<1>5. k - 1 \notin Missing
  BY <1>3, <1>4
<1> QED
  BY <1>3, <1>4, <1>5

\* f is the result of n rounds of G.
Iterates(f, n, b, G) == f[0] = b /\ \A k \in 1..n : f[k] = G[<<k, f[k - 1]>>]

\* Rounds over a set can be iterated: what a recursive function says exists.
LEMMA Iteration ==
    ASSUME NEW n \in Nat, NEW S, NEW b \in S, NEW G \in [(1..n) \X S -> S]
    PROVE  \E f \in [0..n -> S] : Iterates(f, n, b, G)
<1> DEFINE Good(m, f) == f[0] = b /\ \A k \in 1..m : f[k] = G[<<k, f[k - 1]>>]
           T == {m \in 0..n : \E f \in [0..m -> S] : Good(m, f)}
<1>1. 0 \in T
  <2>1. [k \in 0..0 |-> b] \in [0..0 -> S] /\ Good(0, [k \in 0..0 |-> b])
    OBVIOUS
  <2>2. \E f \in [0..0 -> S] : Good(0, f)
    <3> HIDE DEF Good
    <3> QED
      BY <2>1
  <2> QED
    BY <2>2
<1>2. ASSUME NEW k \in 1..n, k - 1 \in T PROVE k \in T
  <2>1. PICK f \in [0..(k - 1) -> S] : Good(k - 1, f)
    BY <1>2
  <2> DEFINE g == [i \in 0..k |-> IF i = k THEN G[<<k, f[k - 1]>>] ELSE f[i]]
  <2>2. k - 1 \in 0..(k - 1) /\ <<k, f[k - 1]>> \in (1..n) \X S
    OBVIOUS
  <2>3. g \in [0..k -> S]
    <3>1. G[<<k, f[k - 1]>>] \in S
      BY <2>2
    <3>2. ASSUME NEW i \in 0..k, i # k PROVE f[i] \in S
      BY <3>2
    <3> QED
      BY <3>1, <3>2
  <2>4. g[0] = b
    BY <2>1
  <2>5. ASSUME NEW i \in 1..k PROVE g[i] = G[<<i, g[i - 1]>>]
    <3>1. i - 1 \in 0..k /\ i - 1 # k /\ g[i - 1] = f[i - 1]
      OBVIOUS
    <3>2. CASE i = k
      BY <3>1, <3>2
    <3>3. CASE i # k
      <4>1. i \in 1..(k - 1) /\ g[i] = f[i]
        BY <3>3
      <4> QED
        BY <2>1, <3>1, <4>1
    <3> QED
      BY <3>2, <3>3
  <2>6. Good(k, g)
    BY <2>4, <2>5
  <2> HIDE DEF Good, g
  <2> QED
    BY <2>3, <2>6
<1> HIDE DEF T
<1>3. n \in T
  BY <1>1, <1>2, UpTo, n \in 0..n
<1> USE DEF T
<1> QED
  BY <1>3 DEF Iterates

-----------------------------------------------------------------------------
(* find and union                                                          *)

\* The state of find: the parents, and where it is.
Pointers(S) == [parent : [S -> S], at : S]

\* The parents form a forest: r gives the root of each member, A its ancestors
\* (more than a path leads through once it has been halved).
Grown(par, r, A, S) ==
    /\ par \in [S -> S] /\ r \in [S -> S]
    /\ \A x \in S : r[par[x]] = r[x] /\ par[r[x]] = r[x]
    /\ \A x \in S : par[x] = x => r[x] = x
    /\ \A x \in S : par[x] # x => <<x, par[x]>> \in A
    /\ \A x \in S : <<x, x>> \notin A
    /\ \A x, y, z \in S : <<x, y>> \in A /\ <<y, z>> \in A => <<x, z>> \in A
    /\ \A x, y \in S : <<x, y>> \in A => r[x] = r[y]

LEMMA HalveTypes ==
    ASSUME NEW S, NEW s \in Pointers(S)
    PROVE  Halve(s) \in Pointers(S)
BY DEF Halve, Pointers

\* f is what find's loop does, round by round.
Rounds(f, n, S, par, x) ==
    /\ f[0] = [parent |-> par, at |-> x]
    /\ \A k \in 1..n : f[k] = Halve(f[k - 1])
    /\ Find(par, x) = f[n]

LEMMA FindRounds ==
    ASSUME NEW S, NEW n \in Nat, n = Cardinality(S), NEW par \in [S -> S], NEW x \in S
    PROVE  \E f \in [0..n -> Pointers(S)] : Rounds(f, n, S, par, x)
<1>2. DOMAIN par = S
  OBVIOUS
<1> DEFINE start == [parent |-> par, at |-> x]
           G == [w \in (1..n) \X Pointers(S) |-> Halve(w[2])]
           P(f) == f = [k \in 0..n |-> IF k = 0 THEN start ELSE Halve(f[k - 1])]
<1>3. start \in Pointers(S)
  BY DEF Pointers
<1>4. G \in [(1..n) \X Pointers(S) -> Pointers(S)]
  BY HalveTypes
<1>5. PICK g \in [0..n -> Pointers(S)] : Iterates(g, n, start, G)
  <2> HIDE DEF G, start
  <2> QED
    BY <1>3, <1>4, Iteration
<1>6. \A k \in 1..n : g[k] = Halve(g[k - 1])
  <2>1. TAKE k \in 1..n
  <2>2. <<k, g[k - 1]>> \in (1..n) \X Pointers(S)
    <3> HIDE DEF start, G, P
    <3>1. k - 1 \in 0..n
      OBVIOUS
    <3>2. g[k - 1] \in Pointers(S)
      BY <3>1
    <3> QED
      BY <3>2
  <2>3. g[k] = G[<<k, g[k - 1]>>]
    <3> HIDE DEF G
    <3> QED
      BY <1>5 DEF Iterates
  <2> QED
    BY <2>2, <2>3
<1>7. P(g)
  <2> HIDE DEF start
  <2>1. \A k \in 0..n : g[k] = IF k = 0 THEN start ELSE Halve(g[k - 1])
    BY <1>5, <1>6 DEF Iterates
  <2>2. g = [k \in 0..n |-> g[k]]
    BY <1>5
  <2>3. [k \in 0..n |-> g[k]] = [k \in 0..n |-> IF k = 0 THEN start ELSE Halve(g[k - 1])]
    BY <2>1
  <2> QED
    BY <2>2, <2>3
<1>8. P(CHOOSE f : P(f))
  <2> HIDE DEF P
  <2> QED
    BY <1>7
<1>9. Find(par, x) = (CHOOSE f : P(f))[n]
  BY <1>2 DEF Find
<1>10. PICK f : f = (CHOOSE h : P(h))
  OBVIOUS
<1>11. f = [k \in 0..n |-> IF k = 0 THEN start ELSE Halve(f[k - 1])]
  <2>1. P(f)
    <3> HIDE DEF P
    <3> QED
      BY <1>8, <1>10
  <2> QED
    BY <2>1
<1>12. f[0] = start /\ \A k \in 1..n : f[k] = Halve(f[k - 1])
  <2> HIDE DEF start
  <2>1. f[0] = start
    BY <1>11
  <2>2. ASSUME NEW k \in 1..n PROVE f[k] = Halve(f[k - 1])
    BY <1>11
  <2> QED
    BY <2>1, <2>2
<1>13. f \in [0..n -> Pointers(S)]
  <2> DEFINE T == {k \in 0..n : f[k] \in Pointers(S)}
  <2>1. 0 \in T
    BY <1>3, <1>12
  <2>2. ASSUME NEW k \in 1..n, k - 1 \in T PROVE k \in T
    BY <1>12, <2>2, HalveTypes
  <2>3. 0..n \subseteq T
    <3> HIDE DEF T
    <3> QED
      BY <2>1, <2>2, UpTo
  <2>4. DOMAIN f = 0..n
    BY <1>11
  <2>5. f = [k \in 0..n |-> f[k]]
    BY <1>11
  <2> QED
    BY <2>3, <2>5
<1> HIDE DEF P
<1> QED
  BY <1>9, <1>10, <1>12, <1>13 DEF Rounds

\* Halving the path keeps the forest, and leads to an ancestor.
LEMMA HalveKeeps ==
    ASSUME NEW S, NEW r, NEW A, NEW s \in Pointers(S), Grown(s.parent, r, A, S)
    PROVE  /\ Grown(Halve(s).parent, r, A, S)
           /\ r[Halve(s).at] = r[s.at]
           /\ s.parent[s.at] = s.at => Halve(s) = s
           /\ s.parent[s.at] # s.at => <<s.at, Halve(s).at>> \in A
<1>1. CASE s.parent[s.at] = s.at
  <2>1. Halve(s) = s
    BY <1>1 DEF Halve
  <2> QED
    BY <1>1, <2>1
<1>2. CASE s.parent[s.at] # s.at
  <2>1. PICK par, at, mid, up : par = s.parent /\ at = s.at /\ mid = par[at] /\ up = par[mid]
    OBVIOUS
  <2>2. par \in [S -> S] /\ at \in S /\ mid \in S /\ up \in S /\ mid # at
    BY <1>2, <2>1 DEF Pointers
  <2>3. Halve(s) = [parent |-> [par EXCEPT ![at] = up], at |-> up]
    BY <1>2, <2>1 DEF Halve
  <2>4. r[up] = r[at]
    BY <2>1, <2>2 DEF Grown
  <2>5. <<at, up>> \in A
    <3>1. <<at, mid>> \in A
      BY <2>1, <2>2 DEF Grown
    <3>2. CASE up = mid
      BY <3>1, <3>2
    <3>3. CASE up # mid
      BY <2>1, <2>2, <3>1, <3>3 DEF Grown
    <3> QED
      BY <3>2, <3>3
  <2>6. up # at
    BY <2>1, <2>2, <2>5 DEF Grown
  <2>7. PICK new : new = [par EXCEPT ![at] = up]
    OBVIOUS
  <2>8. new \in [S -> S] /\ new[at] = up /\ \A z \in S \ {at} : new[z] = par[z]
    BY <2>2, <2>7
  <2>9. Grown(par, r, A, S)
    BY <2>1
  <2>10. /\ \A z \in S : r[new[z]] = r[z]
         /\ \A z \in S : new[z] = z => r[z] = z
         /\ \A z \in S : new[z] # z => <<z, new[z]>> \in A
    BY <2>2, <2>4, <2>5, <2>6, <2>8, <2>9 DEF Grown
  <2>11. \A z \in S : new[r[z]] = r[z]
    <3>1. TAKE z \in S
    <3>2. r[z] \in S /\ par[r[z]] = r[z]
      BY <2>9 DEF Grown
    <3>3. r[z] # at
      BY <2>1, <2>2, <3>2
    <3> QED
      BY <2>8, <3>2, <3>3
  <2>12. Grown(new, r, A, S)
    BY <2>8, <2>9, <2>10, <2>11 DEF Grown
  <2> QED
    BY <1>2, <2>1, <2>3, <2>4, <2>5, <2>7, <2>12
<1> QED
  BY <1>1, <1>2

\* find returns the root, and leaves the forest a forest with the same roots.
Finds(S, par, r, A, x) == Find(par, x).at = r[x] /\ Grown(Find(par, x).parent, r, A, S)

\* Every round has fewer ancestors above it than the one before, so that the
\* root is reached within as many rounds as there are members.
LEMMA FindFinds ==
    ASSUME NEW S, IsFiniteSet(S), NEW par, NEW r, NEW A, Grown(par, r, A, S), NEW x \in S
    PROVE  Finds(S, par, r, A, x)
<1>1. PICK n \in Nat : n = Cardinality(S)
  BY FS_CardinalityType
<1>2. par \in [S -> S]
  BY DEF Grown
<1>3. PICK f \in [0..n -> Pointers(S)] :
          /\ f[0] = [parent |-> par, at |-> x]
          /\ \A k \in 1..n : f[k] = Halve(f[k - 1])
          /\ Find(par, x) = f[n]
  BY <1>1, <1>2, FindRounds DEF Rounds
<1> DEFINE Above(y) == {z \in S : <<y, z>> \in A}
           Kept(k) == Grown(f[k].parent, r, A, S) /\ r[f[k].at] = r[x]
           Near(k) == \/ f[k].parent[f[k].at] = f[k].at
                      \/ Cardinality(Above(f[k].at)) + k <= n
           T == {k \in 0..n : Kept(k) /\ Near(k)}
<1>4. \A y \in S : IsFiniteSet(Above(y)) /\ Cardinality(Above(y)) \in Nat /\ Cardinality(Above(y)) <= n
  <2>1. TAKE y \in S
  <2>2. Above(y) \subseteq S
    OBVIOUS
  <2> HIDE DEF Above
  <2> QED
    BY <1>1, <2>2, FS_Subset, FS_CardinalityType
<1>5. 0 \in T
  <2>1. Kept(0)
    BY <1>3
  <2>2. Cardinality(Above(x)) + 0 <= n
    <3> HIDE DEF Above
    <3> QED
      BY <1>4
  <2>3. f[0].at = x
    BY <1>3
  <2>4. Near(0)
    <3> HIDE DEF Above
    <3> QED
      BY <2>2, <2>3
  <2> HIDE DEF Kept, Near
  <2> QED
    BY <2>1, <2>4
<1>6. ASSUME NEW k \in 1..n, k - 1 \in T PROVE k \in T
  <2>1. PICK s, t : s = f[k - 1] /\ t = f[k]
    OBVIOUS
  <2>2. s \in Pointers(S) /\ t \in Pointers(S) /\ t = Halve(s)
    BY <1>3, <2>1
  <2>3. Grown(s.parent, r, A, S) /\ r[s.at] = r[x]
    BY <1>6, <2>1
  <2>4. /\ Grown(t.parent, r, A, S) /\ r[t.at] = r[x]
        /\ s.parent[s.at] = s.at => t = s
        /\ s.parent[s.at] # s.at => <<s.at, t.at>> \in A
    BY <2>2, <2>3, HalveKeeps
  <2>5. Kept(k)
    BY <2>1, <2>4
  <2>6. CASE s.parent[s.at] = s.at
    <3>1. Near(k)
      BY <2>1, <2>4, <2>6
    <3> HIDE DEF Kept, Near
    <3> QED
      BY <2>5, <3>1
  <2>7. CASE s.parent[s.at] # s.at
    <3>1. PICK a, b : a = s.at /\ b = t.at
      OBVIOUS
    <3>2. a \in S /\ b \in S /\ <<a, b>> \in A
      BY <2>2, <2>4, <2>7, <3>1 DEF Pointers
    <3>3. Above(b) \subseteq Above(a) /\ b \in Above(a) /\ b \notin Above(b)
      BY <2>3, <3>2 DEF Grown
    <3>4. Cardinality(Above(a)) + (k - 1) <= n
      <4> HIDE DEF Above
      <4> QED
        BY <1>6, <2>1, <2>7, <3>1
    <3>5. Cardinality(Above(b)) < Cardinality(Above(a))
      <4> HIDE DEF Above
      <4> QED
        BY <1>4, <3>2, <3>3, FS_Subset
    <3>6. PICK ca \in Nat, cb \in Nat : ca = Cardinality(Above(a)) /\ cb = Cardinality(Above(b))
      <4> HIDE DEF Above
      <4> QED
        BY <1>4, <3>2
    <3>7. cb + k <= n
      BY <3>4, <3>5, <3>6
    <3>8. Near(k)
      <4> HIDE DEF Above
      <4> QED
        BY <2>1, <3>1, <3>6, <3>7
    <3> HIDE DEF Kept, Near
    <3> QED
      BY <2>5, <3>8
  <2> QED
    BY <2>6, <2>7
<1>7. n \in T
  <2> HIDE DEF T
  <2> QED
    BY <1>5, <1>6, UpTo, n \in 0..n
<1>8. PICK s \in Pointers(S) : s = f[n]
  BY <1>3, n \in 0..n
<1>9. Grown(s.parent, r, A, S) /\ r[s.at] = r[x]
  BY <1>7, <1>8
<1>10. s.at \in S /\ s.parent \in [S -> S]
  BY DEF Pointers
<1>11. s.parent[s.at] = s.at
  <2>1. SUFFICES ASSUME s.parent[s.at] # s.at PROVE FALSE
    OBVIOUS
  <2>2. s.parent[s.at] \in Above(s.at)
    BY <1>9, <1>10, <2>1 DEF Grown
  <2>3. Cardinality(Above(s.at)) + n <= n
    <3> HIDE DEF Above
    <3> QED
      BY <1>7, <1>8, <2>1
  <2> HIDE DEF Above
  <2>4. PICK c \in Nat : c = Cardinality(Above(s.at))
    BY <1>4, <1>10
  <2>5. c = 0
    BY <2>3, <2>4
  <2>6. Above(s.at) = {}
    BY <1>4, <1>10, <2>4, <2>5, FS_EmptySet
  <2> QED
    BY <2>2, <2>6
<1>12. s.at = r[x]
  BY <1>9, <1>10, <1>11 DEF Grown
<1> QED
  BY <1>3, <1>8, <1>9, <1>12 DEF Finds

LEMMA FindTypes ==
    ASSUME NEW S, IsFiniteSet(S), NEW par \in [S -> S], NEW x \in S
    PROVE  Find(par, x) \in Pointers(S)
<1>1. PICK n \in Nat : n = Cardinality(S)
  BY FS_CardinalityType
<1>2. PICK f \in [0..n -> Pointers(S)] : Rounds(f, n, S, par, x)
  BY <1>1, FindRounds
<1> QED
  BY <1>2, n \in 0..n DEF Rounds

LEMMA JoinTypes ==
    ASSUME NEW S, IsFiniteSet(S), NEW par \in [S -> S], NEW e
    PROVE  Join(par, e) \in [S -> S]
<1>1. CASE {e[1], e[2]} \subseteq S
  <2>1. PICK left : left = Find(par, e[1])
    OBVIOUS
  <2>2. left.parent \in [S -> S] /\ left.at \in S
    BY <1>1, <2>1, FindTypes DEF Pointers
  <2>3. PICK right : right = Find(left.parent, e[2])
    OBVIOUS
  <2>4. right.parent \in [S -> S] /\ right.at \in S
    BY <1>1, <2>2, <2>3, FindTypes DEF Pointers
  <2>5. Join(par, e) = [right.parent EXCEPT ![left.at] = right.at]
    BY <1>1, <2>1, <2>3 DEF Join, Attach
  <2> QED
    BY <2>2, <2>4, <2>5
<1>2. CASE ~({e[1], e[2]} \subseteq S)
  BY <1>2 DEF Join
<1> QED
  BY <1>1, <1>2

\* f is what the loop over the pairs does.
Joins(f, n, S) ==
    /\ f[0] = [m \in S |-> m]
    /\ \A k \in 1..n : f[k] = Join(f[k - 1], edges[k])
    /\ FindClusters(S) =
          {{m \in S : Find(f[n], m).at = root} : root \in {Find(f[n], m).at : m \in S}}

LEMMA JoinRounds ==
    ASSUME NEW S, IsFiniteSet(S), NEW n \in Nat, n = Len(edges)
    PROVE  \E f \in [0..n -> [S -> S]] : Joins(f, n, S)
<1> DEFINE start == [m \in S |-> m]
           F == [S -> S]
           G == [w \in (1..n) \X F |-> Join(w[2], edges[w[1]])]
           P(f) == f = [k \in 0..n |-> IF k = 0 THEN start ELSE Join(f[k - 1], edges[k])]
<1>3. start \in F
  OBVIOUS
<1>4. G \in [(1..n) \X F -> F]
  BY JoinTypes
<1>5. PICK g \in [0..n -> F] : Iterates(g, n, start, G)
  <2> HIDE DEF G, start, F
  <2> QED
    BY <1>3, <1>4, Iteration
<1>6. \A k \in 1..n : g[k] = Join(g[k - 1], edges[k])
  <2>1. TAKE k \in 1..n
  <2>2. <<k, g[k - 1]>> \in (1..n) \X F
    <3> HIDE DEF start, F, G, P
    <3>1. k - 1 \in 0..n
      OBVIOUS
    <3>2. g[k - 1] \in F
      BY <3>1
    <3> QED
      BY <3>2
  <2>3. g[k] = G[<<k, g[k - 1]>>]
    <3> HIDE DEF G
    <3> QED
      BY <1>5 DEF Iterates
  <2> QED
    BY <2>2, <2>3
<1>7. P(g)
  <2> HIDE DEF start, F
  <2>1. \A k \in 0..n : g[k] = IF k = 0 THEN start ELSE Join(g[k - 1], edges[k])
    BY <1>5, <1>6 DEF Iterates
  <2>2. g = [k \in 0..n |-> g[k]]
    BY <1>5
  <2>3. [k \in 0..n |-> g[k]] = [k \in 0..n |-> IF k = 0 THEN start ELSE Join(g[k - 1], edges[k])]
    BY <2>1
  <2> QED
    BY <2>2, <2>3
<1>8. P(CHOOSE f : P(f))
  <2> HIDE DEF P
  <2> QED
    BY <1>7
<1>9. FindClusters(S) =
          {{m \in S : Find((CHOOSE f : P(f))[n], m).at = root} :
              root \in {Find((CHOOSE f : P(f))[n], m).at : m \in S}}
  BY DEF FindClusters
<1>10. PICK f : f = (CHOOSE h : P(h))
  OBVIOUS
<1>11. f = [k \in 0..n |-> IF k = 0 THEN start ELSE Join(f[k - 1], edges[k])]
  <2>1. P(f)
    <3> HIDE DEF P
    <3> QED
      BY <1>8, <1>10
  <2> QED
    BY <2>1
<1>12. f[0] = start /\ \A k \in 1..n : f[k] = Join(f[k - 1], edges[k])
  <2> HIDE DEF start
  <2>1. f[0] = start
    BY <1>11
  <2>2. ASSUME NEW k \in 1..n PROVE f[k] = Join(f[k - 1], edges[k])
    BY <1>11
  <2> QED
    BY <2>1, <2>2
<1>13. f \in [0..n -> F]
  <2> DEFINE T == {k \in 0..n : f[k] \in F}
  <2>1. 0 \in T
    BY <1>3, <1>12
  <2>2. ASSUME NEW k \in 1..n, k - 1 \in T PROVE k \in T
    <3>1. PICK h, e : h = f[k - 1] /\ e = edges[k]
      OBVIOUS
    <3>2. h \in [S -> S] /\ f[k] = Join(h, e)
      BY <1>12, <2>2, <3>1
    <3>3. f[k] \in [S -> S]
      BY <3>2, JoinTypes
    <3> QED
      BY <3>3
  <2>3. 0..n \subseteq T
    <3> HIDE DEF T
    <3> QED
      BY <2>1, <2>2, UpTo
  <2>5. f = [k \in 0..n |-> f[k]]
    BY <1>11
  <2> QED
    BY <2>3, <2>5
<1>14. FindClusters(S) =
           {{m \in S : Find(f[n], m).at = root} : root \in {Find(f[n], m).at : m \in S}}
  <2> HIDE DEF P
  <2> QED
    BY <1>9, <1>10
<1> HIDE DEF P
<1> QED
  BY <1>12, <1>13, <1>14 DEF Joins

\* The roots and the ancestors once root a is attached to root b.
Below(A, r, a, b) ==
    A \cup {e \in (DOMAIN r) \X (DOMAIN r) : r[e[1]] = a /\ r[e[2]] = b /\ a # b}
Merged(r, a, b) == [x \in DOMAIN r |-> IF r[x] = a THEN b ELSE r[x]]

LEMMA AttachRoots ==
    ASSUME NEW S, NEW par, NEW r, NEW A, Grown(par, r, A, S),
           NEW a \in S, NEW b \in S, r[a] = a, r[b] = b
    PROVE  Grown([par EXCEPT ![a] = b], Merged(r, a, b), Below(A, r, a, b), S)
<1>0. par \in [S -> S] /\ r \in [S -> S] /\ DOMAIN r = S
  BY DEF Grown
<1>1. PICK new, q, B : new = [par EXCEPT ![a] = b] /\ q = Merged(r, a, b) /\ B = Below(A, r, a, b)
  OBVIOUS
<1>2. new \in [S -> S] /\ new[a] = b /\ \A x \in S \ {a} : new[x] = par[x]
  BY <1>0, <1>1
<1>3. q \in [S -> S] /\ \A x \in S : q[x] = IF r[x] = a THEN b ELSE r[x]
  BY <1>0, <1>1 DEF Merged
<1>4. \A x, y \in S : <<x, y>> \in B <=> <<x, y>> \in A \/ (r[x] = a /\ r[y] = b /\ a # b)
  BY <1>0, <1>1 DEF Below
<1>5. \A x \in S : q[new[x]] = q[x] /\ new[q[x]] = q[x]
  <2>1. TAKE x \in S
  <2>2. par[x] \in S /\ r[x] \in S /\ r[par[x]] = r[x] /\ par[r[x]] = r[x] /\ par[b] = b
    BY <1>0 DEF Grown
  <2>3. q[new[x]] = q[x]
    BY <1>2, <1>3, <2>2
  <2>4. new[q[x]] = q[x]
    BY <1>2, <1>3, <2>2
  <2> QED
    BY <2>3, <2>4
<1>6. \A x \in S : (new[x] = x => q[x] = x) /\ (new[x] # x => <<x, new[x]>> \in B)
  BY <1>2, <1>3, <1>4 DEF Grown
<1>7. \A x \in S : <<x, x>> \notin B
  <2>1. TAKE x \in S
  <2>2. <<x, x>> \notin A
    BY DEF Grown
  <2> QED
    BY <1>4, <2>2
<1>8. \A x, y, z \in S : <<x, y>> \in B /\ <<y, z>> \in B => <<x, z>> \in B
  BY <1>4 DEF Grown
<1>9. \A x, y \in S : <<x, y>> \in B => q[x] = q[y]
  BY <1>3, <1>4 DEF Grown
<1> QED
  BY <1>1, <1>2, <1>3, <1>5, <1>6, <1>7, <1>8, <1>9 DEF Grown

\* The first k pairs do not lead out of X.
ClosedTo(X, S, es, k) ==
    \A i \in 1..k : {es[i][1], es[i][2]} \subseteq S => (es[i][1] \in X <=> es[i][2] \in X)

\* The roots tell the memories apart that the first k pairs do not connect, and no others.
RootsOf(r, S, es, k) ==
    /\ \A i \in 1..k : {es[i][1], es[i][2]} \subseteq S => r[es[i][1]] = r[es[i][2]]
    /\ \A X \in SUBSET S : ClosedTo(X, S, es, k) =>
          \A x, y \in S : r[x] = r[y] /\ x \in X => y \in X

Forest(par, S, es, k) ==
    \E r \in [S -> S] : \E A : Grown(par, r, A, S) /\ RootsOf(r, S, es, k)

\* Another pair joins the two classes of its ends.
LEMMA JoinForest ==
    ASSUME NEW S, IsFiniteSet(S), NEW es, NEW k \in Nat \ {0}, NEW par, Forest(par, S, es, k - 1)
    PROVE  Forest(Join(par, es[k]), S, es, k)
<1>1. PICK r \in [S -> S] : \E A : Grown(par, r, A, S) /\ RootsOf(r, S, es, k - 1)
  BY DEF Forest
<1>2. PICK A : Grown(par, r, A, S) /\ RootsOf(r, S, es, k - 1)
  BY <1>1
<1>3. DOMAIN par = S /\ k \in 1..k /\ \A i \in 1..k : i = k \/ i \in 1..(k - 1)
  BY <1>2 DEF Grown
<1>4. \A X : ClosedTo(X, S, es, k) => ClosedTo(X, S, es, k - 1)
  BY DEF ClosedTo
<1>5. PICK c, d : c = es[k][1] /\ d = es[k][2]
  OBVIOUS
<1>6. CASE ~({c, d} \subseteq S)
  <2>1. Join(par, es[k]) = par
    BY <1>3, <1>5, <1>6 DEF Join
  <2>2. RootsOf(r, S, es, k)
    BY <1>2, <1>3, <1>4, <1>5, <1>6 DEF RootsOf
  <2> QED
    BY <1>2, <2>1, <2>2 DEF Forest
<1>7. CASE {c, d} \subseteq S
  <2>0. c \in S /\ d \in S
    BY <1>7
  <2>1. PICK left : left = Find(par, c)
    OBVIOUS
  <2>2. left.at = r[c] /\ Grown(left.parent, r, A, S)
    <3>1. Grown(par, r, A, S)
      BY <1>2
    <3>2. Finds(S, par, r, A, c)
      BY <2>0, <3>1, FindFinds
    <3> QED
      BY <2>1, <3>2 DEF Finds
  <2>3. PICK right : right = Find(left.parent, d)
    OBVIOUS
  <2>4. right.at = r[d] /\ Grown(right.parent, r, A, S)
    <3>1. PICK p : p = left.parent /\ Grown(p, r, A, S)
      BY <2>2
    <3>2. Finds(S, p, r, A, d)
      BY <2>0, <3>1, FindFinds
    <3> QED
      BY <2>3, <3>1, <3>2 DEF Finds
  <2>5. PICK a \in S, b \in S : a = r[c] /\ b = r[d]
    BY <1>7
  <2>6. r[a] = a /\ r[b] = b
    BY <1>2, <1>7, <2>5 DEF Grown
  <2>7. Join(par, es[k]) = [right.parent EXCEPT ![a] = b]
    BY <1>3, <1>5, <1>7, <2>1, <2>2, <2>3, <2>4, <2>5 DEF Join, Attach
  <2>8. PICK q, B : q = Merged(r, a, b) /\ B = Below(A, r, a, b)
    OBVIOUS
  <2>9. Grown(Join(par, es[k]), q, B, S)
    BY <2>4, <2>6, <2>7, <2>8, AttachRoots
  <2>10. q \in [S -> S] /\ \A x \in S : q[x] = IF r[x] = a THEN b ELSE r[x]
    BY <2>8 DEF Merged
  <2>11. \A i \in 1..k : {es[i][1], es[i][2]} \subseteq S => q[es[i][1]] = q[es[i][2]]
    <3>1. TAKE i \in 1..k
    <3>2. CASE i = k
      BY <1>5, <1>7, <2>5, <2>10, <3>2
    <3>3. CASE i \in 1..(k - 1)
      <4>1. {es[i][1], es[i][2]} \subseteq S => r[es[i][1]] = r[es[i][2]]
        BY <1>2, <3>3 DEF RootsOf
      <4> QED
        BY <2>10, <4>1
    <3> QED
      BY <1>3, <3>2, <3>3
  <2>12. ASSUME NEW X \in SUBSET S, ClosedTo(X, S, es, k),
                NEW x \in S, NEW y \in S, q[x] = q[y], x \in X
         PROVE  y \in X
    <3>1. \A u, v \in S : r[u] = r[v] /\ u \in X => v \in X
      BY <1>2, <1>4, <2>12 DEF RootsOf
    <3>2. c \in X <=> d \in X
      BY <1>3, <1>5, <1>7, <2>12 DEF ClosedTo
    <3> QED
      BY <1>7, <2>5, <2>10, <2>12, <3>1, <3>2
  <2>13. RootsOf(q, S, es, k)
    BY <2>11, <2>12 DEF RootsOf
  <2> QED
    BY <2>9, <2>10, <2>13 DEF Forest
<1> QED
  BY <1>6, <1>7

\* _find_clusters finds the components, each once.
LEMMA ClustersFound ==
    ASSUME NEW S, IsFiniteSet(S), edges \in Seq(Memories \X Memories)
    PROVE  FindClusters(S) = {Component(S, m) : m \in S}
<1>1. PICK n \in Nat : n = Len(edges) /\ DOMAIN edges = 1..n
  OBVIOUS
<1>2. PICK f \in [0..n -> [S -> S]] : Joins(f, n, S)
  BY <1>1, JoinRounds
<1>3. PICK es : es = edges
  OBVIOUS
<1> DEFINE T == {k \in 0..n : Forest(f[k], S, es, k)}
<1>4. 0 \in T
  <2>1. PICK id : id = [m \in S |-> m]
    OBVIOUS
  <2>2. id \in [S -> S] /\ Grown(id, id, {}, S)
    BY <2>1 DEF Grown
  <2>3. RootsOf(id, S, es, 0)
    BY <2>1 DEF RootsOf
  <2>4. Forest(id, S, es, 0)
    BY <2>2, <2>3 DEF Forest
  <2> QED
    BY <1>2, <2>1, <2>4 DEF Joins
<1>5. ASSUME NEW k \in 1..n, k - 1 \in T PROVE k \in T
  BY <1>2, <1>3, <1>5, JoinForest DEF Joins
<1>6. n \in T
  <2> HIDE DEF T
  <2> QED
    BY <1>4, <1>5, UpTo, n \in 0..n
<1>7. PICK r \in [S -> S] : \E A : Grown(f[n], r, A, S) /\ RootsOf(r, S, es, n)
  BY <1>6 DEF Forest
<1>8. RootsOf(r, S, es, n) /\ \A m \in S : Find(f[n], m).at = r[m]
  BY <1>7, FindFinds DEF Finds
<1>9. FindClusters(S) = {{x \in S : r[x] = r[m]} : m \in S}
  <2>1. {Find(f[n], m).at : m \in S} = {r[m] : m \in S}
    BY <1>8
  <2>2. \A root : {m \in S : Find(f[n], m).at = root} = {m \in S : r[m] = root}
    BY <1>8
  <2>3. FindClusters(S) = {{m \in S : r[m] = root} : root \in {r[m] : m \in S}}
    <3>1. FindClusters(S) = {{m \in S : Find(f[n], m).at = root} : root \in {r[m] : m \in S}}
      BY <1>2, <2>1 DEF Joins
    <3>2. PICK R : R = {r[m] : m \in S}
      OBVIOUS
    <3>3. {{m \in S : Find(f[n], m).at = root} : root \in R} =
              {{m \in S : r[m] = root} : root \in R}
      BY <2>2
    <3> QED
      BY <3>1, <3>2, <3>3
  <2> DEFINE Of(root) == {m \in S : r[m] = root}
  <2>4. FindClusters(S) = {Of(root) : root \in {r[m] : m \in S}}
    BY <2>3
  <2>5. {Of(root) : root \in {r[m] : m \in S}} = {Of(r[m]) : m \in S}
    <3> HIDE DEF Of
    <3> QED
      OBVIOUS
  <2> QED
    BY <2>4, <2>5
<1>10. ASSUME NEW m \in S PROVE Component(S, m) = {x \in S : r[x] = r[m]}
  <2> DEFINE Closed(X) == \A k \in DOMAIN edges :
                             LET a == edges[k][1]
                                 b == edges[k][2]
                             IN  {a, b} \subseteq S => (a \in X <=> b \in X)
  <2>1. \A X : Closed(X) <=> ClosedTo(X, S, es, n)
    BY <1>1, <1>3 DEF ClosedTo
  <2>2. Component(S, m) =
            {x \in S : \A X \in SUBSET S : m \in X /\ ClosedTo(X, S, es, n) => x \in X}
    <3>1. Component(S, m) = {x \in S : \A X \in SUBSET S : m \in X /\ Closed(X) => x \in X}
      BY DEF Component
    <3> HIDE DEF Closed
    <3> QED
      BY <2>1, <3>1
  <2> DEFINE Class == {x \in S : r[x] = r[m]}
  <2>3. Class \in SUBSET S /\ m \in Class /\ ClosedTo(Class, S, es, n)
    BY <1>8 DEF RootsOf, ClosedTo
  <2>4. Component(S, m) \subseteq Class
    <3> HIDE DEF Class
    <3> QED
      BY <2>2, <2>3
  <2>5. Class \subseteq Component(S, m)
    BY <1>8, <2>2 DEF RootsOf
  <2> QED
    BY <2>4, <2>5
<1> QED
  BY <1>9, <1>10

-----------------------------------------------------------------------------
(* The clusters of a synthesis                                             *)

\* What run p has found are the components of what it has chosen.
FoundComponents(p) ==
    job[p].kind = "synthesis" =>
        job[p].found = {C \in {Component(job[p].chosen, m) : m \in job[p].chosen} :
                            Cardinality(C) >= MinCluster}

\* The pairs stay, a run keeps what it has chosen and found, and a synthesis
\* begins with the clusters of its candidates.
LEMMA FoundStays ==
    ASSUME ReflectionInv, [Next]_vars, NEW p \in Processes
    PROVE  /\ edges' = edges
           /\ job'[p].kind = "synthesis" =>
                \/ UNCHANGED <<job[p].kind, job[p].chosen, job[p].found>>
                \/ /\ job'[p].chosen = Candidates
                   /\ job'[p].found = {C \in FindClusters(Candidates) :
                                           Cardinality(C) >= MinCluster}
<1> USE DEF NoJob
<1>1. job \in [Processes -> Jobs]
  BY DEF ReflectionInv, MarksInv, TypeOK
<1>2. ASSUME NEW q \in Processes, NEW kind, NEW S, NEW items, Begin(q, kind, S, items)
      PROVE  job' = [job EXCEPT ![q] = [NoJob EXCEPT !.kind = kind, !.no = runs + 1,
                                        !.chosen = S, !.found = items, !.todo = items]]
  BY <1>2 DEF Begin
<1>3. ASSUME NEW q \in Processes, BeginPromotion(q)
      PROVE  edges' = edges /\ (job'[p].kind = "synthesis" => job'[p] = job[p])
  BY <1>1, <1>3 DEF BeginPromotion, Begin
<1>4. ASSUME NEW q \in Processes, BeginSynthesis(q)
      PROVE  /\ edges' = edges
             /\ \/ job'[p] = job[p]
                \/ /\ job'[p].chosen = Candidates
                   /\ job'[p].found = {C \in FindClusters(Candidates) :
                                           Cardinality(C) >= MinCluster}
  BY <1>1, <1>4 DEF BeginSynthesis, Begin
<1>5. ASSUME NEW q \in Processes, Work(q)
      PROVE  /\ edges' = edges
             /\ job'[p].kind = "synthesis" =>
                    UNCHANGED <<job[p].kind, job[p].chosen, job[p].found>>
  <2>1. ASSUME NEW x, PromoteOne(q, x) \/ StartCluster(q, x) \/ ItemRaises(q, x)
        PROVE  /\ edges' = edges
               /\ UNCHANGED <<job[p].kind, job[p].chosen, job[p].found>>
    <3>1. CASE PromoteOne(q, x)
      BY <1>1, <3>1 DEF PromoteOne, Jobs
    <3>2. CASE StartCluster(q, x)
      BY <1>1, <3>2 DEF StartCluster, Jobs
    <3>3. CASE ItemRaises(q, x)
      <4>1. edges' = edges /\ job' = [job EXCEPT ![q] = RolledBack(job[q], x)]
        BY <3>3 DEF ItemRaises
      <4> QED
        BY <1>1, <4>1 DEF RolledBack, Jobs
    <3> QED
      BY <2>1, <3>1, <3>2, <3>3
  <2>2. CASE MarkPromoted(q) \/ FinishCluster(q)
    BY <1>1, <2>2 DEF MarkPromoted, FinishCluster, Jobs
  <2>3. CASE Commit(q)
    BY <1>1, <2>3 DEF Commit, Jobs
  <2> QED
    BY <1>5, <2>1, <2>2, <2>3 DEF Work
<1>6. ASSUME NEW q \in Processes, Abort(q)
      PROVE  edges' = edges /\ (job'[p].kind = "synthesis" => job'[p] = job[p])
  BY <1>1, <1>6 DEF Abort
<1>7. CASE Decay \/ Tick \/ (\E m \in Memories : Store(m)) \/ UNCHANGED vars
  BY <1>7 DEF Decay, Tick, Store, vars
<1> QED
  BY <1>3, <1>4, <1>5, <1>6, <1>7 DEF Next

LEMMA NextFound ==
    ASSUME ReflectionInv, ClustersAreComponents, [Next]_vars
    PROVE  ClustersAreComponents'
<1>1. SUFFICES ASSUME NEW p \in Processes, job'[p].kind = "synthesis" PROVE FoundComponents(p)'
  BY DEF ClustersAreComponents, FoundComponents
<1>2. PICK S : S = job'[p].chosen
  OBVIOUS
<1>3. edges' = edges
  BY FoundStays
<1>4. \A m : Component(job[p].chosen, m)' = Component(S, m)
  BY <1>2, <1>3 DEF Component
<1>5. SUFFICES job'[p].found = {C \in {Component(S, m) : m \in S} : Cardinality(C) >= MinCluster}
  BY <1>2, <1>4 DEF FoundComponents
<1>6. CASE UNCHANGED <<job[p].kind, job[p].chosen, job[p].found>>
  BY <1>1, <1>2, <1>6 DEF ClustersAreComponents
<1>7. CASE /\ S = Candidates
           /\ job'[p].found = {C \in FindClusters(S) : Cardinality(C) >= MinCluster}
  <2>1. IsFiniteSet(S)
    <3>1. S \subseteq Memories
      BY <1>7 DEF Candidates
    <3> QED
      BY <3>1, MemoriesAssumption, FS_Subset
  <2>2. edges \in Seq(Memories \X Memories)
    BY EdgesAssumption DEF ReflectionInv, MarksInv, TypeOK
  <2>3. FindClusters(S) = {Component(S, m) : m \in S}
    BY <2>1, <2>2, ClustersFound
  <2> QED
    BY <1>7, <2>3
<1> QED
  BY <1>1, <1>2, <1>6, <1>7, FoundStays

\* The clusters of a synthesis are the connected components of its candidates,
\* for every set of memories and every list of pairs, in whatever order they
\* come and however the paths are halved (_find_clusters).
THEOREM ClustersFollowSimilarity == Spec => []ClustersAreComponents
<1>1. Init => ClustersAreComponents
  BY DEF Init, NoJob, ClustersAreComponents
<1>2. ReflectionInv /\ ClustersAreComponents /\ [Next]_vars => ClustersAreComponents'
  BY NextFound
<1> QED
  BY <1>1, <1>2, ReflectionInvariant, PTL DEF Spec
=============================================================================
