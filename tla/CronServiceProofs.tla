------------------------- MODULE CronServiceProofs -------------------------
(***************************************************************************)
(* Proofs about CronService, for any set of jobs, any schedule and any     *)
(* bounds.  Types first; then, each with its inductive strengthening: no   *)
(* start is early or repeated after an end (DueInv), the timer covers the  *)
(* jobs (TimerInv), jobs survive crashes (SavedInv).                       *)
(***************************************************************************)
EXTENDS CronService, TLAPS

-----------------------------------------------------------------------------
(* Schedules and stores                                                    *)

LEMMA NextRunType ==
    ASSUME NEW id \in JobIds, NEW t \in Nat
    PROVE  NextRun(id, t) \in Nat
  BY ScheduleAssumption DEF NextRun, None

LEMMA NewJobType ==
    ASSUME NEW id \in JobIds, NEW t \in Nat
    PROVE  NewJob(id, t) \in Job
  BY NextRunType DEF NewJob, Job

LEMMA AbsentType == Absent \in Job /\ EmptyStore \in Store
  BY DEF Absent, Job, None, EmptyStore, Store

LEMMA WithType ==
    ASSUME NEW js \in Store, NEW id \in JobIds, NEW j \in Job
    PROVE  With(js, id, j) \in Store
  BY DEF With, Store

LEMMA RecomputedType ==
    ASSUME NEW js \in Store, NEW t \in Nat
    PROVE  Recomputed(js, t) \in Store
  BY NewJobType DEF Recomputed, Store

LEMMA AfterRunType ==
    ASSUME NEW js \in Store, NEW id \in JobIds, NEW t \in Nat
    PROVE  AfterRun(js, id, t) \in Store
  <1> DEFINE done == [status |-> "off", next |-> None]
             again == [status |-> js[id].status, next |-> NextRun(id, t)]
  <1>1. done \in Job
    BY DEF Job, None
  <1>2. again \in Job
    BY NextRunType DEF Job, Store
  <1> HIDE DEF done, again
  <1>3. With(js, id, IF Schedule[id].kind = "at" THEN done ELSE again) \in Store
    BY <1>1, <1>2, WithType
  <1> QED
    BY <1>3 DEF AfterRun, done, again

LEMMA LoadedType == TypeOK => Loaded \in Store
  BY AbsentType DEF TypeOK, Loaded

\* The job that was executed, and what is left alone.
LEMMA AfterRunJobs ==
    ASSUME NEW js \in Store, NEW id \in JobIds, NEW t \in Nat,
           NEW o \in JobIds
    PROVE  /\ o # id => AfterRun(js, id, t)[o] = js[o]
           /\ Present(AfterRun(js, id, t), o) <=> Present(js, o)
           /\ Scheduled(AfterRun(js, id, t), id) =>
                 /\ Schedule[id].kind = "every"
                 /\ js[id].status = "on"
                 /\ AfterRun(js, id, t)[id].next = NextRun(id, t)
  BY ScheduleAssumption DEF AfterRun, With, Store, Job, Present, Scheduled

LEMMA WithJobs ==
    ASSUME NEW js \in Store, NEW id \in JobIds, NEW j, NEW o \in JobIds
    PROVE  /\ o # id => With(js, id, j)[o] = js[o]
           /\ With(js, id, j)[id] = j
  BY DEF With, Store

LEMMA ArmTimerType ==
    ASSUME NEW js \in Store, now \in Nat, ArmTimer(js)
    PROVE  timer' \in Nat
  BY DEF ArmTimer, Store, Job, None

\* An armed timer covers the jobs it was armed for.
LEMMA ArmTimerCovers ==
    ASSUME NEW js \in Store, now \in Nat, ArmTimer(js),
           NEW id \in JobIds, Scheduled(js, id)
    PROVE  /\ timer' \in Nat
           /\ timer' <= js[id].next \/ timer' <= now
           /\ now # 0 => timer' # None
  BY DEF ArmTimer, Store, Job, None, Scheduled
-----------------------------------------------------------------------------
(* Type correctness                                                        *)

LEMMA InitTyped == Init => TypeOK
  <1> SUFFICES ASSUME Init PROVE TypeOK
    OBVIOUS
  <1>1. disk \in Store
    BY NewJobType, AbsentType DEF Init, Store
  <1>2. jobs \in Store
    BY AbsentType DEF Init
  <1> QED
    BY <1>1, <1>2, PresetAssumption, TimeAssumption, NoJobAssumption
       DEF Init, TypeOK, Time, None

\* The pieces the actions are made of.
LEMMA WriteTyped ==
    ASSUME TypeOK, NEW js \in Store, Write(js) \/ WriteRaises
    PROVE  disk' \in Store \cup {Torn} /\ failures' \in Nat
  BY DEF TypeOK, Write, WriteRaises

LEMMA CallJobTyped ==
    ASSUME TypeOK, NEW ds \in SUBSET JobIds, NEW id, CallJob(id, ds)
    PROVE  /\ job' \in JobIds /\ due' \subseteq JobIds \ {job'}
           /\ begun' \subseteq JobIds
  BY DEF TypeOK, CallJob

LEMMA FinishTickTyped ==
    ASSUME TypeOK, NEW js \in Store, FinishTick(js)
    PROVE  /\ job' = NoJob /\ due' = {} /\ begun' = begun
           /\ disk' \in Store \cup {Torn} /\ failures' \in Nat
           /\ timer' \in Nat
  BY WriteTyped, ArmTimerType DEF TypeOK, FinishTick, Time, None

LEMMA TimerFiresTyped ==
    ASSUME TypeOK, TimerFires
    PROVE  TypeOK'
  <1>1. DueJobs(jobs, now) \in SUBSET JobIds
    BY DEF DueJobs
  <1>2. CASE /\ \E id \in DueJobs(jobs, now) : CallJob(id, DueJobs(jobs, now))
             /\ timer' = None
             /\ UNCHANGED <<disk, failures>>
    BY <1>1, <1>2, CallJobTyped DEF TypeOK, TimerFires, None
  <1>3. CASE FinishTick(jobs)
    BY <1>3, FinishTickTyped DEF TypeOK, TimerFires
  <1> QED
    BY <1>2, <1>3 DEF TimerFires

LEMMA JobEndsTyped ==
    ASSUME TypeOK, JobEnds
    PROVE  TypeOK'
  <1>1. job \in JobIds /\ now \in Nat /\ due \in SUBSET JobIds
    BY DEF TypeOK, JobEnds, Idle, Time
  <1>2. jobs' \in Store
    BY <1>1, AfterRunType DEF TypeOK, JobEnds
  <1>3. ended' \in [JobIds -> 0..MaxTime]
    BY <1>1, TimeAssumption DEF TypeOK, JobEnds, Time
  <1>4. CASE /\ \E id \in due : CallJob(id, due)
             /\ UNCHANGED <<disk, failures, timer>>
    BY <1>1, <1>2, <1>3, <1>4, CallJobTyped DEF TypeOK, JobEnds
  <1>5. CASE FinishTick(jobs')
    BY <1>2, <1>3, <1>5, FinishTickTyped DEF TypeOK, JobEnds
  <1> QED
    BY <1>4, <1>5 DEF JobEnds

LEMMA EditTyped ==
    ASSUME TypeOK, NEW js \in Store, Edit(js)
    PROVE  /\ jobs' \in Store /\ disk' \in Store \cup {Torn}
           /\ timer' \in Nat /\ failures' \in Nat
           /\ job' \in JobIds \cup {NoJob} /\ due' \subseteq JobIds \ {job'}
           /\ begun' \subseteq JobIds /\ ended' \in [JobIds -> 0..MaxTime]
  BY WriteTyped, ArmTimerType DEF TypeOK, Edit, Time

LEMMA EditAndEndTyped ==
    ASSUME TypeOK, NEW js \in Store, EditAndEnd(js)
    PROVE  /\ jobs' \in Store /\ disk' \in Store \cup {Torn}
           /\ timer' \in Nat /\ failures' \in Nat
           /\ job' \in JobIds \cup {NoJob} /\ due' \subseteq JobIds \ {job'}
           /\ begun' \subseteq JobIds /\ ended' \in [JobIds -> 0..MaxTime]
  <1>1. job \in JobIds /\ now \in Nat /\ now \in 0..MaxTime
    BY TimeAssumption DEF TypeOK, EditAndEnd, Idle, Time
  <1>2. jobs' \in Store
    BY <1>1, AfterRunType DEF EditAndEnd
  <1>3. ended' \in [JobIds -> 0..MaxTime]
    BY <1>1 DEF TypeOK, EditAndEnd
  <1>4. disk' \in Store \cup {Torn} /\ failures' \in Nat
    BY <1>2 DEF TypeOK, EditAndEnd, Write
  <1>5. timer' \in Nat
    BY <1>1, <1>2, ArmTimerType DEF EditAndEnd
  <1>6. begun' \subseteq JobIds
    BY DEF TypeOK, EditAndEnd
  <1> QED
    BY <1>2, <1>3, <1>4, <1>5, <1>6 DEF EditAndEnd

LEMMA ToolCallTyped ==
    ASSUME TypeOK, NEW js \in Store, ToolCall(js), used' \subseteq JobIds
    PROVE  TypeOK'
  <1>1. calls' \in Nat
    BY DEF TypeOK, ToolCall
  <1>2. UNCHANGED <<now, phase, cli, commands, crashes>>
    BY DEF ToolCall
  <1>3. CASE Edit(js)
    BY <1>1, <1>2, <1>3, EditTyped DEF TypeOK
  <1>4. CASE EditAndEnd(js)
    BY <1>1, <1>2, <1>4, EditAndEndTyped DEF TypeOK
  <1> QED
    BY <1>3, <1>4 DEF ToolCall

LEMMA CliStepTyped ==
    ASSUME TypeOK, CliStep
    PROVE  TypeOK'
  <1>1. CASE CliLoads
    BY <1>1, LoadedType DEF TypeOK, CliLoads, gateway, observed
  <1>2. CASE CliEnds
    BY <1>2, AbsentType, WriteTyped
       DEF TypeOK, CliEnds, gateway, observed
  <1>3. ASSUME NEW js \in Store, CliSaves(js), used' \subseteq JobIds
        PROVE  TypeOK'
    BY <1>3 DEF TypeOK, CliSaves, Write, gateway
  <1>4. ASSUME NEW id \in JobIds, cli # Closed
        PROVE  /\ With(cli, id, NewJob(id, now)) \in Store
               /\ With(cli, id, Absent) \in Store
               /\ With(cli, id, [status |-> "off", next |-> None]) \in Store
               /\ AfterRun(cli, id, now) \in Store
    <2>1. cli \in Store /\ now \in Nat
      BY <1>4 DEF TypeOK, Time
    <2>2. [status |-> "off", next |-> None] \in Job
      BY DEF Job, None
    <2> QED
      BY <2>1, <2>2, WithType, NewJobType, AbsentType, AfterRunType
  <1>5. ASSUME NEW id \in JobIds,
               \/ CliAdds(id) \/ CliRemoves(id) \/ CliEnables(id)
               \/ CliDisables(id) \/ CliRuns(id)
        PROVE  TypeOK'
    <2>1. used' \subseteq JobIds /\ cli # Closed
      BY <1>5 DEF TypeOK, CliAdds, CliRemoves, CliEnables, CliDisables,
                  CliRuns, CliSaves
    <2>2. CASE CliAdds(id)
      BY <1>3, <1>4, <2>1, <2>2 DEF CliAdds
    <2>3. CASE CliRemoves(id)
      BY <1>3, <1>4, <2>1, <2>3 DEF CliRemoves
    <2>4. CASE CliEnables(id)
      BY <1>3, <1>4, <2>1, <2>4 DEF CliEnables
    <2>5. CASE CliDisables(id)
      BY <1>3, <1>4, <2>1, <2>5 DEF CliDisables
    <2>6. CASE CliRuns(id)
      BY <1>3, <1>4, <2>1, <2>6 DEF CliRuns
    <2> QED
      BY <1>5, <2>2, <2>3, <2>4, <2>5, <2>6
  <1> QED
    BY <1>1, <1>2, <1>5 DEF CliStep

LEMMA NextTyped == TypeOK /\ [Next]_vars => TypeOK'
  <1> SUFFICES ASSUME TypeOK, [Next]_vars PROVE TypeOK'
    OBVIOUS
  <1>1. jobs \in Store /\ now \in Nat
    BY DEF TypeOK, Time
  <1>2. CASE TimerFires
    BY <1>2, TimerFiresTyped
  <1>3. CASE JobEnds
    BY <1>3, JobEndsTyped
  <1>4. ASSUME NEW id \in JobIds, ToolAdds(id)
        PROVE  TypeOK'
    <2>1. With(jobs, id, NewJob(id, now)) \in Store
      BY <1>1, WithType, NewJobType
    <2>2. used' \subseteq JobIds
      BY <1>4 DEF TypeOK, ToolAdds
    <2> QED
      BY <1>4, <2>1, <2>2, ToolCallTyped DEF ToolAdds
  <1>5. ASSUME NEW id \in JobIds, ToolRemoves(id)
        PROVE  TypeOK'
    <2>1. With(jobs, id, Absent) \in Store
      BY <1>1, WithType, AbsentType
    <2>2. used' \subseteq JobIds
      BY <1>5 DEF TypeOK, ToolRemoves
    <2> QED
      BY <1>5, <2>1, <2>2, ToolCallTyped DEF ToolRemoves
  <1>6. CASE Boot
    BY <1>6, LoadedType DEF TypeOK, Boot, observed, counters
  <1>7. CASE Start
    <2>1. Recomputed(jobs, now) \in Store
      BY <1>1, RecomputedType
    <2>2. disk' \in Store \cup {Torn} /\ failures' \in Nat /\ jobs' \in Store
      BY <1>7, <2>1, AbsentType, WriteTyped DEF Start
    <2>3. timer' \in Nat
      BY <1>1, <1>7, <2>2, ArmTimerType DEF TypeOK, Start
    <2> QED
      BY <1>7, <2>2, <2>3 DEF TypeOK, Start, observed
  <1>8. CASE Crash
    BY <1>8, AbsentType DEF TypeOK, Crash, observed, None
  <1>9. CASE CliStep
    BY <1>9, CliStepTyped
  <1>10. CASE ClockTicks
    BY <1>10, TimeAssumption
       DEF TypeOK, ClockTicks, Time, gateway, observed, counters
  <1>11. CASE UNCHANGED vars
    BY <1>11 DEF TypeOK, vars, gateway, observed, counters
  <1> QED
    BY <1>2, <1>3, <1>4, <1>5, <1>6, <1>7, <1>8, <1>9, <1>10, <1>11 DEF Next

\* Every variable keeps its type: in particular a job in execution is never
\* among those still to be executed, whatever cancels or aborts the timer task.
THEOREM TypeCorrect == Spec => []TypeOK
  BY InitTyped, NextTyped, PTL DEF Spec
-----------------------------------------------------------------------------
(* No start is early or repeated after an end                              *)

\* Job id may start at instant t.
MayStart(id, t) ==
    /\ Schedule[id].kind = "at" => t >= Schedule[id].when /\ ended[id] = 0
    /\ Schedule[id].kind = "every" =>
          ended[id] = 0 \/ t >= ended[id] + Schedule[id].when

\* Executions ended in the past, and those of a one-shot job after its time:
\* that is why computing its next run again never yields one.
EndsInOrder ==
    \A id \in JobIds :
        /\ ended[id] <= now
        /\ Schedule[id].kind = "at" =>
              ended[id] = 0 \/ ended[id] >= Schedule[id].when

\* The schedule of a running service lets no job start too early.
ScheduleWaits ==
    phase = "up" =>
        \A id \in JobIds :
            Scheduled(jobs, id) => MayStart(id, jobs[id].next)

\* Neither does the list of due jobs, however old it is.
DueMayStart ==
    \A id \in JobIds : id = job \/ id \in due => MayStart(id, now)

\* Only a running service executes a job.
RunsOnlyWhenUp == phase # "up" => job = NoJob /\ due = {}

DueInv ==
    /\ TypeOK /\ EndsInOrder /\ ScheduleWaits /\ DueMayStart
    /\ RunsOnlyWhenUp

LEMMA TypedFacts ==
    ASSUME TypeOK
    PROVE  /\ now \in Nat /\ now # 0
           /\ \A id \in JobIds :
                 /\ ended[id] \in Nat
                 /\ jobs[id].next \in Nat
                 /\ Schedule[id].when \in Nat
                 /\ Schedule[id].kind \in {"at", "every"}
  BY ScheduleAssumption, TimeAssumption DEF TypeOK, Store, Job, Time

\* A next run computed now is not too early, unless an execution of the job
\* ended after the moment it counts from.
LEMMA NextRunMayStart ==
    ASSUME TypeOK, EndsInOrder, NEW id \in JobIds, NextRun(id, now) # None
    PROVE  MayStart(id, NextRun(id, now))
  BY TypedFacts DEF EndsInOrder, NextRun, MayStart, None

LEMMA MayStartLater ==
    ASSUME TypeOK, NEW id \in JobIds, NEW t \in Nat, NEW u \in Nat, t <= u,
           MayStart(id, t)
    PROVE  MayStart(id, u)
  BY TypedFacts DEF MayStart

LEMMA DueJobsMayStart ==
    ASSUME TypeOK, ScheduleWaits, phase = "up", NEW id \in DueJobs(jobs, now)
    PROVE  id \in JobIds /\ MayStart(id, now)
  BY TypedFacts, MayStartLater DEF DueJobs, ScheduleWaits, Scheduled

\* The end of an execution, of which js is the store at that moment.
LEMMA EndDue ==
    ASSUME DueInv, phase = "up", NEW js \in Store, job \in JobIds,
           \A id \in JobIds : Scheduled(js, id) => MayStart(id, js[id].next),
           ended' = [ended EXCEPT ![job] = now],
           jobs' = AfterRun(js, job, now),
           now' = now, phase' = phase, due' \subseteq due, job' \notin JobIds \ due
    PROVE  EndsInOrder' /\ ScheduleWaits' /\ DueMayStart'
  <1>1. \A id \in JobIds : ended'[id] = IF id = job THEN now ELSE ended[id]
    BY DEF DueInv, TypeOK
  <1>2. MayStart(job, now)
    BY DEF DueInv, DueMayStart
  <1>3. EndsInOrder'
    BY <1>1, <1>2, TypedFacts DEF DueInv, EndsInOrder, MayStart
  <1>4. \A id \in JobIds : id # job => (MayStart(id, now) => MayStart(id, now)')
    BY <1>1 DEF MayStart
  <1>5. DueMayStart'
    BY <1>4 DEF DueInv, DueMayStart, TypeOK
  <1>6. ASSUME NEW id \in JobIds, Scheduled(jobs', id)
        PROVE  MayStart(id, jobs[id].next)'
    <2>1. CASE id # job
      <3>1. Scheduled(js, id) /\ jobs'[id] = js[id]
        BY <1>6, <2>1, AfterRunJobs, TypedFacts DEF DueInv, Scheduled
      <3> QED
        BY <1>1, <2>1, <3>1 DEF MayStart
    <2>2. CASE id = job
      <3>1. /\ Schedule[id].kind = "every"
            /\ jobs'[id].next = NextRun(id, now)
            /\ NextRun(id, now) # None
        BY <1>6, <2>2, AfterRunJobs, TypedFacts DEF DueInv, Scheduled
      <3> QED
        BY <1>1, <2>2, <3>1, TypedFacts DEF DueInv, NextRun, MayStart, None
    <2> QED
      BY <2>1, <2>2
  <1> QED
    BY <1>3, <1>5, <1>6 DEF ScheduleWaits
\* A change by the cron tool, whoever makes it.
LEMMA ToolCallDue ==
    ASSUME DueInv, NEW js \in Store, ToolCall(js),
           \A id \in JobIds : Scheduled(js, id) => MayStart(id, js[id].next)
    PROVE  EndsInOrder' /\ ScheduleWaits' /\ DueMayStart' /\ RunsOnlyWhenUp'
  <1>1. phase = "up" /\ phase' = phase /\ now' = now
    BY DEF ToolCall
  <1>2. CASE Edit(js)
    <2>1. jobs' = js /\ ended' = ended /\ due' \subseteq due
      BY <1>2 DEF Edit
    <2>2. job' = job \/ job' = NoJob
      BY <1>2 DEF Edit
    <2> QED
      BY <1>1, <2>1, <2>2, NoJobAssumption
         DEF DueInv, EndsInOrder, ScheduleWaits, DueMayStart, MayStart,
             RunsOnlyWhenUp
  <1>3. CASE EditAndEnd(js)
    <2>1. job \in JobIds
      BY <1>3 DEF EditAndEnd, Idle, DueInv, TypeOK
    <2>2. job' \notin JobIds /\ due' \subseteq due
      BY <1>3, NoJobAssumption DEF EditAndEnd
    <2>3. /\ ended' = [ended EXCEPT ![job] = now]
          /\ jobs' = AfterRun(js, job, now)
      BY <1>3 DEF EditAndEnd
    <2>4. EndsInOrder' /\ ScheduleWaits' /\ DueMayStart'
      BY <1>1, <2>1, <2>2, <2>3, EndDue
    <2> QED
      BY <1>1, <2>4 DEF RunsOnlyWhenUp
  <1> QED
    BY <1>2, <1>3 DEF ToolCall

LEMMA InitDue == Init => DueInv
  <1> SUFFICES ASSUME Init PROVE DueInv
    OBVIOUS
  <1> QED
    BY InitTyped, NoJobAssumption
       DEF Init, DueInv, EndsInOrder, ScheduleWaits, DueMayStart,
           RunsOnlyWhenUp

\* What is not part of the invariant changes.
LEMMA SameDue ==
    ASSUME DueInv, UNCHANGED <<now, gateway, ended>>
    PROVE  EndsInOrder' /\ ScheduleWaits' /\ DueMayStart' /\ RunsOnlyWhenUp'
  BY DEF DueInv, EndsInOrder, ScheduleWaits, DueMayStart, MayStart,
         RunsOnlyWhenUp, gateway

LEMMA CliStepSame == CliStep => UNCHANGED <<now, gateway, begun, ended>>
  BY DEF CliStep, CliLoads, CliEnds, CliAdds, CliRemoves, CliEnables,
         CliDisables, CliRuns, CliSaves, observed

LEMMA NextDue == DueInv /\ [Next]_vars => DueInv'
  <1> SUFFICES ASSUME DueInv, [Next]_vars PROVE DueInv'
    OBVIOUS
  <1> USE DEF DueInv
  <1>1. TypeOK'
    BY NextTyped
  <1> DEFINE Rest == /\ EndsInOrder /\ ScheduleWaits /\ DueMayStart
                     /\ RunsOnlyWhenUp
  <1> SUFFICES Rest'
    BY <1>1
  <1>2. CASE TimerFires
    <2>1. /\ phase = "up" /\ phase' = phase /\ jobs' = jobs /\ now' = now
          /\ ended' = ended
      BY <1>2 DEF TimerFires
    <2>2. ASSUME NEW id \in JobIds, id = job' \/ id \in due'
          PROVE  id \in DueJobs(jobs, now)
      BY <1>2, <2>2, NoJobAssumption DEF TimerFires, CallJob, FinishTick
    <2>3. DueMayStart'
      BY <2>1, <2>2, DueJobsMayStart DEF DueMayStart, MayStart
    <2> QED
      BY <2>1, <2>3
         DEF EndsInOrder, ScheduleWaits, MayStart, RunsOnlyWhenUp
  <1>3. CASE JobEnds
    <2>1. job \in JobIds /\ phase = "up" /\ phase' = phase /\ now' = now
      BY <1>3 DEF JobEnds, Idle, TypeOK, RunsOnlyWhenUp
    <2>2. due' \subseteq due /\ job' \notin JobIds \ due
      BY <1>3, NoJobAssumption DEF JobEnds, CallJob, FinishTick
    <2>3. /\ ended' = [ended EXCEPT ![job] = now]
          /\ jobs' = AfterRun(jobs, job, now)
      BY <1>3 DEF JobEnds
    <2>4. \A id \in JobIds :
             Scheduled(jobs, id) => MayStart(id, jobs[id].next)
      BY <2>1 DEF ScheduleWaits
    <2>5. jobs \in Store
      BY DEF TypeOK
    <2>6. EndsInOrder' /\ ScheduleWaits' /\ DueMayStart'
      BY <2>1, <2>2, <2>3, <2>4, <2>5, EndDue
    <2> QED
      BY <2>1, <2>6 DEF RunsOnlyWhenUp
  <1>4. ASSUME NEW id \in JobIds, ToolAdds(id)
        PROVE  Rest'
    <2> DEFINE js == With(jobs, id, NewJob(id, now))
    <2>1. js \in Store
      BY TypedFacts, WithType, NewJobType DEF TypeOK
    <2>2. phase = "up" /\ ToolCall(js)
      BY <1>4 DEF ToolAdds, ToolCall
    <2>3. ASSUME NEW o \in JobIds, Scheduled(js, o)
          PROVE  MayStart(o, js[o].next)
      <3>1. CASE o = id
        <4>1. js[o].next = NextRun(id, now) /\ NextRun(id, now) # None
          BY <2>3, <3>1, WithJobs DEF TypeOK, NewJob, Scheduled
        <4> QED
          BY <3>1, <4>1, NextRunMayStart
      <3>2. CASE o # id
        <4>1. js[o] = jobs[o]
          BY <3>2, WithJobs DEF TypeOK
        <4> QED
          BY <2>2, <2>3, <4>1 DEF Scheduled, ScheduleWaits
      <3> QED
        BY <3>1, <3>2
    <2> HIDE DEF js
    <2> QED
      BY <2>1, <2>2, <2>3, ToolCallDue
  <1>5. ASSUME NEW id \in JobIds, ToolRemoves(id)
        PROVE  Rest'
    <2> DEFINE js == With(jobs, id, Absent)
    <2>1. js \in Store
      BY WithType, AbsentType DEF TypeOK
    <2>2. phase = "up" /\ ToolCall(js)
      BY <1>5 DEF ToolRemoves, ToolCall
    <2>3. ASSUME NEW o \in JobIds, Scheduled(js, o)
          PROVE  MayStart(o, js[o].next)
      <3>1. o # id
        BY <2>3, WithJobs DEF TypeOK, Absent, Scheduled, None
      <3>2. js[o] = jobs[o]
        BY <3>1, WithJobs DEF TypeOK
      <3> QED
        BY <2>2, <2>3, <3>2 DEF Scheduled, ScheduleWaits
    <2> HIDE DEF js
    <2> QED
      BY <2>1, <2>2, <2>3, ToolCallDue
  <1>6. CASE Boot
    BY <1>6 DEF Boot, observed, EndsInOrder, ScheduleWaits, DueMayStart,
                MayStart, RunsOnlyWhenUp
  <1>7. CASE Start
    <2>1. /\ now' = now /\ ended' = ended /\ job' = job /\ due' = due
          /\ phase = "loaded"
      BY <1>7 DEF Start, observed
    <2>2. EndsInOrder' /\ DueMayStart' /\ RunsOnlyWhenUp'
      BY <2>1 DEF EndsInOrder, DueMayStart, MayStart, RunsOnlyWhenUp
    <2>3. ASSUME phase' = "up", NEW id \in JobIds, Scheduled(jobs', id)
          PROVE  MayStart(id, jobs'[id].next)
      <3>1. jobs' = Recomputed(jobs, now)
        BY <1>7, <2>3 DEF Start
      <3>2. jobs'[id].next = NextRun(id, now) /\ NextRun(id, now) # None
        BY <2>3, <3>1 DEF Recomputed, Scheduled, NewJob
      <3> QED
        BY <3>2, NextRunMayStart
    <2>4. ScheduleWaits'
      BY <2>1, <2>3 DEF ScheduleWaits, MayStart
    <2> QED
      BY <2>2, <2>4
  <1>8. CASE Crash
    BY <1>8, NoJobAssumption
       DEF Crash, observed, EndsInOrder, ScheduleWaits, DueMayStart, MayStart,
           RunsOnlyWhenUp
  <1>9. CASE CliStep
    BY <1>9, CliStepSame, SameDue
  <1>10. CASE ClockTicks
    <2>1. now' = now + 1 /\ UNCHANGED <<gateway, ended>>
      BY <1>10 DEF ClockTicks, observed
    <2>2. EndsInOrder'
      BY <2>1, TypedFacts DEF EndsInOrder
    <2>3. DueMayStart'
      BY <2>1, TypedFacts DEF DueMayStart, MayStart, gateway
    <2> QED
      BY <2>1, <2>2, <2>3 DEF ScheduleWaits, MayStart, RunsOnlyWhenUp, gateway
  <1>11. CASE UNCHANGED vars
    BY <1>11, SameDue DEF vars, observed
  <1> QED
    BY <1>2, <1>3, <1>4, <1>5, <1>6, <1>7, <1>8, <1>9, <1>10, <1>11 DEF Next

\* No job starts before its time, and no execution that ended is repeated, in
\* any interleaving of timer, tool, CLI, crashes and failing saves.
THEOREM StartsAreDue == Spec => EveryStartIsDue
  <1>1. DueInv /\ [Next]_vars =>
           [\A id \in JobIds : Starts(id) => IsDue(id)]_vars
    <2> SUFFICES ASSUME DueInv, Next, NEW id \in JobIds, Starts(id)
                 PROVE  MayStart(id, now)
      BY DEF MayStart, IsDue
    <2>1. CASE TimerFires
      <3>1. phase = "up" /\ id \in DueJobs(jobs, now)
        BY <2>1, NoJobAssumption DEF TimerFires, CallJob, FinishTick, Starts
      <3> QED
        BY <3>1, DueJobsMayStart DEF DueInv
    <2>2. CASE JobEnds
      <3>1. id \in due
        BY <2>2, NoJobAssumption DEF JobEnds, CallJob, FinishTick, Starts
      <3> QED
        BY <3>1 DEF DueInv, DueMayStart
    <2>3. CASE \E x \in JobIds : ToolAdds(x) \/ ToolRemoves(x)
      BY <2>3, NoJobAssumption
         DEF ToolAdds, ToolRemoves, ToolCall, Edit, EditAndEnd, Starts
    <2>4. CASE CliStep
      BY <2>4, CliStepSame DEF gateway, Starts
    <2>5. CASE Boot \/ Start \/ Crash \/ ClockTicks
      BY <2>5, NoJobAssumption
         DEF Boot, Start, Crash, ClockTicks, gateway, Starts
    <2> QED
      BY <2>1, <2>2, <2>3, <2>4, <2>5 DEF Next
  <1> QED
    BY <1>1, InitDue, NextDue, PTL DEF Spec, EveryStartIsDue
-----------------------------------------------------------------------------
(* The timer covers the jobs                                               *)

\* What is executed was due when the list was made, and still is: only a
\* successful change of the store could have altered that, and it would have
\* cancelled the execution.
RunningIsDue ==
    failures = 0 =>
        \A id \in JobIds : id = job \/ id \in due =>
            Scheduled(jobs, id) /\ jobs[id].next <= now

TimerInv == DueInv /\ RunningIsDue /\ TimerCoversJobs

\* The timer that ArmTimer(js) leaves covers a store without running jobs.
LEMMA ArmedCovers ==
    ASSUME TypeOK, NEW js \in Store, ArmTimer(js), jobs' = js, job' = NoJob,
           due' = {}, now' = now
    PROVE  TimerCoversJobs' /\ RunningIsDue'
  <1>1. ASSUME NEW id \in JobIds, Scheduled(jobs', id)
        PROVE  /\ timer' # None
               /\ timer' <= jobs'[id].next \/ timer' <= now
    BY <1>1, ArmTimerCovers, TypedFacts
  <1> QED
    BY <1>1, NoJobAssumption DEF TimerCoversJobs, RunningIsDue

LEMMA ToolCallTimer ==
    ASSUME TimerInv, NEW js \in Store, ToolCall(js), failures' = 0,
           \A id \in JobIds : id = job =>
              \/ js[id] = jobs[id] \/ js[id] = NewJob(id, now)
              \/ ~Present(js, id)
    PROVE  TimerCoversJobs' /\ RunningIsDue'
  <1> USE DEF TimerInv, DueInv
  <1>1. now' = now /\ failures = 0
    BY DEF ToolCall, Edit, EditAndEnd, Write, WriteRaises, TypeOK
  <1>2. CASE Edit(js)
    <2>1. /\ jobs' = js /\ job' = NoJob /\ due' = {} /\ ArmTimer(js)
      BY <1>2, <1>1 DEF Edit, WriteRaises
    <2> QED
      BY <1>1, <2>1, ArmedCovers
  <1>3. CASE EditAndEnd(js) /\ ArmTimer(js)
    <2>1. /\ job \in JobIds /\ jobs' = AfterRun(js, job, now)
          /\ job' = NoJob /\ due' = {}
      BY <1>3 DEF EditAndEnd, Idle, TypeOK
    <2>2. ASSUME NEW id \in JobIds, Scheduled(jobs', id)
          PROVE  Scheduled(js, id)
                 /\ (js[id].next <= jobs'[id].next \/ js[id].next <= now)
      <3>1. CASE id # job
        <4>1. jobs'[id] = js[id] /\ js[id].next \in Nat
          BY <2>1, <3>1, AfterRunJobs, TypedFacts DEF Store, Job
        <4> QED
          BY <2>2, <4>1 DEF Scheduled
      <3>2. CASE id = job
        <4>1. js[id].status = "on"
          BY <2>1, <2>2, <3>2, AfterRunJobs, TypedFacts
        <4>2. CASE js[id] = jobs[id]
          BY <1>1, <3>2, <4>2 DEF RunningIsDue, Scheduled
        <4>3. CASE js[id] = NewJob(id, now)
          <5>1. js[id].next = jobs'[id].next
            BY <2>1, <2>2, <3>2, <4>3, AfterRunJobs, TypedFacts DEF NewJob
          <5> QED
            BY <2>2, <4>1, <5>1, TypedFacts, <2>1, AfterRunType
               DEF Scheduled, Store, Job
        <4> QED
          BY <3>2, <4>1, <4>2, <4>3 DEF Present
      <3> QED
        BY <3>1, <3>2
    <2>3. ASSUME NEW id \in JobIds, Scheduled(jobs', id)
          PROVE  timer' # None /\ (timer' <= jobs'[id].next \/ timer' <= now)
      <3>1. Scheduled(js, id)
            /\ (js[id].next <= jobs'[id].next \/ js[id].next <= now)
        BY <2>2, <2>3
      <3>2. /\ timer' \in Nat /\ timer' # None
            /\ timer' <= js[id].next \/ timer' <= now
        BY <1>3, <3>1, ArmTimerCovers, TypedFacts
      <3>3. jobs'[id].next \in Nat /\ js[id].next \in Nat /\ now \in Nat
        BY <2>1, AfterRunType, TypedFacts DEF Store, Job
      <3> QED
        BY <3>1, <3>2, <3>3
    <2> QED
      BY <1>1, <2>1, <2>3, NoJobAssumption DEF TimerCoversJobs, RunningIsDue
  <1>4. CASE EditAndEnd(js) /\ ~ArmTimer(js)
    <2>1. /\ job \in JobIds /\ jobs' = AfterRun(js, job, now)
          /\ job' = NoJob /\ due' = {} /\ ArmTimer(jobs')
      BY <1>4 DEF EditAndEnd, Idle, TypeOK
    <2>2. jobs' \in Store
      BY <2>1, AfterRunType, TypedFacts
    <2> QED
      BY <1>1, <2>1, <2>2, ArmedCovers
  <1> QED
    BY <1>2, <1>3, <1>4 DEF ToolCall

LEMMA SameTimer ==
    ASSUME TimerInv, UNCHANGED <<now, gateway>>, failures' = 0 => failures = 0
    PROVE  TimerCoversJobs' /\ RunningIsDue'
  BY DEF TimerInv, TimerCoversJobs, RunningIsDue, gateway, Idle

LEMMA NextTimer == TimerInv /\ [Next]_vars => TimerInv'
  <1> SUFFICES ASSUME TimerInv, [Next]_vars PROVE TimerInv'
    OBVIOUS
  <1> USE DEF TimerInv
  <1>1. DueInv'
    BY NextDue
  <1> DEFINE Rest == TimerCoversJobs /\ RunningIsDue
  <1>2. CASE failures' # 0
    BY <1>1, <1>2 DEF TimerCoversJobs, RunningIsDue
  <1> SUFFICES ASSUME failures' = 0 PROVE Rest'
    BY <1>1, <1>2
  <1>3. TypeOK /\ jobs \in Store /\ job \in JobIds \cup {NoJob}
        /\ RunsOnlyWhenUp /\ now \in Nat /\ now # 0 /\ failures \in Nat
    BY TypedFacts DEF DueInv, TypeOK
  <1>4. CASE TimerFires
    <2>1. CASE FinishTick(jobs)
      <3>1. /\ jobs' = jobs /\ job' = NoJob /\ due' = {} /\ now' = now
            /\ ArmTimer(jobs)
        BY <1>3, <1>4, <2>1 DEF TimerFires, FinishTick, WriteRaises
      <3> QED
        BY <1>3, <3>1, ArmedCovers
    <2>2. CASE \E id \in DueJobs(jobs, now) : CallJob(id, DueJobs(jobs, now))
      <3>1. job' \in DueJobs(jobs, now) /\ due' \subseteq DueJobs(jobs, now)
        BY <2>2 DEF CallJob
      <3>2. jobs' = jobs /\ now' = now
        BY <1>4 DEF TimerFires
      <3>3. RunningIsDue'
        BY <3>1, <3>2 DEF RunningIsDue, DueJobs
      <3> QED
        BY <3>1, <3>3, NoJobAssumption DEF TimerCoversJobs, Idle, DueJobs
    <2> QED
      BY <1>4, <2>1, <2>2 DEF TimerFires
  <1>5. CASE JobEnds
    <2>1. job \in JobIds /\ jobs' = AfterRun(jobs, job, now) /\ now' = now
      BY <1>3, <1>5 DEF JobEnds, Idle
    <2>2. jobs' \in Store
      BY <1>3, <2>1, AfterRunType
    <2>3. CASE FinishTick(jobs')
      <3>1. job' = NoJob /\ due' = {} /\ ArmTimer(jobs')
        BY <1>3, <2>3 DEF FinishTick, WriteRaises
      <3> QED
        BY <1>3, <2>1, <2>2, <3>1, ArmedCovers
    <2>4. CASE /\ \E id \in due : CallJob(id, due)
               /\ UNCHANGED <<disk, failures, timer>>
      <3>1. job' \in due /\ due' \subseteq due
        BY <2>4 DEF CallJob
      <3>2. \A id \in due : id \in JobIds /\ id # job
        BY <1>3 DEF TypeOK
      <3>3. \A id \in due : jobs'[id] = jobs[id]
        BY <1>3, <2>1, <3>2, AfterRunJobs
      <3>4. RunningIsDue'
        BY <2>1, <2>4, <3>1, <3>2, <3>3 DEF RunningIsDue, Scheduled
      <3> QED
        BY <3>1, <3>2, <3>4, NoJobAssumption DEF TimerCoversJobs, Idle
    <2> QED
      BY <1>5, <2>3, <2>4 DEF JobEnds
  <1>6. ASSUME NEW id \in JobIds, ToolAdds(id)
        PROVE  Rest'
    <2> DEFINE js == With(jobs, id, NewJob(id, now))
    <2>1. js \in Store
      BY <1>3, WithType, NewJobType
    <2>2. ToolCall(js)
      BY <1>6 DEF ToolAdds
    <2>3. \A o \in JobIds : js[o] = jobs[o] \/ js[o] = NewJob(o, now)
      BY <1>3, WithJobs
    <2> HIDE DEF js
    <2> QED
      BY <2>1, <2>2, <2>3, ToolCallTimer
  <1>7. ASSUME NEW id \in JobIds, ToolRemoves(id)
        PROVE  Rest'
    <2> DEFINE js == With(jobs, id, Absent)
    <2>1. js \in Store
      BY <1>3, WithType, AbsentType
    <2>2. ToolCall(js)
      BY <1>7 DEF ToolRemoves
    <2>3. \A o \in JobIds : js[o] = jobs[o] \/ ~Present(js, o)
      BY <1>3, WithJobs DEF Absent, Present
    <2> HIDE DEF js
    <2> QED
      BY <2>1, <2>2, <2>3, ToolCallTimer
  <1>8. CASE Boot
    BY <1>3, <1>8, NoJobAssumption
       DEF Boot, RunsOnlyWhenUp, TimerCoversJobs, RunningIsDue
  <1>9. CASE Start
    <2>1. job' = NoJob /\ due' = {} /\ now' = now
      BY <1>3, <1>9 DEF Start, RunsOnlyWhenUp
    <2>2. ArmTimer(jobs') /\ jobs' = Recomputed(jobs, now)
      BY <1>3, <1>9 DEF Start, WriteRaises
    <2>3. jobs' \in Store
      BY <1>3, <2>2, RecomputedType
    <2> QED
      BY <1>3, <2>1, <2>2, <2>3, ArmedCovers
  <1>10. CASE Crash
    BY <1>10, NoJobAssumption DEF Crash, TimerCoversJobs, RunningIsDue
  <1>11. CASE CliStep
    <2>1. failures = 0
      BY <1>3, <1>11
         DEF CliStep, CliLoads, CliEnds, CliAdds, CliRemoves, CliEnables,
             CliDisables, CliRuns, CliSaves, Write, WriteRaises
    <2> QED
      BY <1>11, <2>1, CliStepSame, SameTimer
  <1>12. CASE ClockTicks
    <2>1. now' = now + 1 /\ failures' = failures /\ UNCHANGED gateway
      BY <1>12 DEF ClockTicks, counters
    <2>2. jobs \in Store /\ timer \in Nat
      BY DEF DueInv, TypeOK
    <2> QED
      BY <1>3, <2>1, <2>2
         DEF TimerCoversJobs, RunningIsDue, gateway, Idle, Scheduled, Store, Job
  <1>13. CASE UNCHANGED vars
    BY <1>13, SameTimer DEF vars, counters
  <1> QED
    BY <1>4, <1>5, <1>6, <1>7, <1>8, <1>9, <1>10, <1>11, <1>12, <1>13 DEF Next

LEMMA InitTimer == Init => TimerInv
  <1> SUFFICES ASSUME Init PROVE TimerInv
    OBVIOUS
  <1> QED
    BY InitDue, NoJobAssumption
       DEF Init, TimerInv, RunningIsDue, TimerCoversJobs

\* While no save has failed, an idle service has its timer armed early enough
\* for each of its jobs, however executions were aborted (_arm_timer).
THEOREM TimerCovers == Spec => []TimerCoversJobs
  <1>1. TimerInv => TimerCoversJobs
    BY DEF TimerInv
  <1> QED
    BY <1>1, InitTimer, NextTimer, PTL DEF Spec

-----------------------------------------------------------------------------
(* Jobs survive crashes                                                    *)

\* Without cron commands and failing saves, what will be loaded is what was
\* saved: it names the jobs the service holds.
SavedInv ==
    /\ TypeOK
    /\ commands = 0 => cli = Closed
    /\ failures = 0 => disk # Torn
    /\ commands = 0 /\ failures = 0 /\ phase # "down" =>
          \A id \in JobIds : Present(jobs, id) <=> Present(disk, id)

LEMMA NextSaved == SavedInv /\ [Next]_vars => SavedInv'
  <1> SUFFICES ASSUME SavedInv, [Next]_vars PROVE SavedInv'
    OBVIOUS
  <1> USE DEF SavedInv
  <1>1. TypeOK'
    BY NextTyped
  <1>2. /\ jobs \in Store /\ now \in Nat
        /\ failures \in Nat /\ commands \in Nat
    BY DEF TypeOK, Time
  <1>3. \A js \in Store : js # Torn
    BY TornAssumption
  <1>4. CASE TimerFires
    BY <1>1, <1>2, <1>3, <1>4
       DEF TimerFires, FinishTick, Write, WriteRaises
  <1>5. CASE JobEnds
    <2>1. jobs' = AfterRun(jobs, job, now) /\ job \in JobIds /\ jobs' \in Store
      BY <1>1, <1>5 DEF JobEnds, Idle, TypeOK
    <2>2. \A id \in JobIds : Present(jobs', id) <=> Present(jobs, id)
      BY <1>2, <2>1, AfterRunJobs
    <2> QED
      BY <1>1, <1>2, <1>3, <1>5, <2>1, <2>2
         DEF JobEnds, FinishTick, Write, WriteRaises
  <1>6. ASSUME NEW js \in Store, ToolCall(js)
        PROVE  SavedInv'
    <2>1. CASE Edit(js)
      BY <1>1, <1>2, <1>3, <1>6, <2>1 DEF ToolCall, Edit, Write, WriteRaises
    <2>2. CASE EditAndEnd(js)
      <3>1. jobs' = AfterRun(js, job, now) /\ job \in JobIds /\ jobs' \in Store
        BY <1>1, <2>2 DEF EditAndEnd, Idle, TypeOK
      <3>2. \A id \in JobIds : Present(jobs', id) <=> Present(js, id)
        BY <1>2, <3>1, AfterRunJobs
      <3> QED
        BY <1>1, <1>2, <1>3, <1>6, <2>2, <3>1, <3>2
           DEF ToolCall, EditAndEnd, Write
    <2> QED
      BY <1>6, <2>1, <2>2 DEF ToolCall
  <1>7. ASSUME NEW id \in JobIds, ToolAdds(id) \/ ToolRemoves(id)
        PROVE  SavedInv'
    <2>1. /\ With(jobs, id, NewJob(id, now)) \in Store
          /\ With(jobs, id, Absent) \in Store
      BY <1>2, WithType, NewJobType, AbsentType
    <2> QED
      BY <1>6, <1>7, <2>1 DEF ToolAdds, ToolRemoves
  <1>8. CASE Boot
    BY <1>1, <1>8 DEF Boot, Loaded, counters
  <1>9. CASE Start
    <2>1. Recomputed(jobs, now) \in Store
      BY <1>2, RecomputedType
    <2>2. \A id \in JobIds :
             Present(Recomputed(jobs, now), id) <=> Present(jobs, id)
      BY DEF Recomputed, Present, NewJob
    <2> QED
      BY <1>1, <1>2, <1>3, <1>9, <2>1, <2>2 DEF Start, Write, WriteRaises
  <1>10. CASE Crash
    BY <1>1, <1>10 DEF Crash
  <1>11. CASE CliStep
    <2>1. commands' # 0
      BY <1>2, <1>11
         DEF CliStep, CliLoads, CliEnds, CliAdds, CliRemoves, CliEnables,
             CliDisables, CliRuns, CliSaves
    <2>2. failures' = 0 => disk' # Torn
      <3>1. CASE CliLoads \/ CliEnds
        BY <1>2, <3>1 DEF CliLoads, CliEnds, WriteRaises
      <3>2. ASSUME NEW js \in Store, CliSaves(js)
            PROVE  disk' # Torn
        BY <1>3, <3>2 DEF CliSaves, Write
      <3>3. ASSUME NEW id \in JobIds, cli # Closed
            PROVE  /\ With(cli, id, NewJob(id, now)) \in Store
                   /\ With(cli, id, Absent) \in Store
                   /\ With(cli, id, [status |-> "off", next |-> None]) \in Store
                   /\ AfterRun(cli, id, now) \in Store
        <4>1. cli \in Store /\ [status |-> "off", next |-> None] \in Job
          BY <3>3 DEF TypeOK, Job, None
        <4> QED
          BY <1>2, <4>1, WithType, NewJobType, AbsentType, AfterRunType
      <3>4. ASSUME NEW id \in JobIds,
                   \/ CliAdds(id) \/ CliRemoves(id) \/ CliEnables(id)
                   \/ CliDisables(id) \/ CliRuns(id)
            PROVE  disk' # Torn
        BY <3>2, <3>3, <3>4
           DEF CliAdds, CliRemoves, CliEnables, CliDisables, CliRuns, CliSaves
      <3> QED
        BY <1>11, <3>1, <3>4 DEF CliStep
    <2> QED
      BY <1>1, <2>1, <2>2
  <1>12. CASE ClockTicks \/ UNCHANGED vars
    BY <1>1, <1>12 DEF ClockTicks, vars, gateway, counters, Present
  <1> QED
    BY <1>4, <1>5, <1>7, <1>8, <1>9, <1>10, <1>11, <1>12 DEF Next

\* A crash at any moment loses no job that was added and revives none that was
\* removed, as long as no cron command runs and no save fails.
THEOREM JobsSurvive == Spec => []JobsSurviveCrashes
  <1>1. Init => SavedInv
    <2> SUFFICES ASSUME Init PROVE SavedInv
      OBVIOUS
    <2>1. disk \in Store
      BY NewJobType, AbsentType DEF Init, Store
    <2> QED
      BY <2>1, InitTyped, TornAssumption DEF Init, SavedInv
  <1>2. SavedInv => JobsSurviveCrashes
    BY DEF SavedInv, JobsSurviveCrashes
  <1> QED
    BY <1>1, <1>2, NextSaved, PTL DEF Spec
=============================================================================
