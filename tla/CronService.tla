----------------------------- MODULE CronService -----------------------------
(***************************************************************************)
(* The cron service of a gateway, the file jobs.json, and the cron CLI,    *)
(* which is a second process that reads and writes the same file.          *)
(*                                                                         *)
(* The gateway's event loop runs one task at a time: each action below     *)
(* runs up to the next suspension of the timer task (its sleep, or the LLM *)
(* call of the job it executes).  A job is held in memory and executed by  *)
(* reference; the order of the job list only decides which due job runs    *)
(* first, so the store is a function and the order is left open.           *)
(***************************************************************************)
EXTENDS Naturals

CONSTANTS
    JobIds,             \* the ids add_job may draw (uuid4)
    Schedule,           \* id -> its schedule, which no operation changes
    Preset,             \* ids of the jobs that jobs.json holds at first
    NoJob,              \* nothing is being executed
    Torn,               \* jobs.json cut short by a write that failed
    Closed,             \* no cron command is running
    MaxTime,            \* bound: the last instant
    MaxCommands,        \* bound: cron commands (CLI)
    MaxCalls,           \* bound: jobs added and removed by the cron tool
    MaxFailures,        \* bound: writes that raise
    MaxCrashes          \* bound: ends of the gateway process

\* when: the instant of an "at" job, else the interval; 0: an interval or an
\* expression that _compute_next_run rejects.
ASSUME ScheduleAssumption ==
    Schedule \in [JobIds -> [kind : {"at", "every"}, when : Nat]]
ASSUME PresetAssumption == Preset \subseteq JobIds
ASSUME NoJobAssumption == NoJob \notin JobIds
ASSUME TimeAssumption == MaxTime \in Nat \ {0}
ASSUME BoundsAssumption ==
    /\ MaxCommands \in Nat /\ MaxCalls \in Nat
    /\ MaxFailures \in Nat /\ MaxCrashes \in Nat

VARIABLES
    now,                \* _now_ms()
    disk,               \* the contents of jobs.json
    phase,              \* the gateway: "down", "loaded", "up" (_running)
    jobs,               \* its _store
    timer,              \* when the sleeping _timer_task wakes, or None
    job,                \* the job _on_timer executes, or NoJob
    due,                \* the due jobs it has yet to execute
    cli,                \* the store a cron command has loaded
    used,               \* the ids drawn so far
    begun,              \* the jobs whose callback has ever been called
    ended,              \* id -> when its last execution ended
    commands, calls, failures, crashes

gateway == <<phase, jobs, timer, job, due>>
observed == <<used, begun, ended>>
counters == <<commands, calls, failures, crashes>>
vars == <<now, disk, cli, gateway, observed, counters>>

None == 0               \* next_run_at_ms and _get_next_wake_ms: no time
Time == 1..MaxTime

Job == [status : {"absent", "on", "off"}, next : Nat]
Store == [JobIds -> Job]
Absent == [status |-> "absent", next |-> None]
EmptyStore == [id \in JobIds |-> Absent]

ASSUME TornAssumption == Torn \notin Store
ASSUME ClosedAssumption == Closed \notin Store

TypeOK ==
    /\ now \in Time
    /\ disk \in Store \cup {Torn}
    /\ phase \in {"down", "loaded", "up"}
    /\ jobs \in Store
    /\ timer \in Nat
    /\ job \in JobIds \cup {NoJob}
    /\ due \subseteq JobIds \ {job}
    /\ cli \in Store \cup {Closed}
    /\ used \subseteq JobIds /\ begun \subseteq JobIds
    /\ ended \in [JobIds -> 0..MaxTime]
    /\ commands \in Nat /\ calls \in Nat
    /\ failures \in Nat /\ crashes \in Nat

-----------------------------------------------------------------------------
(* Schedules and stores                                                    *)

\* Mutation: an instant that is now is still to come.
NextRunFromNow(id, t) ==
    LET s == Schedule[id]
    IN  IF s.kind = "at" /\ s.when >= t THEN s.when
        ELSE IF s.kind = "every" /\ s.when > 0 THEN t + s.when
        ELSE None

\* _compute_next_run.  An expression fires at some later instant: an interval.
NextRun(id, t) ==
    LET s == Schedule[id]
    IN  IF s.kind = "at" /\ s.when > t THEN s.when
        ELSE IF s.kind = "every" /\ s.when > 0 THEN t + s.when
        ELSE None

NewJob(id, t) == [status |-> "on", next |-> NextRun(id, t)]
With(js, id, j) == [js EXCEPT ![id] = j]
Present(js, id) == js[id].status # "absent"
Scheduled(js, id) == js[id].status = "on" /\ js[id].next # None

\* _recompute_next_runs.
Recomputed(js, t) ==
    [id \in JobIds |-> IF js[id].status = "on" THEN NewJob(id, t) ELSE js[id]]

\* _on_timer's list of due jobs.
DueJobs(js, t) == {id \in JobIds : Scheduled(js, id) /\ js[id].next <= t}

\* Mutation: a one-shot job stays enabled and keeps its time.
AfterRunEnabled(js, id, t) ==
    IF ~Present(js, id) \/ Schedule[id].kind = "at" THEN js
    ELSE With(js, id, [status |-> js[id].status, next |-> NextRun(id, t)])

\* The end of _execute_job, successful or not: a one-shot job is disabled.  A
\* job removed meanwhile is no longer in the store.
AfterRun(js, id, t) ==
    IF ~Present(js, id) THEN js
    ELSE With(js, id, IF Schedule[id].kind = "at"
                        THEN [status |-> "off", next |-> None]
                        ELSE [status |-> js[id].status,
                              next   |-> NextRun(id, t)])

\* _load_store: a file that cannot be parsed is an empty store.
Loaded == IF disk = Torn THEN EmptyStore ELSE disk

\* Mutation: the timer sleeps until the last job.
ArmTimerLast(js) ==
    \/ /\ \A id \in JobIds : ~Scheduled(js, id)
       /\ timer' = None
    \/ \E id \in JobIds :
          /\ Scheduled(js, id)
          /\ \A o \in JobIds : Scheduled(js, o) => js[o].next <= js[id].next
          /\ timer' = IF js[id].next > now THEN js[id].next ELSE now

\* _arm_timer while the service is running: the earliest job decides.
ArmTimer(js) ==
    \/ /\ \A id \in JobIds : ~Scheduled(js, id)
       /\ timer' = None
    \/ \E id \in JobIds :
          /\ Scheduled(js, id)
          /\ \A o \in JobIds : Scheduled(js, o) => js[id].next <= js[o].next
          /\ timer' = IF js[id].next > now THEN js[id].next ELSE now

\* _save_store writes the file, or raises and may leave it torn.
Write(js) == disk' = js /\ UNCHANGED failures
WriteRaises ==
    /\ failures < MaxFailures
    /\ failures' = failures + 1
    /\ disk' \in {disk, Torn}

-----------------------------------------------------------------------------
(* The timer task                                                          *)

Idle == job = NoJob

\* Mutation: the job in execution stays on the list.
CallJobAgain(id, ds) ==
    /\ id \in ds
    /\ job' = id /\ due' = ds
    /\ begun' = begun \cup {id}

\* One turn of the loop over the due jobs ds: on_job is called and suspends.
CallJob(id, ds) ==
    /\ id \in ds
    /\ job' = id /\ due' = ds \ {id}
    /\ begun' = begun \cup {id}

\* Mutation: the timer is not armed again.
FinishTickUnarmed(js) ==
    /\ job' = NoJob /\ due' = {}
    /\ \/ Write(js) /\ timer' = None
       \/ WriteRaises /\ timer' = None
    /\ UNCHANGED begun

\* The end of _on_timer.  If saving raises, the task ends without arming the
\* timer again.
FinishTick(js) ==
    /\ job' = NoJob /\ due' = {}
    /\ \/ Write(js) /\ ArmTimer(js)
       \/ WriteRaises /\ timer' = None
    /\ UNCHANGED begun

\* The timer task wakes and starts on the due jobs.
TimerFires ==
    /\ phase = "up" /\ Idle
    /\ timer # None /\ timer <= now
    /\ LET ds == DueJobs(jobs, now)
       IN  \/ /\ \E id \in ds : CallJob(id, ds)
              /\ timer' = None
              /\ UNCHANGED <<disk, failures>>
           \/ ds = {} /\ FinishTick(jobs)
    /\ UNCHANGED <<now, phase, jobs, cli, used, ended, commands,
                   calls, crashes>>

\* The job's turn ends or raises; the next due job follows, whatever became of
\* it since the list was made.
JobEnds ==
    /\ ~Idle
    /\ ended' = [ended EXCEPT ![job] = now]
    /\ jobs' = AfterRun(jobs, job, now)
    /\ \/ /\ \E id \in due : CallJob(id, due)
          /\ UNCHANGED <<disk, failures, timer>>
       \/ due = {} /\ FinishTick(jobs')
    /\ UNCHANGED <<now, phase, cli, used, commands, calls, crashes>>

-----------------------------------------------------------------------------
(* The cron tool                                                           *)

\* Mutation: the timer is armed, but nothing is saved.
EditUnsaved(js) ==
    /\ jobs' = js
    /\ ArmTimer(js)
    /\ job' = NoJob /\ due' = {}
    /\ UNCHANGED <<disk, failures, begun, ended>>

\* add_job and remove_job save and arm the timer, which cancels the task that
\* executes a job: it ends at its next await, leaving no trace in the store.
\* When a save raises, the change stays in memory only.
Edit(js) ==
    \/ /\ jobs' = js
       /\ Write(js) /\ ArmTimer(js)
       /\ job' = NoJob /\ due' = {}
       /\ UNCHANGED <<begun, ended>>
    \/ /\ jobs' = js
       /\ WriteRaises
       /\ UNCHANGED <<timer, job, due, begun, ended>>

\* The job in execution makes the change as its last tool call and has no
\* await left: it ends first.  With jobs left on its list the task calls the
\* next one and is cancelled in its await, otherwise it saves and arms again.
EditAndEnd(js) ==
    /\ ~Idle
    /\ ended' = [ended EXCEPT ![job] = now]
    /\ jobs' = AfterRun(js, job, now)
    /\ job' = NoJob /\ due' = {}
    /\ \/ /\ \E id \in due : begun' = begun \cup {id}
          /\ Write(js) /\ ArmTimer(js)
       \/ /\ due = {} /\ UNCHANGED begun
          /\ Write(jobs') /\ ArmTimer(jobs')
       \/ /\ due = {} /\ UNCHANGED begun
          /\ failures < MaxFailures /\ failures' = failures + 1
          /\ disk' \in {js, Torn} /\ ArmTimer(js)

\* CronTool.execute, in a turn of the loop, the heartbeat or a job.
ToolCall(js) ==
    /\ phase = "up"
    /\ calls < MaxCalls
    /\ calls' = calls + 1
    /\ Edit(js) \/ EditAndEnd(js)
    /\ UNCHANGED <<now, phase, cli, commands, crashes>>

\* The tool offers no one-shot jobs.
ToolAdds(id) ==
    /\ id \notin used /\ Schedule[id].kind = "every"
    /\ used' = used \cup {id}
    /\ ToolCall(With(jobs, id, NewJob(id, now)))

ToolRemoves(id) ==
    /\ Present(jobs, id)
    /\ UNCHANGED used
    /\ ToolCall(With(jobs, id, Absent))

-----------------------------------------------------------------------------
(* The gateway process                                                     *)

\* cron.status() loads the store before the event loop starts.
Boot ==
    /\ phase = "down"
    /\ phase' = "loaded"
    /\ jobs' = Loaded
    /\ UNCHANGED <<now, disk, cli, timer, job, due, observed, counters>>

\* CronService.start; if saving raises, the gateway ends.
Start ==
    /\ phase = "loaded"
    /\ \/ /\ phase' = "up"
          /\ jobs' = Recomputed(jobs, now)
          /\ Write(jobs') /\ ArmTimer(jobs')
       \/ /\ phase' = "down"
          /\ jobs' = EmptyStore
          /\ WriteRaises /\ UNCHANGED timer
    /\ UNCHANGED <<now, cli, job, due, observed, commands, calls, crashes>>

\* The gateway is killed or interrupted.
Crash ==
    /\ phase # "down"
    /\ crashes < MaxCrashes
    /\ crashes' = crashes + 1
    /\ phase' = "down"
    /\ jobs' = EmptyStore
    /\ timer' = None /\ job' = NoJob /\ due' = {}
    /\ UNCHANGED <<now, disk, cli, observed, commands, calls, failures>>

-----------------------------------------------------------------------------
(* The cron CLI: a process without a timer and without a callback          *)

CliLoads ==
    /\ cli = Closed
    /\ commands < MaxCommands
    /\ commands' = commands + 1
    /\ cli' = Loaded
    /\ UNCHANGED <<now, disk, gateway, observed, calls, failures, crashes>>

\* A command saves its store and ends.
CliSaves(js) ==
    /\ cli # Closed
    /\ cli' = Closed
    /\ Write(js)
    /\ UNCHANGED <<now, gateway, begun, ended, commands, calls, crashes>>

CliAdds(id) ==
    /\ id \notin used
    /\ CliSaves(With(cli, id, NewJob(id, now)))
    /\ used' = used \cup {id}

CliRemoves(id) ==
    /\ cli # Closed /\ Present(cli, id)
    /\ CliSaves(With(cli, id, Absent))
    /\ UNCHANGED used

CliEnables(id) ==
    /\ cli # Closed /\ Present(cli, id)
    /\ CliSaves(With(cli, id, NewJob(id, now)))
    /\ UNCHANGED used

CliDisables(id) ==
    /\ cli # Closed /\ Present(cli, id)
    /\ CliSaves(With(cli, id, [status |-> "off", next |-> None]))
    /\ UNCHANGED used

\* run_job, forced or not: without a callback the job counts as executed.
CliRuns(id) ==
    /\ cli # Closed /\ Present(cli, id)
    /\ CliSaves(AfterRun(cli, id, now))
    /\ UNCHANGED used

\* The command lists, finds nothing to do, or fails to save.
CliEnds ==
    /\ cli # Closed
    /\ cli' = Closed
    /\ \/ UNCHANGED <<disk, failures>>
       \/ WriteRaises
    /\ UNCHANGED <<now, gateway, observed, commands, calls, crashes>>

-----------------------------------------------------------------------------
ClockTicks ==
    /\ now < MaxTime
    /\ now' = now + 1
    /\ UNCHANGED <<disk, cli, gateway, observed, counters>>

Init ==
    /\ now = 1
    /\ disk = [id \in JobIds |-> IF id \in Preset THEN NewJob(id, 1)
                                                  ELSE Absent]
    /\ phase = "down" /\ jobs = EmptyStore
    /\ timer = None /\ job = NoJob /\ due = {}
    /\ cli = Closed
    /\ used = Preset /\ begun = {}
    /\ ended = [id \in JobIds |-> 0]
    /\ commands = 0 /\ calls = 0 /\ failures = 0 /\ crashes = 0

CliStep ==
    \/ CliLoads \/ CliEnds
    \/ \E id \in JobIds : CliAdds(id) \/ CliRemoves(id) \/ CliEnables(id)
                          \/ CliDisables(id) \/ CliRuns(id)

Next ==
    \/ TimerFires \/ JobEnds
    \/ \E id \in JobIds : ToolAdds(id) \/ ToolRemoves(id)
    \/ Boot \/ Start \/ Crash
    \/ CliStep
    \/ ClockTicks

Spec == Init /\ [][Next]_vars

\* Time passes, the timer task gets its turn and the turn of a job ends.
Fairness == WF_vars(ClockTicks) /\ WF_vars(TimerFires) /\ WF_vars(JobEnds)

FairSpec == Spec /\ Fairness
-----------------------------------------------------------------------------
(* Properties                                                              *)

\* While no save has failed, an idle service has its timer armed for the
\* earliest of its jobs or earlier, whatever order of ticks, additions,
\* removals and aborted executions led there (_arm_timer).
TimerCoversJobs ==
    failures = 0 /\ phase = "up" /\ Idle =>
        \A id \in JobIds :
            Scheduled(jobs, id) =>
                timer # None /\ (timer <= jobs[id].next \/ timer <= now)

Starts(id) == job' = id /\ job # id

IsDue(id) ==
    /\ Schedule[id].kind = "at" => now >= Schedule[id].when /\ ended[id] = 0
    /\ Schedule[id].kind = "every" =>
          ended[id] = 0 \/ now >= ended[id] + Schedule[id].when

\* No job starts too early or once too often, across restarts, lost saves,
\* torn files and cron commands: a one-shot job not before its time nor after
\* an execution of it has ended, a recurring job not sooner than its interval
\* after its last execution (_compute_next_run, _execute_job).
EveryStartIsDue ==
    [][\A id \in JobIds : Starts(id) => IsDue(id)]_vars

\* As long as no cron command runs and no save fails, jobs.json names exactly
\* the jobs of the running service, so that a crash at any moment loses no
\* job that was added and revives none that was removed.
JobsSurviveCrashes ==
    commands = 0 /\ failures = 0 /\ phase = "up" =>
        /\ disk # Torn
        /\ \A id \in JobIds : Present(jobs, id) <=> Present(disk, id)

\* A job whose time comes is executed, unless it is removed, the gateway ends
\* or a save fails.  Turns use the cron tool, which aborts the job in
\* execution, finitely often.
EveryScheduledJobRuns ==
    \A id \in JobIds :
        (phase = "up" /\ Scheduled(jobs, id) /\ jobs[id].next <= MaxTime)
            ~> (job = id \/ ~Scheduled(jobs, id) \/ phase # "up" \/ failures > 0)

\* A one-shot job is started once: "Run once at time" (cron add --at).
OneShotStartsOnce ==
    [][\A id \in begun : Schedule[id].kind = "at" => ~Starts(id)]_vars

=============================================================================
