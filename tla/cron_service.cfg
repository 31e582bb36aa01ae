SPECIFICATION FairSpec
CONSTANTS
    JobIds <- MCJobIds
    Schedule <- MCSchedule
    Preset <- MCPreset
    NoJob = NoJob
    Torn = Torn
    Closed = Closed
    MaxTime = 3
    MaxCommands = 1
    MaxCalls = 2
    MaxFailures = 1
    MaxCrashes = 1
INVARIANTS
    TypeOK
    TimerCoversJobs
    JobsSurviveCrashes
PROPERTIES
    EveryStartIsDue
    EveryScheduledJobRuns
CHECK_DEADLOCK FALSE
