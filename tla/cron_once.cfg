SPECIFICATION Spec
CONSTANTS
    JobIds <- MCJobIds
    Schedule <- MCSchedule
    Preset <- MCPreset
    NoJob = NoJob
    Torn = Torn
    Closed = Closed
    MaxTime = 3
    MaxCommands = 0
    MaxCalls = 1
    MaxFailures = 0
    MaxCrashes = 0
PROPERTIES
    OneShotStartsOnce
CHECK_DEADLOCK FALSE
