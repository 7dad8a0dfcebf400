SPECIFICATION FairSpec
CONSTANTS
    MaxSchedules = 1
    MaxIntents = 0
    MaxItems = 0
    MaxActivity = 1
    MaxFailures = 1
    MaxCrashes = 1
CHECK_DEADLOCK FALSE
PROPERTIES ScheduleServed ClaimResolved
