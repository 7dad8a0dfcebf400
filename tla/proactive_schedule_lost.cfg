SPECIFICATION Spec
CONSTANTS
    MaxSchedules = 2
    MaxIntents = 0
    MaxItems = 0
    MaxActivity = 1
    MaxFailures = 0
    MaxCrashes = 0
CHECK_DEADLOCK FALSE
PROPERTY ScheduleKept
