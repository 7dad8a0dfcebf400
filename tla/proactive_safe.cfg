SPECIFICATION Spec
CONSTANTS
    MaxSchedules = 1
    MaxIntents = 1
    MaxItems = 1
    MaxActivity = 1
    MaxFailures = 1
    MaxCrashes = 0
CONSTRAINT PlanApart
CHECK_DEADLOCK FALSE
INVARIANT TypeOK
PROPERTIES OutreachSpec NoStaleContact SpacedOut
