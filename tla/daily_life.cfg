SPECIFICATION Spec
CONSTANTS
    Slots = 3
    TwoHours = 1
    MaxPlans = 2
    MaxObservations = 1
    PlanTimes <- SomeTimes
    MaxTime = 6
    MaxItems = 3
CHECK_DEADLOCK FALSE
INVARIANTS SavedIsSeen NotOver PlaceBacked
PROPERTY DiarySpec
