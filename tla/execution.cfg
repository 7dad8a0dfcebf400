CONSTANTS
    Shapes <- MCShapes
    CallIds = {"a", "f1", "f2", "f3"}
    FreshIds <- MCFreshIds
    Histories <- MCHistories
    MaxCalls = 3
    MaxEmptyRetries = 1
SPECIFICATION Spec
CHECK_DEADLOCK FALSE
INVARIANTS RoundAddsTurn ReportedIsGot RunInOrder NothingSaidUnread RetryOnlyEmpty
