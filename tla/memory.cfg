CONSTANTS
    Jobs = {j1}
    j1 = j1
    j2 = j2
    EveryRounds = 2
    KeptStories = 1
    MaxClock = 4
SPECIFICATION Spec
INVARIANTS NoOldSummary CleanAfterClear StoryThere FactsApart
CHECK_DEADLOCK FALSE
