SPECIFICATION EitherSpec
CONSTANTS
    m1 = m1
    m2 = m2
    m3 = m3
    p1 = p1
    Users <- TwoUsers
    Triggers <- OneTrigger
    Decisions <- MainKinds
    MaxTimeouts = 2
    MaxFailures = 2
    MaxInterrupts = 2
    MaxEmptyRetries = 1
    InterruptEnabled = TRUE
    SuppressEarlyWake = FALSE
    DeferEnabled = TRUE
    LLMFaults = FALSE
    ClockCrosses = FALSE
CHECK_DEADLOCK FALSE
INVARIANTS NotWaitingInFlight NoTurnBesideBuffer
PROPERTIES EveryMessageSeen ExpiredWaitHandled
