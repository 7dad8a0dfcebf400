SPECIFICATION Spec
CONSTANTS
    m1 = m1
    m2 = m2
    m3 = m3
    p1 = p1
    Users <- ThreeUsers
    Triggers <- OneTrigger
    Decisions <- EveryKind
    MaxTimeouts = 2
    MaxFailures = 2
    MaxInterrupts = 2
    MaxEmptyRetries = 1
    InterruptEnabled = TRUE
    SuppressEarlyWake = TRUE
    DeferEnabled = TRUE
    LLMFaults = TRUE
    ClockCrosses = TRUE
CHECK_DEADLOCK FALSE
INVARIANTS TypeOK TimeoutsBounded NoTrappedMessage SuppressedQueued
PROPERTY InboxSpec
