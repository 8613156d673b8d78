SPECIFICATION FairSpec
CONSTANTS
    Event = {1}
    Dispatcher = {d1, d2}
    Operator = {o1}
    Outcomes <- Acknowledged
    ReplayResets = {TRUE, FALSE}
    BatchSize = 2
    MaxAttempts = 2
    RetryBase = 1
    MaxCrashes = 0
    MaxReplays = 0
    MaxUnsure = 0
    NoEvent = NoEvent
CHECK_DEADLOCK FALSE
PROPERTY PublishedFinal
