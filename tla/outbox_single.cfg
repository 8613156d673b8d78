SPECIFICATION Spec
CONSTANTS
    Event = {1, 2}
    Dispatcher = {d1}
    Operator = {o1}
    Outcomes <- AnyOutcome
    ReplayResets = {TRUE, FALSE}
    BatchSize = 2
    MaxAttempts = 3
    RetryBase = 1
    MaxCrashes = 1
    MaxReplays = 2
    MaxUnsure = 1
    NoEvent = NoEvent
CHECK_DEADLOCK FALSE
INVARIANT DeadLetterExhausted
PROPERTY PublishedFinal
