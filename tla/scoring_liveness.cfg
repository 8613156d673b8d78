SPECIFICATION FairSpec
CONSTANTS
    Job = {1, 2}
    a1 = a1
    a2 = a2
    App = {a1}
    AppOf <- MCAppOf
    Worker = {w1, w2}
    Operator = {o1}
    Verdict = {pass}
    ReplayResets = {TRUE, FALSE}
    MaxAttempts = 2
    ClaimTries = 2
    LeaseSeconds = 1
    RetryBase = 1
    MaxCrashes = 1
    MaxReplays = 1
    NoVerdict = NoVerdict
    NoJob = NoJob
PROPERTIES ImplementsLifecycle CompletedFinal JobSettles WaitEnds
