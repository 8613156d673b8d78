SPECIFICATION Spec
CONSTANTS
    Job = {1, 2}
    a1 = a1
    a2 = a2
    App = {a1}
    AppOf <- MCAppOf
    Worker = {w1, w2}
    Operator = {o1, o2}
    Verdict = {pass, reject}
    ReplayResets = {TRUE, FALSE}
    MaxAttempts = 2
    ClaimTries = 2
    LeaseSeconds = 1
    RetryBase = 1
    MaxCrashes = 1
    MaxReplays = 2
    NoVerdict = NoVerdict
    NoJob = NoJob
SYMMETRY Symmetry
INVARIANTS TypeOK ClaimGrounded IssuedOnce CompletedDecided DeadLetterExhausted
PROPERTY DecisionFinal
