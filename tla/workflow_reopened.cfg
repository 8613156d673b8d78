CONSTANTS
    r1 = r1
    r2 = r2
    r3 = r3
    r4 = r4
    t1 = t1
    manual = manual
    Request = {r1, r2, r3, r4}
    Transcript = {t1}
    NoTranscript = NoTranscript
    Verdict = {manual}
    ManualReview = manual
    NoVerdict = NoVerdict
    NoRequest = NoRequest
    STEPS <- FiveStages
    MaxRuns = 1
    MaxChanges = 1
    MaxFaults = 0

SPECIFICATION Spec
SYMMETRY Symmetry
INVARIANT NeverReexecuted
CHECK_DEADLOCK FALSE
