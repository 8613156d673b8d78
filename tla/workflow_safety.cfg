CONSTANTS
    r1 = r1
    r2 = r2
    r3 = r3
    t1 = t1
    t2 = t2
    pass = pass
    manual = manual
    Request = {r1, r2, r3}
    Transcript = {t1, t2}
    NoTranscript = NoTranscript
    Verdict = {pass, manual}
    ManualReview = manual
    NoVerdict = NoVerdict
    NoRequest = NoRequest
    STEPS <- FiveStages
    MaxRuns = 2
    MaxChanges = 1
    MaxFaults = 1

SPECIFICATION MCSpec
SYMMETRY Symmetry
INVARIANTS
    TypeOK
    SucceededComplete
    OneSnapshot
    StagesPassOnce
    LettersOnce
CHECK_DEADLOCK FALSE
