CONSTANTS
    r1 = r1
    r2 = r2
    t1 = t1
    t2 = t2
    pass = pass
    manual = manual
    Request = {r1, r2}
    Transcript = {t1, t2}
    NoTranscript = NoTranscript
    Verdict = {pass, manual}
    ManualReview = manual
    NoVerdict = NoVerdict
    NoRequest = NoRequest
    STEPS <- AllStages
    MaxRuns = 2
    MaxChanges = 0
    MaxFaults = 0

SPECIFICATION Spec
PROPERTIES
    LetterMatchesDecision
CHECK_DEADLOCK FALSE
