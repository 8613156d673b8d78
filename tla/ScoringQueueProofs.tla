------------------------- MODULE ScoringQueueProofs -------------------------
(***************************************************************************)
(* Proofs about ScoringQueue, for every set of jobs, applications, workers *)
(* and operators and every attempt limit.  The argument: the row locks     *)
(* keep the committed rows under an open transaction still, so what the    *)
(* transaction read is what its commit replaces.                           *)
(***************************************************************************)
EXTENDS ScoringQueue, TLAPS

USE DEF jobVars, workerVars, boundVars

-----------------------------------------------------------------------------
(* Types.                                                                  *)

\* Every write to a job row keeps its type.
LEMMA RowTypes ==
    ASSUME NEW row \in JobRow, NEW t \in Nat, clock \in Nat
    PROVE  /\ Claimed(row, t) \in JobRow
           /\ Completed(row) \in JobRow
           /\ Failed(row) \in JobRow
           /\ Requeued(row) \in JobRow
           /\ \A reset \in BOOLEAN : Replayed(row, reset) \in JobRow
<1>1. Claimed(row, t) \in JobRow
  BY ConstantsAssumption DEF Claimed, JobRow, JobStatus
<1>2. Completed(row) \in JobRow /\ Failed(row) \in JobRow
  BY DEF Completed, Failed, Closed, JobRow, JobStatus, NoLease
<1>3. Requeued(row) \in JobRow
  <2>1. RetryDelay(row.attempts) \in Int
    BY ConstantsAssumption DEF RetryDelay, JobRow
  <2> QED BY <2>1 DEF Requeued, JobRow, JobStatus, NoLease
<1>4. \A reset \in BOOLEAN : Replayed(row, reset) \in JobRow
  BY DEF Replayed, JobRow, JobStatus
<1> QED BY <1>1, <1>2, <1>3, <1>4

\* What a worker's end of turn leaves is typed.
LEMMA StopTypes ==
    ASSUME TypeOK, NEW w \in Worker, Stop(w)
    PROVE  /\ pc' \in [Worker -> WorkerState]
           /\ cand' \in [Worker -> Job \cup {NoJob}]
           /\ now' \in [Worker -> Nat]
           /\ tries' \in [Worker -> Nat]
           /\ jobCopy' \in [Worker -> JobRow]
           /\ appCopy' \in [Worker -> AppRow]
<1>1. AbsentJob \in JobRow
  BY DEF AbsentJob, NewJob, JobRow, JobStatus, NoLease
<1>2. FreshApp \in AppRow
  BY DEF FreshApp, AppRow, AppStatus
<1> QED BY <1>1, <1>2 DEF TypeOK, Stop, WorkerState

LEMMA TypeInit == Init => TypeOK
BY DEF Init, TypeOK, AbsentJob, NewJob, FreshApp, JobRow, JobStatus, NoLease, AppRow,
       AppStatus, WorkerState

\* Finish keeps the types when the rows it is given have them.
LEMMA FinishTypes ==
    ASSUME TypeOK, NEW w \in Worker, NEW row \in JobRow, NEW a \in AppRow,
           Finish(w, row, a)
    PROVE  TypeOK'
BY DEF TypeOK, Finish, WorkerState

\* Every outcome of scoring is typed.
LEMMA ScoreTypes ==
    ASSUME TypeOK, NEW w \in Worker, Score(w)
    PROVE  TypeOK'
<1> DEFINE row == jobCopy[w]  a == appCopy[w]
<1>1. row \in JobRow /\ a \in AppRow /\ clock \in Nat
  BY DEF TypeOK
<1>2. Completed(row) \in JobRow /\ Failed(row) \in JobRow /\ Requeued(row) \in JobRow
  BY <1>1, RowTypes
<1>3. CASE SkipDecided(w)
  BY <1>1, <1>2, <1>3, FinishTypes DEF SkipDecided
<1>4. ASSUME NEW v \in Verdict, ScoreSucceeds(w, v)
      PROVE  TypeOK'
  <2>1. [status |-> "decision", decision |-> v, issued |-> a.issued + 1] \in AppRow
    BY <1>1 DEF AppRow, AppStatus
  <2> QED BY <1>2, <1>4, <2>1, FinishTypes DEF ScoreSucceeds
<1>5. ASSUME NEW b \in AppRow, FailOrRetry(w, b)
      PROVE  TypeOK'
  <2>1. [b EXCEPT !.status = "scoring_failed"] \in AppRow
    BY DEF AppRow, AppStatus
  <2>2. [b EXCEPT !.status = "scoring_retry_pending"] \in AppRow
    BY DEF AppRow, AppStatus
  <2> QED BY <1>2, <1>5, <2>1, <2>2, FinishTypes DEF FailOrRetry
<1>6. CASE ScoreFailsEarly(w)
  BY <1>1, <1>5, <1>6 DEF ScoreFailsEarly
<1>7. ASSUME NEW v \in Verdict, ScoreFailsLate(w, v)
      PROVE  TypeOK'
  <2>1. [a EXCEPT !.decision = v] \in AppRow
    BY <1>1 DEF AppRow
  <2> QED BY <1>5, <1>7, <2>1 DEF ScoreFailsLate
<1> QED BY <1>3, <1>4, <1>6, <1>7 DEF Score

LEMMA TypeNext == TypeOK /\ CandidateKnown /\ [Next]_vars => TypeOK'
<1> SUFFICES ASSUME TypeOK, CandidateKnown, [Next]_vars PROVE TypeOK'
  OBVIOUS
<1>1. ASSUME NEW j \in Job, TriggerScoring(j) PROVE TypeOK'
  <2>1. NewJob("queued") \in JobRow
    BY DEF NewJob, NoLease, JobRow, JobStatus
  <2> DEFINE a == app[AppOf[j]]
  <2>a. a \in AppRow
    BY ConstantsAssumption DEF TypeOK
  <2> HIDE DEF a
  <2>2. [a EXCEPT !.status = "scoring_queued"] \in AppRow
    BY <2>a DEF AppRow, AppStatus
  <2>3. app' \in [App -> AppRow]
    BY <1>1, <2>2 DEF TypeOK, TriggerScoring, a
  <2> QED BY <1>1, <2>1, <2>3 DEF TypeOK, TriggerScoring
<1>2. ASSUME NEW w \in Worker, StartClaim(w) PROVE TypeOK'
  BY <1>2 DEF TypeOK, StartClaim, WorkerState
<1>3. ASSUME NEW w \in Worker, SelectCandidate(w) PROVE TypeOK'
  BY <1>3 DEF TypeOK, SelectCandidate, WorkerState
<1>4. ASSUME NEW w \in Worker, GiveUpClaim(w) PROVE TypeOK'
  BY <1>4, StopTypes DEF TypeOK, GiveUpClaim
<1>5. ASSUME NEW w \in Worker, ClaimCandidate(w) PROVE TypeOK'
  <2>1. cand[w] \in Job
    BY <1>5 DEF CandidateKnown, ClaimCandidate
  <2>2. Claimed(job[cand[w]], now[w]) \in JobRow
    BY <2>1, RowTypes DEF TypeOK
  <2>3. app[AppOf[cand[w]]] \in AppRow
    BY <2>1, ConstantsAssumption DEF TypeOK
  <2> QED BY <1>5, <2>2, <2>3 DEF TypeOK, ClaimCandidate, WorkerState
<1>6. ASSUME NEW w \in Worker, LoseCandidate(w) PROVE TypeOK'
  BY <1>6 DEF TypeOK, LoseCandidate, WorkerState
<1>7. ASSUME NEW w \in Worker, FlushApplication(w) PROVE TypeOK'
  <2>1. cand[w] \in Job
    BY <1>7 DEF CandidateKnown, FlushApplication
  <2> DEFINE a == app[AppOf[cand[w]]]
  <2>2. a \in AppRow
    BY <2>1, ConstantsAssumption DEF TypeOK
  <2>3. [a EXCEPT !.status = IF appCopy[w].status = "scoring_in_progress"
                             THEN @ ELSE "scoring_in_progress"] \in AppRow
    BY <2>2 DEF AppRow, AppStatus
  <2> QED BY <1>7, <2>3 DEF TypeOK, FlushApplication, WorkerState
<1>8. ASSUME NEW w \in Worker, Score(w) PROVE TypeOK'
  BY <1>8, ScoreTypes
<1>9. ASSUME NEW w \in Worker, Commit(w) PROVE TypeOK'
  BY <1>9, StopTypes DEF TypeOK, Commit
<1>10. ASSUME NEW w \in Worker, Crash(w) PROVE TypeOK'
  BY <1>10, StopTypes DEF TypeOK, Crash
<1>11. ASSUME NEW o \in Operator, NEW S \in SUBSET Job, ReplayRead(o, S) PROVE TypeOK'
  BY <1>11 DEF TypeOK, ReplayRead
<1>12. ASSUME NEW o \in Operator, NEW reset \in ReplayResets, ReplayWrite(o, reset)
       PROVE  TypeOK'
  <2>1. \A j \in Job : Replayed(job[j], reset) \in JobRow
    BY RowTypes, ConstantsAssumption DEF TypeOK
  <2>2. job' \in [Job -> JobRow]
    BY <1>12, <2>1 DEF TypeOK, ReplayWrite
  <2>3. app' \in [App -> AppRow]
    BY <1>12 DEF TypeOK, ReplayWrite, AppRow, AppStatus
  <2> QED BY <1>12, <2>2, <2>3 DEF TypeOK, ReplayWrite
<1>13. CASE Tick
  BY <1>13 DEF TypeOK, Tick
<1>14. CASE UNCHANGED vars
  BY <1>14 DEF TypeOK, vars
<1> QED BY <1>1, <1>2, <1>3, <1>4, <1>5, <1>6, <1>7, <1>8, <1>9, <1>10, <1>11, <1>12,
           <1>13, <1>14 DEF Next, WorkerStep

\* A worker past its SELECT keeps its candidate.
LEMMA CandidateNext == CandidateKnown /\ TypeOK /\ [Next]_vars => CandidateKnown'
<1> SUFFICES ASSUME CandidateKnown, TypeOK, [Next]_vars PROVE CandidateKnown'
  OBVIOUS
<1>1. ASSUME NEW w \in Worker, WorkerStep(w) \/ Crash(w) PROVE CandidateKnown'
  BY <1>1 DEF CandidateKnown, TypeOK, WorkerStep, Crash, StartClaim, SelectCandidate,
     GiveUpClaim, ClaimCandidate, LoseCandidate, FlushApplication, Score, SkipDecided,
     ScoreSucceeds, ScoreFailsEarly, ScoreFailsLate, FailOrRetry, Finish, Commit, Stop
<1>2. CASE \E j \in Job : TriggerScoring(j)
  BY <1>2 DEF CandidateKnown, TriggerScoring
<1>3. CASE \E o \in Operator, S \in SUBSET Job : ReplayRead(o, S)
  BY <1>3 DEF CandidateKnown, ReplayRead
<1>4. CASE \E o \in Operator, reset \in ReplayResets : ReplayWrite(o, reset)
  BY <1>4 DEF CandidateKnown, ReplayWrite
<1>5. CASE Tick \/ UNCHANGED vars
  BY <1>5 DEF CandidateKnown, Tick, vars
<1> QED BY <1>1, <1>2, <1>3, <1>4, <1>5 DEF Next

\* The type invariant of the queue: every row, copy and clock keeps its type.
THEOREM TypeCorrect == Spec => []TypeOK
<1>1. Init => TypeOK /\ CandidateKnown
  BY TypeInit DEF Init, CandidateKnown
<1>2. TypeOK /\ CandidateKnown /\ [Next]_vars => (TypeOK /\ CandidateKnown)'
  BY TypeNext, CandidateNext
<1> QED BY <1>1, <1>2, PTL DEF Spec

-----------------------------------------------------------------------------
(* Claims.                                                                 *)

\* What scoring a job may leave in the open transaction.
LEMMA ScoreOutcome ==
    ASSUME TypeOK, NEW w \in Worker, Score(w)
    PROVE  /\ pc[w] = "score"
           /\ \E row \in JobRow, a \in AppRow :
                /\ Finish(w, row, a)
                /\ row.attempts = jobCopy[w].attempts
                /\ \/ /\ row.status = "completed"
                      /\ appCopy[w].decision # NoVerdict
                      /\ a = appCopy[w]
                   \/ /\ row.status = "completed"
                      /\ appCopy[w].decision = NoVerdict
                      /\ a.decision # NoVerdict
                      /\ a.issued = appCopy[w].issued + 1
                   \/ /\ row.status \in {"queued", "failed"}
                      /\ row.status = "failed" => row.attempts >= MaxAttempts
                      /\ appCopy[w].decision = NoVerdict
                      /\ a.issued = appCopy[w].issued
<1> DEFINE r == jobCopy[w]  b == appCopy[w]
<1>1. r \in JobRow /\ b \in AppRow /\ clock \in Nat
  BY DEF TypeOK
<1>2. /\ Completed(r) \in JobRow /\ Completed(r).status = "completed"
      /\ Completed(r).attempts = r.attempts
      /\ Failed(r) \in JobRow /\ Failed(r).status = "failed"
      /\ Failed(r).attempts = r.attempts
      /\ Requeued(r) \in JobRow /\ Requeued(r).status = "queued"
      /\ Requeued(r).attempts = r.attempts
  BY <1>1, RowTypes DEF Completed, Failed, Closed, Requeued
<1>3. CASE SkipDecided(w)
  BY <1>1, <1>2, <1>3 DEF SkipDecided
<1>4. ASSUME NEW v \in Verdict, ScoreSucceeds(w, v)
      PROVE  /\ pc[w] = "score" /\ b.decision = NoVerdict
             /\ \E a \in AppRow : /\ Finish(w, Completed(r), a)
                                  /\ a.decision # NoVerdict
                                  /\ a.issued = b.issued + 1
  <2> DEFINE a == [status |-> "decision", decision |-> v, issued |-> b.issued + 1]
  <2>1. a \in AppRow /\ a.decision # NoVerdict /\ a.issued = b.issued + 1
    BY <1>1, ConstantsAssumption DEF AppRow, AppStatus
  <2>2. Finish(w, Completed(r), a)
    BY <1>4 DEF ScoreSucceeds
  <2> QED BY <1>4, <2>1, <2>2 DEF ScoreSucceeds
<1>5. ASSUME NEW c \in AppRow, c.issued = b.issued, FailOrRetry(w, c)
      PROVE  \E row \in JobRow, a \in AppRow :
                /\ Finish(w, row, a)
                /\ row.attempts = r.attempts
                /\ row.status \in {"queued", "failed"}
                /\ row.status = "failed" => row.attempts >= MaxAttempts
                /\ a.issued = b.issued
  <2>1. /\ [c EXCEPT !.status = "scoring_failed"] \in AppRow
        /\ [c EXCEPT !.status = "scoring_failed"].issued = b.issued
    BY <1>5 DEF AppRow, AppStatus
  <2>2. /\ [c EXCEPT !.status = "scoring_retry_pending"] \in AppRow
        /\ [c EXCEPT !.status = "scoring_retry_pending"].issued = b.issued
    BY <1>5 DEF AppRow, AppStatus
  <2>3. CASE r.attempts >= MaxAttempts
    BY <1>2, <1>5, <2>1, <2>3 DEF FailOrRetry
  <2>4. CASE ~(r.attempts >= MaxAttempts)
    BY <1>2, <1>5, <2>2, <2>4 DEF FailOrRetry
  <2> QED BY <2>3, <2>4
<1>6. CASE ScoreFailsEarly(w)
  BY <1>1, <1>5, <1>6 DEF ScoreFailsEarly
<1>7. ASSUME NEW v \in Verdict, ScoreFailsLate(w, v)
      PROVE  /\ pc[w] = "score" /\ b.decision = NoVerdict
             /\ \E c \in AppRow : c.issued = b.issued /\ FailOrRetry(w, c)
  <2> DEFINE c == [b EXCEPT !.decision = v]
  <2>1. c \in AppRow /\ c.issued = b.issued
    BY <1>1 DEF AppRow
  <2>2. FailOrRetry(w, c) /\ pc[w] = "score" /\ b.decision = NoVerdict
    BY <1>7 DEF ScoreFailsLate
  <2> QED BY <2>1, <2>2
<1>8. CASE \E v \in Verdict : ScoreSucceeds(w, v)
  BY <1>2, <1>4, <1>8
<1>9. CASE \E v \in Verdict : ScoreFailsLate(w, v)
  BY <1>5, <1>7, <1>9
<1> QED BY <1>3, <1>6, <1>8, <1>9 DEF Score

\* A worker's step leaves the other workers' part of the state alone.
LEMMA OthersKept ==
    ASSUME TypeOK, NEW w \in Worker, NEW v \in Worker \ {w}, WorkerStep(w) \/ Crash(w)
    PROVE  /\ pc'[v] = pc[v] /\ cand'[v] = cand[v] /\ now'[v] = now[v]
           /\ jobCopy'[v] = jobCopy[v] /\ appCopy'[v] = appCopy[v]
<1>1. CASE Score(w)
  BY <1>1, ScoreOutcome DEF Finish, TypeOK
<1>2. CASE StartClaim(w) \/ SelectCandidate(w) \/ GiveUpClaim(w) \/ Crash(w) \/ Commit(w)
  BY <1>2 DEF TypeOK, StartClaim, SelectCandidate, GiveUpClaim, Crash, Commit, Stop
<1>3. CASE ClaimCandidate(w) \/ LoseCandidate(w) \/ FlushApplication(w)
  BY <1>3 DEF TypeOK, ClaimCandidate, LoseCandidate, FlushApplication
<1> QED BY <1>1, <1>2, <1>3 DEF WorkerStep

\* The row a worker scores is the row it claimed.
LEMMA ClaimNext ==
    TypeOK /\ CandidateKnown /\ ClaimGrounded /\ [Next]_vars => ClaimGrounded'
<1> SUFFICES ASSUME TypeOK, CandidateKnown, ClaimGrounded, [Next]_vars,
                    NEW w \in Worker, HoldsJob(w)'
             PROVE  /\ Eligible(job'[cand'[w]], now'[w])
                    /\ jobCopy'[w].attempts = job'[cand'[w]].attempts + 1
                    /\ \A v \in Worker \ {w} : HoldsJob(v)' => cand'[v] # cand'[w]
  BY DEF ClaimGrounded, Eligible
<1> DEFINE Goal == /\ Eligible(job'[cand'[w]], now'[w])
                   /\ jobCopy'[w].attempts = job'[cand'[w]].attempts + 1
                   /\ \A v \in Worker \ {w} : HoldsJob(v)' => cand'[v] # cand'[w]
<1>0. \A v \in Worker : HoldsJob(v) => cand[v] \in Job
  BY DEF CandidateKnown, HoldsJob
<1>1. ASSUME NEW j \in Job, TriggerScoring(j) PROVE Goal
  BY <1>0, <1>1 DEF ClaimGrounded, TriggerScoring, HoldsJob, Eligible, TypeOK
<1>2. ASSUME NEW u \in Worker,
             StartClaim(u) \/ SelectCandidate(u) \/ GiveUpClaim(u) \/ LoseCandidate(u) \/ Crash(u)
      PROVE  Goal
  <2>1. job' = job /\ ~HoldsJob(u)'
    BY <1>2 DEF StartClaim, SelectCandidate, GiveUpClaim, LoseCandidate, Crash, Stop,
                HoldsJob, TypeOK
  <2>2. WorkerStep(u) \/ Crash(u)
    BY <1>2 DEF WorkerStep
  <2> QED BY <2>1, <2>2, OthersKept DEF ClaimGrounded, HoldsJob
<1>3. ASSUME NEW u \in Worker, ClaimCandidate(u) PROVE Goal
  <2>1. cand[u] \in Job
    BY <1>3 DEF CandidateKnown, ClaimCandidate
  <2>2. job' = job /\ cand' = cand /\ now' = now
    BY <1>3 DEF ClaimCandidate
  <2>3. \A v \in Worker \ {u} : HoldsJob(v)' = HoldsJob(v)
    BY <1>3 DEF ClaimCandidate, HoldsJob, TypeOK
  <2>4. \A v \in Worker \ {u} : HoldsJob(v) => cand[v] # cand[u]
    BY <1>3 DEF ClaimCandidate, JobUnlocked
  <2>5. CASE w = u
    <3>1. jobCopy'[w].attempts = job[cand[w]].attempts + 1
      BY <1>3, <2>1, <2>5 DEF ClaimCandidate, Claimed, TypeOK
    <3>2. Eligible(job[cand[w]], now[w])
      BY <1>3, <2>5 DEF ClaimCandidate
    <3> QED BY <2>2, <2>3, <2>4, <2>5, <3>1, <3>2
  <2>6. CASE w # u
    <3>1. jobCopy'[w] = jobCopy[w] /\ HoldsJob(w)
      BY <1>3, <2>3, <2>6 DEF ClaimCandidate, TypeOK
    <3> QED BY <2>2, <2>3, <2>4, <2>6, <3>1 DEF ClaimGrounded
  <2> QED BY <2>5, <2>6
<1>4. ASSUME NEW u \in Worker, FlushApplication(u) \/ Score(u) PROVE Goal
  <2>1. job' = job /\ cand' = cand /\ now' = now
    BY <1>4, ScoreOutcome DEF FlushApplication, Finish
  <2>2. \A v \in Worker : HoldsJob(v)' = HoldsJob(v)
    BY <1>4, ScoreOutcome DEF FlushApplication, Finish, HoldsJob, TypeOK
  <2>3. \A v \in Worker : jobCopy'[v].attempts = jobCopy[v].attempts
    BY <1>4, ScoreOutcome DEF FlushApplication, Finish, TypeOK
  <2> QED BY <2>1, <2>2, <2>3 DEF ClaimGrounded
<1>5. ASSUME NEW u \in Worker, Commit(u) PROVE Goal
  <2>1. ~HoldsJob(u)' /\ HoldsJob(u) /\ w # u
    BY <1>5 DEF Commit, Stop, HoldsJob, TypeOK
  <2>2. \A v \in Worker \ {u} : HoldsJob(v)' = HoldsJob(v) /\ cand'[v] = cand[v]
    BY <1>5, OthersKept DEF WorkerStep, HoldsJob
  <2>3. HoldsJob(w) /\ cand[w] # cand[u] /\ jobCopy'[w] = jobCopy[w] /\ now'[w] = now[w]
    BY <1>5, <2>1, <2>2, OthersKept DEF ClaimGrounded, WorkerStep
  <2>4. job'[cand[w]] = job[cand[w]]
    BY <1>0, <1>5, <2>3 DEF Commit, TypeOK
  <2> QED BY <2>1, <2>2, <2>3, <2>4 DEF ClaimGrounded
<1>6. ASSUME NEW o \in Operator, NEW reset \in ReplayResets, ReplayWrite(o, reset) PROVE Goal
  <2>1. HoldsJob(w) /\ cand[w] \in Job /\ cand[w] \notin replaying[o]
    BY <1>0, <1>6 DEF ReplayWrite, JobUnlocked, HoldsJob
  <2>2. job'[cand[w]] = job[cand[w]]
    BY <1>6, <2>1 DEF ReplayWrite
  <2> QED BY <1>6, <2>1, <2>2 DEF ReplayWrite, ClaimGrounded, HoldsJob
<1>7. CASE \E o \in Operator, S \in SUBSET Job : ReplayRead(o, S)
  BY <1>7 DEF ReplayRead, ClaimGrounded, HoldsJob
<1>8. CASE Tick \/ UNCHANGED vars
  BY <1>8 DEF Tick, vars, ClaimGrounded, HoldsJob
<1> QED BY <1>1, <1>2, <1>3, <1>4, <1>5, <1>6, <1>7, <1>8 DEF Next, WorkerStep

\* A job in the hands of a worker is in nobody else's, and its committed row is
\* still the one the claim matched: ClaimGrounded for every instance.
THEOREM ClaimsGrounded == Spec => []ClaimGrounded
<1>1. Init => TypeOK /\ CandidateKnown /\ ClaimGrounded
  BY TypeInit DEF Init, CandidateKnown, ClaimGrounded, HoldsJob
<1>2. TypeOK /\ CandidateKnown /\ ClaimGrounded /\ [Next]_vars
        => (TypeOK /\ CandidateKnown /\ ClaimGrounded)'
  BY TypeNext, CandidateNext, ClaimNext
<1> QED BY <1>1, <1>2, PTL DEF Spec

-----------------------------------------------------------------------------
(* Outcomes.                                                               *)

\* No two transactions come to hold one application row.
LEMMA ApplicationNext ==
    TypeOK /\ ApplicationHeld /\ [Next]_vars => ApplicationHeld'
<1> SUFFICES ASSUME TypeOK, ApplicationHeld, [Next]_vars PROVE ApplicationHeld'
  OBVIOUS
<1>1. ASSUME NEW u \in Worker,
             StartClaim(u) \/ SelectCandidate(u) \/ GiveUpClaim(u) \/ ClaimCandidate(u)
               \/ LoseCandidate(u) \/ Crash(u) \/ Commit(u)
      PROVE  ApplicationHeld'
  <2>1. ~HoldsApp(u)'
    BY <1>1 DEF StartClaim, SelectCandidate, GiveUpClaim, ClaimCandidate, LoseCandidate,
                Crash, Commit, Stop, HoldsApp, TypeOK
  <2>2. \A v \in Worker \ {u} : pc'[v] = pc[v] /\ cand'[v] = cand[v]
    BY <1>1, OthersKept DEF WorkerStep
  <2> QED BY <2>1, <2>2 DEF ApplicationHeld, HoldsApp
<1>2. ASSUME NEW u \in Worker, FlushApplication(u) PROVE ApplicationHeld'
  <2>1. cand' = cand /\ \A v \in Worker \ {u} : HoldsApp(v)' = HoldsApp(v)
    BY <1>2 DEF FlushApplication, HoldsApp, TypeOK
  <2>2. \A v \in Worker : HoldsApp(v) => AppOf[cand[v]] # AppOf[cand[u]]
    BY <1>2 DEF FlushApplication, AppUnlocked
  <2> QED BY <2>1, <2>2 DEF ApplicationHeld
<1>3. ASSUME NEW u \in Worker, Score(u) PROVE ApplicationHeld'
  <2>1. cand' = cand /\ \A v \in Worker : HoldsApp(v)' = HoldsApp(v)
    BY <1>3, ScoreOutcome DEF Finish, HoldsApp, TypeOK
  <2> QED BY <2>1 DEF ApplicationHeld
<1>4. CASE \/ \E j \in Job : TriggerScoring(j)
           \/ \E o \in Operator, S \in SUBSET Job : ReplayRead(o, S)
           \/ \E o \in Operator, reset \in ReplayResets : ReplayWrite(o, reset)
           \/ Tick \/ UNCHANGED vars
  BY <1>4 DEF TriggerScoring, ReplayRead, ReplayWrite, Tick, vars, ApplicationHeld, HoldsApp
<1> QED BY <1>1, <1>2, <1>3, <1>4 DEF Next, WorkerStep

\* Only a worker's commit changes a decision or announces one, and then the
\* application's row becomes the worker's copy.
LEMMA ApplicationStep ==
    ASSUME TypeOK, CandidateKnown, Next
    PROVE  \A a \in App :
             \/ app'[a].decision = app[a].decision /\ app'[a].issued = app[a].issued
             \/ \E w \in Worker : Commit(w) /\ AppOf[cand[w]] = a /\ app'[a] = appCopy[w]
<1>1. ASSUME NEW j \in Job, TriggerScoring(j), NEW a \in App
      PROVE  app'[a].decision = app[a].decision /\ app'[a].issued = app[a].issued
  <2>1. app[a] \in AppRow
    BY DEF TypeOK
  <2>2. app'[a] = app[a] \/ app'[a] = [app[a] EXCEPT !.status = "scoring_queued"]
    BY <1>1 DEF TriggerScoring, TypeOK
  <2> QED BY <2>1, <2>2 DEF AppRow
<1>2. ASSUME NEW o \in Operator, NEW reset \in ReplayResets, ReplayWrite(o, reset), NEW a \in App
      PROVE  app'[a].decision = app[a].decision /\ app'[a].issued = app[a].issued
  <2>1. app[a] \in AppRow
    BY DEF TypeOK
  <2>2. app'[a] = app[a] \/ app'[a] = [app[a] EXCEPT !.status = "scoring_queued"]
    BY <1>2 DEF ReplayWrite
  <2> QED BY <2>1, <2>2 DEF AppRow
<1>3. ASSUME NEW w \in Worker, Commit(w), NEW a \in App
      PROVE  app'[a] = app[a] \/ (AppOf[cand[w]] = a /\ app'[a] = appCopy[w])
  BY <1>3 DEF Commit, TypeOK
<1>4. ASSUME NEW w \in Worker, WorkerStep(w) \/ Crash(w), ~Commit(w)
      PROVE  app' = app
  BY <1>4, ScoreOutcome DEF WorkerStep, Crash, StartClaim, SelectCandidate, GiveUpClaim,
     ClaimCandidate, LoseCandidate, FlushApplication, Finish
<1>5. (\E o \in Operator, S \in SUBSET Job : ReplayRead(o, S)) \/ Tick => app' = app
  BY DEF ReplayRead, Tick
<1> QED BY <1>1, <1>2, <1>3, <1>4, <1>5 DEF Next

\* A committed job row changes by being submitted, by a worker's commit of the
\* job it scored, or by a replay.
LEMMA JobStep ==
    ASSUME TypeOK, CandidateKnown, Next
    PROVE  \A j \in Job :
             \/ job'[j] = job[j]
             \/ job'[j].status = "queued"
             \/ \E w \in Worker : Commit(w) /\ cand[w] = j /\ job'[j] = jobCopy[w]
<1>1. ASSUME NEW i \in Job, TriggerScoring(i), NEW j \in Job
      PROVE  job'[j] = job[j] \/ job'[j].status = "queued"
  BY <1>1 DEF TriggerScoring, TypeOK, NewJob
<1>2. ASSUME NEW o \in Operator, NEW reset \in ReplayResets, ReplayWrite(o, reset), NEW j \in Job
      PROVE  job'[j] = job[j] \/ job'[j].status = "queued"
  BY <1>2 DEF ReplayWrite, Replayed
<1>3. ASSUME NEW w \in Worker, Commit(w), NEW j \in Job
      PROVE  job'[j] = job[j] \/ (cand[w] = j /\ job'[j] = jobCopy[w])
  BY <1>3 DEF Commit, TypeOK
<1>4. ASSUME NEW w \in Worker, WorkerStep(w) \/ Crash(w), ~Commit(w)
      PROVE  job' = job
  BY <1>4, ScoreOutcome DEF WorkerStep, Crash, StartClaim, SelectCandidate, GiveUpClaim,
     ClaimCandidate, LoseCandidate, FlushApplication, Finish
<1>5. (\E o \in Operator, S \in SUBSET Job : ReplayRead(o, S)) \/ Tick => job' = job
  BY DEF ReplayRead, Tick
<1> QED BY <1>1, <1>2, <1>3, <1>4, <1>5 DEF Next

\* What an open transaction has read and is about to commit stays in step with
\* the committed row of its application.
LEMMA OutcomeNext ==
    /\ TypeOK /\ CandidateKnown /\ ApplicationHeld /\ OutcomeGrounded
    /\ [Next]_vars
    => OutcomeGrounded'
<1> SUFFICES ASSUME TypeOK, CandidateKnown, ApplicationHeld, OutcomeGrounded, [Next]_vars,
                    NEW w \in Worker
             PROVE  OutcomeGrounded!(w)'
  BY DEF OutcomeGrounded
<1> DEFINE Goal == OutcomeGrounded!(w)'
           Kept == HoldsApp(w) => /\ app'[AppOf[cand[w]]].decision = app[AppOf[cand[w]]].decision
                                  /\ app'[AppOf[cand[w]]].issued = app[AppOf[cand[w]]].issued
<1>0. HoldsApp(w) => cand[w] \in Job /\ AppOf[cand[w]] \in App
  BY ConstantsAssumption DEF CandidateKnown, HoldsApp
<1>1. ASSUME Kept, pc'[w] = pc[w], cand'[w] = cand[w], appCopy'[w] = appCopy[w],
             jobCopy'[w] = jobCopy[w]
      PROVE  Goal
  BY <1>1 DEF OutcomeGrounded, HoldsApp
<1>2. ASSUME Next, \A u \in Worker \ {w} : ~Commit(u), ~Commit(w) PROVE Kept
  BY <1>0, <1>2, ApplicationStep
<1>3. ASSUME NEW u \in Worker \ {w}, WorkerStep(u) \/ Crash(u) PROVE Goal
  <2>1. Next
    BY <1>3 DEF Next
  <2>2. CASE Commit(u)
    <3>1. HoldsApp(w) => app'[AppOf[cand[w]]] = app[AppOf[cand[w]]]
      BY <1>0, <2>2 DEF Commit, ApplicationHeld, HoldsApp, TypeOK
    <3> QED BY <1>1, <1>3, <3>1, OthersKept
  <2>3. CASE ~Commit(u)
    <3>1. app' = app
      BY <1>3, <2>3, ScoreOutcome DEF WorkerStep, Crash, StartClaim, SelectCandidate,
         GiveUpClaim, ClaimCandidate, LoseCandidate, FlushApplication, Finish
    <3> QED BY <1>1, <1>3, <3>1, OthersKept
  <2> QED BY <2>2, <2>3
<1>4. ASSUME StartClaim(w) \/ SelectCandidate(w) \/ GiveUpClaim(w) \/ ClaimCandidate(w)
               \/ LoseCandidate(w) \/ Crash(w) \/ Commit(w)
      PROVE  Goal
  BY <1>4 DEF StartClaim, SelectCandidate, GiveUpClaim, ClaimCandidate, LoseCandidate,
              Crash, Commit, Stop, TypeOK
<1>5. CASE FlushApplication(w)
  <2> DEFINE old == app[AppOf[cand[w]]]
  <2>1. cand[w] \in Job /\ AppOf[cand[w]] \in App /\ old \in AppRow
    BY <1>5, ConstantsAssumption DEF CandidateKnown, FlushApplication, TypeOK
  <2> HIDE DEF old
  <2>2. appCopy'[w].decision = old.decision /\ appCopy'[w].issued = old.issued
    BY <1>5, <2>1 DEF FlushApplication, TypeOK, AppRow, old
  <2>3. app' = app /\ cand' = cand /\ pc'[w] = "score"
    BY <1>5 DEF FlushApplication, TypeOK
  <2> QED BY <2>2, <2>3 DEF old
<1>6. CASE Score(w)
  <2> DEFINE old == app[AppOf[cand[w]]]
  <2>1. /\ app' = app /\ cand' = cand /\ pc'[w] = "commit"
        /\ appCopy[w].decision = old.decision /\ appCopy[w].issued = old.issued
    BY <1>6, ScoreOutcome DEF Finish, TypeOK, OutcomeGrounded
  <2>2. PICK row \in JobRow, a \in AppRow :
               /\ Finish(w, row, a)
               /\ \/ /\ row.status = "completed"
                     /\ appCopy[w].decision # NoVerdict
                     /\ a = appCopy[w]
                  \/ /\ row.status = "completed"
                     /\ appCopy[w].decision = NoVerdict
                     /\ a.decision # NoVerdict
                     /\ a.issued = appCopy[w].issued + 1
                  \/ /\ row.status \in {"queued", "failed"}
                     /\ row.status = "failed" => row.attempts >= MaxAttempts
                     /\ appCopy[w].decision = NoVerdict
                     /\ a.issued = appCopy[w].issued
    BY <1>6, ScoreOutcome
  <2>3. jobCopy'[w] = row /\ appCopy'[w] = a
    BY <2>2 DEF Finish, TypeOK
  <2> QED BY <2>1, <2>2, <2>3
<1>7. CASE \E j \in Job : TriggerScoring(j)
  <2>1. Kept
    BY <1>0, <1>7 DEF TriggerScoring, AppUnlocked, TypeOK
  <2> QED BY <1>1, <1>7, <2>1 DEF TriggerScoring
<1>8. CASE \E o \in Operator, reset \in ReplayResets : ReplayWrite(o, reset)
  <2>1. Kept
    BY <1>0, <1>8 DEF ReplayWrite, AppUnlocked
  <2> QED BY <1>1, <1>8, <2>1 DEF ReplayWrite
<1>9. CASE (\E o \in Operator, S \in SUBSET Job : ReplayRead(o, S)) \/ Tick \/ UNCHANGED vars
  BY <1>1, <1>9 DEF ReplayRead, Tick, vars
<1> QED BY <1>3, <1>4, <1>5, <1>6, <1>7, <1>8, <1>9 DEF Next, WorkerStep

\* A decision is never replaced, and what a step does to a decided or announced
\* application is one of the three outcomes.
LEMMA DecisionStep ==
    ASSUME IInv, Next, NEW a \in App
    PROVE  /\ app[a].decision # NoVerdict => app'[a].decision = app[a].decision
           /\ app'[a].decision = NoVerdict => app'[a].issued = 0
           /\ app'[a].issued <= 1
           /\ app'[a].issued = 1 => app'[a].decision # NoVerdict
<1>0. /\ app[a].decision = NoVerdict => app[a].issued = 0
      /\ app[a].issued <= 1
      /\ app[a].issued = 1 => app[a].decision # NoVerdict
  BY DEF IInv, UndecidedUnissued, IssuedOnce
<1>1. CASE app'[a].decision = app[a].decision /\ app'[a].issued = app[a].issued
  BY <1>0, <1>1
<1>2. ASSUME NEW w \in Worker, Commit(w), AppOf[cand[w]] = a, app'[a] = appCopy[w]
      PROVE  /\ app[a].decision # NoVerdict => app'[a].decision = app[a].decision
             /\ app'[a].decision = NoVerdict => app'[a].issued = 0
             /\ app'[a].issued <= 1
             /\ app'[a].issued = 1 => app'[a].decision # NoVerdict
  BY <1>0, <1>2 DEF IInv, OutcomeGrounded, Commit
<1> QED BY <1>1, <1>2, ApplicationStep DEF IInv

\* What a step leaves in a job row that it changes.
LEMMA ClosedStep ==
    ASSUME IInv, Next, NEW j \in Job
    PROVE  /\ job'[j].status # "processing"
           /\ job'[j].status = "failed" => job'[j].attempts >= MaxAttempts
           /\ job'[j].status = "completed" => app'[AppOf[j]].decision # NoVerdict
<1>1. CASE job'[j] = job[j]
  BY <1>1, DecisionStep, ConstantsAssumption
     DEF IInv, ClaimInvisible, DeadLetterExhausted, CompletedDecided
<1>2. CASE job'[j].status = "queued"
  BY <1>2
<1>3. ASSUME NEW w \in Worker, Commit(w), cand[w] = j, job'[j] = jobCopy[w]
      PROVE  /\ job'[j].status # "processing"
             /\ job'[j].status = "failed" => job'[j].attempts >= MaxAttempts
             /\ job'[j].status = "completed" => app'[AppOf[j]].decision # NoVerdict
  <2>1. app'[AppOf[j]] = appCopy[w]
    BY <1>3, ConstantsAssumption DEF Commit, IInv, TypeOK
  <2> QED BY <1>3, <2>1 DEF IInv, OutcomeGrounded, Commit
<1> QED BY <1>1, <1>2, <1>3, JobStep DEF IInv

LEMMA InvariantInit == Init => IInv
<1> SUFFICES ASSUME Init PROVE IInv
  OBVIOUS
<1>1. TypeOK
  BY TypeInit
<1>2. CandidateKnown /\ ClaimGrounded /\ ApplicationHeld /\ OutcomeGrounded
  BY DEF Init, CandidateKnown, ClaimGrounded, ApplicationHeld, OutcomeGrounded, HoldsJob, HoldsApp
<1>3. ClaimInvisible /\ CompletedDecided /\ DeadLetterExhausted
  BY DEF Init, ClaimInvisible, CompletedDecided, DeadLetterExhausted, AbsentJob, NewJob
<1>4. UndecidedUnissued /\ IssuedOnce
  BY DEF Init, UndecidedUnissued, IssuedOnce, FreshApp
<1> QED BY <1>1, <1>2, <1>3, <1>4 DEF IInv

LEMMA InvariantNext == IInv /\ [Next]_vars => IInv'
<1> SUFFICES ASSUME IInv, [Next]_vars PROVE IInv'
  OBVIOUS
<1>1. TypeOK' /\ CandidateKnown' /\ ClaimGrounded' /\ ApplicationHeld' /\ OutcomeGrounded'
  BY TypeNext, CandidateNext, ClaimNext, ApplicationNext, OutcomeNext DEF IInv
<1>2. ClaimInvisible' /\ DeadLetterExhausted' /\ CompletedDecided'
  <2>1. CASE Next
    BY <2>1, ClosedStep DEF ClaimInvisible, DeadLetterExhausted, CompletedDecided
  <2>2. CASE UNCHANGED vars
    BY <2>2 DEF IInv, ClaimInvisible, DeadLetterExhausted, CompletedDecided, vars
  <2> QED BY <2>1, <2>2
<1>3. UndecidedUnissued' /\ IssuedOnce'
  <2>1. CASE Next
    BY <2>1, DecisionStep DEF UndecidedUnissued, IssuedOnce
  <2>2. CASE UNCHANGED vars
    BY <2>2 DEF IInv, UndecidedUnissued, IssuedOnce, vars
  <2> QED BY <2>1, <2>2
<1> QED BY <1>1, <1>2, <1>3 DEF IInv

\* The inductive invariant of the queue.
THEOREM Invariant == Spec => []IInv
BY InvariantInit, InvariantNext, PTL DEF Spec

\* At most one DecisionIssued event per application, never without its
\* decision, whatever workers, crashes, retries and replays do.
THEOREM DecisionIssuedOnce == Spec => []IssuedOnce
BY Invariant, PTL DEF IInv

\* A completed job's application has a decision.
THEOREM CompletedAreDecided == Spec => []CompletedDecided
BY Invariant, PTL DEF IInv

\* A dead-lettered job has used up all its attempts.
THEOREM DeadLettersExhausted == Spec => []DeadLetterExhausted
BY Invariant, PTL DEF IInv

\* The queue never replaces a committed decision.
THEOREM DecisionsFinal == Spec => DecisionFinal
<1>1. IInv /\ [Next]_vars
        => [\A a \in App : app[a].decision # NoVerdict => app'[a].decision = app[a].decision]_app
  BY DecisionStep DEF vars
<1> QED BY <1>1, Invariant, PTL DEF DecisionFinal, Spec

-----------------------------------------------------------------------------
(* Refinement.  Two replay commands that overlap queue a completed job      *)
(* again; with one operator session the queue implements its life cycle.   *)

OneOperator == \A o, p \in Operator : o = p

\* What a replay command has read as failed is failed when it writes.
ReplayedFailed == \A o \in Operator : \A j \in replaying[o] : job[j].status = "failed"

\* A worker's commit is of a job that others still read as queued.
LEMMA CommitOfQueued ==
    ASSUME IInv, NEW w \in Worker, Commit(w)
    PROVE  /\ cand[w] \in Job /\ AppOf[cand[w]] \in App
           /\ job[cand[w]].status = "queued"
<1>1. cand[w] \in Job /\ AppOf[cand[w]] \in App
  BY ConstantsAssumption DEF IInv, CandidateKnown, Commit
<1>2. Eligible(job[cand[w]], now[w])
  BY DEF IInv, ClaimGrounded, HoldsJob, Commit
<1> QED BY <1>1, <1>2 DEF IInv, ClaimInvisible, Eligible

LEMMA ReplayNext ==
    ASSUME OneOperator, IInv, ReplayedFailed, [Next]_vars
    PROVE  ReplayedFailed'
<1>1. ASSUME NEW j \in Job, TriggerScoring(j) PROVE ReplayedFailed'
  BY <1>1 DEF TriggerScoring, ReplayedFailed, IInv, TypeOK
<1>2. ASSUME NEW w \in Worker, Commit(w) PROVE ReplayedFailed'
  BY <1>2, CommitOfQueued DEF Commit, ReplayedFailed, IInv, TypeOK
<1>3. ASSUME NEW w \in Worker, WorkerStep(w) \/ Crash(w), ~Commit(w) PROVE ReplayedFailed'
  <2>1. job' = job /\ replaying' = replaying
    BY <1>3, ScoreOutcome DEF IInv, WorkerStep, Crash, StartClaim, SelectCandidate,
       GiveUpClaim, ClaimCandidate, LoseCandidate, FlushApplication, Finish
  <2> QED BY <2>1 DEF ReplayedFailed
<1>4. ASSUME NEW o \in Operator, NEW S \in SUBSET Job, ReplayRead(o, S) PROVE ReplayedFailed'
  BY <1>4 DEF ReplayRead, ReplayedFailed, IInv, TypeOK
<1>5. ASSUME NEW o \in Operator, NEW reset \in ReplayResets, ReplayWrite(o, reset)
      PROVE  ReplayedFailed'
  BY <1>5 DEF ReplayWrite, ReplayedFailed, IInv, TypeOK, OneOperator
<1>6. CASE Tick \/ UNCHANGED vars
  BY <1>6 DEF Tick, vars, ReplayedFailed
<1> QED BY <1>1, <1>2, <1>3, <1>4, <1>5, <1>6 DEF Next

LEMMA ReplayInvariant ==
    ASSUME OneOperator
    PROVE  Spec => [](IInv /\ ReplayedFailed)
<1>1. Init => ReplayedFailed
  BY DEF Init, ReplayedFailed
<1>2. IInv /\ ReplayedFailed /\ [Next]_vars => ReplayedFailed'
  BY ReplayNext
<1> QED BY <1>1, <1>2, Invariant, PTL DEF Spec

\* The life cycle's state after a commit: one job and one application moved.
LEMMA CommitStates ==
    ASSUME IInv, NEW w \in Worker, Commit(w)
    PROVE  LET j == cand[w]
               a == AppOf[j]
           IN  /\ [i \in Job |-> job'[i].status]
                    = [[i \in Job |-> job[i].status] EXCEPT ![j] = jobCopy[w].status]
               /\ [b \in App |-> app'[b].decision]
                    = [[b \in App |-> app[b].decision] EXCEPT ![a] = appCopy[w].decision]
               /\ [b \in App |-> app'[b].issued]
                    = [[b \in App |-> app[b].issued] EXCEPT ![a] = appCopy[w].issued]
<1>1. /\ job' = [job EXCEPT ![cand[w]] = jobCopy[w]]
      /\ app' = [app EXCEPT ![AppOf[cand[w]]] = appCopy[w]]
  BY DEF Commit
<1>2. job \in [Job -> JobRow] /\ app \in [App -> AppRow]
  BY DEF IInv, TypeOK
<1> QED BY <1>1, <1>2

\* A commit is a step of the life cycle.
LEMMA CommitRefines ==
    ASSUME IInv, NEW w \in Worker, Commit(w)
    PROVE  Lifecycle!Next
<1> SUFFICES ASSUME NEW j \in Job, j = cand[w]
             PROVE  Lifecycle!Next
  BY CommitOfQueued
<1> DEFINE a == AppOf[j]
<1>1. a \in App /\ job[j].status = "queued"
  BY CommitOfQueued
<1>2. appCopy[w].decision \in Verdict \cup {NoVerdict}
  BY DEF IInv, TypeOK, AppRow
<1>3. CASE /\ jobCopy[w].status = "completed"
           /\ app[a].decision # NoVerdict
           /\ appCopy[w].decision = app[a].decision
           /\ appCopy[w].issued = app[a].issued
  <2>1. Lifecycle!Skip(j)
    BY <1>1, <1>3, CommitStates DEF Lifecycle!Skip, Lifecycle!Move, Lifecycle!Undecided
  <2> QED BY <2>1 DEF Lifecycle!Next
<1>4. CASE /\ jobCopy[w].status = "completed"
           /\ app[a].decision = NoVerdict
           /\ appCopy[w].decision # NoVerdict
           /\ appCopy[w].issued = app[a].issued + 1
  <2>1. Lifecycle!Decide(j)
    BY <1>1, <1>2, <1>4, CommitStates DEF Lifecycle!Decide, Lifecycle!Move, Lifecycle!Undecided
  <2> QED BY <2>1 DEF Lifecycle!Next
<1>5. CASE /\ jobCopy[w].status \in {"queued", "failed"}
           /\ app[a].decision = NoVerdict
           /\ appCopy[w].issued = app[a].issued
  <2>1. Lifecycle!Fail(j)
    BY <1>1, <1>2, <1>5, CommitStates DEF Lifecycle!Fail, Lifecycle!Move, Lifecycle!Undecided
  <2> QED BY <2>1 DEF Lifecycle!Next
<1> QED BY <1>3, <1>4, <1>5 DEF IInv, OutcomeGrounded, Commit

\* Every step of the queue is a step of the life cycle or leaves it alone.
LEMMA StepRefines ==
    ASSUME IInv, ReplayedFailed, [Next]_vars
    PROVE  [Lifecycle!Next]_(Lifecycle!vars)
<1> DEFINE Same == /\ [j \in Job |-> job'[j].status] = [j \in Job |-> job[j].status]
                   /\ [a \in App |-> app'[a].decision] = [a \in App |-> app[a].decision]
                   /\ [a \in App |-> app'[a].issued] = [a \in App |-> app[a].issued]
<1>1. Same => UNCHANGED Lifecycle!vars
  BY DEF Lifecycle!vars
<1>2. ASSUME NEW a \in App
      PROVE  /\ [app[a] EXCEPT !.status = "scoring_queued"].decision = app[a].decision
             /\ [app[a] EXCEPT !.status = "scoring_queued"].issued = app[a].issued
  BY DEF IInv, TypeOK, AppRow
<1>3. ASSUME NEW j \in Job, TriggerScoring(j) PROVE Lifecycle!Next
  <2>1. /\ [a \in App |-> app'[a].decision] = [a \in App |-> app[a].decision]
        /\ [a \in App |-> app'[a].issued] = [a \in App |-> app[a].issued]
    BY <1>2, <1>3 DEF TriggerScoring, IInv, TypeOK
  <2>2. /\ job[j].status = "absent"
        /\ [i \in Job |-> job'[i].status]
             = [[i \in Job |-> job[i].status] EXCEPT ![j] = "queued"]
    BY <1>3 DEF TriggerScoring, NewJob, IInv, TypeOK
  <2>3. Lifecycle!Enqueue(j)
    BY <2>1, <2>2 DEF Lifecycle!Enqueue, Lifecycle!Move
  <2> QED BY <2>3 DEF Lifecycle!Next
<1>4. ASSUME NEW w \in Worker, WorkerStep(w) \/ Crash(w), ~Commit(w) PROVE Same
  <2>1. job' = job /\ app' = app
    BY <1>4, ScoreOutcome DEF IInv, WorkerStep, Crash, StartClaim, SelectCandidate,
       GiveUpClaim, ClaimCandidate, LoseCandidate, FlushApplication, Finish
  <2> QED BY <2>1
<1>5. ASSUME NEW o \in Operator, NEW reset \in ReplayResets, ReplayWrite(o, reset)
      PROVE  Lifecycle!Next
  <2>0. PICK S \in SUBSET Job : S = replaying[o]
    BY DEF IInv, TypeOK
  <2>1. \A j \in S : job[j].status = "failed"
    BY <2>0 DEF ReplayedFailed
  <2>2. [j \in Job |-> job'[j].status]
          = [j \in Job |-> IF j \in S THEN "queued" ELSE job[j].status]
    BY <1>5, <2>0 DEF ReplayWrite, Replayed
  <2>3. /\ [a \in App |-> app'[a].decision] = [a \in App |-> app[a].decision]
        /\ [a \in App |-> app'[a].issued] = [a \in App |-> app[a].issued]
    BY <1>2, <1>5 DEF ReplayWrite
  <2>4. Lifecycle!Replay(S)
    BY <2>1, <2>2, <2>3 DEF Lifecycle!Replay
  <2> QED BY <2>4 DEF Lifecycle!Next
<1>6. (\E o \in Operator, S \in SUBSET Job : ReplayRead(o, S)) \/ Tick \/ UNCHANGED vars
        => Same
  BY DEF ReplayRead, Tick, vars
<1> QED BY <1>1, <1>3, <1>4, <1>5, <1>6, CommitRefines DEF Next

\* With one operator session, what other sessions read of the queue is the
\* abstract life cycle.
THEOREM QueueImplementsLifecycle ==
    ASSUME OneOperator
    PROVE  Spec => ImplementsLifecycle
<1>1. Init => Lifecycle!Init
  BY ConstantsAssumption DEF Init, Lifecycle!Init, AbsentJob, NewJob, FreshApp
<1>2. IInv /\ ReplayedFailed /\ [Next]_vars => [Lifecycle!Next]_(Lifecycle!vars)
  BY StepRefines
<1> QED BY <1>1, <1>2, ReplayInvariant, PTL DEF Spec, ImplementsLifecycle, Lifecycle!Spec

\* With one operator session a completed job stays as it is.
THEOREM CompletedJobsFinal ==
    ASSUME OneOperator
    PROVE  Spec => CompletedFinal
<1>1. ASSUME IInv, ReplayedFailed, Next, NEW j \in Job, job[j].status = "completed"
      PROVE  job'[j] = job[j]
  <2>1. ASSUME NEW i \in Job, TriggerScoring(i) PROVE job'[j] = job[j]
    BY <1>1, <2>1 DEF TriggerScoring, IInv, TypeOK
  <2>2. ASSUME NEW w \in Worker, Commit(w) PROVE job'[j] = job[j]
    BY <1>1, <2>2, CommitOfQueued DEF Commit, IInv, TypeOK
  <2>3. ASSUME NEW w \in Worker, WorkerStep(w) \/ Crash(w), ~Commit(w) PROVE job' = job
    BY <1>1, <2>3, ScoreOutcome DEF IInv, WorkerStep, Crash, StartClaim, SelectCandidate,
       GiveUpClaim, ClaimCandidate, LoseCandidate, FlushApplication, Finish
  <2>4. ASSUME NEW o \in Operator, NEW reset \in ReplayResets, ReplayWrite(o, reset)
        PROVE  job'[j] = job[j]
    BY <1>1, <2>4 DEF ReplayWrite, ReplayedFailed
  <2>5. (\E o \in Operator, S \in SUBSET Job : ReplayRead(o, S)) \/ Tick => job' = job
    BY DEF ReplayRead, Tick
  <2> QED BY <1>1, <2>1, <2>2, <2>3, <2>4, <2>5 DEF Next
<1>2. IInv /\ ReplayedFailed /\ [Next]_vars
        => [\A j \in Job : job[j].status = "completed" => job'[j] = job[j]]_job
  BY <1>1 DEF vars
<1> QED BY <1>2, ReplayInvariant, PTL DEF CompletedFinal, Spec

=============================================================================
