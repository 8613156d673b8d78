---------------------------- MODULE ScoringQueue ----------------------------
(***************************************************************************)
(* The scoring queue of server/fund: the fund_scoring_jobs table, the      *)
(* fund_applications rows it drives, the workers that claim and score jobs *)
(* and the operator command that replays the dead-letter jobs.             *)
(*                                                                         *)
(* A worker holds ONE database transaction from the claim of a job to the  *)
(* commit that process_once issues when the job is finished, so `job' and  *)
(* `app' are the COMMITTED rows and `jobCopy', `appCopy' are what a        *)
(* worker's open transaction has flushed.  The database is the production  *)
(* one (PostgreSQL, READ COMMITTED): a SELECT reads committed rows, an     *)
(* UPDATE waits for the row lock of an open transaction and then evaluates *)
(* its WHERE clause again on the row that transaction left.                *)
(***************************************************************************)
EXTENDS Integers, FiniteSets

CONSTANTS
    Job,           \* jobs, numbered in the order of created_at
    App,           \* applications
    AppOf,         \* the application each job scores
    Worker,        \* scoring worker replicas
    Operator,      \* sessions of the replay-scoring-jobs command
    Verdict,       \* what DecisionPolicyService.evaluate may answer
    ReplayResets,  \* the values operators give to --reset-attempts
    MaxAttempts,   \* ScoringJob.max_attempts
    ClaimTries,    \* rounds of the claim loop
    LeaseSeconds,  \* lease_seconds
    RetryBase,     \* retry_base_seconds
    MaxCrashes,    \* bound: transactions lost to a crash
    MaxReplays,    \* bound: replay commands committed
    NoVerdict,     \* the application has no Decision row
    NoJob          \* the worker looks at no job

ASSUME ConstantsAssumption ==
    /\ Job \subseteq Nat
    /\ AppOf \in [Job -> App]
    /\ ReplayResets \subseteq BOOLEAN
    /\ MaxAttempts \in Nat \ {0}
    /\ ClaimTries \in Nat \ {0}
    /\ LeaseSeconds \in Nat \ {0}
    /\ RetryBase \in Nat \ {0}
    /\ MaxCrashes \in Nat
    /\ MaxReplays \in Nat
    /\ NoVerdict \notin Verdict
    /\ NoJob \notin Job

VARIABLES
    clock,     \* _utc_now()
    job,       \* committed fund_scoring_jobs rows
    app,       \* committed fund_applications and fund_decisions rows, with
               \* the number of DecisionIssued rows in the outbox
    pc,        \* where each worker is
    cand,      \* the candidate_id of the worker's claim loop, then its job
    now,       \* the `now' its claim captured
    tries,     \* rounds of its claim loop so far
    jobCopy,   \* the job row as the worker's transaction wrote it
    appCopy,   \* the application row as the worker's transaction has it
    replaying, \* failed rows a replay command has read and not yet written
    crashes,   \* transactions lost so far
    replays    \* replays committed so far

jobVars    == <<job, app>>
workerVars == <<pc, cand, now, tries, jobCopy, appCopy>>
boundVars  == <<crashes, replays>>
vars       == <<clock, jobVars, workerVars, replaying, boundVars>>

JobStatus == {"absent", "queued", "processing", "completed", "failed"}
AppStatus == {"interview_in_progress", "scoring_queued", "scoring_in_progress",
              "scoring_retry_pending", "scoring_failed",
              "decision"}  \* decision_pass, ...: the verdict is in `decision'

\* A NULL next_attempt_at is 0: either way the job is due.
JobRow == [status : JobStatus, attempts : Nat, nextAt : Int, lease : Nat]
NoLease == 0
AppRow == [status : AppStatus, decision : Verdict \cup {NoVerdict}, issued : Nat]

NewJob(status) == [status |-> status, attempts |-> 0, nextAt |-> 0, lease |-> NoLease]
AbsentJob == NewJob("absent")

\* after create_interview_session, which the score endpoint requires
FreshApp == [status |-> "interview_in_progress", decision |-> NoVerdict, issued |-> 0]

\* Points of a worker's transaction: the claim's SELECT, its UPDATE, the flush
\* of the application row, scoring, and the commit.
WorkerState == {"idle", "select", "update", "flush", "score", "commit"}

HoldsJob(w) == pc[w] \in {"flush", "score", "commit"}
HoldsApp(w) == pc[w] \in {"score", "commit"}

JobUnlocked(j) == \A w \in Worker : HoldsJob(w) => cand[w] # j
AppUnlocked(a) == \A w \in Worker : HoldsApp(w) => AppOf[cand[w]] # a

\* The `eligible' clause of claim_next_scoring_job.
Eligible(row, at) ==
    /\ \/ row.status = "queued"
       \/ row.status = "processing" /\ row.lease # NoLease /\ row.lease < at
    /\ row.nextAt <= at
    /\ row.attempts < MaxAttempts

\* Mutant: the lease is taken into the past.
Claimed_LeaseInPast(row, at) ==
    [status |-> "processing", attempts |-> row.attempts + 1,
     nextAt |-> 0, lease |-> at - LeaseSeconds]

\* The values of the claim's UPDATE.
Claimed(row, at) ==
    [status |-> "processing", attempts |-> row.attempts + 1,
     nextAt |-> 0, lease |-> at + LeaseSeconds]

\* mark_scoring_job_completed and mark_scoring_job_failed.
Closed(row, status) ==
    [status |-> status, attempts |-> row.attempts, nextAt |-> 0, lease |-> NoLease]
Completed(row) == Closed(row, "completed")
Failed(row)    == Closed(row, "failed")

\* Mutant: a job to retry is not put back to queued.
Requeued_KeepsStatus(row) ==
    [status |-> row.status, attempts |-> row.attempts,
     nextAt |-> clock + RetryBase, lease |-> NoLease]

\* The delay of fail_or_retry_scoring_job, and what it does to the row.
RetryDelay(attempts) == RetryBase * (IF attempts > 0 THEN 2^(attempts - 1) ELSE 1)
Requeued(row) ==
    [status |-> "queued", attempts |-> row.attempts,
     nextAt |-> clock + RetryDelay(row.attempts), lease |-> NoLease]

\* What replay_scoring_jobs does to a failed row.
Replayed(row, reset) ==
    [status |-> "queued", attempts |-> IF reset THEN 0 ELSE row.attempts,
     nextAt |-> clock, lease |-> row.lease]

-----------------------------------------------------------------------------
Init ==
    /\ clock = 0
    /\ job = [j \in Job |-> AbsentJob]
    /\ app = [a \in App |-> FreshApp]
    /\ pc = [w \in Worker |-> "idle"]
    /\ cand = [w \in Worker |-> NoJob]
    /\ now = [w \in Worker |-> 0]
    /\ tries = [w \in Worker |-> 0]
    /\ jobCopy = [w \in Worker |-> AbsentJob]
    /\ appCopy = [w \in Worker |-> FreshApp]
    /\ replaying = [o \in Operator |-> {}]
    /\ crashes = 0
    /\ replays = 0

-----------------------------------------------------------------------------
(* The API: POST /applications/{id}/score.                                 *)

\* create_scoring_job_with_trace and the request's commit.  It writes the
\* application row, so it waits for a worker that holds that row.
TriggerScoring(j) ==
    /\ job[j].status = "absent"
    /\ AppUnlocked(AppOf[j])
    /\ job' = [job EXCEPT ![j] = NewJob("queued")]
    /\ app' = [app EXCEPT ![AppOf[j]].status = "scoring_queued"]
    /\ UNCHANGED <<clock, workerVars, replaying, boundVars>>

-----------------------------------------------------------------------------
(* The worker: process_once around claim_next_scoring_job.                 *)

Stop(w) ==
    /\ pc' = [pc EXCEPT ![w] = "idle"]
    /\ cand' = [cand EXCEPT ![w] = NoJob]
    /\ now' = [now EXCEPT ![w] = 0]
    /\ tries' = [tries EXCEPT ![w] = 0]
    /\ jobCopy' = [jobCopy EXCEPT ![w] = AbsentJob]
    /\ appCopy' = [appCopy EXCEPT ![w] = FreshApp]

StartClaim(w) ==
    /\ pc[w] = "idle"
    /\ pc' = [pc EXCEPT ![w] = "select"]
    /\ now' = [now EXCEPT ![w] = clock]
    /\ UNCHANGED <<clock, jobVars, cand, tries, jobCopy, appCopy, replaying, boundVars>>

\* The oldest eligible job, read without a lock.
SelectCandidate(w) ==
    /\ pc[w] = "select"
    /\ tries[w] < ClaimTries
    /\ \E j \in Job :
        /\ Eligible(job[j], now[w])
        /\ \A k \in Job : Eligible(job[k], now[w]) => j <= k
        /\ cand' = [cand EXCEPT ![w] = j]
    /\ pc' = [pc EXCEPT ![w] = "update"]
    /\ UNCHANGED <<clock, jobVars, now, tries, jobCopy, appCopy, replaying, boundVars>>

\* Nothing eligible, or the rounds are used up: the tick ends.
GiveUpClaim(w) ==
    /\ pc[w] = "select"
    /\ \/ tries[w] >= ClaimTries
       \/ \A j \in Job : ~Eligible(job[j], now[w])
    /\ Stop(w)
    /\ UNCHANGED <<clock, jobVars, replaying, boundVars>>

\* Mutant: the claim's UPDATE does not repeat the eligible clause.
ClaimCandidate_Unchecked(w) ==
    /\ pc[w] = "update"
    /\ JobUnlocked(cand[w])
    /\ jobCopy' = [jobCopy EXCEPT ![w] = Claimed(job[cand[w]], now[w])]
    /\ appCopy' = [appCopy EXCEPT ![w] = app[AppOf[cand[w]]]]
    /\ pc' = [pc EXCEPT ![w] = "flush"]
    /\ UNCHANGED <<clock, jobVars, cand, now, tries, replaying, boundVars>>

\* UPDATE ... WHERE id = candidate AND eligible: rowcount 1.  The application
\* is read here, before the lock on its row.
ClaimCandidate(w) ==
    /\ pc[w] = "update"
    /\ JobUnlocked(cand[w])
    /\ Eligible(job[cand[w]], now[w])
    /\ jobCopy' = [jobCopy EXCEPT ![w] = Claimed(job[cand[w]], now[w])]
    /\ appCopy' = [appCopy EXCEPT ![w] = app[AppOf[cand[w]]]]
    /\ pc' = [pc EXCEPT ![w] = "flush"]
    /\ UNCHANGED <<clock, jobVars, cand, now, tries, replaying, boundVars>>

\* Mutant: a lost candidate is tried again instead of chosen again.
LoseCandidate_SameAgain(w) ==
    /\ pc[w] = "update"
    /\ JobUnlocked(cand[w])
    /\ ~Eligible(job[cand[w]], now[w])
    /\ tries' = [tries EXCEPT ![w] = 1]
    /\ UNCHANGED <<clock, jobVars, pc, cand, now, jobCopy, appCopy, replaying, boundVars>>

\* rowcount 0: somebody else finished the candidate first.
LoseCandidate(w) ==
    /\ pc[w] = "update"
    /\ JobUnlocked(cand[w])
    /\ ~Eligible(job[cand[w]], now[w])
    /\ cand' = [cand EXCEPT ![w] = NoJob]
    /\ tries' = [tries EXCEPT ![w] = @ + 1]
    /\ pc' = [pc EXCEPT ![w] = "select"]
    /\ UNCHANGED <<clock, jobVars, now, jobCopy, appCopy, replaying, boundVars>>

\* Mutant: the decision is looked up before the application row is locked.
FlushApplication_StaleDecision(w) ==
    /\ pc[w] = "flush"
    /\ AppUnlocked(AppOf[cand[w]])
    /\ appCopy' = [appCopy EXCEPT ![w].status = "scoring_in_progress"]
    /\ pc' = [pc EXCEPT ![w] = "score"]
    /\ UNCHANGED <<clock, jobVars, cand, now, tries, jobCopy, replaying, boundVars>>

\* The flush of app.status.  The session writes the columns whose value it
\* changed: a row read as scoring_in_progress keeps the status it has now.
FlushApplication(w) ==
    /\ pc[w] = "flush"
    /\ LET a == AppOf[cand[w]] IN
        /\ AppUnlocked(a)
        /\ appCopy' = [appCopy EXCEPT ![w] =
              [app[a] EXCEPT !.status = IF appCopy[w].status = "scoring_in_progress"
                                        THEN @ ELSE "scoring_in_progress"]]
    /\ pc' = [pc EXCEPT ![w] = "score"]
    /\ UNCHANGED <<clock, jobVars, cand, now, tries, jobCopy, replaying, boundVars>>

\* What process_next_scoring_job leaves in the open transaction.
Finish(w, row, a) ==
    /\ jobCopy' = [jobCopy EXCEPT ![w] = row]
    /\ appCopy' = [appCopy EXCEPT ![w] = a]
    /\ pc' = [pc EXCEPT ![w] = "commit"]
    /\ UNCHANGED <<clock, jobVars, cand, now, tries, replaying, boundVars>>

\* The idempotency guard: the application already has a decision.
SkipDecided(w) ==
    /\ pc[w] = "score"
    /\ appCopy[w].decision # NoVerdict
    /\ Finish(w, Completed(jobCopy[w]), appCopy[w])

\* Mutant: no idempotency guard before scoring.
ScoreSucceeds_Unguarded(w, v) ==
    /\ pc[w] = "score"
    /\ Finish(w, Completed(jobCopy[w]),
              [status |-> "decision", decision |-> v, issued |-> appCopy[w].issued + 1])

\* Every stage succeeds: upsert_decision, DecisionIssued, completed.
ScoreSucceeds(w, v) ==
    /\ pc[w] = "score"
    /\ appCopy[w].decision = NoVerdict
    /\ Finish(w, Completed(jobCopy[w]),
              [status |-> "decision", decision |-> v, issued |-> appCopy[w].issued + 1])

\* Mutant: the last attempt is given up one too early.
FailOrRetry_OneTooEarly(w, a) ==
    IF jobCopy[w].attempts + 1 >= MaxAttempts
    THEN Finish(w, Failed(jobCopy[w]), [a EXCEPT !.status = "scoring_failed"])
    ELSE Finish(w, Requeued(jobCopy[w]), [a EXCEPT !.status = "scoring_retry_pending"])

\* fail_or_retry_scoring_job, with what the stages before the exception wrote.
FailOrRetry(w, a) ==
    IF jobCopy[w].attempts >= MaxAttempts
    THEN Finish(w, Failed(jobCopy[w]), [a EXCEPT !.status = "scoring_failed"])
    ELSE Finish(w, Requeued(jobCopy[w]), [a EXCEPT !.status = "scoring_retry_pending"])

\* Mutant: the exception handler closes the job.
ScoreFailsEarly_Closes(w) ==
    /\ pc[w] = "score"
    /\ appCopy[w].decision = NoVerdict
    /\ Finish(w, Completed(jobCopy[w]), appCopy[w])

\* An exception before upsert_decision.
ScoreFailsEarly(w) ==
    /\ pc[w] = "score"
    /\ appCopy[w].decision = NoVerdict
    /\ FailOrRetry(w, appCopy[w])

\* Mutant: DecisionIssued is published before the stage that fails.
ScoreFailsLate_Issued(w, v) ==
    /\ pc[w] = "score"
    /\ appCopy[w].decision = NoVerdict
    /\ FailOrRetry(w, [appCopy[w] EXCEPT !.decision = v, !.issued = @ + 1])

\* An exception after upsert_decision and before DecisionIssued: nothing is
\* rolled back, the decision stays in the transaction.
ScoreFailsLate(w, v) ==
    /\ pc[w] = "score"
    /\ appCopy[w].decision = NoVerdict
    /\ FailOrRetry(w, [appCopy[w] EXCEPT !.decision = v])

\* db.commit() of process_once.
Commit(w) ==
    /\ pc[w] = "commit"
    /\ job' = [job EXCEPT ![cand[w]] = jobCopy[w]]
    /\ app' = [app EXCEPT ![AppOf[cand[w]]] = appCopy[w]]
    /\ Stop(w)
    /\ UNCHANGED <<clock, replaying, boundVars>>

\* The process dies, or a database error ends the tick: db.close() or the
\* server rolls the transaction back, the claim included.
Crash(w) ==
    /\ pc[w] # "idle"
    /\ crashes < MaxCrashes
    /\ crashes' = crashes + 1
    /\ Stop(w)
    /\ UNCHANGED <<clock, jobVars, replaying, replays>>

-----------------------------------------------------------------------------
(* The operator: replay-scoring-jobs.                                      *)

\* Mutant: the replay selects whatever ids it is given.
ReplayRead_AnyStatus(o, S) ==
    /\ replaying[o] = {}
    /\ replays < MaxReplays
    /\ S # {}
    /\ \A j \in S : job[j].status # "absent"
    /\ replaying' = [replaying EXCEPT ![o] = S]
    /\ UNCHANGED <<clock, jobVars, workerVars, boundVars>>

\* SELECT ... WHERE status = 'failed', of the ids or the number asked for.
ReplayRead(o, S) ==
    /\ replaying[o] = {}
    /\ replays < MaxReplays
    /\ S # {}
    /\ \A j \in S : job[j].status = "failed"
    /\ replaying' = [replaying EXCEPT ![o] = S]
    /\ UNCHANGED <<clock, jobVars, workerVars, boundVars>>

\* The applications' reads, the flush, by primary key, and the commit.  A
\* status read as failed is written whatever the row holds now.
ReplayWrite(o, reset) ==
    /\ replaying[o] # {}
    /\ replays < MaxReplays
    /\ \A j \in replaying[o] : JobUnlocked(j) /\ AppUnlocked(AppOf[j])
    /\ job' = [j \in Job |-> IF j \in replaying[o] THEN Replayed(job[j], reset) ELSE job[j]]
    /\ app' = [a \in App |-> IF \E j \in replaying[o] : AppOf[j] = a
                             THEN [app[a] EXCEPT !.status = "scoring_queued"] ELSE app[a]]
    /\ replaying' = [replaying EXCEPT ![o] = {}]
    /\ replays' = replays + 1
    /\ UNCHANGED <<clock, workerVars, crashes>>

-----------------------------------------------------------------------------
\* Time passes while something waits for it.
Tick ==
    /\ \E j \in Job : job[j].nextAt > clock
    /\ clock' = clock + 1
    /\ UNCHANGED <<jobVars, workerVars, replaying, boundVars>>

Score(w) ==
    \/ SkipDecided(w)
    \/ \E v \in Verdict : ScoreSucceeds(w, v)
    \/ ScoreFailsEarly(w)
    \/ \E v \in Verdict : ScoreFailsLate(w, v)

WorkerStep(w) ==
    \/ StartClaim(w)
    \/ SelectCandidate(w)
    \/ GiveUpClaim(w)
    \/ ClaimCandidate(w)
    \/ LoseCandidate(w)
    \/ FlushApplication(w)
    \/ Score(w)
    \/ Commit(w)

Next ==
    \/ \E j \in Job : TriggerScoring(j)
    \/ \E w \in Worker : WorkerStep(w) \/ Crash(w)
    \/ \E o \in Operator, S \in SUBSET Job : ReplayRead(o, S)
    \/ \E o \in Operator, reset \in ReplayResets : ReplayWrite(o, reset)
    \/ Tick

Spec == Init /\ [][Next]_vars

\* run_loop polls for ever and a claimed job runs to its commit; nothing makes
\* an API call or an operator act, and nothing makes a process crash.
Fairness ==
    /\ \A w \in Worker : WF_vars(WorkerStep(w))
    /\ WF_vars(Tick)

FairSpec == Spec /\ Fairness

-----------------------------------------------------------------------------
(* Properties.                                                             *)

TypeOK ==
    /\ clock \in Nat
    /\ job \in [Job -> JobRow]
    /\ app \in [App -> AppRow]
    /\ pc \in [Worker -> WorkerState]
    /\ cand \in [Worker -> Job \cup {NoJob}]
    /\ now \in [Worker -> Nat]
    /\ tries \in [Worker -> Nat]
    /\ jobCopy \in [Worker -> JobRow]
    /\ appCopy \in [Worker -> AppRow]
    /\ replaying \in [Operator -> SUBSET Job]
    /\ crashes \in Nat
    /\ replays \in Nat

\* While a worker scores a job, the job's committed row is still the one its
\* claim matched: due, below the attempt limit and in nobody else's hands.
\* Claims, replays and crashes of others never move a row that is being scored
\* (claim_next_scoring_job's conditional UPDATE under the row lock).
ClaimGrounded ==
    \A w \in Worker : HoldsJob(w) =>
        /\ Eligible(job[cand[w]], now[w])
        /\ jobCopy[w].attempts = job[cand[w]].attempts + 1
        /\ \A v \in Worker \ {w} : HoldsJob(v) => cand[v] # cand[w]

\* However often an application is submitted, retried, replayed or scored by a
\* worker that dies, at most one DecisionIssued event reaches the outbox, and
\* only with the decision it announces (the guard of process_next_scoring_job).
IssuedOnce ==
    \A a \in App : /\ app[a].issued <= 1
                   /\ app[a].issued = 1 => app[a].decision # NoVerdict

\* A job is reported completed only when its application has a decision.
CompletedDecided ==
    \A j \in Job : job[j].status = "completed" => app[AppOf[j]].decision # NoVerdict

\* A job is in the dead-letter list only after all its attempts: neither a
\* crash nor a lost claim sends one there (fail_or_retry_scoring_job).
DeadLetterExhausted ==
    \A j \in Job : job[j].status = "failed" => job[j].attempts >= MaxAttempts

\* A decision, once committed, is never replaced by the queue: a second job, a
\* retry or a replay of the same application keeps it (upsert_decision would
\* overwrite it, so everything rests on the guard and the row lock).
DecisionFinal ==
    [][\A a \in App : app[a].decision # NoVerdict => app'[a].decision = app[a].decision]_app

\* A completed job is never queued again.  It needs replay commands not to
\* overlap: a second one writes rows it read as failed before the first ran.
CompletedFinal ==
    [][\A j \in Job : job[j].status = "completed" => job'[j] = job[j]]_job

\* The parts of the inductive invariant behind the properties above.

\* Past its SELECT a worker has a candidate.
CandidateKnown ==
    \A w \in Worker : pc[w] \notin {"idle", "select"} => cand[w] \in Job

\* No two transactions hold the same application row.
ApplicationHeld ==
    \A v, w \in Worker : v # w /\ HoldsApp(v) /\ HoldsApp(w)
                             => AppOf[cand[v]] # AppOf[cand[w]]

\* A claim is never committed before its job is finished: no other session
\* ever reads `processing', and a lease never expires in a committed row.
ClaimInvisible == \A j \in Job : job[j].status # "processing"

\* What an open transaction is about to commit, beside the committed row: the
\* first decision with its event, nothing new, or a failed attempt.
OutcomeGrounded ==
    \A w \in Worker :
        LET old == app[AppOf[cand[w]]]
            new == appCopy[w]
        IN  /\ pc[w] = "score" => new.decision = old.decision /\ new.issued = old.issued
            /\ pc[w] = "commit" =>
                  \/ /\ jobCopy[w].status = "completed"
                     /\ old.decision # NoVerdict
                     /\ new.decision = old.decision
                     /\ new.issued = old.issued
                  \/ /\ jobCopy[w].status = "completed"
                     /\ old.decision = NoVerdict
                     /\ new.decision # NoVerdict
                     /\ new.issued = old.issued + 1
                  \/ /\ jobCopy[w].status \in {"queued", "failed"}
                     /\ jobCopy[w].status = "failed" => jobCopy[w].attempts >= MaxAttempts
                     /\ old.decision = NoVerdict
                     /\ new.issued = old.issued

\* An application without a decision has announced none.
UndecidedUnissued == \A a \in App : app[a].decision = NoVerdict => app[a].issued = 0

IInv ==
    /\ TypeOK
    /\ CandidateKnown
    /\ ClaimGrounded
    /\ ApplicationHeld
    /\ ClaimInvisible
    /\ OutcomeGrounded
    /\ UndecidedUnissued
    /\ IssuedOnce
    /\ CompletedDecided
    /\ DeadLetterExhausted

Lifecycle == INSTANCE ScoringLifecycle WITH
    status   <- [j \in Job |-> job[j].status],
    decision <- [a \in App |-> app[a].decision],
    issued   <- [a \in App |-> app[a].issued]

\* Read by other sessions, the queue is the abstract life cycle: claims,
\* leases, lost races and crashes are invisible, a commit is one of its steps.
\* Like CompletedFinal, it needs replay commands not to overlap.
ImplementsLifecycle == Lifecycle!Spec

\* What a worker can still claim is eventually completed or dead-lettered,
\* through retries, back-off, crashes of a worker and lost claim races.
Claimable(j) == job[j].status = "queued" /\ job[j].attempts < MaxAttempts
JobSettles ==
    \A j \in Job : Claimable(j) ~> job[j].status \in {"completed", "failed"}

\* No row waits for a row lock for ever: a worker that chose a job leaves it,
\* having scored it or lost it (no circular wait on job and application rows).
WaitEnds == \A w \in Worker : pc[w] \in {"update", "flush"} ~> pc[w] \notin {"update", "flush"}

\* application_service.py:310 skips "re-emission" when a decision exists, taking
\* the decision for an announced one: once a job of an application is
\* completed, its DecisionIssued event has been emitted.
DecisionAnnounced ==
    \A j \in Job : job[j].status = "completed" => app[AppOf[j]].issued = 1

\* cli.py:193 "Replay failed scoring jobs (dead-letter)": a queued job is one
\* that a worker may claim, now or when it is due.
QueuedClaimable ==
    \A j \in Job : job[j].status = "queued" => job[j].attempts < MaxAttempts

=============================================================================
