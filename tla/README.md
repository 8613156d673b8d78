# Verification of the coherence fund server

TLA+ models, TLC runs and TLAPS proofs for `server/fund`, the part of this
repository that decides on funding applications with several processes on one
database, and for the scripts of `deploy/scripts` that guard its releases, its
tickets and its policy. The text analysis (the layers of the coherence scorer, the
parser, the embeddings) is sequential; of it the way a score is put together is
modelled (`PitchScreening`), and elsewhere it appears as a verdict or an exception.

## The system

Three kinds of process share a PostgreSQL database:

* the **API** (`app.py`, `routers/`) takes applications, opens interview
  sessions and queues scoring jobs; one request is one transaction;
* **scoring workers** (`scoring_worker.py`) claim jobs, run the pipeline of
  `ApplicationService.process_next_scoring_job` and write the decision, the
  events and the job's outcome in one transaction per job;
* **outbox workers** (`worker.py`) publish the events that the others wrote to
  `fund_event_outbox` to Kafka, SQS or Redis;

and operators run commands (`cli.py`): replays of dead letters, resumable
workflow runs, key management, profile promotion, the red-team suite, the backtest.
Beside them the workflows of `deploy/` run scripts that keep their state in
artifacts, secrets and variables between jobs that may be killed and run again.

| component | state | operations | hard behaviour | what makes it correct |
|---|---|---|---|---|
| scoring queue and worker | `fund_scoring_jobs`, application status, decision | queue, claim, complete, retry, dead-letter, replay | workers race for a claim; a transaction stays open while scoring; crash; replay races with workers | one worker per job; one decision, announced at most once and never replaced; jobs settle |
| outbox and dispatcher | `fund_event_outbox` | append, fetch, publish, mark, commit, replay | replicas without locks; crash between publish and commit; broker time-outs; stale marks | nothing lost; duplicates bounded; rows settle |
| scoring pipeline | artifacts, events of the stages, scoring mode | the stages of `process_next_scoring_job` | partial failure without rollback; events repeated by a retry; mode changed while scoring | a stage's effects agree with the outcome that is committed |
| applications API | applications, sessions, `fund_idempotency_records`, escalation packets | create, interview, score, decision, mode, escalate | check-then-insert without a unique key | a call repeated after it was applied is not applied again |
| workflow orchestrator | `fund_workflow_runs`, `fund_workflow_steps` | run, resume, stages with input digests | failure at any stage; resume with changed inputs; decisions made beside the queue | a succeeded stage is not repeated; a resume ends like an uninterrupted run |
| notifications | `fund_notification_log` | dispatch | letter sent before the commit of its row; two dispatchers | at most one letter of each kind |
| decision policy and portfolio | committed decisions, `fund_portfolio_state`, positions | evaluate, snapshot | capacity read and spent in different transactions | gates respected; limits passed by a bounded amount |
| API keys and security | `fund_api_keys`, a secret, the token cache, rate-limit windows | create, verify, revoke, rotate, admit a request | rotation writes the secret before the commit; a cached token; a key revoked while a request is being admitted | a revoked key opens nothing; the secret is never behind the database |
| uncertainty profiles | a JSON registry, an audit log | promote, rollback | read-modify-write of two files; a profile file read twice | history, active profile and audit log agree; only approved profiles are active |
| alert router | cooldowns per process | snapshot, route, deliver, verify, drill | cooldown read before a delivery and recorded after it; fallbacks | no alert storm, no unjustified silence, nobody unreachable |
| tracker hand-off | a run's rows and follow-ups, the tracker's issues | load policy, validate ticket, POST with retries, report, write back | lost answers, retries, the whole job run again | one issue; no blind POST; no more issues than attempts |
| release gate | live-drill artifacts, approvals, exceptions, a route policy | drill, approve, configure, review, the gate's steps | evidence and approvals age while the gate runs; an exception outlives its policy | no release without a drill; an approval snoozes its own gate, and no longer than it says |
| policy attestation | baselines, aging reports, a routing map | age, verify, aggregate, attest, escalate | three scripts count days, by three limits | nobody is surprised by a stale approval; escalations reach their stage |
| red-team suite, backtest, export | a run's report | load, replay, gate | invalid rows in between; scores of other conventions | every case is counted; what was screened out is not admitted |
| pure parts: event schemas, transcript gate, prompt registry, layers | none | functions | none | functional correctness, tested by `tests/` |

The components meet in the database. A worker's transaction appends
to the outbox, so an event exists exactly when the outcome it belongs to is
committed; the dispatcher later hands it to consumers at least once. The others
share less: scoring evaluates the policy against the decisions that are committed,
the workflow engine decides and writes letters beside the worker, each worker routes its own
alerts, and the scripts of `deploy/` see one another's artifacts only.

## Modules

| module | models |
|---|---|
| `ScoringQueue` | the scoring queue: `create_scoring_job_with_trace`, `claim_next_scoring_job`, `process_next_scoring_job`, `fail_or_retry_scoring_job`, `process_once`, `replay_scoring_jobs` |
| `ScoringLifecycle` | its abstract specification: job states, first decision, announcement |
| `ScoringQueueProofs` | the theorems about it |
| `Outbox` | `EventPublisher.publish`, `OutboxRepository`, `OutboxDispatcher`, the broker's answers, `replay-outbox` |
| `OutboxProofs` | the theorems about it |
| `Workflow` | `run_workflow`, its nine stages, the endpoint and the command that call it, `notifications.dispatch` |
| `FundApi` | `routers/applications.py`: calls with an `Idempotency-Key` and their records, the scoring mode |
| `DecisionPolicy` | `DecisionPolicyService.evaluate` and the portfolio mappings it is given (operators) |
| `Portfolio` | scoring workers that ask for the portfolio, decide and commit |
| `ApiKeys` | `ApiKeyService`, the admin routes, the API-key commands, `FundSecurityMiddleware`, the bootstrap token |
| `TrackerHandoff` | `validate_oncall_tracker_handoff.py`, run and write-back |
| `ReleaseGate` | the live-drill evidence, its exceptions, the route policy and the steps of the gates |
| `ProfileRegistry` | `uncertainty_profile_registry.py`, `uncertainty_governance.py` and their command |
| `AlertRouting` | `ops_telemetry.py`, `alert_routing.py`, verification and drill of the router |
| `Attestation` | the governance scripts: aging, baselines, aggregation, attestation, escalation |
| `PitchScreening` | the detector, the scorer's composition, `score_application`; the red-team suite |
| `Backtest` | `backtest.py` and the validation of an export |
| `ScreeningProofs` | the theorems about screening and the policy |
| `WorkflowProofs` | the theorems about `Workflow` |
| `AccessProofs` | those about `FundApi` and `ApiKeys` |
| `DeployProofs` | those about `TrackerHandoff`, `ReleaseGate` and `Attestation` |
| `OperationsProofs` | those about `AlertRouting` and `ProfileRegistry` |
| `AccountingProofs` | sums over finite sets; the theorems about `Portfolio` and `Backtest` |
| `MCScoringQueue`, `MCOutbox`, `MCWorkflow`, `MCFund` | definitions for the TLC configurations |

### How `ScoringQueue` corresponds to the code

`job` and `app` are the committed rows; `jobCopy` and `appCopy` are what the open
transaction of each worker has flushed, and become the committed rows in
`Commit`. `pc` names the point of the transaction:

| action | code |
|---|---|
| `TriggerScoring` | `POST /applications/{id}/score` up to its commit |
| `StartClaim`, `SelectCandidate`, `GiveUpClaim` | the claim's `now` and its unlocked `SELECT` |
| `ClaimCandidate`, `LoseCandidate` | the conditional `UPDATE`, after waiting for the row lock |
| `FlushApplication` | the flush of `app.status`, after waiting for that row's lock |
| `SkipDecided`, `ScoreSucceeds`, `ScoreFailsEarly`, `ScoreFailsLate` | the guard, the pipeline, and its `except` before and after `upsert_decision` |
| `Commit`, `Crash` | `db.commit()`; rollback by `db.close()` or by the server |
| `ReplayRead`, `ReplayWrite` | the `SELECT` and the flush of `replay_scoring_jobs` |

Isolation is READ COMMITTED with PostgreSQL's rule for blocked updates: the
`WHERE` clause is evaluated again on the row the other transaction left. The ORM
writes only the columns whose value it changed, which matters in
`FlushApplication` and in the replay. A scoring job's application always exists
(foreign key, no deletion), so the branch for a missing application is not
reachable and has no action. A request of the API reads and flushes in one
step, and a replay takes its locks in one step: an abort of a deadlock
between a replay and a worker is a `Crash` of the worker.

### How `Outbox` corresponds to the code

`row` is the committed table. `FetchPending` is the unlocked `SELECT` of a batch;
for each event `PublishEvent` is the call of the broker and `MarkEvent` the flush of
`mark_published` or `mark_failed`, which waits for the row's lock and holds it to
the `Commit` at the end of the batch. `MarkedPublished` and `MarkedFailed` are
written from the row as the dispatcher READ it to the row as it is NOW, which is
where replicas lose each other's updates. The broker answers in one of four
ways (`AnyOutcome`); `accepted` counts what it took. `SQSPublisher` never answers
`dropped`; `KafkaPublisher` reads no delivery report and Redis pub/sub keeps
nothing, so both may.

### How `Workflow` corresponds to the code

`db` is the committed record of one application: its runs with their steps, the
decision, and the verdicts whose row in the ledger says "sent". `tx` is the same
as the one writing transaction sees it. `ctx` is a request's `WorkflowContext` with the
rows its session has read: they may be older than `tx`, which is what the
properties are about.

| action | code |
|---|---|
| `Arrive`, `ReadRuns` | the endpoint's `get_application`; `_load_run_for_resume` |
| `OpenNew`, `OpenAgain`, `OpenRunning`, `LoadSteps` | the flush that opens the run, `_ensure_app`, `_load_steps` |
| `Skip`, `Refuse` | a succeeded step whose digest agrees, or does not; the endpoint's rollback, the command's commit |
| `RunStage`, `Decide`, `IssueArtifact`, `NotifyFounder` | one turn of the loop: the step's row, the stage's body, the outcome |
| `FailStage`, `RejectTranscript`, `Clash` | an exception and its commit; a `WorkflowError` and its rollback; the unique index on the steps |
| `Finish`, `Crash` | the run's last flush and the caller's commit; a lost session, or a lock not got in time |
| `ChangeInputs`, `JobDecides`, `JobDies` | score requests and `set_scoring_mode`; the scoring worker's decision and letter |

This module is of the SQLite deployment, the default of `DATABASE_URL`: a transaction
takes the write lock with its first flush. A flush that has nothing to write
takes no lock, which is why `OpenRunning` differs from `OpenAgain`. On PostgreSQL
`create_argument_artifact` stores `scoring_job_id = ""`, which no job has, and the
foreign key refuses it: there is no workflow to model. `STEPS` is a constant, so that
a run may take the nine stages or leave out those that differ from `compile` in
nothing that is modelled. The unique index behind `Clash` is made by the Alembic migration
(`20260417_000006`) and not by `create_all`; no property rests on it. `passes`, `from`, `forced` and `refused` are history for
the properties. The inputs of the digests are cut to a transcript and the mode.

### How the parts in `MCFund` correspond to the code

**`FundApi`.** A call is three steps, each reading what is committed when it is taken:
`LookUp` (the SELECT of the idempotency record), `Check` (the rows the handler reads),
`WriteAndCommit`; `LoseCall` is a lost session. Two rows with one key
make the next `LookUp` an error, as `scalar_one_or_none` does. `WorkerDecides` is
the scoring worker, which may come between `Check` and `WriteAndCommit`.

**`DecisionPolicy`** is `evaluate` gate by gate, with both ways a portfolio gets into it.
Money is in thousands, shares in percent, coherence in millionths. **`Portfolio`** asks the
repository's questions one statement at a time (`AskPortfolio`) and commits later
(`CommitEvaluation`). Its scores (`GoodScore`) are those the tests give the policy:
see *The anti-gaming convention* for what the service itself yields.

**`ApiKeys`.** An operator's change is `CreateKey`, `RotateKey` or `RevokeKey`, then
`SyncSecret` or `SyncFails`, then `CommitOperation` or `AbandonOperation`; the rows show
nothing before the commit. The gate takes one request at a time, statement by
statement: `VerifyToken`, `MarkUsed`, `BootstrapCached`, `FetchSecret`,
`StoreSecret`, `AnswerRequest`. A put that timed out is rolled back with its operation and may
still arrive (`LandPut`). `taken`, `stale` and `dead` are history. `FetchTicks`, how long a fetch
takes, is an assumption: no setting of the fund bounds it (the AWS client is made without the
timeout of the environment, the GCP client makes two requests), only the clients' own limits and retries.

**`TrackerHandoff`.** `Post` is one attempt with whatever becomes of it: taken and
answered, taken and not answered, refused, or led away by a redirect. `urlopen` follows a 301, 302 or 303
of a POST with a GET, and `execute_post` takes the 2xx of that for its own: a row says `success`
and nothing may be filed, so that no property says that what a row calls filed is filed. `RefuseTicket` is the contract check before it,
`WriteResults` and `WriteBack` the artifacts; `RerunJob` starts the job again, killed or not,
with the same `GITHUB_RUN_ID`.

**`ReleaseGate`.** A gate is `StartGate`, `FindEvidence`, `EvaluateEvidence`, `VerifyRoute`, with
`Tick` and the operators' acts (`LiveDrill`, `Approve`, `Configure`, `ReviewRoute`) in between.
`Configure` puts any of the documents considered, approved or not, in the secret or the file of either
gate: both gates run the evaluator without `--policy` (`release.yml:284`,
`nonprod-release-smoke.yml:195`) and ask for no approval. An unapproved document is held to its own fields only.
`--strict`, `--check-env` and warnings are left out.

**`ProfileRegistry`.** A command is `LoadRegistry`, `SaveRegistry`, `ReadAuditLog`,
`AppendAuditLog`: steps on files that nothing locks; a promotion
is run with the policy, the audit log and, for production, a baseline, as the workflow
files of `.github` run it. The baseline is a file too, of the repository or written from the active profile
some time before, and so any profile. A promotion reads its profile file for the gates (`StartPromote`, `cli.py:1047`)
and again for the registry (`RereadProfile`, `uncertainty_profile_registry.py:192`); `Calibrate` is
`calibrate-uncertainty` writing that file at any time, which empties it first. (A third read, for the digest
in the audit line, is left out.) `Killed` ends a command anywhere. `forced` and `swapped` are history.
`disturbed` counts overlaps and kills; `MaxOverlaps` bounds them.

**`AlertRouting`.** `Snapshot` and its thresholds, `RouteAlert` (the cooldown and the chain of
channels), `Deliver` (which takes up to `DeliveryTicks` and may fail), `RestartWorker`
(the cooldowns are gone), `Drill`. `heard` is history: what was acknowledged, and when.

**`Attestation`.** A calendar of days; `AgingReport` on the days of the schedule,
`EditPolicy`, `ApproveBaseline`, `VerifyBaselines`, `AggregateReports`, and promotions:
`ValidateAttestation`, `RouteEscalation`. A review date in the future only warns.
`AggregateReports` goes by any of the reports made so far: `aggregate_reports` skips what it cannot read, the
workflow goes on with an older run or none, nobody looks at their age, and no row is no breach.
`ProveRouting` and `RouteEscalation` are steps of two workflows, and each has its own routing (a map, variables, a sink).

**`PitchScreening`, `Backtest`.** The features of a pitch are inputs, the arithmetic on them is
the code's in integers. `StartSuite`, `ReplayCase`, `EndSuite` and their namesakes are
the loops of the two harnesses, with their refusals and exit codes.

### The anti-gaming convention

`core/anti_gaming.py:6` (and `docs/specs/backtest_spec.md:67`) calls 1.0 clean.
`decision_policy.py:434` (and `docs/specs/decision_policy_spec.md:180`) rejects what
is above 0.35. `score_application` gives the detector neither templates nor a
corpus, so two of its five signals never fire and what is left takes
off 0.60 at most: the service's score is never below 0.40, and the policy rejects every
pitch it scores. `tests/test_red_team_harness.py:60-70` pins that result and
`docs/specs/red_team_harness.md:193,216` names the inversion, so it is no finding
here: `ScreenedRefused` checks it, `ServiceNeverAdmitted` proves it for every pitch.
`backtest.py:273` makes a missing score, and a zero one, 1.0. (A NaN would fail neither of the
comparisons at `decision_policy.py:434-437` and get past the gaming gate: `Rows` has numbers only. What `float()` or
`dict()` refuses leaves `run_backtest` as a `ValueError` or `TypeError`, not as the error of exit code 2; no report comes of either.) Nor does scoring read
the stored portfolio (`PortfolioRepository`, `set-reserve`), which the docstring at
`decision_policy.py:60` has in mind: the committed decisions are all it sees.

## Runs

| run | instance | shows |
|---|---|---|
| `scoring_safety` | 2 jobs of one application, 2 workers, 2 operators, 2 verdicts, 2 attempts, 1 crash, 2 replays, symmetric workers and operators | the claims never collide (`ClaimGrounded`); one decision, announced at most once (`IssuedOnce`), never replaced (`DecisionFinal`); completed and failed mean what they say |
| `scoring_liveness` | 2 jobs, 2 workers, 1 operator, 1 verdict, 1 crash, 1 replay | the queue implements `ScoringLifecycle`; completed jobs stay so; claimable jobs settle; lock waits end |
| `scoring_unannounced` | 1 job, no crash | finding: a decision that is never announced |
| `scoring_replay_stuck` | 1 job, 1 replay | finding: a replayed job that nothing can claim |
| `outbox_replicas` | 2 events, 2 dispatchers, SQS, 1 crash, 1 replay, 1 time-out | nothing published is undelivered; duplicates bounded |
| `outbox_liveness` | 2 events, 2 dispatchers, 1 crash | rows settle; lock waits end |
| `outbox_single` | 2 events, 1 dispatcher, any broker, 3 attempts, 1 crash, 2 replays | dead letters are exhausted; published stays published |
| `workflow_safety` | 3 requests (API or command, new, resumed, forced), 5 stages, 2 runs, 2 transcripts, 2 verdicts, 1 change of the inputs, 1 lost session or misreported letter, symmetric requests and transcripts; and, as further initial states, a run that a refused command left running | a succeeded run is complete; an unforced run rests on one state of the inputs; no stage passes twice; no letter goes out twice, even where resumes read a run without the lock and repeat `notify` |
| `fund_parts` | one of ten parts, see below | what each of the parts promises |
| `workflow_letter` | 2 requests, 9 stages | finding: the letter of a resumed run disagrees with the decision |
| `workflow_reopened` | 4 requests, 5 stages, 1 change | finding: a resume repeats a stage that has succeeded |
| `outbox_overwritten` | 1 event, 2 dispatchers | finding: a stale failure overwrites `published` |

Two jobs of one application, or two events, with two processes are the smallest
instances in which a claim is lost, an application row is contended, a guard
reads what another transaction wrote, and two processes lock rows in some
order. Two attempts give a retry and a dead letter; one crash can hit any point of a
transaction. `MaxCrashes`, `MaxReplays` and `MaxUnsure` bound the environment only; the
clock advances only while a row waits for it, and attempts are bounded by
`MaxAttempts` and the replays. Three requests are the fewest in which two resumes
compete for a run that the first has left failed; a second run tests which one a
resume picks, one change of the inputs is enough for digests to differ. The scoring runs check for deadlock; the outbox
runs do not, since a poll that finds no row is not a step of `Outbox` and a table
without pending rows is where that system rests. Nor do the workflow runs, which
end when every request is done.

`fund_parts` starts one of ten parts and leaves the others in a state of their `Init`: they
share no state they change, so that no interleaving of two parts shows what each does not show
alone. It is one run since its 18 properties ask one thing of each part: do
interleaved or killed steps, lost answers and stale reads leave it what the code means it to be?

| part | instance | properties |
|---|---|---|
| Portfolio | 4 applications of 200, 2 workers; capacity 2400, 2000 of it promised; three founders, one of them twice | `OvershootBounded`: workers side by side pass a limit by one check each but one |
| FundApi | 3 calls of any endpoints with one key | `RepeatNotApplied` |
| ApiKeys | 2 keys, 2 operators, a cache of 2 ticks, a fetch of 1 | `SecretNeverBehind`, `AdmissionCurrent` |
| TrackerHandoff | 2 environments, 247 setups (policies, tickets, trackers), 1 re-run | `OneIssue`, `FilingBounded` |
| ReleaseGate | 3 times, 4 acts, 1 gate of either kind, 3 exceptions, 2 route policies | `NoBlindRelease`, `ApprovalNotStretched` |
| ProfileRegistry | 2 clerks, 2 stages, 2 profiles, history of 3, 1 overlap or kill, the profile file written once | `HistoryReplays`, `OnlyApproved`, `AuditTellsHistory` |
| AlertRouting | 1 worker (another process shares nothing with it), 194 configurations, cooldown 2 | `SilenceJustified`, `PagedOncePerCooldown`, `VerifiedReachable` |
| Attestation | 5 days, age 2, window 1, a report every 2 days, 1 edit, 1 promotion, 4 routings, any for each job | `StaleForewarned`, `SlaLagBounded`, `RoutedToOwn` |
| PitchScreening, Backtest | suites of up to 2 of 45 fixtures over 7 pitches; datasets of up to 2 of 22 rows, 3 snapshots | `ScreenedRefused` |

Three calls are a pair that is applied side by side and the one that then gets
an error; two operators can rotate one key at once; one re-run with retries repeats a POST both ways; a
gate needs a time for its drill, one to start and one to end in; a history of three is two promotions and
a rollback; one calibration is enough to come between the two reads of a promotion. The calendar holds a whole life of an approval: fresh, due, stale, approved again.
Suites and datasets of two have a good case after a bad one, and the loops carry
nothing from one case to the next but counts.

### Fairness

`run_loop` polls for ever and a process that is alive takes its next step, so each
worker and each dispatcher is weakly fair, and so is time. Weak fairness is
enough since a lock once free is taken by somebody who makes progress. Requests,
operators and crashes are not fair. A worker that crashes is started again (systemd
`Restart`, a Deployment), which is `StartClaim`.

## Findings

* `DecisionAnnounced`: `process_next_scoring_job` catches an exception after
  `upsert_decision` without rolling back. The retry sees the decision, takes the
  guard "skip re-emission", and completes the job; `DecisionIssued` never existed.
* `QueuedClaimable`: `replay-scoring-jobs` without `--reset-attempts` leaves
  `attempts = max_attempts`; the job is `queued` and no claim matches it.
* `PublishedFinal` with two dispatchers: the failure of one, counted from a row
  it read earlier, turns the row that the other published into a terminal failure.

* `LetterMatchesDecision`: a resume that skips `decide` does not load the decision. `notify`
  then writes the letter of `manual_review`, and `artifact` evaluates the policy again and
  announces what it finds now.
* `NeverReexecuted`: the command commits after a refused resume, which leaves the run `running`
  (even one that had succeeded). The next resumes take no lock before they read
  the steps; one of them repeats the failed stage after another has passed it. The same window
  breaks `SucceededComplete` and `OneSnapshot` with enough requests, so that these and
  `StagesPassOnce` are stated for runs that no refusal has left running (`Regular`).

## Proofs

Every safety property that a passing run checks is also a theorem, proved with TLAPS for
every number of jobs, workers, operators, events, requests, runs, keys, days and rows and every value
of the bounds. What the theorems assume of the constants are the `ASSUME`s of the modules, which TLC
evaluates on the instances of the runs, and what the sections below name.

| theorems | of |
|---|---|
| `ScoringQueueProofs`: `TypeCorrect`, `ClaimsGrounded`, `DecisionIssuedOnce`, `CompletedAreDecided`, `DeadLettersExhausted`, `DecisionsFinal`, `QueueImplementsLifecycle`, `CompletedJobsFinal` | the queue |
| `OutboxProofs`: `TypeCorrect`, `NoEventLost`, `DuplicatesAreBounded`, `DeadLettersExhausted`, `PublishedRowsFinal` | the outbox |
| `WorkflowProofs`: `WorkflowTyped`, `SucceededAreComplete`, `SnapshotIsOne`, `StagesPassedOnce`, `LettersSentOnce` | the orchestrator |
| `AccessProofs`: `RepeatsNotApplied`, `NeverBehind`, `AdmissionIsCurrent` | the API, the keys |
| `DeployProofs`: `OneIssueFiled`, `FilingIsBounded`, `NoReleaseIsBlind`, `ApprovalsBuyTheirHours`, `StaleIsForewarned`, `LagIsBounded`, `EscalationsAreRouted` | the scripts |
| `OperationsProofs`: `SilenceIsJustified`, `PagesOncePerCooldown`, `VerifiedIsReachable`, `StagesReplayHistory`, `StagesHoldApproved`, `LogTellsHistory` | alerts, profiles |
| `AccountingProofs`: `OvershootIsBounded`, `ScreenedAreRefused` | portfolio, suites |
| `ScreeningProofs`: `ServiceNeverAdmitted`, `SuiteRejectsAll`, `PassWithinLimits` | the policy |

**The queue.** `IInv` is inductive. The safety properties are
not: what a worker is about to commit decides whether they hold
after `Commit`. So `IInv` adds `OutcomeGrounded` (what each open transaction will
commit, against the committed row: a first decision with its event,
nothing new, or a failed attempt), which in turn needs that the committed row does not
move under an open transaction: `ClaimGrounded` for the job,
`ApplicationHeld` for the application, and `ClaimInvisible`, that no committed
job is ever in `processing` — a lease never expires in a row anybody can read, the
row lock alone separates workers. With `OneOperator` (replay commands do not overlap) every step maps
to a step or a stutter of `ScoringLifecycle` and completed jobs stay so. Without `OneOperator` TLC
refutes both.

**The outbox.** `NoEventLost` assumes `"dropped" \notin Outcomes`. The strengthening: a
dispatcher about to mark an event published has seen the broker accept it, and
so has every marked row it holds. `DuplicatesAreBounded` is for any finite set of dispatchers: an account
(`Charged`) adds to the deliveries so far the dispatchers that may still deliver the event at no charge
(`Free`): it is in their batch, or its row is open once they are done. A delivery takes its dispatcher out
of `Free`, a crash puts one back, an error for an accepted event keeps it there, and a replay opens the row for all. It rests on
the row locks (`TurnKept`): a mark is held to the commit, so that no commit opens a row that was closed. With one dispatcher
and non-overlapping replays (`OneDispatcher`, `OneOperator`) the row a dispatcher read is still the
committed one, which gives `DeadLettersExhausted` and `PublishedRowsFinal`; with two both are false
(see the finding).

**The workflow.** A request that opens a run with a write holds the lock until it ends, and so
what its session has read of the run (`ctx`) stays true of `tx`, which it alone writes. Only a run that
a refused command left running is opened without the lock, and of such runs no more than types is
claimed (`Regular`). `Sessions` says what a writer's context knows: which stages before its place have
passed, and from which inputs. For the letters (`Accounted`), which hold of every run: the ledger
of the transaction is ahead of the committed one only behind the last stage, so that whoever
writes a letter sees every letter committed before. The proof needs that `notify` is the last of the `STEPS`,
as in `workflow.py`, and `ConstantsAssumption` says so; the properties about stages do not.

**Calls and keys.** `ApiInv`: one commit writes an effect and its record, so that the two are
equal in number (`Recorded`), and a call past the look-up found no record, so that nothing had been applied
when it came in (`BeforeGrounded`). `KeysInv`: what an operation has flushed nobody else sees or makes, and a put that is done has the old token
out of the secret (`Flushed`); a put still on its way carries a token of no key and no operation (`PutsFresh`), and so none
brings back what was replaced: the secret is never behind the database. That it may be ahead of it, with a token that was never a key, where
the commit fails after the put, although `docs/SECRET_MANAGER_ROTATION_RUNBOOK.md:8` wants both updated by every rotation, is a state of the model
that no property denies. A token is stale for no longer than its fetch has waited and its entry lived (`StaleBounded`), which gives the sum of
the two times in `AdmissionCurrent`.

**The scripts.** `HandoffInv`: whatever a tracker holds of an environment had a ticket fit for
its provider, and a tracker that heeds the key holds the one issue it stands for (`FiledWell`); every issue is an attempt of this run or an
earlier one, and no run has more than its policy's (`Attempted`). `GateInv`: a gate that is past the evidence has found some, which follows a drill
(`Evidenced`); what was approved names its gate and expires within that gate's hours (`ApprovedInTime`), and a snooze is of a document that names the
gate that runs and has not expired (`SnoozeValid`), so that an approval, wherever its document is put, buys no more than that.
`AttestationInv`: no day that was due has passed without its report (`Scheduled`), and what a report
tells is still so unless the environment was approved since (`ReportsTrue`); an approval that
turns stale has been through a report in the window. A report of day `used`, the latest that an aggregation had, bounds the approvals as of that day, and
approvals only get younger (`LatestBounds`). An escalation is what its own routing makes of the stage (`Reached`), and a webhook
depends on the stage's view alone (`ViewDecides`), so that jobs with the same view agree. The window argument
needs `Window < MaxAge`: with a window as long as the limit itself, an approval made on a report day after that day's report
can get stale with no reminder (TLC: limit 2, window 2, a report every 3 days). The
defaults, 90 and 14, are far from it; no check in the scripts is.

**Alerts and profiles.** `AlertInv` relates, worker by worker, what the process remembers of its last
pages to what was heard, both ways: a record is of a page that was heard about its key, and is older than the
delivery under way; a page that was heard left its record unless the key is of the payload. `RegistryInv`: each stage of the registry, and of every copy a command has
read and not yet saved, is what its history replays to, and of profiles that met the gates or are in `Excuses` (forced, or promoted from a file that was written between its two reads);
as long as it was not written, the file is what the gates have seen (`CommandSound`). An
overwritten change is lost together with its entry. `Undisturbed`, the log is behind the
history by the change of the one command that runs. `Replayed` is a recursive function; that it is the only one of its kind, and what
an appended entry does to it, is proved by induction with `WFMin`.

**Portfolio and backtest.** `AccountingProofs` first proves what `SumFunctionOnSet` does: a sum over a finite
set does not depend on the order in which its elements are chosen, splits into its parts and is
the number of the elements when each part counts its own. `PortfolioInv` keeps, for each limit, `Room`: what has
passed, with a `LargestCheck` for each evaluator that may still pass on what it read (its own check instead for the last
that asked), stays within the limit and a `LargestCheck` for all evaluators but one. It assumes (`PortfolioAssumption`) that what passed before is
within the limits. `BacktestInv`: as long as a valid export is replayed no row is skipped and there is a result for each row read; the report is
of these results, and each of its breakdowns partitions them (`ReportCounts`).

**Screening.** `ServiceNeverAdmitted`: without templates and a
corpus the penalty is 60 at most (`UngivenScore`), so the score is above the policy's
limit, `ANTI_GAMING_HIGH` is among the failed gates and the verdict is `fail`, for every
pitch, domain, application and portfolio. `SuiteRejectsAll` makes an invariant of it for the
loop of the suite (`OneColumn`: the confusion matrix has counted in
the column of `reject` only and the mistakes are those counts). `PassWithinLimits` is about any
scorer: what the policy passes left the reserve, the founder's and the domain's shares within their
limits as the evaluation saw them; `OvershootIsBounded` says what happens when several see the same.

Only model-checked, because the prover cannot: the liveness properties (`JobSettles`,
`EventSettles`, `WaitEnds`), which need fairness and `ENABLED`. The induction theorems of the library
that take an operator are out of its reach too; the proofs by induction use their form with a set
(`WFMin`, through `SetInduction` and `SubsetsIn`). There is no recursive operator in the modules.

The proofs also changed the models, in what they say of their constants: documents, routes and router configurations have
types (`ExceptionDoc`, `RouteDoc`, `RoutingType`, `RouterType`, `Profile`), `Backtest` has its `Rows`, and the report
counts over sets of indices.

## Plan

Done: `ScoringQueue`, `ScoringLifecycle`, `Outbox`, `Workflow`, `FundApi`,
`Portfolio`, `ApiKeys`, `TrackerHandoff`, `ReleaseGate`, `ProfileRegistry`, `AlertRouting`,
`Attestation`, `PitchScreening`, `Backtest`, and for each of them its safety properties as theorems. Left, in this order:

1. Abstract specifications that `Outbox` and `Workflow` implement, as `ScoringQueue` does
   `ScoringLifecycle`: an event is delivered at least once, a run is passed stage by stage.
2. `Notifications`: dispatchers racing on the ledger's unique key on PostgreSQL; abstract
   specification: at most one letter per kind unless a crash, which `Workflow` can then implement.
3. Pipeline stages: mode and transcript read before the lock, events of the stages, artifacts.
4. The rate limiter's windows, roles and scopes.

## Not modelled

What a pitch's text comes to (`layers/`, `domain/`, `embeddings/`, the parser), the fitting of
`uncertainty_calibration`, validation of event schemas, prompts and transcripts: pure
functions, floating-point mathematics. The rate limiter and roles; notifications of
several dispatchers on PostgreSQL; the pipeline's events, artifacts and session cache; the
portfolio-state commands, which nothing that scores reads; `release_readiness_check.py` and the scripts that
only render reports. The secret manager's providers, notification back ends and brokers: external
services. `gui.py`, `admin_ui.py`, `sdk/`, the manifests of `deploy/`, `scripts/`, `installer/`, the legacy
`server/app.py`: presentation, packaging or stateless wrappers. `ScoringQueue` and `Outbox`
are of PostgreSQL: SQLite serialises writers and shows fewer interleavings of them.
