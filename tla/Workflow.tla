------------------------------ MODULE Workflow ------------------------------
(***************************************************************************)
(* The workflow orchestrator of server/fund for one application: the       *)
(* fund_workflow_runs and fund_workflow_steps rows, the requests and       *)
(* commands that run or resume the nine stages, the decision, and the      *)
(* founder's letters with their ledger, fund_notification_log.             *)
(*                                                                         *)
(* The database is SQLite, the default: one transaction writes at a time,  *)
(* from its first flush to its end, and what is read before that flush is  *)
(* what is committed.  (On PostgreSQL no run gets past compile: it stores  *)
(* the empty string as scoring_job_id, which violates the foreign key.)    *)
(***************************************************************************)
EXTENDS Integers, Sequences, FiniteSetsExt

CONSTANTS
    Request,       \* API requests and commands, each carried out once
    Transcript,    \* transcripts that pass the quality stage
    NoTranscript,  \* none yet
    Verdict,       \* canonical verdicts
    ManualReview,  \* the verdict whose letter notify falls back to
    NoVerdict,     \* no decision, or none evaluated in this request
    NoRequest,     \* nobody writes
    STEPS,         \* the stages, in their order
    MaxRuns,       \* bound: workflow runs
    MaxChanges,    \* bound: changes of the application's inputs
    MaxFaults      \* bound: sessions that die or cannot get the write lock,
                   \* and errors raised for letters that were sent

ASSUME ConstantsAssumption ==
    /\ NoTranscript \notin Transcript
    /\ ManualReview \in Verdict
    /\ NoVerdict \notin Verdict
    /\ NoRequest \notin Request
    /\ STEPS \in Seq(STRING)
    /\ \A i, j \in 1..Len(STEPS) : STEPS[i] = STEPS[j] => i = j
    /\ \A i \in 1..Len(STEPS) : STEPS[i] = "notify" => i = Len(STEPS)
    /\ MaxRuns \in Nat \ {0}
    /\ MaxChanges \in Nat
    /\ MaxFaults \in Nat

VARIABLES
    app,      \* the application's inputs: transcript and scoring mode
    db,       \* the committed runs, decision and ledger
    tx,       \* the same as the writing transaction sees them, else db
    writer,   \* the request that holds the write lock
    pc,       \* where each request is
    ctx,      \* its WorkflowContext and the rows its session has read
    letters,  \* letters the founder got, by verdict
    changes,  \* changes of the inputs so far
    faults    \* sessions lost and errors for sent letters so far

vars == <<app, db, tx, writer, pc, ctx, letters, changes, faults>>

Stage == {STEPS[i] : i \in 1..Len(STEPS)}

Mode   == {"enforce", "shadow"}
AppRow == [transcript : Transcript \cup {NoTranscript}, mode : Mode]

\* What _stage_inputs makes of the inputs; NoTranscript and "none" where a stage's
\* digest leaves them out.  The transcript stands for the domain, the compliance
\* status and the check size too.
Digest(name, a) ==
    [transcript |-> IF name \in {"intake", "notify"} THEN NoTranscript ELSE a.transcript,
     mode       |-> IF name \in {"artifact", "notify"} THEN a.mode ELSE "none"]
DigestValue == [transcript : Transcript \cup {NoTranscript}, mode : Mode \cup {"none"}]

\* For the properties only: `passes' counts the times a stage has succeeded,
\* `from' is the digest of what it worked on then, `forced' tells that a forced
\* resume took up the run, `refused' that a refused one left it running.
StepRow == [status : {"absent", "succeeded", "failed"}, digest : DigestValue,
            from : DigestValue, passes : Nat]
RunRow  == [status : {"running", "succeeded", "failed"}, steps : [Stage -> StepRow],
            forced : BOOLEAN, refused : BOOLEAN]
NoApp   == [transcript |-> NoTranscript, mode |-> "enforce"]
NoStep  == [status |-> "absent", digest |-> Digest("intake", NoApp),
            from |-> Digest("intake", NoApp), passes |-> 0]
NewRun  == [status |-> "running", steps |-> [s \in Stage |-> NoStep],
            forced |-> FALSE, refused |-> FALSE]

\* sent: the verdicts whose row in fund_notification_log says "sent".  A row
\* that says "failed" is written again, as if there were none.
Database == [runs : Seq(RunRow), decision : Verdict \cup {NoVerdict},
             sent : SUBSET Verdict]

\* at: the position in STEPS.  run: the run's number, 0 for a new one.  read:
\* its status, and steps: its steps, as the session has them.
Context == [client : {"api", "cli"}, force : BOOLEAN, app : AppRow,
            run : Nat, read : {"none", "running", "succeeded", "failed"}, at : 1..(Len(STEPS) + 1),
            steps : [Stage -> StepRow], verdict : Verdict \cup {NoVerdict}]
NoContext == [client |-> "api", force |-> FALSE, app |-> NoApp, run |-> 0,
              read |-> "none", at |-> 1, steps |-> NewRun.steps, verdict |-> NoVerdict]

-----------------------------------------------------------------------------
Init ==
    /\ app \in {[NoApp EXCEPT !.transcript = t] : t \in Transcript \cup {NoTranscript}}
    /\ db = [runs |-> <<>>, decision |-> NoVerdict,
             sent |-> {}]
    /\ tx = db
    /\ writer = NoRequest
    /\ pc = [r \in Request |-> "new"]
    /\ ctx = [r \in Request |-> NoContext]
    /\ letters = [v \in Verdict |-> 0]
    /\ changes = 0
    /\ faults = 0

\* A flush waits until no other transaction writes.
MayWrite(r) == writer \in {NoRequest, r}

Write(r, d) == tx' = d /\ writer' = r /\ UNCHANGED db

Goto(r, where, c) ==
    /\ pc' = [pc EXCEPT ![r] = where]
    /\ ctx' = [ctx EXCEPT ![r] = c]

Commit(r, d) ==
    /\ db' = d
    /\ tx' = d
    /\ writer' = NoRequest
    /\ Goto(r, "done", NoContext)

\* Mutant: the request ends without closing its session.
Rollback_Open(r) ==
    /\ writer' = IF writer = r THEN NoRequest ELSE writer
    /\ UNCHANGED <<db, tx>>
    /\ Goto(r, "done", NoContext)

\* get_db closes the session, or the command rolls back.
Rollback(r) ==
    /\ tx' = IF writer = r THEN db ELSE tx
    /\ writer' = IF writer = r THEN NoRequest ELSE writer
    /\ UNCHANGED db
    /\ Goto(r, "done", NoContext)

NoLetter == UNCHANGED <<letters, faults>>

\* Mutant: dispatch does not look for the row of an earlier letter.
Mails_NoLedger(d, v, mode) == mode = "enforce"

\* A founder's letter goes out in enforce mode, unless the ledger has it as sent.
Mails(d, v, mode) == mode = "enforce" /\ v \notin d.sent

\* dispatch, after which `sent' is what the ledger has as sent: what the backend
\* raises, with the letter out or not, leaves the row "failed".  None of it fails
\* the stage or the job that dispatches.
Dispatch(d, v, mode, sent) ==
    \/ ~Mails(d, v, mode) /\ sent = d.sent /\ NoLetter
    \/ \E outcome \in {"sent", "refused", "unsure"} :
        /\ Mails(d, v, mode)
        /\ outcome = "unsure" => faults < MaxFaults
        /\ faults' = IF outcome = "unsure" THEN faults + 1 ELSE faults
        /\ letters' = IF outcome = "refused" THEN letters ELSE [letters EXCEPT ![v] = @ + 1]
        /\ sent = IF outcome = "sent" THEN d.sent \cup {v} ELSE d.sent

-----------------------------------------------------------------------------
(* Everybody else who writes.                                              *)

\* A score request brings a transcript, set_scoring_mode the other mode (after a
\* decision only shadow -> enforce, unless it is forced).
ChangeInputs ==
    /\ writer = NoRequest
    /\ changes < MaxChanges
    /\ \/ \E t \in Transcript \ {app.transcript} : app' = [app EXCEPT !.transcript = t]
       \/ \E m \in Mode \ {app.mode} : app' = [app EXCEPT !.mode = m]
    /\ changes' = changes + 1
    /\ UNCHANGED <<db, tx, writer, pc, ctx, letters, faults>>

\* The scoring worker decides an undecided application and writes to the founder
\* in one transaction (see ScoringQueue for how the job got there).
JobDecides(v) ==
    /\ writer = NoRequest
    /\ db.decision = NoVerdict
    /\ app.transcript # NoTranscript
    /\ \E sent \in {db.sent, db.sent \cup {v}} :
        /\ Dispatch(db, v, app.mode, sent)
        /\ db' = [db EXCEPT !.decision = v, !.sent = sent]
    /\ tx' = db'
    /\ UNCHANGED <<app, writer, pc, ctx, changes>>

\* The worker dies after the letter and before the commit.
JobDies(v) ==
    /\ writer = NoRequest
    /\ db.decision = NoVerdict
    /\ app.transcript # NoTranscript
    /\ faults < MaxFaults
    /\ Mails(db, v, app.mode)
    /\ letters' = [letters EXCEPT ![v] = @ + 1]
    /\ faults' = faults + 1
    /\ UNCHANGED <<app, db, tx, writer, pc, ctx, changes>>

-----------------------------------------------------------------------------
(* Opening a run.                                                          *)

\* The newest run that has not succeeded, else the newest, else none.
LoadRunForResume(runs) ==
    LET open == {i \in 1..Len(runs) : runs[i].status # "succeeded"}
    IN  IF open = {} THEN Len(runs) ELSE Max(open)

\* The endpoint reads the application first; its session keeps what it read.
Arrive(r) ==
    /\ pc[r] = "new"
    /\ \E client \in {"api", "cli"}, resume \in BOOLEAN, force \in BOOLEAN :
        /\ force => resume
        /\ Goto(r, IF resume THEN "arrived" ELSE "open", [NoContext EXCEPT !.client = client,
                                   !.force = force,
                                   !.app = IF client = "api" THEN app ELSE NoApp])
    /\ UNCHANGED <<app, db, tx, writer, letters, changes, faults>>

ReadRuns(r) ==
    /\ pc[r] = "arrived"
    /\ LET run == LoadRunForResume(db.runs)
       IN  Goto(r, "open", [ctx[r] EXCEPT !.run = run,
                                !.read = IF run = 0 THEN "none" ELSE db.runs[run].status])
    /\ UNCHANGED <<app, db, tx, writer, letters, changes, faults>>

\* _ensure_app and _load_steps, after the flush (if any) that opened the run.
Loaded(r, run, steps) ==
    [ctx[r] EXCEPT !.run = run, !.steps = steps, !.read = "running",
                   !.app = IF ctx[r].client = "api" THEN @ ELSE app]

OpenNew(r) ==
    /\ pc[r] = "open" /\ ctx[r].run = 0
    /\ MayWrite(r)
    /\ Len(tx.runs) < MaxRuns
    /\ Write(r, [tx EXCEPT !.runs = Append(@, NewRun)])
    /\ Goto(r, "stages", Loaded(r, Len(tx.runs) + 1, NewRun.steps))
    /\ UNCHANGED <<app, letters, changes, faults>>

\* The status changes to running, so the flush writes it and takes the lock.
OpenAgain(r) ==
    /\ pc[r] = "open" /\ ctx[r].run # 0 /\ ctx[r].read # "running"
    /\ MayWrite(r)
    /\ LET run == ctx[r].run
           row == [tx.runs[run] EXCEPT !.status = "running", !.forced = @ \/ ctx[r].force]
       IN  /\ Write(r, [tx EXCEPT !.runs[run] = row])
           /\ Goto(r, "stages", Loaded(r, run, tx.runs[run].steps))
    /\ UNCHANGED <<app, letters, changes, faults>>

\* The run the session has read is running already: the flush has nothing to
\* write, and the application and the steps are read without the lock.
OpenRunning(r) ==
    /\ pc[r] = "open" /\ ctx[r].read = "running"
    /\ Goto(r, "loading", Loaded(r, ctx[r].run, NewRun.steps))
    /\ UNCHANGED <<app, db, tx, writer, letters, changes, faults>>

LoadSteps(r) ==
    /\ pc[r] = "loading"
    /\ Goto(r, "stages", [ctx[r] EXCEPT !.steps = db.runs[ctx[r].run].steps])
    /\ UNCHANGED <<app, db, tx, writer, letters, changes, faults>>

-----------------------------------------------------------------------------
(* The loop over STEPS.                                                    *)

\* The step is next, and the session has read this of it.
At(r, name) == pc[r] = "stages" /\ ctx[r].at <= Len(STEPS) /\ STEPS[ctx[r].at] = name
Known(r, name) == ctx[r].steps[name]

\* Mutant: a resume takes up the run at its first stage.
MustRun_All(step) == TRUE

MustRun(step) == step.status # "succeeded"

\* Mutant: a step that has a row is passed over.
MaySkip_AnyRow(step, name, c) ==
    step.status # "absent" /\ (c.force \/ step.digest = Digest(name, c.app))

\* Mutant: the digest of a succeeded step is not compared.
MaySkip_NoDigest(step, name, c) == step.status = "succeeded"

MaySkip(step, name, c) ==
    step.status = "succeeded" /\ (c.force \/ step.digest = Digest(name, c.app))

Skip(r, name) ==
    /\ At(r, name)
    /\ MaySkip(Known(r, name), name, ctx[r])
    /\ Goto(r, "stages", [ctx[r] EXCEPT !.at = @ + 1])
    /\ UNCHANGED <<app, db, tx, writer, letters, changes, faults>>

\* WorkflowResumeRefused: the endpoint rolls back; the command commits, and
\* what the run's opening has written stays.
Refuse(r, name) ==
    /\ At(r, name)
    /\ ~MustRun(Known(r, name)) /\ ~MaySkip(Known(r, name), name, ctx[r])
    /\ IF ctx[r].client = "cli" /\ writer = r
       THEN Commit(r, [tx EXCEPT !.runs[ctx[r].run].refused = TRUE])
       ELSE Rollback(r)
    /\ UNCHANGED <<app, letters, changes, faults>>

\* The stage runs: its row was read, or is inserted.
Running(r, name) ==
    /\ At(r, name)
    /\ MustRun(Known(r, name))
    /\ MayWrite(r)
    /\ Known(r, name).status = "absent" =>
           tx.runs[ctx[r].run].steps[name].status = "absent"

\* The unique index on (workflow_run_id, name) refuses the insert.  The Alembic
\* migration makes the index; in a database made by create_all a second row
\* would stand.  No property rests on it.
Clash(r, name) ==
    /\ At(r, name)
    /\ MayWrite(r)
    /\ Known(r, name).status = "absent"
    /\ tx.runs[ctx[r].run].steps[name].status # "absent"
    /\ Rollback(r)
    /\ UNCHANGED <<app, letters, changes, faults>>

\* The digest is written when it differs from the one the session has read.
NewDigest(r, name) ==
    IF Known(r, name).status # "absent" /\ Known(r, name).digest = Digest(name, ctx[r].app)
    THEN tx.runs[ctx[r].run].steps[name].digest
    ELSE Digest(name, ctx[r].app)

Passed(r, name, d) ==
    LET run  == ctx[r].run
        step == [status |-> "succeeded", digest |-> NewDigest(r, name),
                 from |-> Digest(name, ctx[r].app), passes |-> d.runs[run].steps[name].passes + 1]
        row  == [d.runs[run] EXCEPT !.steps[name] = step]
    IN  [d EXCEPT !.runs[run] = row]

NextStage(r, verdict) ==
    Goto(r, "stages", [ctx[r] EXCEPT !.at = @ + 1, !.verdict = verdict])

\* Stages that touch none of the modelled rows but their own.
RunStage(r, name) ==
    /\ name \notin {"decide", "artifact", "notify"}
    /\ Running(r, name)
    /\ name = "transcript_quality" => ctx[r].app.transcript # NoTranscript
    /\ Write(r, Passed(r, name, tx))
    /\ NextStage(r, ctx[r].verdict)
    /\ UNCHANGED <<app, letters, changes, faults>>

\* transcript_quality raises WorkflowError, and both clients roll back.
RejectTranscript(r) ==
    /\ Running(r, "transcript_quality")
    /\ ctx[r].app.transcript = NoTranscript
    /\ Rollback(r)
    /\ UNCHANGED <<app, letters, changes, faults>>

\* The policy, with the portfolio as it is now, may come to any verdict.
Decide(r, v) ==
    /\ Running(r, "decide")
    /\ Write(r, [Passed(r, "decide", tx) EXCEPT !.decision = v])
    /\ NextStage(r, v)
    /\ UNCHANGED <<app, letters, changes, faults>>

\* After a resume that skipped decide, the policy is evaluated again.
IssueArtifact(r, v) ==
    /\ Running(r, "artifact")
    /\ ctx[r].verdict \in {v, NoVerdict}
    /\ Write(r, Passed(r, "artifact", tx))
    /\ NextStage(r, v)
    /\ UNCHANGED <<app, letters, changes, faults>>

LetterVerdict(c) == IF c.verdict = NoVerdict THEN ManualReview ELSE c.verdict

NotifyFounder(r) ==
    /\ Running(r, "notify")
    /\ LET v == LetterVerdict(ctx[r])
       IN  \E sent \in {tx.sent, tx.sent \cup {v}} :
               /\ Dispatch(tx, v, ctx[r].app.mode, sent)
               /\ Write(r, Passed(r, "notify", [tx EXCEPT !.sent = sent]))
    /\ NextStage(r, ctx[r].verdict)
    /\ UNCHANGED <<app, changes>>

\* Any other exception of a stage: the step and the run fail, and both clients
\* commit.  (Intake and transcript_quality have nothing else to raise.)
FailStage(r, name) ==
    /\ name \notin {"intake", "transcript_quality"}
    /\ Running(r, name)
    /\ LET run  == ctx[r].run
           step == [tx.runs[run].steps[name] EXCEPT !.status = "failed",
                                                     !.digest = NewDigest(r, name)]
           row  == [tx.runs[run] EXCEPT !.status = "failed", !.steps[name] = step]
       IN  Commit(r, [tx EXCEPT !.runs[run] = row])
    /\ UNCHANGED <<app, letters, changes, faults>>

Finish(r) ==
    /\ pc[r] = "stages" /\ ctx[r].at > Len(STEPS)
    /\ MayWrite(r)
    /\ Commit(r, [tx EXCEPT !.runs[ctx[r].run].status = "succeeded"])
    /\ UNCHANGED <<app, letters, changes, faults>>

\* The process dies, or the lock does not come in time.
Crash(r) ==
    /\ pc[r] \in {"arrived", "open", "loading", "stages"}
    /\ faults < MaxFaults
    /\ faults' = faults + 1
    /\ Rollback(r)
    /\ UNCHANGED <<app, letters, changes>>

-----------------------------------------------------------------------------
Next ==
    \/ ChangeInputs
    \/ \E v \in Verdict : JobDecides(v) \/ JobDies(v)
    \/ \E r \in Request :
        \/ Arrive(r) \/ ReadRuns(r)
        \/ OpenNew(r) \/ OpenAgain(r) \/ OpenRunning(r) \/ LoadSteps(r)
        \/ \E name \in Stage : \/ Skip(r, name) \/ Refuse(r, name) \/ Clash(r, name)
                               \/ RunStage(r, name) \/ FailStage(r, name)
        \/ RejectTranscript(r)
        \/ \E v \in Verdict : Decide(r, v) \/ IssueArtifact(r, v)
        \/ NotifyFounder(r) \/ Finish(r) \/ Crash(r)

Spec == Init /\ [][Next]_vars

-----------------------------------------------------------------------------
(* Properties.                                                             *)

\* Every variable keeps its type; outside a transaction the writer's view is
\* what is committed.
TypeOK ==
    /\ app \in AppRow
    /\ \A d \in {db, tx} :
        /\ d.runs \in Seq(RunRow) /\ Len(d.runs) <= MaxRuns
        /\ d.decision \in Verdict \cup {NoVerdict}
        /\ d.sent \subseteq Verdict
    /\ writer \in Request \cup {NoRequest}
    /\ writer = NoRequest => tx = db
    /\ pc \in [Request -> {"new", "arrived", "open", "loading", "stages", "done"}]
    /\ ctx \in [Request -> Context]
    /\ letters \in [Verdict -> Nat]
    /\ changes \in 0..MaxChanges /\ faults \in 0..MaxFaults

\* A run no refusal has left running.
Regular(run) == ~run.refused

\* A run stands as succeeded only when each of the nine stages has succeeded,
\* however often it failed, was resumed, or was resumed by two at once: the
\* orchestrator passes over steps it read, and then marks the run.
SucceededComplete ==
    \A i \in 1..Len(db.runs) :
        (Regular(db.runs[i]) /\ db.runs[i].status = "succeeded") =>
            \A s \in Stage : db.runs[i].steps[s].status = "succeeded"

\* A run nobody forced rests on one state of the inputs: whatever changed
\* between its attempts, its succeeded stages that depend on the transcript saw
\* the same one, and artifact and notify the same scoring mode.  The digests on
\* the steps are there to refuse a resume that would break this.
OneSnapshot ==
    \A i \in 1..Len(db.runs) : Regular(db.runs[i]) /\ ~db.runs[i].forced =>
        \A s, t \in {s \in Stage : db.runs[i].steps[s].status = "succeeded"} :
            LET a == db.runs[i].steps[s].from
                b == db.runs[i].steps[t].from
            IN  /\ NoTranscript \in {a.transcript, b.transcript} \/ a.transcript = b.transcript
                /\ "none" \in {a.mode, b.mode} \/ a.mode = b.mode

\* No stage succeeds twice in one run, and so no event of it is published
\* twice, even when two resumes go for the same run at once.
StagesPassOnce ==
    \A i \in 1..Len(db.runs) : Regular(db.runs[i]) =>
        \A s \in Stage : db.runs[i].steps[s].passes <= 1

\* "A succeeded stage is never re-executed by a resume" (workflow.py): the same
\* of every run, also of one that a refused command left running.
NeverReexecuted ==
    \A i \in 1..Len(db.runs) : \A s \in Stage : db.runs[i].steps[s].passes <= 1

\* The founder gets the letter of a verdict once, from whichever run, resume or
\* scoring job comes first; a second one takes a session that died after it, or
\* a backend that reported a letter it had sent as failed.
LettersOnce == \A v \in Verdict : letters[v] <= 1 + faults

\* The letter tells the founder the decision that stands in the database, also
\* when the run was resumed after its decide stage.
LetterMatchesDecision ==
    [][\A v \in Verdict :
          (letters'[v] > letters[v] /\ tx'.decision # NoVerdict) => v = tx'.decision]_vars

=============================================================================
