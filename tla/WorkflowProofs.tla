--------------------------- MODULE WorkflowProofs ---------------------------
(***************************************************************************)
(* The theorems about the workflow orchestrator, for any number of         *)
(* requests, runs, stages, transcripts, verdicts, changes and faults.      *)
(*                                                                         *)
(* A request that opens a run by a write holds the lock until it ends, and *)
(* so what its session has read of the run stays true.  Only a run that a  *)
(* refused command left running is opened without the lock.                *)
(***************************************************************************)
EXTENDS Workflow, SequenceTheorems, WellFoundedInduction, TLAPS

-----------------------------------------------------------------------------
(* The inductive invariant.                                                *)

Typed ==
    /\ app \in AppRow
    /\ db \in Database /\ Len(db.runs) <= MaxRuns
    /\ tx \in Database /\ Len(tx.runs) <= MaxRuns
    /\ writer \in Request \cup {NoRequest}
    /\ pc \in [Request -> {"new", "arrived", "open", "loading", "stages", "done"}]
    /\ ctx \in [Request -> Context]
    /\ letters \in [Verdict -> Nat]
    /\ changes \in 0..MaxChanges /\ faults \in 0..MaxFaults

Succeeded(run, i) == run.steps[STEPS[i]].status = "succeeded"

\* The stages succeed in their order and once; what the digest of one tells is
\* what it worked on; and one state of the inputs explains them all.
InOrder(run) ==
    \A i, j \in 1..Len(STEPS) : i < j /\ Succeeded(run, j) => Succeeded(run, i)
PassedOnce(run) ==
    \A i \in 1..Len(STEPS) :
        LET step == run.steps[STEPS[i]]
        IN  IF step.status = "succeeded" THEN step.passes = 1 /\ step.digest = step.from
                                         ELSE step.passes = 0
Explained(run) ==
    \E a \in AppRow : \A i \in 1..Len(STEPS) :
        Succeeded(run, i) => run.steps[STEPS[i]].from = Digest(STEPS[i], a)

Sound(run) == InOrder(run) /\ PassedOnce(run) /\ (~run.forced => Explained(run))

\* What is committed of a run no refusal has left running.
Settled(run) ==
    Regular(run) => /\ Sound(run)
                    /\ run.status # "running"
                    /\ run.status = "succeeded" => \A i \in 1..Len(STEPS) : Succeeded(run, i)

RunsSettled == \A i \in 1..Len(db.runs) : Settled(db.runs[i])

\* What a session has passed has succeeded and, if nobody forced the run, on
\* its inputs; what is before it is as it has read it.
Grounded(c, run) ==
    /\ Sound(run)
    /\ \A i \in 1..Len(STEPS) :
        IF i < c.at THEN /\ Succeeded(run, i)
                         /\ ~run.forced => run.steps[STEPS[i]].from = Digest(STEPS[i], c.app)
                    ELSE /\ run.steps[STEPS[i]] = c.steps[STEPS[i]]
                         /\ ~run.forced /\ c.force => ~Succeeded(run, i)

\* The writer has changed its run and no other.
WriterOnly(r) ==
    LET run == ctx[r].run
    IN  /\ pc[r] = "stages"
        /\ run \in 1..Len(tx.runs)
        /\ Len(db.runs) <= Len(tx.runs)
        /\ \A i \in 1..Len(tx.runs) : i # run => i <= Len(db.runs) /\ tx.runs[i] = db.runs[i]
        /\ run <= Len(db.runs) /\ db.runs[run].refused => tx.runs[run].refused
        /\ Regular(tx.runs[run]) => Grounded(ctx[r], tx.runs[run])

\* Who does not write has read a run that is committed; without the lock it goes
\* through the stages of a refused one alone.
Reader(r) ==
    LET run == ctx[r].run
    IN  /\ pc[r] \in {"arrived", "open"} => ctx[r].at = 1
        /\ pc[r] = "open" => IF run = 0 THEN ctx[r].read = "none"
                                        ELSE ctx[r].read # "none" /\ run <= Len(db.runs)
        /\ pc[r] \in {"loading", "stages"} => run \in 1..Len(db.runs) /\ db.runs[run].refused
        /\ pc[r] = "open" /\ ctx[r].read = "running" => db.runs[run].refused

Sessions ==
    /\ writer = NoRequest => tx = db
    /\ \A r \in Request : IF writer = r THEN WriterOnly(r) ELSE Reader(r)

\* A letter is one the writer's ledger has, or has cost a fault.  The ledger is
\* ahead of the committed one only behind the last stage.
Accounted ==
    /\ \A v \in Verdict : letters[v] <= faults + (IF v \in tx.sent THEN 1 ELSE 0)
    /\ db.sent \subseteq tx.sent
    /\ \A r \in Request : writer = r /\ ctx[r].at <= Len(STEPS) => tx.sent = db.sent

WorkflowInv == Typed /\ RunsSettled /\ Sessions /\ Accounted

-----------------------------------------------------------------------------
(* The data.                                                               *)

LEMMA StagesTyped ==
    /\ Len(STEPS) \in Nat
    /\ \A i \in 1..Len(STEPS) : STEPS[i] \in Stage
    /\ \A s \in Stage : \E i \in 1..Len(STEPS) : STEPS[i] = s
    /\ \A i, j \in 1..Len(STEPS) : STEPS[i] = STEPS[j] => i = j
    /\ \A i \in 1..Len(STEPS) : STEPS[i] = "notify" => i = Len(STEPS)
<1>1. Len(STEPS) \in Nat
  BY ConstantsAssumption, LenProperties
<1> QED
  BY <1>1, ConstantsAssumption DEF Stage

LEMMA DigestTyped ==
    ASSUME NEW name, NEW a \in AppRow
    PROVE  Digest(name, a) \in DigestValue
BY DEF Digest, DigestValue, AppRow, Mode

LEMMA RowsTyped ==
    /\ NoApp \in AppRow
    /\ NoStep \in StepRow /\ NoStep.status = "absent" /\ NoStep.passes = 0
    /\ NewRun \in RunRow /\ NewRun.status = "running" /\ ~NewRun.forced /\ ~NewRun.refused
    /\ NewRun.steps = [s \in Stage |-> NoStep]
    /\ NoContext \in Context /\ NoContext.at = 1 /\ NoContext.run = 0 /\ NoContext.read = "none"
<1>1. NoApp \in AppRow
  BY DEF NoApp, AppRow, Mode
<1>2. NoStep \in StepRow /\ NoStep.status = "absent" /\ NoStep.passes = 0
  BY <1>1, DigestTyped DEF NoStep, StepRow
<1>3. /\ NewRun \in RunRow /\ NewRun.status = "running" /\ ~NewRun.forced /\ ~NewRun.refused
      /\ NewRun.steps = [s \in Stage |-> NoStep]
  BY <1>2 DEF NewRun, RunRow
<1>4. 1 \in 1..(Len(STEPS) + 1)
  BY StagesTyped
<1>5. NoContext \in Context /\ NoContext.at = 1 /\ NoContext.run = 0 /\ NoContext.read = "none"
  <2>1. NewRun.steps \in [Stage -> StepRow]
    BY <1>2, <1>3
  <2> QED
    BY <1>1, <1>4, <2>1 DEF NoContext, Context
<1> QED
  BY <1>1, <1>2, <1>3, <1>5

LEMMA DatabaseTyped ==
    ASSUME NEW d \in Database
    PROVE  /\ d.runs \in Seq(RunRow) /\ Len(d.runs) \in Nat
           /\ \A i \in 1..Len(d.runs) : d.runs[i] \in RunRow
           /\ d.decision \in Verdict \cup {NoVerdict} /\ d.sent \subseteq Verdict
<1>1. /\ d.runs \in Seq(RunRow) /\ d.decision \in Verdict \cup {NoVerdict} /\ d.sent \subseteq Verdict
  BY DEF Database
<1> QED
  BY <1>1, LenProperties, ElementOfSeq

\* e is d with another row for one of the runs.
Changed(d, e, run, row) ==
    /\ e \in Database
    /\ e.runs = [d.runs EXCEPT ![run] = row]

LEMMA ChangedRuns ==
    ASSUME NEW d \in Database, NEW e, NEW run \in 1..Len(d.runs), NEW row \in RunRow,
           Changed(d, e, run, row)
    PROVE  /\ Len(e.runs) = Len(d.runs)
           /\ e.runs[run] = row
           /\ \A i \in 1..Len(d.runs) : i # run => e.runs[i] = d.runs[i]
<1>1. d.runs \in Seq(RunRow)
  BY DatabaseTyped
<1> QED
  BY <1>1, ExceptSeq DEF Changed

\* A row of a step is written.
LEMMA StepWritten ==
    ASSUME NEW run \in RunRow, NEW name \in Stage, NEW step \in StepRow
    PROVE  LET row == [run EXCEPT !.steps[name] = step]
           IN  /\ row \in RunRow
               /\ row.status = run.status /\ row.forced = run.forced /\ row.refused = run.refused
               /\ row.steps[name] = step
               /\ \A s \in Stage : s # name => row.steps[s] = run.steps[s]
BY DEF RunRow

-----------------------------------------------------------------------------
(* What one session does to its run.                                       *)

\* A run that is opened anew has nothing to be passed over.
LEMMA NewGrounded ==
    ASSUME NEW c \in Context, c.at = 1, c.steps = NewRun.steps
    PROVE  Grounded(c, NewRun)
<1>1. \A i \in 1..Len(STEPS) : NewRun.steps[STEPS[i]] = NoStep
  BY RowsTyped, StagesTyped
<1>2. \A i \in 1..Len(STEPS) : ~Succeeded(NewRun, i) /\ ~(i < c.at)
  BY <1>1, RowsTyped, StagesTyped DEF Succeeded
<1>3. Sound(NewRun)
  BY <1>1, <1>2, RowsTyped DEF Sound, InOrder, PassedOnce, Explained
<1> QED
  BY <1>1, <1>2, <1>3 DEF Grounded

\* A run that is opened again is read afresh, and forced if the request forces.
LEMMA AgainGrounded ==
    ASSUME NEW c \in Context, NEW run \in RunRow, NEW row \in RunRow,
           Settled(run), Regular(run),
           c.at = 1, c.steps = run.steps,
           row.steps = run.steps, row.forced = (run.forced \/ c.force)
    PROVE  Grounded(c, row)
<1>1. Sound(run)
  BY DEF Settled
<1>2. run.forced \in BOOLEAN /\ c.force \in BOOLEAN
  BY DEF RunRow, Context
<1>3. ~row.forced => ~run.forced /\ ~c.force
  BY <1>2
<1>4. Sound(row)
  BY <1>1, <1>3 DEF Sound, InOrder, PassedOnce, Explained, Succeeded
<1>5. \A i \in 1..Len(STEPS) : ~(i < c.at)
  BY StagesTyped
<1> QED
  BY <1>3, <1>4, <1>5 DEF Grounded

\* The next stage's row is what the session has read of it.
LEMMA NextKnown ==
    ASSUME NEW c \in Context, NEW run \in RunRow, Grounded(c, run), c.at <= Len(STEPS)
    PROVE  /\ c.at \in 1..Len(STEPS)
           /\ run.steps[STEPS[c.at]] = c.steps[STEPS[c.at]]
<1>1. c.at \in 1..Len(STEPS)
  BY StagesTyped DEF Context
<1> QED
  BY <1>1, StagesTyped DEF Grounded

\* The stages in the session's back are those that have succeeded, if the next
\* one has not.
LEMMA OnlyPassed ==
    ASSUME NEW c \in Context, NEW run \in RunRow, Grounded(c, run), c.at <= Len(STEPS),
           ~Succeeded(run, c.at)
    PROVE  \A i \in 1..Len(STEPS) : Succeeded(run, i) <=> i < c.at
<1>1. c.at \in 1..Len(STEPS)
  BY NextKnown
<1>2. \A i \in 1..Len(STEPS) : i > c.at => ~Succeeded(run, i)
  BY <1>1 DEF Grounded, Sound, InOrder
<1> QED
  BY <1>1, <1>2, StagesTyped DEF Grounded

\* A stage that succeeds.
LEMMA PassGrounded ==
    ASSUME NEW c \in Context, NEW run \in RunRow, Grounded(c, run), c.at <= Len(STEPS),
           NEW row \in RunRow, NEW d \in Context,
           ~Succeeded(run, c.at),
           row.forced = run.forced,
           row.steps[STEPS[c.at]].status = "succeeded",
           row.steps[STEPS[c.at]].passes = run.steps[STEPS[c.at]].passes + 1,
           row.steps[STEPS[c.at]].digest = Digest(STEPS[c.at], c.app),
           row.steps[STEPS[c.at]].from = Digest(STEPS[c.at], c.app),
           \A s \in Stage : s # STEPS[c.at] => row.steps[s] = run.steps[s],
           d.at = c.at + 1, d.app = c.app, d.force = c.force, d.steps = c.steps
    PROVE  Grounded(d, row)
<1>1. c.at \in 1..Len(STEPS)
  BY NextKnown
<1>2. \A i \in 1..Len(STEPS) : i # c.at => row.steps[STEPS[i]] = run.steps[STEPS[i]]
  BY <1>1, StagesTyped
<1>3. \A i \in 1..Len(STEPS) : Succeeded(run, i) <=> i < c.at
  BY OnlyPassed
<1>4. \A i \in 1..Len(STEPS) : Succeeded(row, i) <=> i < d.at
  BY <1>1, <1>2, <1>3, StagesTyped DEF Succeeded
<1>5. InOrder(row)
  BY <1>1, <1>4, StagesTyped DEF InOrder
<1>6. PassedOnce(row)
  <2>1. run.steps[STEPS[c.at]].passes = 0
    BY <1>1 DEF Grounded, Sound, PassedOnce, Succeeded
  <2> QED
    BY <1>1, <1>2, <2>1 DEF Grounded, Sound, PassedOnce
<1>7. ASSUME ~row.forced, NEW i \in 1..Len(STEPS), i < d.at
      PROVE  row.steps[STEPS[i]].from = Digest(STEPS[i], d.app)
  <2>1. CASE i = c.at
    BY <2>1
  <2>2. CASE i # c.at
    <3>1. i < c.at
      BY <1>1, <1>7, <2>2, StagesTyped
    <3> QED
      BY <1>2, <1>7, <2>2, <3>1 DEF Grounded
  <2> QED
    BY <2>1, <2>2
<1>8. ~row.forced => Explained(row)
  <2>1. d.app \in AppRow
    BY DEF Context
  <2> QED
    BY <1>4, <1>7, <2>1 DEF Explained
<1>9. ASSUME NEW i \in 1..Len(STEPS), ~(i < d.at)
      PROVE  row.steps[STEPS[i]] = d.steps[STEPS[i]] /\ ~Succeeded(row, i)
  <2>1. i # c.at /\ ~(i < c.at)
    BY <1>1, <1>9, StagesTyped
  <2> QED
    BY <1>2, <1>4, <1>9, <2>1 DEF Grounded
<1> QED
  BY <1>4, <1>5, <1>6, <1>7, <1>8, <1>9 DEF Grounded, Sound

\* A stage that is passed over: its digest is that of the session's inputs, or
\* the request forces, and then the run is a forced one.
LEMMA SkipGrounded ==
    ASSUME NEW c \in Context, NEW run \in RunRow, Grounded(c, run), c.at <= Len(STEPS),
           NEW d \in Context, MaySkip(c.steps[STEPS[c.at]], STEPS[c.at], c),
           d.at = c.at + 1, d.app = c.app, d.force = c.force, d.steps = c.steps
    PROVE  Grounded(d, run)
<1>1. c.at \in 1..Len(STEPS) /\ run.steps[STEPS[c.at]] = c.steps[STEPS[c.at]]
  BY NextKnown
<1>2. Succeeded(run, c.at)
  BY <1>1 DEF MaySkip, Succeeded
<1>3. ~run.forced => run.steps[STEPS[c.at]].from = Digest(STEPS[c.at], c.app)
  <2>1. ~run.forced => ~c.force
    BY <1>1, <1>2, StagesTyped DEF Grounded
  <2>2. run.steps[STEPS[c.at]].digest = run.steps[STEPS[c.at]].from
    BY <1>1, <1>2 DEF Grounded, Sound, PassedOnce, Succeeded
  <2> QED
    BY <1>1, <2>1, <2>2 DEF MaySkip
<1>4. \A i \in 1..Len(STEPS) : i < d.at => i < c.at \/ i = c.at
  BY <1>1, StagesTyped
<1>5. \A i \in 1..Len(STEPS) : ~(i < d.at) => ~(i < c.at)
  BY <1>1, StagesTyped
<1> QED
  BY <1>2, <1>3, <1>4, <1>5 DEF Grounded

\* A stage that fails and leaves the run failed.
LEMMA FailSettled ==
    ASSUME NEW c \in Context, NEW run \in RunRow, Grounded(c, run), c.at <= Len(STEPS),
           NEW row \in RunRow,
           ~Succeeded(run, c.at),
           row.status = "failed", row.forced = run.forced,
           row.steps[STEPS[c.at]].status = "failed",
           row.steps[STEPS[c.at]].passes = run.steps[STEPS[c.at]].passes,
           \A s \in Stage : s # STEPS[c.at] => row.steps[s] = run.steps[s]
    PROVE  Settled(row)
<1>1. c.at \in 1..Len(STEPS)
  BY NextKnown
<1>2. \A i \in 1..Len(STEPS) : i # c.at => row.steps[STEPS[i]] = run.steps[STEPS[i]]
  BY <1>1, StagesTyped
<1>3. \A i \in 1..Len(STEPS) : Succeeded(row, i) <=> Succeeded(run, i)
  BY <1>1, <1>2 DEF Succeeded
<1>4. InOrder(row)
  BY <1>3 DEF InOrder, Grounded, Sound
<1>5. PassedOnce(row)
  BY <1>1, <1>2 DEF Grounded, Sound, PassedOnce, Succeeded
<1>6. ~row.forced => Explained(row)
  <2>1. ~row.forced => Explained(run)
    BY DEF Grounded, Sound
  <2>2. \A i \in 1..Len(STEPS) : Succeeded(row, i) => row.steps[STEPS[i]] = run.steps[STEPS[i]]
    BY <1>1, <1>2, <1>3
  <2> QED
    BY <1>3, <2>1, <2>2 DEF Explained
<1> QED
  BY <1>4, <1>5, <1>6 DEF Settled, Sound

\* The loop is through.
LEMMA FinishSettled ==
    ASSUME NEW c \in Context, NEW run \in RunRow, Grounded(c, run), c.at > Len(STEPS),
           NEW row \in RunRow,
           row.status = "succeeded", row.forced = run.forced, row.steps = run.steps
    PROVE  Settled(row)
<1>1. \A i \in 1..Len(STEPS) : i < c.at
  BY StagesTyped DEF Context
<1>2. \A i \in 1..Len(STEPS) : Succeeded(run, i)
  BY <1>1 DEF Grounded
<1>3. Sound(row)
  BY DEF Grounded, Sound, InOrder, PassedOnce, Explained, Succeeded
<1> QED
  BY <1>2, <1>3 DEF Settled, Succeeded

-----------------------------------------------------------------------------
(* What a step of one request leaves of the others.                        *)

\* Runs are added to the committed ones, and a refused one stays refused.
Grown(d, e) ==
    /\ Len(d.runs) <= Len(e.runs)
    /\ \A i \in 1..Len(d.runs) : d.runs[i].refused => e.runs[i].refused

LEMMA ReaderKept ==
    ASSUME Typed, NEW q \in Request, Reader(q), Typed', Grown(db, db'),
           pc'[q] = pc[q], ctx'[q] = ctx[q]
    PROVE  Reader(q)'
<1>1. Len(db.runs) \in Nat /\ Len(db'.runs) \in Nat /\ ctx[q].run \in Nat
  BY DatabaseTyped DEF Typed, Context
<1>2. \A i \in 1..Len(db.runs) : i \in 1..Len(db'.runs)
  BY <1>1 DEF Grown
<1>3. ctx[q].run # 0 /\ ctx[q].run <= Len(db.runs) => ctx[q].run \in 1..Len(db.runs)
  BY <1>1
<1>4. pc[q] = "open" /\ ctx[q].read = "running" => ctx[q].run # 0 /\ ctx[q].run <= Len(db.runs)
  BY DEF Reader
<1> QED
  BY <1>1, <1>2, <1>3, <1>4 DEF Reader, Grown

\* Where the request goes and nobody else moves.
LEMMA GoesTo ==
    ASSUME Typed, NEW r \in Request, NEW where, NEW c, Goto(r, where, c),
           where \in {"new", "arrived", "open", "loading", "stages", "done"}, c \in Context
    PROVE  /\ pc' \in [Request -> {"new", "arrived", "open", "loading", "stages", "done"}]
           /\ ctx' \in [Request -> Context]
           /\ pc'[r] = where /\ ctx'[r] = c
           /\ \A q \in Request : q # r => pc'[q] = pc[q] /\ ctx'[q] = ctx[q]
BY DEF Typed, Goto

\* A request that neither has the lock nor takes it.
LEMMA Reads ==
    ASSUME WorkflowInv, NEW r \in Request, writer # r, NEW where, NEW c, Goto(r, where, c),
           where \in {"new", "arrived", "open", "loading", "stages", "done"}, c \in Context,
           UNCHANGED <<app, db, tx, writer, letters, changes, faults>>, Reader(r)'
    PROVE  WorkflowInv'
<1>1. /\ pc' \in [Request -> {"new", "arrived", "open", "loading", "stages", "done"}]
      /\ ctx' \in [Request -> Context]
      /\ \A q \in Request : q # r => pc'[q] = pc[q] /\ ctx'[q] = ctx[q]
  BY GoesTo DEF WorkflowInv
<1>2. Typed'
  BY <1>1 DEF WorkflowInv, Typed
<1>3. RunsSettled'
  BY DEF WorkflowInv, RunsSettled
<1>4. ASSUME NEW q \in Request
      PROVE  IF writer' = q THEN WriterOnly(q)' ELSE Reader(q)'
  <2>1. CASE q = r
    BY <2>1
  <2>2. CASE q # r /\ writer = q
    BY <1>1, <2>2 DEF WorkflowInv, Sessions, WriterOnly
  <2>3. CASE q # r /\ writer # q
    <3>1. Grown(db, db')
      BY DatabaseTyped DEF Grown, WorkflowInv, Typed
    <3> QED
      BY <1>1, <1>2, <2>3, <3>1, ReaderKept DEF WorkflowInv, Sessions
  <2> QED
    BY <2>1, <2>2, <2>3
<1>5. Sessions'
  BY <1>4 DEF WorkflowInv, Sessions
<1>6. Accounted'
  <2>1. \A q \in Request : writer = q => ctx'[q] = ctx[q]
    BY <1>1
  <2> QED
    BY <2>1 DEF WorkflowInv, Accounted
<1> QED
  BY <1>2, <1>3, <1>5, <1>6 DEF WorkflowInv

\* A request that has the lock after the step.
LEMMA Holds ==
    ASSUME WorkflowInv, NEW r \in Request, MayWrite(r), NEW c, Goto(r, "stages", c), c \in Context,
           UNCHANGED <<app, db, changes>>, writer' = r,
           tx' \in Database, Len(tx'.runs) <= MaxRuns,
           letters' \in [Verdict -> Nat], faults' \in 0..MaxFaults,
           WriterOnly(r)', Accounted'
    PROVE  WorkflowInv'
<1>1. /\ pc' \in [Request -> {"new", "arrived", "open", "loading", "stages", "done"}]
      /\ ctx' \in [Request -> Context]
      /\ \A q \in Request : q # r => pc'[q] = pc[q] /\ ctx'[q] = ctx[q]
  BY GoesTo DEF WorkflowInv
<1>2. Typed'
  BY <1>1 DEF WorkflowInv, Typed
<1>3. RunsSettled'
  BY DEF WorkflowInv, RunsSettled
<1>4. ASSUME NEW q \in Request, q # r
      PROVE  Reader(q)'
  <2>1. Grown(db, db')
    BY DatabaseTyped DEF Grown, WorkflowInv, Typed
  <2>2. writer # q
    BY <1>4, ConstantsAssumption DEF MayWrite
  <2> QED
    BY <1>1, <1>2, <1>4, <2>1, <2>2, ReaderKept DEF WorkflowInv, Sessions
<1>5. Sessions'
  BY <1>4, ConstantsAssumption DEF Sessions
<1> QED
  BY <1>2, <1>3, <1>5 DEF WorkflowInv

\* A request that commits.
LEMMA Commits ==
    ASSUME WorkflowInv, NEW r \in Request, MayWrite(r), NEW d \in Database, Commit(r, d),
           UNCHANGED <<app, letters, changes, faults>>,
           Len(d.runs) <= MaxRuns, Grown(db, d), d.sent = tx.sent,
           \A i \in 1..Len(d.runs) : Settled(d.runs[i])
    PROVE  WorkflowInv'
<1>0. db' = d /\ tx' = d /\ writer' = NoRequest /\ Goto(r, "done", NoContext)
  BY DEF Commit
<1>1. /\ pc' \in [Request -> {"new", "arrived", "open", "loading", "stages", "done"}]
      /\ ctx' \in [Request -> Context]
      /\ pc'[r] = "done"
      /\ \A q \in Request : q # r => pc'[q] = pc[q] /\ ctx'[q] = ctx[q]
  BY <1>0, GoesTo, RowsTyped DEF WorkflowInv
<1>2. Typed'
  BY <1>0, <1>1 DEF WorkflowInv, Typed
<1>3. RunsSettled'
  BY <1>0 DEF RunsSettled
<1>4. ASSUME NEW q \in Request
      PROVE  Reader(q)'
  <2>1. CASE q = r
    BY <1>1, <2>1 DEF Reader
  <2>2. CASE q # r
    <3>1. writer # q
      BY <2>2, ConstantsAssumption DEF MayWrite
    <3> QED
      BY <1>0, <1>1, <1>2, <2>2, <3>1, ReaderKept DEF WorkflowInv, Sessions
  <2> QED
    BY <2>1, <2>2
<1>5. Sessions'
  BY <1>0, <1>4, ConstantsAssumption DEF Sessions
<1>6. Accounted'
  BY <1>0 DEF WorkflowInv, Accounted
<1> QED
  BY <1>2, <1>3, <1>5, <1>6 DEF WorkflowInv

\* A request that ends without a commit: a letter of its transaction has cost
\* a fault.
LEMMA RollsBack ==
    ASSUME WorkflowInv, NEW r \in Request, Rollback(r), UNCHANGED <<app, letters, changes>>,
           \/ faults' = faults /\ (writer = r => ctx[r].at <= Len(STEPS))
           \/ faults' = faults + 1 /\ faults < MaxFaults
    PROVE  WorkflowInv'
<1>0. /\ tx' = (IF writer = r THEN db ELSE tx) /\ db' = db
      /\ writer' = (IF writer = r THEN NoRequest ELSE writer)
      /\ Goto(r, "done", NoContext)
  BY DEF Rollback
<1>1. /\ pc' \in [Request -> {"new", "arrived", "open", "loading", "stages", "done"}]
      /\ ctx' \in [Request -> Context]
      /\ pc'[r] = "done"
      /\ \A q \in Request : q # r => pc'[q] = pc[q] /\ ctx'[q] = ctx[q]
  BY <1>0, GoesTo, RowsTyped DEF WorkflowInv
<1>2. Typed'
  <2>1. faults' \in 0..MaxFaults
    BY ConstantsAssumption DEF WorkflowInv, Typed
  <2>2. /\ db' \in Database /\ Len(db'.runs) <= MaxRuns
        /\ tx' \in Database /\ Len(tx'.runs) <= MaxRuns
        /\ writer' \in Request \cup {NoRequest}
    BY <1>0 DEF WorkflowInv, Typed
  <2> QED
    BY <1>1, <2>1, <2>2 DEF WorkflowInv, Typed
<1>3. RunsSettled'
  BY <1>0 DEF WorkflowInv, RunsSettled
<1>4. ASSUME NEW q \in Request
      PROVE  IF writer' = q THEN WriterOnly(q)' ELSE Reader(q)'
  <2>1. CASE q = r
    <3>1. writer' # r
      BY <1>0, ConstantsAssumption
    <3> QED
      BY <1>1, <2>1, <3>1 DEF Reader
  <2>2. CASE q # r /\ writer = q
    BY <1>0, <1>1, <2>2 DEF WorkflowInv, Sessions, WriterOnly
  <2>3. CASE q # r /\ writer # q
    <3>1. Grown(db, db')
      BY <1>0, DatabaseTyped DEF Grown, WorkflowInv, Typed
    <3>2. writer' # q
      BY <1>0, <2>3, ConstantsAssumption
    <3> QED
      BY <1>1, <1>2, <2>3, <3>1, <3>2, ReaderKept DEF WorkflowInv, Sessions
  <2> QED
    BY <2>1, <2>2, <2>3
<1>5. writer' = NoRequest => tx' = db'
  BY <1>0 DEF WorkflowInv, Sessions
<1>6. Accounted'
  <2>1. /\ \A v \in Verdict : letters[v] \in Nat
        /\ faults \in Nat
    BY ConstantsAssumption DEF WorkflowInv, Typed
  <2>2. \A v \in Verdict : letters[v] <= faults' + (IF v \in tx'.sent THEN 1 ELSE 0)
    <3>1. \A v \in Verdict : letters[v] <= faults + (IF v \in tx.sent THEN 1 ELSE 0)
      BY DEF WorkflowInv, Accounted
    <3>2. CASE faults' = faults /\ (writer = r => ctx[r].at <= Len(STEPS))
      <4>1. tx'.sent = tx.sent
        BY <1>0, <3>2 DEF WorkflowInv, Accounted
      <4> QED
        BY <3>1, <3>2, <4>1
    <3>3. CASE faults' = faults + 1
      <4>1. \A v \in Verdict : letters[v] <= faults + 1
        BY <2>1, <3>1
      <4> QED
        BY <2>1, <3>3, <4>1
    <3> QED
      BY <3>2, <3>3
  <2>3. db'.sent \subseteq tx'.sent
    BY <1>0 DEF WorkflowInv, Accounted
  <2>4. ASSUME NEW q \in Request, writer' = q, ctx'[q].at <= Len(STEPS)
        PROVE  tx'.sent = db'.sent
    <3>1. writer = q /\ q # r
      BY <1>0, <2>4, ConstantsAssumption
    <3> QED
      BY <1>0, <1>1, <2>4, <3>1 DEF WorkflowInv, Accounted
  <2> QED
    BY <2>2, <2>3, <2>4 DEF Accounted
<1> QED
  BY <1>2, <1>3, <1>4, <1>5, <1>6 DEF WorkflowInv, Sessions

\* A session at its stages that may write: a run that is regular is its own.
LEMMA InStages ==
    ASSUME WorkflowInv, NEW r \in Request, pc[r] = "stages", MayWrite(r)
    PROVE  LET run == ctx[r].run
           IN  /\ run \in 1..Len(tx.runs)
               /\ tx.runs[run] \in RunRow
               /\ Regular(tx.runs[run]) => writer = r /\ Grounded(ctx[r], tx.runs[run])
               /\ \A i \in 1..Len(tx.runs) : i # run => i <= Len(db.runs) /\ tx.runs[i] = db.runs[i]
               /\ Len(db.runs) <= Len(tx.runs)
               /\ run <= Len(db.runs) /\ db.runs[run].refused => tx.runs[run].refused
<1>1. tx \in Database /\ db \in Database
  BY DEF WorkflowInv, Typed
<1>2. CASE writer = r
  BY <1>1, <1>2, DatabaseTyped DEF WorkflowInv, Sessions, WriterOnly
<1>3. CASE writer # r
  <2>1. tx = db /\ Reader(r)
    BY <1>3 DEF MayWrite, WorkflowInv, Sessions
  <2> QED
    BY <1>1, <2>1, DatabaseTyped DEF Reader, Regular
<1> QED
  BY <1>2, <1>3

\* A session writes the row of its run.
LEMMA Passes ==
    ASSUME WorkflowInv, NEW r \in Request, pc[r] = "stages", MayWrite(r),
           NEW c \in Context, c.run = ctx[r].run, Goto(r, "stages", c),
           NEW row \in RunRow, Changed(tx, tx', ctx[r].run, row),
           row.refused = tx.runs[ctx[r].run].refused,
           Regular(tx.runs[ctx[r].run]) => Grounded(c, row),
           UNCHANGED <<app, db, changes>>, writer' = r,
           letters' \in [Verdict -> Nat], faults' \in 0..MaxFaults, Accounted'
    PROVE  WorkflowInv'
<1> DEFINE run == ctx[r].run
<1>1. /\ run \in 1..Len(tx.runs)
      /\ \A i \in 1..Len(tx.runs) : i # run => i <= Len(db.runs) /\ tx.runs[i] = db.runs[i]
      /\ Len(db.runs) <= Len(tx.runs)
      /\ run <= Len(db.runs) /\ db.runs[run].refused => tx.runs[run].refused
  BY InStages
<1>2. tx \in Database /\ Len(tx.runs) <= MaxRuns
  BY DEF WorkflowInv, Typed
<1>3. /\ Len(tx'.runs) = Len(tx.runs)
      /\ tx'.runs[run] = row
      /\ \A i \in 1..Len(tx.runs) : i # run => tx'.runs[i] = tx.runs[i]
  BY <1>1, <1>2, ChangedRuns
<1>4. pc'[r] = "stages" /\ ctx'[r] = c
  BY GoesTo DEF WorkflowInv
<1>5. WriterOnly(r)'
  BY <1>1, <1>3, <1>4 DEF WriterOnly, Regular
<1>6. tx' \in Database
  BY DEF Changed
<1> QED
  BY <1>2, <1>3, <1>5, <1>6, Holds

\* A session commits the row of its run.
LEMMA CommitsRun ==
    ASSUME WorkflowInv, NEW r \in Request, pc[r] = "stages", MayWrite(r),
           NEW d, Commit(r, d),
           NEW row \in RunRow, Changed(tx, d, ctx[r].run, row), d.sent = tx.sent,
           tx.runs[ctx[r].run].refused => row.refused, Settled(row),
           UNCHANGED <<app, letters, changes, faults>>
    PROVE  WorkflowInv'
<1> DEFINE run == ctx[r].run
<1>1. /\ run \in 1..Len(tx.runs)
      /\ \A i \in 1..Len(tx.runs) : i # run => i <= Len(db.runs) /\ tx.runs[i] = db.runs[i]
      /\ Len(db.runs) <= Len(tx.runs)
      /\ run <= Len(db.runs) /\ db.runs[run].refused => tx.runs[run].refused
  BY InStages
<1>2. /\ tx \in Database /\ Len(tx.runs) <= MaxRuns /\ d \in Database
      /\ Len(tx.runs) \in Nat /\ Len(db.runs) \in Nat
  BY DatabaseTyped DEF WorkflowInv, Typed, Changed
<1>3. /\ Len(d.runs) = Len(tx.runs)
      /\ d.runs[run] = row
      /\ \A i \in 1..Len(tx.runs) : i # run => d.runs[i] = tx.runs[i]
  BY <1>1, <1>2, ChangedRuns
<1>4. Grown(db, d)
  BY <1>1, <1>2, <1>3 DEF Grown
<1>5. ASSUME NEW i \in 1..Len(d.runs)
      PROVE  Settled(d.runs[i])
  <2>1. CASE i = run
    BY <1>3, <2>1
  <2>2. CASE i # run
    BY <1>1, <1>2, <1>3, <2>2 DEF WorkflowInv, RunsSettled
  <2> QED
    BY <2>1, <2>2
<1> QED
  BY <1>2, <1>3, <1>4, <1>5, Commits

\* The ledger is as it was.
LEMMA NothingSent ==
    ASSUME WorkflowInv, NEW r \in Request, MayWrite(r),
           UNCHANGED <<db, letters, faults>>, tx'.sent = tx.sent, writer' = r,
           writer = r => ctx[r].at <= Len(STEPS)
    PROVE  Accounted'
<1>1. tx.sent = db.sent
  BY ConstantsAssumption DEF MayWrite, WorkflowInv, Sessions, Accounted
<1> QED
  BY <1>1 DEF WorkflowInv, Accounted

-----------------------------------------------------------------------------
(* The steps.                                                              *)

LEMMA InitInv == Init => WorkflowInv
<1> SUFFICES ASSUME Init PROVE WorkflowInv
  OBVIOUS
<1>1. app \in AppRow
  BY DEF Init, AppRow, NoApp, Mode
<1>2. db \in Database /\ Len(db.runs) = 0 /\ db.sent = {} /\ tx = db
  <2>1. <<>> \in Seq(RunRow) /\ Len(<<>>) = 0
    OBVIOUS
  <2> QED
    BY <2>1 DEF Init, Database
<1>3. /\ pc = [r \in Request |-> "new"] /\ ctx = [r \in Request |-> NoContext]
      /\ letters = [v \in Verdict |-> 0] /\ changes = 0 /\ faults = 0 /\ writer = NoRequest
  BY DEF Init
<1>4. Typed
  BY <1>1, <1>2, <1>3, RowsTyped, ConstantsAssumption DEF Typed
<1>5. RunsSettled
  BY <1>2 DEF RunsSettled
<1>6. Sessions
  BY <1>2, <1>3, ConstantsAssumption DEF Sessions, Reader
<1>7. Accounted
  BY <1>2, <1>3 DEF Accounted
<1> QED
  BY <1>4, <1>5, <1>6, <1>7 DEF WorkflowInv

\* Dispatch counts its letter in the ledger or as a fault.
LEMMA DispatchCounts ==
    ASSUME NEW d \in Database, NEW v \in Verdict, NEW mode, NEW sent, Dispatch(d, v, mode, sent),
           letters \in [Verdict -> Nat], faults \in 0..MaxFaults,
           \A u \in Verdict : letters[u] <= faults + (IF u \in d.sent THEN 1 ELSE 0)
    PROVE  /\ letters' \in [Verdict -> Nat] /\ faults' \in 0..MaxFaults
           /\ sent \in {d.sent, d.sent \cup {v}}
           /\ \A u \in Verdict : letters'[u] <= faults' + (IF u \in sent THEN 1 ELSE 0)
<1>0. MaxFaults \in Nat /\ faults \in Nat
  BY ConstantsAssumption
<1>1. CASE ~Mails(d, v, mode) /\ sent = d.sent /\ NoLetter
  BY <1>1 DEF NoLetter
<1>2. ASSUME NEW outcome \in {"sent", "refused", "unsure"},
             v \notin d.sent,
             outcome = "unsure" => faults < MaxFaults,
             faults' = IF outcome = "unsure" THEN faults + 1 ELSE faults,
             letters' = IF outcome = "refused" THEN letters ELSE [letters EXCEPT ![v] = @ + 1],
             sent = IF outcome = "sent" THEN d.sent \cup {v} ELSE d.sent
      PROVE  /\ letters' \in [Verdict -> Nat] /\ faults' \in 0..MaxFaults
             /\ sent \in {d.sent, d.sent \cup {v}}
             /\ \A u \in Verdict : letters'[u] <= faults' + (IF u \in sent THEN 1 ELSE 0)
  <2>1. CASE outcome = "refused"
    BY <1>0, <1>2, <2>1
  <2>2. CASE outcome # "refused"
    <3>1. letters' = [letters EXCEPT ![v] = @ + 1]
      BY <1>2, <2>2
    <3>2. letters' \in [Verdict -> Nat]
          /\ \A u \in Verdict : letters'[u] = IF u = v THEN letters[u] + 1 ELSE letters[u]
      BY <3>1
    <3>3. letters[v] <= faults
      BY <1>0, <1>2
    <3> QED
      BY <1>0, <1>2, <2>2, <3>2, <3>3
  <2> QED
    BY <2>1, <2>2
<1> QED
  BY <1>1, <1>2 DEF Dispatch, Mails

LEMMA JobSteps ==
    ASSUME WorkflowInv, \/ ChangeInputs
                        \/ \E v \in Verdict : JobDecides(v) \/ JobDies(v)
    PROVE  WorkflowInv'
<1>0. /\ db \in Database /\ letters \in [Verdict -> Nat] /\ faults \in 0..MaxFaults
      /\ changes \in 0..MaxChanges /\ MaxFaults \in Nat /\ MaxChanges \in Nat
      /\ Len(db.runs) \in Nat
  BY ConstantsAssumption, DatabaseTyped DEF WorkflowInv, Typed
<1>w. writer = NoRequest /\ tx = db /\ NoRequest \notin Request
  BY ConstantsAssumption DEF ChangeInputs, JobDecides, JobDies, WorkflowInv, Sessions
<1>f. ASSUME Typed', UNCHANGED <<pc, ctx, writer>>, tx' = db', db'.runs = db.runs
      PROVE  RunsSettled' /\ Sessions'
  <2>1. Grown(db, db')
    BY <1>0, <1>f DEF Grown
  <2>2. \A q \in Request : Reader(q)'
    BY <1>w, <1>f, <2>1, ReaderKept DEF WorkflowInv, Sessions
  <2> QED
    BY <1>w, <1>f, <2>2 DEF WorkflowInv, RunsSettled, Sessions
<1>1. CASE ChangeInputs
  <2>1. app' \in AppRow
    BY <1>1 DEF ChangeInputs, WorkflowInv, Typed, AppRow
  <2>2. changes' \in 0..MaxChanges
    BY <1>0, <1>1 DEF ChangeInputs
  <2>3. UNCHANGED <<db, tx, writer, pc, ctx, letters, faults>>
    BY <1>1 DEF ChangeInputs
  <2>4. Typed'
    BY <2>1, <2>2, <2>3 DEF WorkflowInv, Typed
  <2>5. Accounted'
    BY <2>3 DEF WorkflowInv, Accounted
  <2> QED
    BY <1>w, <1>f, <2>3, <2>4, <2>5 DEF WorkflowInv
<1>2. ASSUME NEW v \in Verdict, JobDecides(v)
      PROVE  WorkflowInv'
  <2>1. PICK sent \in {db.sent, db.sent \cup {v}} :
            /\ Dispatch(db, v, app.mode, sent)
            /\ db' = [db EXCEPT !.decision = v, !.sent = sent]
    BY <1>2 DEF JobDecides
  <2>2. \A u \in Verdict : letters[u] <= faults + (IF u \in db.sent THEN 1 ELSE 0)
    BY <1>w DEF WorkflowInv, Accounted
  <2>3. /\ letters' \in [Verdict -> Nat] /\ faults' \in 0..MaxFaults
        /\ \A u \in Verdict : letters'[u] <= faults' + (IF u \in sent THEN 1 ELSE 0)
    BY <1>0, <2>1, <2>2, DispatchCounts
  <2>4. db' \in Database /\ db'.sent = sent /\ db'.runs = db.runs
    BY <1>0, <2>1 DEF Database
  <2>5. tx' = db' /\ UNCHANGED <<app, writer, pc, ctx, changes>>
    BY <1>2 DEF JobDecides
  <2>6. Typed'
    BY <2>3, <2>4, <2>5 DEF WorkflowInv, Typed
  <2>7. Accounted'
    BY <1>w, <2>3, <2>4, <2>5 DEF Accounted
  <2> QED
    BY <1>f, <2>4, <2>5, <2>6, <2>7 DEF WorkflowInv
<1>3. ASSUME NEW v \in Verdict, JobDies(v)
      PROVE  WorkflowInv'
  <2>1. /\ letters' = [letters EXCEPT ![v] = @ + 1] /\ faults' = faults + 1 /\ faults < MaxFaults
        /\ UNCHANGED <<app, db, tx, writer, pc, ctx, changes>> /\ v \notin db.sent
    BY <1>3 DEF JobDies, Mails
  <2>2. letters' \in [Verdict -> Nat] /\ faults' \in 0..MaxFaults
        /\ \A u \in Verdict : letters'[u] = IF u = v THEN letters[u] + 1 ELSE letters[u]
    BY <1>0, <2>1
  <2>3. Typed'
    BY <2>1, <2>2 DEF WorkflowInv, Typed
  <2>4. \A u \in Verdict : letters'[u] <= faults' + (IF u \in tx.sent THEN 1 ELSE 0)
    <3>1. \A u \in Verdict : letters[u] \in Nat
                               /\ letters[u] <= faults + (IF u \in tx.sent THEN 1 ELSE 0)
      BY <1>0 DEF WorkflowInv, Accounted
    <3> QED
      BY <1>0, <2>1, <2>2, <3>1
  <2>5. Accounted'
    BY <1>w, <2>1, <2>4 DEF WorkflowInv, Accounted
  <2> QED
    BY <1>w, <1>f, <2>1, <2>3, <2>5 DEF WorkflowInv
<1> QED
  BY <1>1, <1>2, <1>3

\* A nonempty set of runs has a last one.
LEMMA LastRun ==
    ASSUME NEW n \in Nat, NEW S \in SUBSET (1..n), S # {}
    PROVE  Max(S) \in S
<1> DEFINE T == {n - x : x \in S}
           R == OpToRel(<, Nat)
<1>0. \A x \in S : x \in 1..n /\ n - x \in Nat
  OBVIOUS
<1>1. T \subseteq Nat /\ T # {}
  BY <1>0
<1>2. PICK y \in T : \A z \in T : ~(<<z, y>> \in R)
  <2> HIDE DEF T, R
  <2>1. IsWellFoundedOn(R, Nat)
    BY NatLessThanWellFounded DEF R
  <2> QED
    BY <1>1, <2>1, WFMin
<1>3. \A z \in T : ~(z < y)
  BY <1>1, <1>2 DEF OpToRel
<1>4. PICK x \in S : y = n - x
  BY <1>2
<1>5. ASSUME NEW z \in S
      PROVE  x >= z
  <2>1. ~(n - z < n - x)
    BY <1>3, <1>4
  <2>2. x \in Int /\ z \in Int
    BY <1>0
  <2> HIDE DEF T, R
  <2> QED
    BY <2>1, <2>2
<1> QED
  BY <1>4, <1>5 DEF Max

\* Before a request is in its run's stages.
LEMMA OpeningSteps ==
    ASSUME WorkflowInv, NEW r \in Request,
           Arrive(r) \/ ReadRuns(r) \/ OpenRunning(r) \/ LoadSteps(r)
    PROVE  WorkflowInv'
<1>0. /\ app \in AppRow /\ db \in Database /\ Len(db.runs) \in Nat /\ ctx[r] \in Context
      /\ \A i \in 1..Len(db.runs) : db.runs[i] \in RunRow
      /\ Len(STEPS) \in Nat
  BY DatabaseTyped, StagesTyped DEF WorkflowInv, Typed
<1>w. writer # r /\ Reader(r)
  BY DEF Arrive, ReadRuns, OpenRunning, LoadSteps, WorkflowInv, Sessions, WriterOnly
<1>1. CASE Arrive(r)
  <2>1. PICK client \in {"api", "cli"}, resume \in BOOLEAN, force \in BOOLEAN :
          Goto(r, IF resume THEN "arrived" ELSE "open", [NoContext EXCEPT !.client = client,
                                   !.force = force,
                                   !.app = IF client = "api" THEN app ELSE NoApp])
    BY <1>1 DEF Arrive
  <2> DEFINE where == IF resume THEN "arrived" ELSE "open"
             inputs == IF client = "api" THEN app ELSE NoApp
             c == [NoContext EXCEPT !.client = client, !.force = force, !.app = inputs]
  <2>2. inputs \in AppRow
    BY <1>0, RowsTyped
  <2> HIDE DEF inputs
  <2>3. c \in Context /\ c.at = 1 /\ c.run = 0 /\ c.read = "none"
    BY <2>2, RowsTyped DEF Context
  <2>4. where \in {"arrived", "open"} /\ Goto(r, where, c)
    BY <2>1 DEF inputs
  <2> HIDE DEF where, c
  <2>5. pc'[r] = where /\ ctx'[r] = c
    BY <2>3, <2>4, GoesTo DEF WorkflowInv
  <2>6. Reader(r)'
    BY <2>3, <2>4, <2>5 DEF Reader
  <2> QED
    BY <1>1, <1>w, <2>3, <2>4, <2>6, Reads DEF Arrive
<1>2. CASE ReadRuns(r)
  <2> DEFINE run  == LoadRunForResume(db.runs)
             read == IF run = 0 THEN "none" ELSE db.runs[run].status
             c    == [ctx[r] EXCEPT !.run = run, !.read = read]
  <2>1. run \in 0..Len(db.runs)
    <3> DEFINE unfinished == {i \in 1..Len(db.runs) : db.runs[i].status # "succeeded"}
    <3>1. CASE unfinished = {}
      BY <1>0, <3>1 DEF LoadRunForResume
    <3>2. CASE unfinished # {}
      <4>1. Max(unfinished) \in unfinished
        BY <1>0, <3>2, LastRun
      <4> QED
        BY <1>0, <3>2, <4>1 DEF LoadRunForResume
    <3> QED
      BY <3>1, <3>2
  <2>2. pc[r] = "arrived" /\ Goto(r, "open", c)
    BY <1>2 DEF ReadRuns
  <2> HIDE DEF run
  <2>3. /\ run # 0 => read # "none" /\ read = db.runs[run].status /\ run \in 1..Len(db.runs)
        /\ run = 0 => read = "none"
        /\ read \in {"none", "running", "succeeded", "failed"}
    BY <1>0, <2>1 DEF RunRow
  <2> HIDE DEF read
  <2>n. run \in Nat
    BY <1>0, <2>1
  <2>4. c \in Context /\ c.run = run /\ c.read = read /\ c.at = ctx[r].at
    BY <1>0, <2>n, <2>3 DEF Context
  <2>5. c.at = 1
    BY <1>w, <2>2, <2>4 DEF Reader
  <2> HIDE DEF c
  <2>6. pc'[r] = "open" /\ ctx'[r] = c
    BY <2>2, <2>4, GoesTo DEF WorkflowInv
  <2>7. run # 0 /\ read = "running" => db.runs[run].refused
    BY <2>3 DEF WorkflowInv, RunsSettled, Settled, Regular
  <2>8. db' = db
    BY <1>2 DEF ReadRuns
  <2>9. Reader(r)'
    BY <2>3, <2>4, <2>5, <2>6, <2>7, <2>8 DEF Reader
  <2> QED
    BY <1>2, <1>w, <2>2, <2>4, <2>9, Reads DEF ReadRuns
<1>3. CASE OpenRunning(r)
  <2> DEFINE c == Loaded(r, ctx[r].run, NewRun.steps)
  <2>1. NewRun.steps \in [Stage -> StepRow]
    BY RowsTyped DEF RunRow
  <2>2. c \in Context /\ c.run = ctx[r].run
    <3> DEFINE inputs == IF ctx[r].client = "api" THEN ctx[r].app ELSE app
    <3>1. inputs \in AppRow
      BY <1>0 DEF Context
    <3>2. c = [ctx[r] EXCEPT !.run = ctx[r].run, !.steps = NewRun.steps, !.read = "running",
                             !.app = inputs]
      BY <1>0 DEF Loaded, Context
    <3> HIDE DEF inputs, c
    <3> QED
      BY <1>0, <2>1, <3>1, <3>2 DEF Context
  <2> HIDE DEF c
  <2>3. pc[r] = "open" /\ ctx[r].read = "running" /\ Goto(r, "loading", c)
    BY <1>3 DEF OpenRunning, c
  <2>4. ctx[r].run \in 1..Len(db.runs) /\ db.runs[ctx[r].run].refused
    BY <1>0, <1>w, <2>3 DEF Reader, Context
  <2>5. pc'[r] = "loading" /\ ctx'[r] = c
    BY <2>2, <2>3, GoesTo DEF WorkflowInv
  <2>6. Reader(r)'
    BY <1>3, <2>2, <2>4, <2>5 DEF Reader, OpenRunning
  <2> QED
    BY <1>3, <1>w, <2>2, <2>3, <2>6, Reads DEF OpenRunning
<1>4. CASE LoadSteps(r)
  <2> DEFINE steps == db.runs[ctx[r].run].steps
             c == [ctx[r] EXCEPT !.steps = steps]
  <2>1. pc[r] = "loading" /\ Goto(r, "stages", c)
    BY <1>4 DEF LoadSteps
  <2>2. ctx[r].run \in 1..Len(db.runs) /\ db.runs[ctx[r].run].refused
    BY <1>w, <2>1 DEF Reader
  <2>3. steps \in [Stage -> StepRow]
    BY <1>0, <2>2 DEF RunRow
  <2> HIDE DEF steps
  <2>4. c \in Context /\ c.run = ctx[r].run
    BY <1>0, <2>3 DEF Context
  <2> HIDE DEF c
  <2>5. pc'[r] = "stages" /\ ctx'[r] = c
    BY <2>1, <2>4, GoesTo DEF WorkflowInv
  <2>6. Reader(r)'
    BY <1>4, <2>2, <2>4, <2>5 DEF Reader, LoadSteps
  <2> QED
    BY <1>4, <1>w, <2>1, <2>4, <2>6, Reads DEF LoadSteps
<1> QED
  BY <1>1, <1>2, <1>3, <1>4

\* What the session has of a run it opens by a write.
LEMMA LoadedTyped ==
    ASSUME WorkflowInv, NEW r \in Request, NEW run \in Nat, NEW steps \in [Stage -> StepRow]
    PROVE  LET c == Loaded(r, run, steps)
           IN  /\ c \in Context /\ c.run = run /\ c.steps = steps
               /\ c.at = ctx[r].at /\ c.force = ctx[r].force
<1>0. ctx[r] \in Context /\ app \in AppRow
  BY DEF WorkflowInv, Typed
<1> DEFINE inputs == IF ctx[r].client = "api" THEN ctx[r].app ELSE app
<1>1. inputs \in AppRow
  BY <1>0 DEF Context
<1>2. Loaded(r, run, steps) =
        [ctx[r] EXCEPT !.run = run, !.steps = steps, !.read = "running", !.app = inputs]
  BY <1>0 DEF Loaded, Context
<1> HIDE DEF inputs
<1> QED
  BY <1>0, <1>1, <1>2 DEF Context

LEMMA OpenNewStep ==
    ASSUME WorkflowInv, NEW r \in Request, OpenNew(r)
    PROVE  WorkflowInv'
<1>1. /\ pc[r] = "open" /\ ctx[r].run = 0 /\ MayWrite(r) /\ Len(tx.runs) < MaxRuns
      /\ tx' = [tx EXCEPT !.runs = Append(@, NewRun)]
      /\ writer' = r /\ UNCHANGED <<app, db, letters, changes, faults>>
      /\ Goto(r, "stages", Loaded(r, Len(tx.runs) + 1, NewRun.steps))
  BY DEF OpenNew, Write
<1>2. /\ tx \in Database /\ tx = db /\ writer = NoRequest /\ ctx[r].at = 1
  BY <1>1 DEF WorkflowInv, Typed, Sessions, WriterOnly, Reader, MayWrite
<1>3. tx.runs \in Seq(RunRow) /\ Len(tx.runs) \in Nat /\ MaxRuns \in Nat
  BY <1>2, DatabaseTyped, ConstantsAssumption
<1>4. /\ Append(tx.runs, NewRun) \in Seq(RunRow)
      /\ Len(Append(tx.runs, NewRun)) = Len(tx.runs) + 1
      /\ \A i \in 1..Len(tx.runs) : Append(tx.runs, NewRun)[i] = tx.runs[i]
      /\ Append(tx.runs, NewRun)[Len(tx.runs) + 1] = NewRun
  BY <1>3, RowsTyped, AppendProperties
<1>5. tx' \in Database /\ tx'.runs = Append(tx.runs, NewRun) /\ tx'.sent = tx.sent
  BY <1>1, <1>2, <1>4 DEF Database
<1> DEFINE run == Len(tx.runs) + 1
           c == Loaded(r, run, NewRun.steps)
<1>6. c \in Context /\ c.run = run /\ c.steps = NewRun.steps /\ c.at = 1
  <2>1. NewRun.steps \in [Stage -> StepRow]
    BY RowsTyped DEF RunRow
  <2> QED
    BY <1>2, <1>3, <2>1, LoadedTyped
<1> HIDE DEF c
<1>7. Goto(r, "stages", c)
  BY <1>1 DEF c
<1>8. pc'[r] = "stages" /\ ctx'[r] = c
  BY <1>6, <1>7, GoesTo DEF WorkflowInv
<1>9. Grounded(c, NewRun)
  BY <1>6, NewGrounded
<1>10. WriterOnly(r)'
  BY <1>1, <1>2, <1>3, <1>4, <1>5, <1>6, <1>8, <1>9 DEF WriterOnly
<1>11. Accounted'
  BY <1>1, <1>2, <1>5 DEF WorkflowInv, Accounted
<1>12. letters' \in [Verdict -> Nat] /\ faults' \in 0..MaxFaults /\ Len(tx'.runs) <= MaxRuns
  BY <1>1, <1>3, <1>4, <1>5 DEF WorkflowInv, Typed
<1> QED
  BY <1>1, <1>5, <1>6, <1>7, <1>10, <1>11, <1>12, Holds

LEMMA OpenAgainStep ==
    ASSUME WorkflowInv, NEW r \in Request, OpenAgain(r)
    PROVE  WorkflowInv'
<1> DEFINE run == ctx[r].run
           c   == Loaded(r, run, tx.runs[run].steps)
           row == [tx.runs[run] EXCEPT !.status = "running", !.forced = @ \/ ctx[r].force]
<1>t. tx' = [tx EXCEPT !.runs[run] = row]
  BY DEF OpenAgain, Write
<1>1. /\ pc[r] = "open" /\ run # 0 /\ MayWrite(r)
      /\ writer' = r /\ UNCHANGED <<app, db, letters, changes, faults>>
      /\ Goto(r, "stages", c)
  BY DEF OpenAgain, Write
<1>2. /\ tx \in Database /\ tx = db /\ writer = NoRequest /\ ctx[r].at = 1
      /\ ctx[r] \in Context
  BY <1>1 DEF WorkflowInv, Typed, Sessions, WriterOnly, Reader, MayWrite
<1>3. /\ tx.runs \in Seq(RunRow) /\ Len(tx.runs) \in Nat
      /\ \A i \in 1..Len(tx.runs) : tx.runs[i] \in RunRow
  BY <1>2, DatabaseTyped
<1>4. run \in 1..Len(tx.runs) /\ run \in Nat
  BY <1>1, <1>2, <1>3 DEF WorkflowInv, Sessions, Reader, Context, WriterOnly
<1>5. /\ row \in RunRow /\ row.status = "running" /\ row.steps = tx.runs[run].steps
      /\ row.refused = tx.runs[run].refused
      /\ row.forced = (tx.runs[run].forced \/ ctx[r].force)
  <2> DEFINE forced == tx.runs[run].forced \/ ctx[r].force
  <2>1. forced \in BOOLEAN
    BY <1>2, <1>3, <1>4 DEF RunRow, Context
  <2>2. row = [tx.runs[run] EXCEPT !.status = "running", !.forced = forced]
    BY <1>3, <1>4 DEF RunRow
  <2> HIDE DEF forced, row
  <2>3. /\ row \in RunRow /\ row.status = "running" /\ row.steps = tx.runs[run].steps
        /\ row.refused = tx.runs[run].refused /\ row.forced = forced
    BY <1>3, <1>4, <2>1, <2>2 DEF RunRow
  <2> QED
    BY <2>3 DEF forced
<1>6. Changed(tx, tx', run, row) /\ tx'.sent = tx.sent
  <2>1. tx' = [tx EXCEPT !.runs = [tx.runs EXCEPT ![run] = row]]
    BY <1>t, <1>2 DEF Database
  <2> HIDE DEF row
  <2>2. [tx.runs EXCEPT ![run] = row] \in Seq(RunRow)
    BY <1>3, <1>4, <1>5, ExceptSeq
  <2> QED
    BY <1>2, <2>1, <2>2 DEF Changed, Database
<1> HIDE DEF row
<1>7. /\ Len(tx'.runs) = Len(tx.runs) /\ tx'.runs[run] = row
      /\ \A i \in 1..Len(tx.runs) : i # run => tx'.runs[i] = tx.runs[i]
  BY <1>2, <1>4, <1>5, <1>6, ChangedRuns
<1>8. c \in Context /\ c.run = run /\ c.steps = tx.runs[run].steps /\ c.at = 1 /\ c.force = ctx[r].force
  <2>1. tx.runs[run].steps \in [Stage -> StepRow]
    BY <1>3, <1>4 DEF RunRow
  <2> QED
    BY <1>2, <1>4, <2>1, LoadedTyped
<1> HIDE DEF c
<1>9. pc'[r] = "stages" /\ ctx'[r] = c
  BY <1>1, <1>8, GoesTo DEF WorkflowInv
<1>10. Regular(tx.runs[run]) => Grounded(c, row)
  <2>1. Settled(tx.runs[run])
    BY <1>2, <1>4 DEF WorkflowInv, RunsSettled
  <2> QED
    BY <1>3, <1>4, <1>5, <1>8, <2>1, AgainGrounded
<1>11. WriterOnly(r)'
  <2>1. ctx'[r].run = run /\ pc'[r] = "stages" /\ run \in 1..Len(tx'.runs) /\ db' = tx
    BY <1>1, <1>2, <1>4, <1>7, <1>8, <1>9
  <2>2. \A i \in 1..Len(tx'.runs) : i # run => i <= Len(tx.runs) /\ tx'.runs[i] = tx.runs[i]
    BY <1>3, <1>7
  <2>3. Regular(tx'.runs[run]) => Grounded(ctx'[r], tx'.runs[run])
    BY <1>5, <1>7, <1>9, <1>10 DEF Regular
  <2>4. tx'.runs[run].refused = tx.runs[run].refused /\ Len(tx'.runs) = Len(tx.runs)
    BY <1>5, <1>7
  <2> HIDE DEF run
  <2> QED
    BY <1>3, <2>1, <2>2, <2>3, <2>4 DEF WriterOnly
<1>12. Accounted'
  BY <1>1, <1>2, <1>6 DEF WorkflowInv, Accounted
<1>13. letters' \in [Verdict -> Nat] /\ faults' \in 0..MaxFaults /\ Len(tx'.runs) <= MaxRuns
       /\ tx' \in Database
  BY <1>1, <1>6, <1>7 DEF WorkflowInv, Typed, Changed
<1> QED
  BY <1>1, <1>8, <1>11, <1>12, <1>13, Holds

\* The next stage of a session.
LEMMA AtStage ==
    ASSUME WorkflowInv, NEW r \in Request, NEW name, At(r, name)
    PROVE  /\ pc[r] = "stages" /\ ctx[r] \in Context /\ ctx[r].at \in 1..Len(STEPS)
           /\ ctx[r].at <= Len(STEPS) /\ STEPS[ctx[r].at] = name /\ name \in Stage
           /\ Known(r, name) \in StepRow
<1>1. ctx[r] \in Context /\ ctx[r].at \in 1..Len(STEPS) /\ ctx[r].at <= Len(STEPS)
  BY StagesTyped DEF WorkflowInv, Typed, Context, At
<1>2. name \in Stage
  BY <1>1, StagesTyped DEF At
<1> QED
  BY <1>1, <1>2 DEF At, Known, Context

\* A session that goes to its next stage.
LEMMA NextContext ==
    ASSUME WorkflowInv, NEW r \in Request, ctx[r].at <= Len(STEPS), NEW v \in Verdict \cup {NoVerdict}
    PROVE  LET c == [ctx[r] EXCEPT !.at = @ + 1, !.verdict = v]
           IN  /\ c \in Context /\ c.run = ctx[r].run
               /\ c.at = ctx[r].at + 1 /\ c.app = ctx[r].app /\ c.force = ctx[r].force
               /\ c.steps = ctx[r].steps
<1>1. ctx[r] \in Context /\ ctx[r].at + 1 \in 1..(Len(STEPS) + 1)
  BY StagesTyped DEF WorkflowInv, Typed, Context
<1> QED
  BY <1>1 DEF Context

\* A stage that runs, as its session knows it and as it is.
LEMMA RunningStage ==
    ASSUME WorkflowInv, NEW r \in Request, NEW name, Running(r, name)
    PROVE  LET run == tx.runs[ctx[r].run]
           IN  /\ run \in RunRow /\ NewDigest(r, name) \in DigestValue
               /\ Regular(run) => /\ Grounded(ctx[r], run)
                                  /\ ~Succeeded(run, ctx[r].at)
                                  /\ NewDigest(r, name) = Digest(name, ctx[r].app)
<1> DEFINE run == tx.runs[ctx[r].run]
<1>1. At(r, name) /\ MayWrite(r) /\ Known(r, name).status # "succeeded"
  BY DEF Running, MustRun
<1>2. /\ pc[r] = "stages" /\ ctx[r] \in Context /\ ctx[r].at <= Len(STEPS)
      /\ STEPS[ctx[r].at] = name /\ name \in Stage
  BY <1>1, AtStage
<1>3. run \in RunRow /\ (Regular(run) => Grounded(ctx[r], run))
  BY <1>1, <1>2, InStages
<1>4. NewDigest(r, name) \in DigestValue
  <2>1. Digest(name, ctx[r].app) \in DigestValue
    BY <1>2, DigestTyped DEF Context
  <2>2. run.steps[name].digest \in DigestValue
    BY <1>2, <1>3 DEF RunRow, StepRow
  <2> QED
    BY <2>1, <2>2 DEF NewDigest
<1>5. ASSUME Regular(run)
      PROVE  ~Succeeded(run, ctx[r].at) /\ NewDigest(r, name) = Digest(name, ctx[r].app)
  <2>1. run.steps[name] = Known(r, name)
    BY <1>2, <1>3, <1>5, NextKnown DEF Known
  <2> QED
    BY <1>1, <1>2, <2>1 DEF Succeeded, NewDigest
<1> QED
  BY <1>3, <1>4, <1>5

\* What Passed writes.
LEMMA PassedWrites ==
    ASSUME WorkflowInv, NEW r \in Request, NEW name, Running(r, name),
           NEW d \in Database, d.runs = tx.runs, NEW v \in Verdict \cup {NoVerdict}
    PROVE  LET c == [ctx[r] EXCEPT !.at = @ + 1, !.verdict = v]
               e == Passed(r, name, d)
           IN  /\ e.sent = d.sent /\ e.decision = d.decision
               /\ \E row \in RunRow :
                     /\ Changed(tx, e, ctx[r].run, row)
                     /\ row.refused = tx.runs[ctx[r].run].refused
                     /\ Regular(tx.runs[ctx[r].run]) => Grounded(c, row)
<1> DEFINE n    == ctx[r].run
           run  == tx.runs[n]
           step == [status |-> "succeeded", digest |-> NewDigest(r, name),
                    from |-> Digest(name, ctx[r].app), passes |-> run.steps[name].passes + 1]
           row  == [run EXCEPT !.steps[name] = step]
           c    == [ctx[r] EXCEPT !.at = @ + 1, !.verdict = v]
           e    == Passed(r, name, d)
<1>1. At(r, name) /\ MayWrite(r)
  BY DEF Running
<1>2. /\ pc[r] = "stages" /\ ctx[r] \in Context /\ ctx[r].at \in 1..Len(STEPS)
      /\ ctx[r].at <= Len(STEPS) /\ STEPS[ctx[r].at] = name /\ name \in Stage
  BY <1>1, AtStage
<1>3. /\ run \in RunRow /\ NewDigest(r, name) \in DigestValue
      /\ Regular(run) => /\ Grounded(ctx[r], run)
                         /\ ~Succeeded(run, ctx[r].at)
                         /\ NewDigest(r, name) = Digest(name, ctx[r].app)
  BY RunningStage
<1>4. n \in 1..Len(tx.runs) /\ tx.runs \in Seq(RunRow)
  BY <1>1, <1>2, InStages, DatabaseTyped DEF WorkflowInv, Typed
<1>5. /\ step \in StepRow /\ step.status = "succeeded" /\ step.digest = NewDigest(r, name)
      /\ step.from = Digest(name, ctx[r].app) /\ step.passes = run.steps[name].passes + 1
  <2>1. Digest(name, ctx[r].app) \in DigestValue
    BY <1>2, DigestTyped DEF Context
  <2>2. run.steps[name].passes \in Nat
    BY <1>2, <1>3 DEF RunRow, StepRow
  <2> QED
    BY <1>3, <2>1, <2>2 DEF StepRow
<1>6. e = [d EXCEPT !.runs = [tx.runs EXCEPT ![n] = row]]
  BY DEF Passed, Database
<1> HIDE DEF step
<1>7. /\ row \in RunRow /\ row.status = run.status /\ row.forced = run.forced
      /\ row.refused = run.refused /\ row.steps[name] = step
      /\ \A s \in Stage : s # name => row.steps[s] = run.steps[s]
  <2> HIDE DEF run
  <2> QED
    BY <1>2, <1>3, <1>5, StepWritten
<1> HIDE DEF row, e
<1>8. Changed(tx, e, n, row) /\ e.sent = d.sent /\ e.decision = d.decision
  <2>1. [tx.runs EXCEPT ![n] = row] \in Seq(RunRow)
    BY <1>4, <1>7, ExceptSeq
  <2> QED
    BY <1>6, <2>1 DEF Changed, Database
<1>9. /\ c \in Context /\ c.at = ctx[r].at + 1 /\ c.app = ctx[r].app
      /\ c.force = ctx[r].force /\ c.steps = ctx[r].steps
  BY <1>2, NextContext
<1> HIDE DEF c
<1>10. Regular(run) => Grounded(c, row)
  BY <1>2, <1>3, <1>5, <1>7, <1>9, PassGrounded
<1> QED
  BY <1>7, <1>8, <1>10 DEF c, e

\* A stage that succeeds, whatever else of the decision it writes.
LEMMA StagePasses ==
    ASSUME WorkflowInv, NEW r \in Request, NEW name, Running(r, name),
           NEW d \in Database, d.runs = tx.runs, d.sent = tx.sent, NEW e, Write(r, e),
           e \in Database, e.runs = Passed(r, name, d).runs, e.sent = d.sent,
           NEW v \in Verdict \cup {NoVerdict}, NextStage(r, v),
           UNCHANGED <<app, letters, changes, faults>>
    PROVE  WorkflowInv'
<1> DEFINE c == [ctx[r] EXCEPT !.at = @ + 1, !.verdict = v]
<1>1. At(r, name) /\ MayWrite(r)
  BY DEF Running
<1>2. pc[r] = "stages" /\ ctx[r].at <= Len(STEPS)
  BY <1>1, AtStage
<1>3. PICK row \in RunRow :
         /\ Changed(tx, Passed(r, name, d), ctx[r].run, row)
         /\ row.refused = tx.runs[ctx[r].run].refused
         /\ Regular(tx.runs[ctx[r].run]) => Grounded(c, row)
  BY PassedWrites
<1>4. c \in Context /\ c.run = ctx[r].run
  BY <1>2, NextContext
<1>5. tx' = e /\ writer' = r /\ db' = db /\ Goto(r, "stages", c)
  BY DEF Write, NextStage
<1> HIDE DEF c
<1>6. Changed(tx, tx', ctx[r].run, row)
  BY <1>3, <1>5 DEF Changed
<1>7. Accounted'
  BY <1>1, <1>2, <1>5, NothingSent
<1>8. letters' \in [Verdict -> Nat] /\ faults' \in 0..MaxFaults
  BY DEF WorkflowInv, Typed
<1> QED
  BY <1>1, <1>2, <1>3, <1>4, <1>5, <1>6, <1>7, <1>8, Passes

LEMMA PassedTyped ==
    ASSUME WorkflowInv, NEW r \in Request, NEW name, Running(r, name)
    PROVE  Passed(r, name, tx) \in Database /\ Passed(r, name, tx).sent = tx.sent
<1>1. tx \in Database /\ tx.runs = tx.runs
  BY DEF WorkflowInv, Typed
<1>2. /\ Passed(r, name, tx).sent = tx.sent
      /\ \E row \in RunRow : Changed(tx, Passed(r, name, tx), ctx[r].run, row)
  <2>1. NoVerdict \in Verdict \cup {NoVerdict}
    OBVIOUS
  <2> QED
    BY <1>1, <2>1, PassedWrites
<1> QED
  BY <1>2 DEF Changed

LEMMA StageSteps ==
    ASSUME WorkflowInv, NEW r \in Request,
           \/ \E name \in Stage : RunStage(r, name)
           \/ \E v \in Verdict : Decide(r, v) \/ IssueArtifact(r, v)
    PROVE  WorkflowInv'
<1>0. /\ tx \in Database /\ ctx[r].verdict \in Verdict \cup {NoVerdict}
  BY DEF WorkflowInv, Typed, Context
<1>1. ASSUME NEW name \in Stage, RunStage(r, name)
      PROVE  WorkflowInv'
  <2>1. /\ Running(r, name) /\ Write(r, Passed(r, name, tx)) /\ NextStage(r, ctx[r].verdict)
        /\ UNCHANGED <<app, letters, changes, faults>>
    BY <1>1 DEF RunStage
  <2>2. Passed(r, name, tx) \in Database /\ Passed(r, name, tx).sent = tx.sent
    BY <2>1, PassedTyped
  <2> QED
    BY <1>0, <2>1, <2>2, StagePasses
<1>2. ASSUME NEW v \in Verdict, Decide(r, v)
      PROVE  WorkflowInv'
  <2> DEFINE e == [Passed(r, "decide", tx) EXCEPT !.decision = v]
  <2>1. /\ Running(r, "decide") /\ Write(r, e) /\ NextStage(r, v)
        /\ UNCHANGED <<app, letters, changes, faults>>
    BY <1>2 DEF Decide
  <2>2. Passed(r, "decide", tx) \in Database /\ Passed(r, "decide", tx).sent = tx.sent
    BY <2>1, PassedTyped
  <2>3. e \in Database /\ e.runs = Passed(r, "decide", tx).runs /\ e.sent = tx.sent
    BY <2>2 DEF Database
  <2> HIDE DEF e
  <2> QED
    BY <1>0, <2>1, <2>3, StagePasses
<1>3. ASSUME NEW v \in Verdict, IssueArtifact(r, v)
      PROVE  WorkflowInv'
  <2>1. /\ Running(r, "artifact") /\ Write(r, Passed(r, "artifact", tx)) /\ NextStage(r, v)
        /\ UNCHANGED <<app, letters, changes, faults>>
    BY <1>3 DEF IssueArtifact
  <2>2. Passed(r, "artifact", tx) \in Database /\ Passed(r, "artifact", tx).sent = tx.sent
    BY <2>1, PassedTyped
  <2> QED
    BY <1>0, <2>1, <2>2, StagePasses
<1> QED
  BY <1>1, <1>2, <1>3

\* The letter goes out in the last stage, so that the request has only its
\* commit before it.
LEMMA NotifyStep ==
    ASSUME WorkflowInv, NEW r \in Request, NotifyFounder(r)
    PROVE  WorkflowInv'
<1> DEFINE v == LetterVerdict(ctx[r])
           u == ctx[r].verdict
           c == [ctx[r] EXCEPT !.at = @ + 1, !.verdict = u]
<1>0. /\ tx \in Database /\ u \in Verdict \cup {NoVerdict} /\ ManualReview \in Verdict
      /\ letters \in [Verdict -> Nat] /\ faults \in 0..MaxFaults
  BY ConstantsAssumption DEF WorkflowInv, Typed, Context
<1>1. v \in Verdict
  BY <1>0 DEF LetterVerdict
<1>2. PICK sent \in {tx.sent, tx.sent \cup {v}} :
         /\ Dispatch(tx, v, ctx[r].app.mode, sent)
         /\ Write(r, Passed(r, "notify", [tx EXCEPT !.sent = sent]))
  BY DEF NotifyFounder
<1>3. /\ Running(r, "notify") /\ NextStage(r, u) /\ UNCHANGED <<app, changes>>
  BY DEF NotifyFounder
<1>4. At(r, "notify") /\ MayWrite(r)
  BY <1>3 DEF Running
<1>5. /\ pc[r] = "stages" /\ ctx[r].at = Len(STEPS) /\ ctx[r].at <= Len(STEPS)
  BY <1>4, AtStage, StagesTyped
<1> DEFINE d == [tx EXCEPT !.sent = sent]
<1>6. d \in Database /\ d.runs = tx.runs /\ d.sent = sent
  BY <1>0, <1>1, <1>2 DEF Database
<1> HIDE DEF d
<1>7. /\ Passed(r, "notify", d).sent = sent
      /\ \E row \in RunRow :
            /\ Changed(tx, Passed(r, "notify", d), ctx[r].run, row)
            /\ row.refused = tx.runs[ctx[r].run].refused
            /\ Regular(tx.runs[ctx[r].run]) => Grounded(c, row)
  BY <1>0, <1>3, <1>6, PassedWrites
<1>8. /\ c \in Context /\ c.run = ctx[r].run /\ c.at = Len(STEPS) + 1
  BY <1>0, <1>5, NextContext
<1>9. tx' = Passed(r, "notify", d) /\ writer' = r /\ db' = db /\ Goto(r, "stages", c)
  BY <1>2, <1>3 DEF Write, NextStage, d
<1> HIDE DEF c
<1>10. \A w \in Verdict : letters[w] <= faults + (IF w \in tx.sent THEN 1 ELSE 0)
  BY DEF WorkflowInv, Accounted
<1>11. /\ letters' \in [Verdict -> Nat] /\ faults' \in 0..MaxFaults
       /\ \A w \in Verdict : letters'[w] <= faults' + (IF w \in sent THEN 1 ELSE 0)
  BY <1>0, <1>1, <1>2, <1>10, DispatchCounts
<1>12. Accounted'
  <2>1. db'.sent \subseteq tx'.sent
    BY <1>2, <1>7, <1>9 DEF WorkflowInv, Accounted
  <2>2. ctx'[r] = c
    BY <1>8, <1>9, GoesTo DEF WorkflowInv
  <2>3. ~(ctx'[r].at <= Len(STEPS))
    BY <1>8, <2>2, StagesTyped
  <2> QED
    BY <1>7, <1>9, <1>11, <2>1, <2>3 DEF Accounted
<1>13. PICK row \in RunRow :
            /\ Changed(tx, tx', ctx[r].run, row)
            /\ row.refused = tx.runs[ctx[r].run].refused
            /\ Regular(tx.runs[ctx[r].run]) => Grounded(c, row)
  BY <1>7, <1>9
<1> QED
  BY <1>3, <1>4, <1>5, <1>8, <1>9, <1>11, <1>12, <1>13, Passes

LEMMA SkipStep ==
    ASSUME WorkflowInv, NEW r \in Request, NEW name, Skip(r, name)
    PROVE  WorkflowInv'
<1> DEFINE c == [ctx[r] EXCEPT !.at = @ + 1]
<1>1. /\ At(r, name) /\ MaySkip(Known(r, name), name, ctx[r]) /\ Goto(r, "stages", c)
      /\ UNCHANGED <<app, db, tx, writer, letters, changes, faults>>
  BY DEF Skip
<1>2. /\ pc[r] = "stages" /\ ctx[r] \in Context /\ ctx[r].at \in 1..Len(STEPS)
      /\ ctx[r].at <= Len(STEPS) /\ STEPS[ctx[r].at] = name
  BY <1>1, AtStage
<1>3. /\ c \in Context /\ c.run = ctx[r].run /\ c.at = ctx[r].at + 1 /\ c.app = ctx[r].app
      /\ c.force = ctx[r].force /\ c.steps = ctx[r].steps
  <2>1. ctx[r].at + 1 \in 1..(Len(STEPS) + 1)
    BY <1>2, StagesTyped
  <2> QED
    BY <1>2, <2>1 DEF Context
<1> HIDE DEF c
<1>4. pc'[r] = "stages" /\ ctx'[r] = c
  BY <1>1, <1>3, GoesTo DEF WorkflowInv
<1>5. CASE writer # r
  <2>1. Reader(r)
    BY <1>5 DEF WorkflowInv, Sessions
  <2>2. Reader(r)'
    BY <1>1, <1>2, <1>3, <1>4, <2>1 DEF Reader
  <2> QED
    BY <1>1, <1>3, <1>5, <2>2, Reads
<1>6. CASE writer = r
  <2>1. MayWrite(r)
    BY <1>6 DEF MayWrite
  <2>2. /\ tx.runs[ctx[r].run] \in RunRow
        /\ Regular(tx.runs[ctx[r].run]) => Grounded(ctx[r], tx.runs[ctx[r].run])
    BY <1>2, <2>1, InStages
  <2>3. Regular(tx.runs[ctx[r].run]) => Grounded(c, tx.runs[ctx[r].run])
    BY <1>1, <1>2, <1>3, <2>2, SkipGrounded DEF Known
  <2>4. WriterOnly(r)'
    BY <1>1, <1>3, <1>4, <1>6, <2>3 DEF WorkflowInv, Sessions, WriterOnly
  <2>5. Accounted'
    <3>1. tx.sent = db.sent
      BY <1>2, <1>6 DEF WorkflowInv, Accounted
    <3> QED
      BY <1>1, <3>1 DEF WorkflowInv, Accounted
  <2>6. /\ tx' \in Database /\ Len(tx'.runs) <= MaxRuns
        /\ letters' \in [Verdict -> Nat] /\ faults' \in 0..MaxFaults
    BY <1>1 DEF WorkflowInv, Typed
  <2> QED
    BY <1>1, <1>3, <1>6, <2>1, <2>4, <2>5, <2>6, Holds
<1> QED
  BY <1>5, <1>6

LEMMA RefuseStep ==
    ASSUME WorkflowInv, NEW r \in Request, NEW name, Refuse(r, name)
    PROVE  WorkflowInv'
<1> DEFINE n   == ctx[r].run
           row == [tx.runs[n] EXCEPT !.refused = TRUE]
           d   == [tx EXCEPT !.runs[n].refused = TRUE]
<1>1. /\ At(r, name) /\ UNCHANGED <<app, letters, changes, faults>>
  BY DEF Refuse
<1>2. pc[r] = "stages" /\ ctx[r].at <= Len(STEPS)
  BY <1>1, AtStage
<1>3. CASE ctx[r].client = "cli" /\ writer = r
  <2>1. Commit(r, d)
    BY <1>3 DEF Refuse
  <2>2. MayWrite(r)
    BY <1>3 DEF MayWrite
  <2>3. n \in 1..Len(tx.runs) /\ tx.runs[n] \in RunRow
    BY <1>2, <2>2, InStages
  <2>4. tx \in Database /\ tx.runs \in Seq(RunRow)
    BY DatabaseTyped DEF WorkflowInv, Typed
  <2>5. row \in RunRow /\ row.refused = TRUE
    BY <2>3 DEF RunRow
  <2>6. d = [tx EXCEPT !.runs = [tx.runs EXCEPT ![n] = row]]
    BY <2>4 DEF Database
  <2> HIDE DEF row, d
  <2>7. Changed(tx, d, n, row) /\ d.sent = tx.sent
    <3>1. [tx.runs EXCEPT ![n] = row] \in Seq(RunRow)
      BY <2>3, <2>4, <2>5, ExceptSeq
    <3> QED
      BY <2>4, <2>6, <3>1 DEF Changed, Database
  <2>8. Settled(row)
    BY <2>5 DEF Settled, Regular
  <2> QED
    BY <1>1, <1>2, <2>1, <2>2, <2>5, <2>7, <2>8, CommitsRun
<1>4. CASE ~(ctx[r].client = "cli" /\ writer = r)
  <2>1. Rollback(r)
    BY <1>4 DEF Refuse
  <2> QED
    BY <1>1, <1>2, <2>1, RollsBack
<1> QED
  BY <1>3, <1>4

LEMMA FailStep ==
    ASSUME WorkflowInv, NEW r \in Request, NEW name, FailStage(r, name)
    PROVE  WorkflowInv'
<1> DEFINE n    == ctx[r].run
           run  == tx.runs[n]
           step == [run.steps[name] EXCEPT !.status = "failed", !.digest = NewDigest(r, name)]
           row  == [run EXCEPT !.status = "failed", !.steps[name] = step]
           d    == [tx EXCEPT !.runs[n] = row]
<1>1. Running(r, name) /\ Commit(r, d) /\ UNCHANGED <<app, letters, changes, faults>>
  BY DEF FailStage
<1>2. At(r, name) /\ MayWrite(r)
  BY <1>1 DEF Running
<1>3. /\ pc[r] = "stages" /\ ctx[r] \in Context /\ ctx[r].at <= Len(STEPS)
      /\ STEPS[ctx[r].at] = name /\ name \in Stage
  BY <1>2, AtStage
<1>4. /\ run \in RunRow /\ NewDigest(r, name) \in DigestValue
      /\ Regular(run) => Grounded(ctx[r], run) /\ ~Succeeded(run, ctx[r].at)
  BY <1>1, RunningStage
<1>5. /\ n \in 1..Len(tx.runs) /\ tx \in Database /\ tx.runs \in Seq(RunRow)
  BY <1>2, <1>3, InStages, DatabaseTyped DEF WorkflowInv, Typed
<1>6. step \in StepRow /\ step.status = "failed" /\ step.passes = run.steps[name].passes
  <2>1. run.steps[name] \in StepRow
    BY <1>3, <1>4 DEF RunRow
  <2> QED
    BY <1>4, <2>1 DEF StepRow
<1>7. d = [tx EXCEPT !.runs = [tx.runs EXCEPT ![n] = row]]
  BY <1>5 DEF Database
<1> HIDE DEF step, d
<1>8. /\ row \in RunRow /\ row.status = "failed" /\ row.forced = run.forced
      /\ row.refused = run.refused /\ row.steps[name] = step
      /\ \A s \in Stage : s # name => row.steps[s] = run.steps[s]
  <2> HIDE DEF run
  <2> QED
    BY <1>3, <1>4, <1>6 DEF RunRow
<1> HIDE DEF row
<1>9. Changed(tx, d, n, row) /\ d.sent = tx.sent
  <2>1. [tx.runs EXCEPT ![n] = row] \in Seq(RunRow)
    BY <1>5, <1>8, ExceptSeq
  <2> QED
    BY <1>5, <1>7, <2>1 DEF Changed, Database
<1>10. Settled(row)
  <2>1. CASE Regular(run)
    BY <1>3, <1>4, <1>6, <1>8, <2>1, FailSettled
  <2>2. CASE ~Regular(run)
    BY <1>8, <2>2 DEF Settled, Regular
  <2> QED
    BY <2>1, <2>2
<1> HIDE DEF run
<1>11. tx.runs[n].refused => row.refused
  BY <1>8 DEF run
<1> QED
  BY <1>1, <1>2, <1>3, <1>8, <1>9, <1>10, <1>11, CommitsRun

LEMMA FinishStep ==
    ASSUME WorkflowInv, NEW r \in Request, Finish(r)
    PROVE  WorkflowInv'
<1> DEFINE n    == ctx[r].run
           run  == tx.runs[n]
           row  == [run EXCEPT !.status = "succeeded"]
           d    == [tx EXCEPT !.runs[n].status = "succeeded"]
<1>1. /\ pc[r] = "stages" /\ ctx[r].at > Len(STEPS) /\ MayWrite(r) /\ Commit(r, d)
      /\ UNCHANGED <<app, letters, changes, faults>>
  BY DEF Finish
<1>2. /\ n \in 1..Len(tx.runs) /\ run \in RunRow /\ (Regular(run) => Grounded(ctx[r], run))
  BY <1>1, InStages
<1>3. /\ tx \in Database /\ tx.runs \in Seq(RunRow) /\ ctx[r] \in Context
  BY DatabaseTyped DEF WorkflowInv, Typed
<1>4. d = [tx EXCEPT !.runs = [tx.runs EXCEPT ![n] = row]]
  BY <1>3 DEF Database
<1>5. /\ row \in RunRow /\ row.status = "succeeded" /\ row.forced = run.forced
      /\ row.refused = run.refused /\ row.steps = run.steps
  <2> HIDE DEF run
  <2> QED
    BY <1>2 DEF RunRow
<1> HIDE DEF row, d
<1>6. Changed(tx, d, n, row) /\ d.sent = tx.sent
  <2>1. [tx.runs EXCEPT ![n] = row] \in Seq(RunRow)
    BY <1>2, <1>3, <1>5, ExceptSeq
  <2> QED
    BY <1>3, <1>4, <2>1 DEF Changed, Database
<1>7. Settled(row)
  <2>1. CASE Regular(run)
    BY <1>1, <1>2, <1>3, <1>5, <2>1, FinishSettled
  <2>2. CASE ~Regular(run)
    BY <1>5, <2>2 DEF Settled, Regular
  <2> QED
    BY <2>1, <2>2
<1> QED
  BY <1>1, <1>5, <1>6, <1>7, CommitsRun

\* Clash, RejectTranscript and Crash undo the request.
LEMMA UndoneSteps ==
    ASSUME WorkflowInv, NEW r \in Request,
           (\E name \in Stage : Clash(r, name)) \/ RejectTranscript(r) \/ Crash(r)
    PROVE  WorkflowInv'
<1>1. ASSUME NEW name \in Stage, Clash(r, name)
      PROVE  WorkflowInv'
  <2>1. ctx[r].at <= Len(STEPS)
    BY <1>1, AtStage DEF Clash
  <2> QED
    BY <1>1, <2>1, RollsBack DEF Clash
<1>2. CASE RejectTranscript(r)
  <2>1. ctx[r].at <= Len(STEPS)
    BY <1>2, AtStage DEF RejectTranscript, Running
  <2> QED
    BY <1>2, <2>1, RollsBack DEF RejectTranscript
<1>3. CASE Crash(r)
  BY <1>3, RollsBack DEF Crash
<1> QED
  BY <1>1, <1>2, <1>3

LEMMA WorkflowStep == WorkflowInv /\ [Next]_vars => WorkflowInv'
<1>1. ASSUME WorkflowInv, UNCHANGED vars
      PROVE  WorkflowInv'
  <2>1. Typed' /\ RunsSettled' /\ Accounted'
    BY <1>1 DEF vars, WorkflowInv, Typed, RunsSettled, Accounted
  <2>2. Sessions'
    BY <1>1 DEF vars, WorkflowInv, Sessions, WriterOnly, Reader
  <2> QED
    BY <2>1, <2>2 DEF WorkflowInv
<1>2. ASSUME WorkflowInv, Next
      PROVE  WorkflowInv'
  <2>1. CASE ChangeInputs \/ \E v \in Verdict : JobDecides(v) \/ JobDies(v)
    BY <1>2, <2>1, JobSteps
  <2>2. ASSUME NEW r \in Request,
               \/ Arrive(r) \/ ReadRuns(r)
               \/ OpenNew(r) \/ OpenAgain(r) \/ OpenRunning(r) \/ LoadSteps(r)
               \/ \E name \in Stage : \/ Skip(r, name) \/ Refuse(r, name) \/ Clash(r, name)
                                      \/ RunStage(r, name) \/ FailStage(r, name)
               \/ RejectTranscript(r)
               \/ \E v \in Verdict : Decide(r, v) \/ IssueArtifact(r, v)
               \/ NotifyFounder(r) \/ Finish(r) \/ Crash(r)
        PROVE  WorkflowInv'
    BY <1>2, <2>2, OpeningSteps, OpenNewStep, OpenAgainStep, StageSteps, NotifyStep, SkipStep,
       RefuseStep, FailStep, FinishStep, UndoneSteps
  <2> QED
    BY <1>2, <2>1, <2>2 DEF Next
<1> QED
  BY <1>1, <1>2

-----------------------------------------------------------------------------
(* The theorems.                                                           *)

\* Every variable of the orchestrator keeps its type, and nobody writes beside
\* the writer: outside a transaction its view is what is committed.
THEOREM WorkflowTyped == Spec => []TypeOK
<1>1. WorkflowInv => TypeOK
  BY DEF WorkflowInv, Typed, Sessions, TypeOK, Database
<1> QED
  BY InitInv, WorkflowStep, <1>1, PTL DEF Spec

\* A run that no refused command left running stands as succeeded only when
\* every one of its stages has succeeded, however it was run and resumed.
THEOREM SucceededAreComplete == Spec => []SucceededComplete
<1>1. ASSUME WorkflowInv
      PROVE  SucceededComplete
  <2>1. ASSUME NEW i \in 1..Len(db.runs), Regular(db.runs[i]), db.runs[i].status = "succeeded",
               NEW s \in Stage
        PROVE  db.runs[i].steps[s].status = "succeeded"
    <3>1. PICK j \in 1..Len(STEPS) : STEPS[j] = s
      BY StagesTyped
    <3> QED
      BY <1>1, <2>1, <3>1 DEF WorkflowInv, RunsSettled, Settled, Succeeded
  <2> QED
    BY <2>1 DEF SucceededComplete
<1> QED
  BY InitInv, WorkflowStep, <1>1, PTL DEF Spec

\* The stages of a run nobody forced have seen one transcript and one scoring
\* mode, whatever changed between the requests that carried it on.
THEOREM SnapshotIsOne == Spec => []OneSnapshot
<1>1. ASSUME WorkflowInv
      PROVE  OneSnapshot
  <2>1. ASSUME NEW i \in 1..Len(db.runs), Regular(db.runs[i]), ~db.runs[i].forced,
               NEW s \in Stage, db.runs[i].steps[s].status = "succeeded",
               NEW t \in Stage, db.runs[i].steps[t].status = "succeeded"
        PROVE  LET a == db.runs[i].steps[s].from
                   b == db.runs[i].steps[t].from
               IN  /\ NoTranscript \in {a.transcript, b.transcript} \/ a.transcript = b.transcript
                   /\ "none" \in {a.mode, b.mode} \/ a.mode = b.mode
    <3>1. Explained(db.runs[i])
      BY <1>1, <2>1 DEF WorkflowInv, RunsSettled, Settled, Sound
    <3>2. PICK a \in AppRow : \A j \in 1..Len(STEPS) :
             Succeeded(db.runs[i], j) => db.runs[i].steps[STEPS[j]].from = Digest(STEPS[j], a)
      BY <3>1 DEF Explained
    <3>3. db.runs[i].steps[s].from = Digest(s, a) /\ db.runs[i].steps[t].from = Digest(t, a)
      BY <2>1, <3>2, StagesTyped DEF Succeeded
    <3>4. /\ Digest(s, a).transcript \in {NoTranscript, a.transcript}
          /\ Digest(t, a).transcript \in {NoTranscript, a.transcript}
          /\ Digest(s, a).mode \in {"none", a.mode}
          /\ Digest(t, a).mode \in {"none", a.mode}
      BY DEF Digest
    <3> QED
      BY <3>3, <3>4
  <2> QED
    BY <2>1 DEF OneSnapshot
<1> QED
  BY InitInv, WorkflowStep, <1>1, PTL DEF Spec

\* No stage of such a run succeeds twice, with any number of requests that run
\* and resume it at a time.
THEOREM StagesPassedOnce == Spec => []StagesPassOnce
<1>1. ASSUME WorkflowInv
      PROVE  StagesPassOnce
  <2>1. ASSUME NEW i \in 1..Len(db.runs), Regular(db.runs[i]), NEW s \in Stage
        PROVE  db.runs[i].steps[s].passes <= 1
    <3>1. PICK j \in 1..Len(STEPS) : STEPS[j] = s
      BY StagesTyped
    <3> QED
      BY <1>1, <2>1, <3>1 DEF WorkflowInv, RunsSettled, Settled, Sound, PassedOnce
  <2> QED
    BY <2>1 DEF StagesPassOnce
<1> QED
  BY InitInv, WorkflowStep, <1>1, PTL DEF Spec

\* A second letter of one verdict takes a fault, with any number of runs,
\* resumes and scoring jobs; notify being the last stage.
THEOREM LettersSentOnce == Spec => []LettersOnce
<1>1. ASSUME WorkflowInv
      PROVE  LettersOnce
  <2>1. ASSUME NEW v \in Verdict
        PROVE  letters[v] <= 1 + faults
    <3>1. letters[v] \in Nat /\ faults \in Nat
      BY <1>1, ConstantsAssumption DEF WorkflowInv, Typed
    <3>2. letters[v] <= faults + (IF v \in tx.sent THEN 1 ELSE 0)
      BY <1>1 DEF WorkflowInv, Accounted
    <3> QED
      BY <3>1, <3>2
  <2> QED
    BY <2>1 DEF LettersOnce
<1> QED
  BY InitInv, WorkflowStep, <1>1, PTL DEF Spec

=============================================================================
