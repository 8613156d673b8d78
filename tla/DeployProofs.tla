---------------------------- MODULE DeployProofs ----------------------------
(***************************************************************************)
(* The theorems about the jobs beside the fund: the hand-off to a tracker  *)
(* (TrackerHandoff), the release gate (ReleaseGate) and the governance of  *)
(* the policy (Attestation), for any setups, policies, days and bounds.    *)
(***************************************************************************)
EXTENDS TrackerHandoff, ReleaseGate, Attestation, WellFoundedInduction, TLAPS

-----------------------------------------------------------------------------
(* The hand-off to the tracker.                                             *)

JobType     == [at : {"rows", "done"}, next : 1..3, attempt : Nat, rerun : Nat, exit : Int]
TrackerType == [issues : Nat, keys : SUBSET {<<e>> : e \in Environment}]
RowType     == [status : {"none", "skipped", "failed", "success"},
                error : {"none", "contract", "unanswered", "http"},
                attempts : Nat, recon : {"none", "identifiers", "skipped"}]

HandoffTypeOK ==
    /\ setup \in Setup
    /\ job \in JobType
    /\ tracker \in [Environment -> TrackerType]
    /\ rows \in [Environment -> RowType]
    /\ notes \in [Environment -> {"none", "identifiers", "skipped"}]

\* What a tracker holds of an environment: an issue has a ticket that is fit, a
\* key an issue, and a tracker that heeds the key the one issue it stands for.
FiledWell(e, t) ==
    LET target == setup.target[e]
    IN  /\ t.issues > 0 => target.url /\ ContractErrors(target.ticket, Provider(target.provider)) = {}
        /\ t.keys # {} => t.issues > 0
        /\ target.heeds /\ EffectivePolicy(setup, e).mode # "off" =>
              t.issues = 0 \/ (t.issues = 1 /\ <<e>> \in t.keys)

Most(e) == EffectivePolicy(setup, e).max_attempts

\* What earlier runs may have spent, and what this one has.
Past(e)  == job.rerun * Most(e)
Spent(e) == IF job.next <= Len(EnvAt) /\ Env = e THEN job.attempt ELSE rows[e].attempts

\* An issue is an attempt of this run or an earlier one; none has more than its
\* policy's, and an environment that the run has not come to has none of it.
Attempted(e) ==
    /\ tracker[e].issues <= Past(e) + Spent(e)
    /\ rows[e].attempts <= Most(e)
    /\ job.next <= Len(EnvAt) /\ Env = e => job.attempt < Most(e)
    /\ \A i \in 1..Len(EnvAt) : i >= job.next /\ EnvAt[i] = e => rows[e].attempts = 0

HandoffInv ==
    /\ HandoffTypeOK
    /\ \A e \in Environment : FiledWell(e, tracker[e]) /\ Attempted(e)

LEMMA PolicyTyped ==
    ASSUME NEW s \in Setup, NEW e \in Environment
    PROVE  EffectivePolicy(s, e).max_attempts \in 1..10
<1>1. /\ "max_attempts" \in DOMAIN s.defaults => s.defaults.max_attempts \in Int
      /\ "max_attempts" \in DOMAIN s.rows[e] => s.rows[e].max_attempts \in Int
  BY HandoffAssumption
<1>2. ASSUME NEW o, "max_attempts" \in DOMAIN o => o.max_attempts \in Int
      PROVE  ClampEffectivePolicy(o).max_attempts \in 1..10
  <2> DEFINE given == [f \in Field |-> IF f \in DOMAIN o THEN o[f] ELSE BuiltinDefaults[f]]
  <2>1. "max_attempts" \in Field /\ BuiltinDefaults.max_attempts = 4
    BY DEF Field, BuiltinDefaults
  <2>2. given.max_attempts \in Int
    BY <1>2, <2>1
  <2>3. ClampEffectivePolicy(o).max_attempts = Between(given.max_attempts, 1, 10)
    BY DEF ClampEffectivePolicy
  <2> HIDE DEF given
  <2> QED
    BY <2>2, <2>3 DEF Between
<1>3. CASE PolicyLoaded(s) = "none"
  <2>1. EffectivePolicy(s, e) = ClampEffectivePolicy(<<>>)
    BY <1>3 DEF EffectivePolicy
  <2>2. "max_attempts" \notin DOMAIN <<>>
    OBVIOUS
  <2> QED
    BY <1>2, <2>1, <2>2
<1>4. CASE PolicyLoaded(s) # "none"
  <2> DEFINE over == s.rows[e]
             overlay == [f \in DOMAIN s.defaults \cup DOMAIN over |->
                            IF f \in DOMAIN over THEN over[f] ELSE s.defaults[f]]
  <2>1. EffectivePolicy(s, e) = ClampEffectivePolicy(overlay)
    BY <1>4 DEF EffectivePolicy
  <2>2. "max_attempts" \in DOMAIN overlay => overlay.max_attempts \in Int
    BY <1>1
  <2> HIDE DEF overlay
  <2> QED
    BY <1>2, <2>1, <2>2
<1> QED
  BY <1>3, <1>4

LEMMA AttemptsTyped ==
    ASSUME HandoffTypeOK
    PROVE  \A e \in Environment :
              /\ Most(e) \in Nat /\ Most(e) >= 1 /\ Past(e) \in Nat /\ Spent(e) \in Nat
              /\ rows[e].attempts \in Nat /\ tracker[e].issues \in Nat
<1>1. /\ setup \in Setup /\ job.rerun \in Nat /\ job.attempt \in Nat
      /\ \A e \in Environment : rows[e].attempts \in Nat /\ tracker[e].issues \in Nat
  BY DEF HandoffTypeOK, JobType, RowType, TrackerType
<1>2. \A e \in Environment : Most(e) \in 1..10
  BY <1>1, PolicyTyped DEF Most
<1>3. ASSUME NEW m \in 1..10, NEW n \in Nat
      PROVE  n * m \in Nat
  OBVIOUS
<1> QED
  BY <1>1, <1>2, <1>3 DEF Past, Spent

LEMMA HandoffInitially == HandoffInit => HandoffInv
<1> SUFFICES ASSUME HandoffInit PROVE HandoffInv
  OBVIOUS
<1>1. NoRow \in RowType /\ NoRow.status = "none" /\ NoRow.recon = "none"
  BY DEF NoRow, RowType
<1>2. Start \in JobType
  BY DEF Start, JobType
<1>3. \A e \in Environment : tracker[e].issues = 0 /\ tracker[e].keys = {}
  BY DEF HandoffInit
<1>4. tracker \in [Environment -> TrackerType]
  BY DEF HandoffInit, TrackerType
<1>5. HandoffTypeOK
  BY <1>1, <1>2, <1>4 DEF HandoffInit, HandoffTypeOK
<1>6. job.attempt = 0 /\ \A e \in Environment : rows[e].attempts = 0
  BY DEF HandoffInit, Start, NoRow
<1>7. ASSUME NEW e \in Environment
      PROVE  Attempted(e)
  <2>1. Spent(e) = 0 /\ Past(e) \in Nat /\ Most(e) \in Nat /\ Most(e) >= 1
    BY <1>5, <1>6, AttemptsTyped DEF Spent
  <2> QED
    BY <1>3, <1>6, <2>1 DEF Attempted
<1> QED
  BY <1>3, <1>5, <1>7 DEF HandoffInv, FiledWell

\* The job is at an environment.
LEMMA EnvTyped ==
    ASSUME HandoffTypeOK, job.next <= Len(EnvAt)
    PROVE  Env \in Environment /\ job.next + 1 \in 1..3
BY DEF HandoffTypeOK, JobType, EnvAt, Environment, Env

\* A tracker that takes a request for a ticket that is fit.
LEMMA TakenWell ==
    ASSUME HandoffInv, NEW e \in Environment, NEW rerun,
           setup.target[e].url,
           ContractErrors(setup.target[e].ticket, Provider(setup.target[e].provider)) = {}
    PROVE  LET t == Taken(e, IdempotencyKey(EffectivePolicy(setup, e), e, rerun))
           IN  t \in TrackerType /\ FiledWell(e, t) /\ t.issues > 0
<1> DEFINE mode == EffectivePolicy(setup, e).mode
           key  == IdempotencyKey(EffectivePolicy(setup, e), e, rerun)
           old  == tracker[e]
           t    == Taken(e, key)
<1>1. old \in TrackerType /\ old.issues \in Nat /\ old.keys \in SUBSET {<<d>> : d \in Environment}
  BY DEF HandoffInv, HandoffTypeOK, TrackerType
<1>2. FiledWell(e, old)
  BY DEF HandoffInv
<1>3. /\ mode = "off" => key = <<>>
      /\ mode # "off" => key = <<e>> /\ key # <<>>
  BY DEF IdempotencyKey
<1>4. CASE setup.target[e].heeds /\ key # <<>> /\ key \in old.keys
  <2>1. t = old
    BY <1>4 DEF Taken
  <2>2. old.issues > 0
    BY <1>2, <1>4 DEF FiledWell
  <2> QED
    BY <1>1, <1>2, <2>1, <2>2
<1>5. CASE ~(setup.target[e].heeds /\ key # <<>> /\ key \in old.keys)
  <2> DEFINE seen == IF key = <<>> THEN old.keys ELSE old.keys \cup {key}
  <2>1. t = [issues |-> old.issues + 1, keys |-> seen]
    BY <1>5 DEF Taken
  <2>2. seen \in SUBSET {<<d>> : d \in Environment}
    BY <1>1, <1>3
  <2>3. key # <<>> => key \in seen
    OBVIOUS
  <2> HIDE DEF seen
  <2>4. t \in TrackerType /\ t.issues = old.issues + 1 /\ t.keys = seen
    BY <1>1, <2>1, <2>2 DEF TrackerType
  <2>5. ASSUME setup.target[e].heeds, mode # "off"
        PROVE  old.issues = 0 /\ <<e>> \in seen
    <3>1. key = <<e>> /\ key # <<>>
      BY <1>3, <2>5
    <3>2. <<e>> \notin old.keys
      BY <1>5, <2>5, <3>1
    <3> QED
      BY <1>2, <2>3, <2>5, <3>1, <3>2 DEF FiledWell
  <2> HIDE DEF t, mode, old, key
  <2>6. t.issues > 0
    BY <1>1, <2>4
  <2>7. FiledWell(e, t)
    BY <1>1, <2>4, <2>5, <2>6 DEF FiledWell, mode
  <2> QED
    BY <2>4, <2>6, <2>7 DEF t, key
<1> QED
  BY <1>4, <1>5

\* A row with its attempts is written, and the job goes on to the next environment.
LEMMA FiledMoves ==
    ASSUME HandoffInv, NEW row \in RowType, job.next <= Len(EnvAt), Filed(row),
           UNCHANGED <<setup, notes>>,
           tracker' \in [Environment -> TrackerType],
           \A e \in Environment : FiledWell(e, tracker'[e]) /\ (e # Env => tracker'[e] = tracker[e]),
           row.attempts <= Most(Env),
           tracker'[Env].issues <= Past(Env) + row.attempts
    PROVE  HandoffInv'
<1>1. Env \in Environment /\ job.next + 1 \in 1..3
  BY EnvTyped DEF HandoffInv
<1> DEFINE next == job.next + 1
<1>2. job' = [job EXCEPT !.next = next, !.attempt = 0] /\ next \in 1..3
  BY <1>1 DEF Filed, HandoffInv, HandoffTypeOK, JobType
<1> HIDE DEF next
<1>3. job' \in JobType /\ job'.next = next /\ job'.attempt = 0 /\ job'.rerun = job.rerun
  BY <1>2 DEF HandoffInv, HandoffTypeOK, JobType
<1>4. /\ rows' \in [Environment -> RowType]
      /\ \A e \in Environment : rows'[e] = IF e = Env THEN row ELSE rows[e]
  BY <1>1 DEF Filed, HandoffInv, HandoffTypeOK
<1>5. HandoffTypeOK'
  BY <1>3, <1>4 DEF HandoffInv, HandoffTypeOK
<1>6. ASSUME NEW e \in Environment
      PROVE  FiledWell(e, tracker[e])' /\ Attempted(e)'
  <2>1. FiledWell(e, tracker[e])'
    BY DEF FiledWell
  <2>2. Most(e)' = Most(e) /\ Past(e)' = Past(e)
    BY <1>3 DEF Most, Past
  <2>3. /\ Most(e) \in Nat /\ Most(e) >= 1 /\ Past(e) \in Nat /\ rows[e].attempts \in Nat
        /\ rows'[e].attempts \in Nat /\ tracker[e].issues \in Nat /\ row.attempts \in Nat
    BY <1>5, AttemptsTyped DEF HandoffInv, HandoffTypeOK, RowType
  <2>4. job.next \in 1..2 /\ next = job.next + 1 /\ Len(EnvAt) = 2 /\ EnvAt[1] # EnvAt[2]
        /\ Env = EnvAt[job.next]
    BY DEF HandoffInv, HandoffTypeOK, JobType, EnvAt, Env, next
  <2>5. CASE e = Env
    <3>1. /\ rows'[e].attempts = row.attempts
          /\ \A i \in 1..2 : i >= next => EnvAt[i] # e
          /\ ~(next <= 2 /\ EnvAt[next] = e)
      BY <1>4, <2>4, <2>5
    <3>2. Spent(e)' = row.attempts
      BY <1>3, <2>4, <3>1 DEF Spent, Env
    <3> QED
      BY <1>3, <2>1, <2>2, <2>3, <2>4, <2>5, <3>1, <3>2 DEF Attempted, Env
  <2>6. CASE e # Env
    <3>1. rows'[e].attempts = rows[e].attempts /\ tracker'[e] = tracker[e]
      BY <1>4, <2>6
    <3>2. /\ tracker[e].issues <= Past(e) + rows[e].attempts /\ rows[e].attempts <= Most(e)
          /\ \A i \in 1..2 : i >= job.next /\ EnvAt[i] = e => rows[e].attempts = 0
      BY <2>4, <2>6 DEF HandoffInv, Attempted, Spent
    <3>3. \A i \in 1..2 : i >= next /\ EnvAt[i] = e => rows'[e].attempts = 0
      BY <2>4, <3>1, <3>2
    <3>4. Spent(e)' = rows[e].attempts
      BY <1>3, <2>4, <3>1, <3>3 DEF Spent, Env
    <3> QED
      BY <1>3, <2>1, <2>2, <2>3, <2>4, <3>1, <3>2, <3>3, <3>4 DEF Attempted, Env
  <2> QED
    BY <2>5, <2>6
<1> QED
  BY <1>5, <1>6 DEF HandoffInv

\* The tracker has taken the request of the environment, or has not.
LEMMA TrackerMoves ==
    ASSUME HandoffInv, job.next <= Len(EnvAt), MayPost,
           \/ tracker' = [tracker EXCEPT ![Env] = Taken(Env, IdempotencyKey(Policy, Env, job.rerun))]
           \/ UNCHANGED tracker
    PROVE  /\ tracker' \in [Environment -> TrackerType]
           /\ \A e \in Environment :
                 FiledWell(e, tracker'[e]) /\ (e # Env => tracker'[e] = tracker[e])
           /\ tracker'[Env].issues <= tracker[Env].issues + 1
<1>0. /\ tracker \in [Environment -> TrackerType]
      /\ \A e \in Environment : tracker[e].issues \in Nat /\ FiledWell(e, tracker[e])
  BY DEF HandoffInv, HandoffTypeOK, TrackerType
<1>1. CASE UNCHANGED tracker
  <2>1. Env \in Environment
    BY EnvTyped DEF HandoffInv
  <2> QED
    BY <1>0, <1>1, <2>1
<1>2. CASE tracker' = [tracker EXCEPT ![Env] = Taken(Env, IdempotencyKey(Policy, Env, job.rerun))]
  <2>1. Env \in Environment
    BY EnvTyped DEF HandoffInv
  <2> DEFINE t == Taken(Env, IdempotencyKey(Policy, Env, job.rerun))
  <2>2. t \in TrackerType /\ FiledWell(Env, t)
    BY <2>1, TakenWell DEF MayPost, Target, Policy
  <2>3. t.issues <= tracker[Env].issues + 1
    BY <1>0, <2>1 DEF Taken
  <2> HIDE DEF t
  <2>4. tracker' = [tracker EXCEPT ![Env] = t]
    BY <1>2 DEF t
  <2> QED
    BY <1>0, <2>1, <2>2, <2>3, <2>4
<1> QED
  BY <1>1, <1>2

LEMMA HandoffStep == HandoffInv /\ [HandoffNext]_handoffVars => HandoffInv'
<1> SUFFICES ASSUME HandoffInv, [HandoffNext]_handoffVars
             PROVE  HandoffInv'
  OBVIOUS
<1>0. /\ setup \in Setup /\ job \in JobType /\ tracker \in [Environment -> TrackerType]
      /\ rows \in [Environment -> RowType]
      /\ \A e \in Environment : FiledWell(e, tracker[e]) /\ Attempted(e)
  BY DEF HandoffInv, HandoffTypeOK
<1>t. \A e \in Environment :
         /\ Most(e) \in Nat /\ Most(e) >= 1 /\ Past(e) \in Nat /\ Spent(e) \in Nat
         /\ rows[e].attempts \in Nat /\ tracker[e].issues \in Nat
  BY AttemptsTyped DEF HandoffInv
\* a step that only ends the script
<1>a. ASSUME job' \in JobType, job'.next = job.next, job'.attempt = job.attempt,
             job'.rerun = job.rerun, UNCHANGED <<setup, tracker, rows>>,
             notes' \in [Environment -> {"none", "identifiers", "skipped"}]
      PROVE  HandoffInv'
  <2>1. \A e \in Environment : Most(e)' = Most(e) /\ Past(e)' = Past(e) /\ Spent(e)' = Spent(e)
    BY <1>a DEF Most, Past, Spent, Env
  <2>2. ASSUME NEW e \in Environment
        PROVE  FiledWell(e, tracker[e])' /\ Attempted(e)'
    <3>1. FiledWell(e, tracker[e])'
      BY <1>0, <1>a DEF FiledWell
    <3>2. Env' = Env /\ Most(e)' = Most(e) /\ Past(e)' = Past(e) /\ Spent(e)' = Spent(e)
      BY <1>a, <2>1 DEF Env
    <3>3. Attempted(e)'
      BY <1>0, <1>a, <3>2 DEF Attempted
    <3> QED
      BY <3>1, <3>3
  <2> QED
    BY <1>a, <2>2 DEF HandoffInv, HandoffTypeOK
<1>n. notes \in [Environment -> {"none", "identifiers", "skipped"}]
  BY DEF HandoffInv, HandoffTypeOK
<1>1. CASE LoadFails
  <2> DEFINE exit == 1
  <2>0. job' = [job EXCEPT !.at = "done", !.exit = exit] /\ exit \in Int
    BY <1>1 DEF LoadFails
  <2> HIDE DEF exit
  <2>1. /\ job' \in JobType /\ job'.next = job.next /\ job'.attempt = job.attempt
        /\ job'.rerun = job.rerun
    BY <1>0, <2>0 DEF JobType
  <2> QED
    BY <1>1, <1>a, <1>n, <2>1 DEF LoadFails
<1>2. CASE RefuseTicket
  <2> DEFINE row == [NoRow EXCEPT !.status = IF Target.url THEN "failed" ELSE "skipped",
                                  !.error  = IF Target.url THEN "contract" ELSE "none"]
  <2>1. row \in RowType /\ row.attempts = 0
    BY DEF NoRow, RowType
  <2>2. Filed(row) /\ job.next <= Len(EnvAt) /\ UNCHANGED <<setup, tracker, notes>> /\ job.attempt = 0
    BY <1>2 DEF RefuseTicket
  <2> HIDE DEF row
  <2>3. Env \in Environment
    BY <2>2, EnvTyped DEF HandoffInv
  <2>4. tracker[Env].issues <= Past(Env) + 0
    BY <1>0, <2>2, <2>3 DEF Attempted, Spent
  <2>5. /\ row.attempts <= Most(Env) /\ tracker'[Env].issues <= Past(Env) + row.attempts
        /\ tracker' \in [Environment -> TrackerType]
        /\ \A e \in Environment : FiledWell(e, tracker'[e]) /\ (e # Env => tracker'[e] = tracker[e])
    BY <1>0, <1>t, <2>1, <2>2, <2>3, <2>4
  <2> QED
    BY <2>1, <2>2, <2>5, FiledMoves
<1>3. CASE Post
  <2> DEFINE key == IdempotencyKey(Policy, Env, job.rerun)
             attempt == job.attempt + 1
             Again   == job' = [job EXCEPT !.attempt = attempt] /\ UNCHANGED rows
             Failed(error) == Filed([NoRow EXCEPT !.status = "failed", !.error = error,
                                                  !.attempts = attempt])
  <2>0. /\ job.next <= Len(EnvAt) /\ MayPost /\ UNCHANGED <<setup, notes>>
        /\ attempt \in Nat /\ Env \in Environment
    BY <1>0, <1>3, EnvTyped DEF Post, JobType, HandoffInv
  <2>r. \/ tracker' = [tracker EXCEPT ![Env] = Taken(Env, key)]
        \/ UNCHANGED tracker
    BY <1>3 DEF Post
  <2>1. /\ tracker' \in [Environment -> TrackerType]
        /\ \A e \in Environment :
              FiledWell(e, tracker'[e]) /\ (e # Env => tracker'[e] = tracker[e])
        /\ tracker'[Env].issues <= tracker[Env].issues + 1
    BY <2>0, <2>r, TrackerMoves
  <2>b. attempt <= Most(Env) /\ tracker'[Env].issues <= Past(Env) + attempt
    <3>1. /\ tracker[Env].issues <= Past(Env) + job.attempt /\ job.attempt < Most(Env)
          /\ job.attempt \in Nat /\ Past(Env) \in Nat /\ Most(Env) \in Nat
          /\ tracker[Env].issues \in Nat /\ tracker'[Env].issues \in Nat
      BY <1>0, <1>t, <2>0, <2>1 DEF Attempted, Spent, JobType, TrackerType
    <3> QED
      BY <2>1, <3>1
  <2>2. ASSUME attempt < Most(Env), Again
        PROVE  HandoffInv'
    <3>1. /\ job' \in JobType /\ job'.next = job.next /\ job'.rerun = job.rerun
          /\ job'.attempt = attempt
      <4> HIDE DEF attempt
      <4> QED
        BY <1>0, <2>0, <2>2 DEF JobType
    <3>2. ASSUME NEW e \in Environment
          PROVE  FiledWell(e, tracker[e])' /\ Attempted(e)'
      <4>1. Most(e)' = Most(e) /\ Past(e)' = Past(e) /\ Env' = Env /\ rows' = rows
        BY <2>0, <2>2, <3>1 DEF Most, Past, Env
      <4>2. FiledWell(e, tracker[e])'
        BY <2>0, <2>1 DEF FiledWell
      <4> HIDE DEF attempt, Again
      <4>3. CASE e = Env
        <5>1. Spent(e)' = attempt
          BY <2>0, <3>1, <4>1, <4>3 DEF Spent
        <5> QED
          BY <1>0, <2>2, <2>b, <3>1, <4>1, <4>2, <4>3, <5>1 DEF Attempted
      <4>4. CASE e # Env
        <5>1. Spent(e)' = Spent(e) /\ tracker'[e] = tracker[e]
          BY <2>1, <3>1, <4>1, <4>4 DEF Spent
        <5> QED
          BY <1>0, <3>1, <4>1, <4>2, <4>4, <5>1 DEF Attempted
      <4> QED
        BY <4>3, <4>4
    <3>3. HandoffTypeOK'
      BY <2>0, <2>1, <2>2, <3>1 DEF HandoffInv, HandoffTypeOK
    <3> QED
      BY <3>2, <3>3 DEF HandoffInv
  <2>3. ASSUME NEW row \in RowType, row.attempts = attempt, Filed(row)
        PROVE  HandoffInv'
    <3> HIDE DEF attempt
    <3> QED
      BY <2>0, <2>1, <2>b, <2>3, FiledMoves
  <2>4. ASSUME NEW error \in {"unanswered", "http"}, Failed(error)
        PROVE  HandoffInv'
    <3> DEFINE row == [NoRow EXCEPT !.status = "failed", !.error = error, !.attempts = attempt]
    <3>1. row \in RowType /\ row.attempts = attempt
      <4> HIDE DEF attempt
      <4> QED
        BY <2>0 DEF NoRow, RowType
    <3>2. Filed(row)
      BY <2>4
    <3> HIDE DEF row
    <3> QED
      BY <2>3, <3>1, <3>2
  <2>5. ASSUME NEW body \in {Target.body, {}},
               Filed([status |-> "success", error |-> "none", attempts |-> attempt,
                      recon |-> Reconciliation(Provider(Target.provider), body)])
        PROVE  HandoffInv'
    <3> DEFINE recon == Reconciliation(Provider(Target.provider), body)
               row == [status |-> "success", error |-> "none", attempts |-> attempt, recon |-> recon]
    <3>1. recon \in {"identifiers", "skipped"}
      BY DEF Reconciliation
    <3>2. Filed(row)
      BY <2>5
    <3> HIDE DEF recon
    <3>3. row \in RowType /\ row.attempts = attempt
      <4> HIDE DEF attempt
      <4> QED
        BY <2>0, <3>1 DEF RowType
    <3> HIDE DEF row
    <3> QED
      BY <2>3, <3>2, <3>3
  <2>6. \/ \E body \in {Target.body, {}} :
              Filed([status |-> "success", error |-> "none", attempts |-> attempt,
                     recon |-> Reconciliation(Provider(Target.provider), body)])
        \/ attempt < Most(Env) /\ Again
        \/ Failed("unanswered")
        \/ Failed("http")
    BY <1>3 DEF Post, MayRetry, Most, Policy
  <2> HIDE DEF Again, Failed, key, attempt
  <2> QED
    BY <2>2, <2>4, <2>5, <2>6
<1>4. CASE WriteResults
  <2> DEFINE exit == IF \E e \in Environment : rows[e].error = "contract" THEN 2 ELSE 0
  <2>1. exit \in Int
    OBVIOUS
  <2>2. job' = [job EXCEPT !.at = "done", !.exit = exit]
    BY <1>4 DEF WriteResults
  <2> HIDE DEF exit
  <2>3. /\ job' \in JobType /\ job'.next = job.next /\ job'.attempt = job.attempt
        /\ job'.rerun = job.rerun
    BY <1>0, <2>1, <2>2 DEF JobType
  <2> QED
    BY <1>4, <1>a, <1>n, <2>3 DEF WriteResults
<1>5. CASE WriteBack
  <2>1. notes' \in [Environment -> {"none", "identifiers", "skipped"}]
    BY <1>0, <1>5 DEF WriteBack, HandoffInv, HandoffTypeOK, RowType
  <2>2. UNCHANGED <<setup, job, tracker, rows>>
    BY <1>5 DEF WriteBack
  <2> QED
    BY <1>0, <1>a, <2>1, <2>2
<1>6. CASE RerunJob
  <2> DEFINE rerun == job.rerun + 1
  <2>1. rerun \in Nat /\ job.rerun \in Nat
    BY <1>0 DEF JobType
  <2>2. job' = [Start EXCEPT !.rerun = rerun]
    BY <1>6 DEF RerunJob
  <2>h. rerun = job.rerun + 1
    OBVIOUS
  <2> HIDE DEF rerun
  <2>3. job' \in JobType /\ job'.attempt = 0 /\ job'.rerun = rerun
    BY <2>1, <2>2 DEF Start, JobType
  <2>4. NoRow \in RowType /\ NoRow.attempts = 0
    BY DEF NoRow, RowType
  <2>5. /\ rows' \in [Environment -> RowType]
        /\ notes' \in [Environment -> {"none", "identifiers", "skipped"}]
        /\ \A e \in Environment : rows'[e].attempts = 0
    BY <1>6, <2>4 DEF RerunJob
  <2>6. UNCHANGED <<setup, tracker>>
    BY <1>6 DEF RerunJob
  <2>7. HandoffTypeOK'
    BY <2>3, <2>5, <2>6 DEF HandoffInv, HandoffTypeOK
  <2>8. ASSUME NEW e \in Environment
        PROVE  FiledWell(e, tracker[e])' /\ Attempted(e)'
    <3>1. Most(e)' = Most(e) /\ Most(e) \in Nat /\ Most(e) >= 1
      BY <1>t, <2>6 DEF Most
    <3>2. Past(e)' = Past(e) + Most(e)
      <4>1. ASSUME NEW m \in Nat, NEW n \in Nat
            PROVE  (n + 1) * m = n * m + m
        OBVIOUS
      <4> QED
        BY <2>1, <2>3, <2>h, <3>1, <4>1 DEF Past
    <3>3. Spent(e) <= Most(e) /\ tracker[e].issues <= Past(e) + Spent(e)
      <4>1. job.attempt \in Nat
        BY <1>0 DEF JobType
      <4> QED
        BY <1>0, <1>t, <4>1 DEF Attempted, Spent
    <3>4. Spent(e)' = 0
      BY <2>3, <2>5 DEF Spent
    <3>5. tracker'[e].issues <= Past(e)' + Spent(e)'
      BY <1>t, <2>6, <3>1, <3>2, <3>3, <3>4
    <3>6. FiledWell(e, tracker[e])'
      BY <1>0, <2>6 DEF FiledWell
    <3>7. rows'[e].attempts = 0 /\ 0 <= Most(e)' /\ job'.attempt < Most(e)'
      BY <2>3, <2>5, <3>1
    <3>8. Attempted(e)'
      BY <2>5, <3>5, <3>7 DEF Attempted
    <3> QED
      BY <3>6, <3>8
  <2> QED
    BY <2>7, <2>8 DEF HandoffInv
<1>7. CASE UNCHANGED handoffVars
  BY <1>0, <1>7, <1>a, <1>n DEF handoffVars
<1> QED
  BY <1>1, <1>2, <1>3, <1>4, <1>5, <1>6, <1>7 DEF HandoffNext

LEMMA HandoffAlways == HandoffSpec => []HandoffInv
BY HandoffInitially, HandoffStep, PTL DEF HandoffSpec

\* However often requests are retried, answers lost and the job run again, a
\* tracker that heeds the Idempotency-Key holds one issue for an environment.
THEOREM OneIssueFiled == HandoffSpec => []OneIssue
<1>1. HandoffInv => OneIssue
  <2> SUFFICES ASSUME HandoffInv, NEW e \in Environment, setup.target[e].heeds,
                      EffectivePolicy(setup, e).mode # "off"
               PROVE  tracker[e].issues <= 1
    BY DEF OneIssue
  <2>1. FiledWell(e, tracker[e])
    BY DEF HandoffInv
  <2> QED
    BY <2>1 DEF FiledWell
<1> QED
  BY <1>1, HandoffAlways, PTL

\* Nothing is filed for a ticket that is not fit for its provider, and whatever
\* answers, redirects and losses there are, and however often the job is run
\* again, a tracker holds no more issues than there may have been attempts.
THEOREM FilingIsBounded == HandoffSpec => []FilingBounded
<1>1. ASSUME HandoffInv, NEW e \in Environment
      PROVE  tracker[e].issues <= (job.rerun + 1) * EffectivePolicy(setup, e).max_attempts
  <2>1. /\ Most(e) \in Nat /\ Past(e) \in Nat /\ Spent(e) \in Nat /\ tracker[e].issues \in Nat
        /\ job.rerun \in Nat /\ job.attempt \in Nat
    BY <1>1, AttemptsTyped DEF HandoffInv, HandoffTypeOK, JobType
  <2>2. tracker[e].issues <= Past(e) + Spent(e) /\ Spent(e) <= Most(e)
    BY <1>1, <2>1 DEF HandoffInv, Attempted, Spent
  <2>3. ASSUME NEW m \in Nat, NEW n \in Nat
        PROVE  (n + 1) * m = n * m + m
    OBVIOUS
  <2>4. (job.rerun + 1) * Most(e) = Past(e) + Most(e)
    BY <2>1, <2>3 DEF Past
  <2>5. tracker[e].issues <= (job.rerun + 1) * Most(e)
    BY <2>1, <2>2, <2>4
  <2> QED
    BY <2>5 DEF Most
<1>2. HandoffInv => FilingBounded
  BY <1>1 DEF HandoffInv, FiledWell, FilingBounded
<1> QED
  BY <1>2, HandoffAlways, PTL

-----------------------------------------------------------------------------
(* The release gate.                                                        *)

Source     == [json : BOOLEAN, path : BOOLEAN, doc : ExceptionDoc]
Approval   == [gate : Gates, at : Nat, doc : ExceptionDoc]
Verdict    == {"none", "missing_evidence", "fresh_within_window", "stale_no_exception",
               "exception_load_error", "snooze_active", "exception_invalid_or_expired"}
GatingType == [of : Gates \cup {"none"}, at : {"none", "evidence", "evaluate", "route", "passed", "failed"},
               runs : Nat, state : [found : BOOLEAN, stale : BOOLEAN],
               reason : Verdict, doc : ExceptionDoc, admitted : Nat, closed : Nat]

GateTypeOK ==
    /\ clock \in Nat
    /\ approvals \subseteq Approval
    /\ exception \in [Gates -> Source]
    /\ route \in RouteDoc
    /\ gating \in GatingType
    /\ gating.at # "none" => gating.of \in Gates
    /\ gating.closed <= clock

\* A gate that found evidence follows a drill.
Evidenced ==
    /\ gating.state.found => drills # {}
    /\ gating.at \in {"evaluate", "route", "passed"} => gating.state.found

\* What was approved was for its gate and within the gate's hours.
ApprovedInTime ==
    \A a \in approvals :
        /\ a.at <= clock /\ a.doc.gate = a.gate
        /\ LET hours == EffectiveSnoozePolicy(SnoozePolicy, a.gate).hours
           IN  hours \in Int /\ (hours # 0 => a.doc.expires - a.at <= hours)

\* The document of a snooze is for its gate, and had not expired.
SnoozeValid ==
    gating.reason = "snooze_active" =>
        gating.doc.gate = gating.of /\ gating.doc.expires > gating.admitted

GateInv == GateTypeOK /\ Evidenced /\ ApprovedInTime /\ NoBlindRelease /\ SnoozeValid

LEMMA NoSourceTyped == NoSource \in Source /\ NoSource.doc \in ExceptionDoc
<1> DEFINE doc == CHOOSE e \in Exceptions : TRUE
<1>1. doc \in ExceptionDoc
  BY GateAssumption
<1> HIDE DEF doc
<1>2. NoSource = [json |-> FALSE, path |-> FALSE, doc |-> doc]
  BY DEF NoSource, doc
<1> QED
  BY <1>1, <1>2 DEF Source

LEMMA GateInitially == GateInit => GateInv
<1> SUFFICES ASSUME GateInit PROVE GateInv
  OBVIOUS
<1>2. /\ NoGate \in GatingType /\ NoGate.at = "none" /\ NoGate.closed = 0
      /\ ~NoGate.state.found /\ NoGate.reason = "none"
  BY NoSourceTyped DEF NoGate, GatingType, Verdict
<1>3. exception \in [Gates -> Source]
  BY NoSourceTyped DEF GateInit
<1>4. clock = 0 /\ approvals = {} /\ route \in RouteDoc /\ gating = NoGate
  BY GateAssumption DEF GateInit
<1>5. GateTypeOK
  BY <1>2, <1>3, <1>4 DEF GateTypeOK
<1>6. Evidenced /\ ApprovedInTime /\ NoBlindRelease /\ SnoozeValid
  BY <1>2, <1>4 DEF Evidenced, ApprovedInTime, NoBlindRelease, SnoozeValid
<1> QED
  BY <1>5, <1>6 DEF GateInv

\* The gate that runs is left alone: what happens outside takes nothing away.
LEMMA OutsideMoves ==
    ASSUME GateInv, UNCHANGED gating, clock' \in Nat, clock <= clock',
           drills \subseteq drills', approvals \subseteq approvals', approvals' \subseteq Approval,
           exception' \in [Gates -> Source], route' \in RouteDoc, ApprovedInTime',
           \A r \in RouteReview : /\ route'.age[r] = route.age[r]
                                  /\ \/ route'.reviewed[r] = route.reviewed[r]
                                     \/ route'.reviewed[r] = clock
    PROVE  GateInv'
<1>1. gating.closed \in Nat /\ gating.closed <= clock /\ clock \in Nat
  BY DEF GateInv, GateTypeOK, GatingType
<1>2. GateTypeOK'
  BY <1>1 DEF GateInv, GateTypeOK
<1>3. Evidenced'
  BY DEF GateInv, Evidenced
<1>4. NoBlindRelease'
  <2>1. gating.at \in {"route", "passed"} => drills' # {}
    BY DEF GateInv, NoBlindRelease
  <2>2. ASSUME gating.at = "passed", NEW r \in RouteReview
        PROVE  /\ route'.reviewed[r] >= 0
               /\ route'.age[r] > 0 => gating.closed - route'.reviewed[r] <= route'.age[r]
    <3>1. /\ route.reviewed[r] >= 0
          /\ route.age[r] > 0 => gating.closed - route.reviewed[r] <= route.age[r]
      BY <2>2 DEF GateInv, NoBlindRelease
    <3>2. route.age[r] \in Int
      BY DEF GateInv, GateTypeOK, RouteDoc
    <3> QED
      BY <1>1, <3>1, <3>2
  <2> QED
    BY <2>1, <2>2 DEF NoBlindRelease
<1>5. SnoozeValid'
  BY DEF GateInv, SnoozeValid
<1> QED
  BY <1>2, <1>3, <1>4, <1>5 DEF GateInv

\* An approval is made at the clock, by a proposal that is within the policy.
LEMMA ApproveMoves == GateInv /\ Approve => GateInv'
<1> SUFFICES ASSUME GateInv, Approve PROVE GateInv'
  OBVIOUS
<1>1. PICK doc \in Exceptions, g \in Gates :
         /\ SnoozePolicy.readable /\ doc.form = "object"
         /\ ExceptionValid(doc, g, clock)
         /\ WithinSnoozePolicy(doc, g, clock, SnoozePolicy)
         /\ approvals' = approvals \cup {[gate |-> g, at |-> clock, doc |-> doc]}
  BY DEF Approve
<1> DEFINE hours == EffectiveSnoozePolicy(SnoozePolicy, g).hours
           a == [gate |-> g, at |-> clock, doc |-> doc]
<1>3. doc \in ExceptionDoc /\ doc.gate = g
  BY <1>1, GateAssumption DEF ExceptionValid
<1>4. hours \in Int
  BY <1>1, GateAssumption
<1>5. hours # 0 => doc.expires - clock <= hours
  BY <1>1 DEF WithinSnoozePolicy
<1>6. approvals' = approvals \cup {a}
  BY <1>1
<1>7. clock \in Nat /\ a \in Approval /\ a.at = clock /\ a.gate = g /\ a.doc = doc
  BY <1>3 DEF GateInv, GateTypeOK, Approval
<1> HIDE DEF a
<1>8. UNCHANGED <<clock, drills, exception, route, gating>>
  BY DEF Approve
<1>9. ApprovedInTime'
  <2>1. ASSUME NEW b \in approvals'
        PROVE  /\ b.at <= clock /\ b.doc.gate = b.gate
               /\ LET most == EffectiveSnoozePolicy(SnoozePolicy, b.gate).hours
                  IN  most \in Int /\ (most # 0 => b.doc.expires - b.at <= most)
    <3>1. CASE b \in approvals
      BY <3>1 DEF GateInv, ApprovedInTime
    <3>2. CASE b = a
      BY <1>3, <1>4, <1>5, <1>7, <3>2
    <3> QED
      BY <1>6, <2>1, <3>1, <3>2
  <2> QED
    BY <1>8, <2>1 DEF ApprovedInTime
<1> QED
  BY <1>6, <1>7, <1>8, <1>9, OutsideMoves DEF GateInv, GateTypeOK

LEMMA ConfigureMoves == GateInv /\ Configure => GateInv'
<1> SUFFICES ASSUME GateInv, Configure PROVE GateInv'
  OBVIOUS
<1>1. UNCHANGED <<clock, drills, approvals, route, gating>>
  BY DEF Configure
<1>2. exception \in [Gates -> Source]
  BY DEF GateInv, GateTypeOK
<1>3. exception' \in [Gates -> Source]
  <2>1. ASSUME NEW g \in Gates, NEW doc \in Exceptions, NEW where \in {"json", "path"},
               exception' = [exception EXCEPT ![g] = [@ EXCEPT ![where] = TRUE, !.doc = doc]]
        PROVE  exception' \in [Gates -> Source]
    <3> DEFINE source == [exception[g] EXCEPT ![where] = TRUE, !.doc = doc]
    <3>1. source \in Source
      BY <1>2, GateAssumption DEF Source
    <3>2. exception' = [exception EXCEPT ![g] = source]
      BY <1>2, <2>1
    <3> HIDE DEF source
    <3> QED
      BY <1>2, <3>1, <3>2
  <2>2. ASSUME NEW g \in Gates, exception' = [exception EXCEPT ![g] = NoSource]
        PROVE  exception' \in [Gates -> Source]
    BY <1>2, <2>2, NoSourceTyped
  <2> QED
    BY <2>1, <2>2 DEF Configure
<1>4. ApprovedInTime'
  BY <1>1 DEF GateInv, ApprovedInTime
<1> QED
  BY <1>1, <1>3, <1>4, OutsideMoves DEF GateInv, GateTypeOK

LEMMA ReviewMoves == GateInv /\ ReviewRoute => GateInv'
<1> SUFFICES ASSUME GateInv, ReviewRoute PROVE GateInv'
  OBVIOUS
<1>1. UNCHANGED <<clock, drills, approvals, exception, gating>>
  BY DEF ReviewRoute
<1>2. PICK r \in RouteReview : route' = [route EXCEPT !.reviewed[r] = clock]
  BY DEF ReviewRoute
<1>3. route \in RouteDoc /\ clock \in Nat
  BY DEF GateInv, GateTypeOK
<1> DEFINE reviewed == [route.reviewed EXCEPT ![r] = clock]
<1>4. /\ reviewed \in [RouteReview -> Int]
      /\ \A q \in RouteReview : reviewed[q] = IF q = r THEN clock ELSE route.reviewed[q]
  BY <1>3 DEF RouteDoc
<1>5. route' = [route EXCEPT !.reviewed = reviewed]
  BY <1>2
<1> HIDE DEF reviewed
<1>6. route' \in RouteDoc /\ route'.reviewed = reviewed /\ route'.age = route.age
  BY <1>3, <1>4, <1>5 DEF RouteDoc
<1>7. ApprovedInTime'
  BY <1>1 DEF GateInv, ApprovedInTime
<1> QED
  BY <1>1, <1>3, <1>4, <1>6, <1>7, OutsideMoves DEF GateInv, GateTypeOK

\* A gate's step leaves what is outside alone.
LEMMA GatingMoves ==
    ASSUME GateInv, NEW row \in GatingType, gating' = row,
           UNCHANGED <<clock, drills, approvals, exception, route>>,
           row.at # "none", row.of \in Gates, row.closed <= clock,
           row.state.found => drills # {},
           row.at \in {"evaluate", "route", "passed"} => row.state.found,
           NoBlindRelease', SnoozeValid'
    PROVE  GateInv'
<1>1. GateTypeOK' /\ Evidenced'
  BY DEF GateInv, GateTypeOK, Evidenced
<1>2. ApprovedInTime'
  BY DEF GateInv, ApprovedInTime
<1> QED
  BY <1>1, <1>2 DEF GateInv

LEMMA GateStep == GateInv /\ [GateNext]_gateVars => GateInv'
<1> SUFFICES ASSUME GateInv, [GateNext]_gateVars
             PROVE  GateInv'
  OBVIOUS
<1>0. /\ clock \in Nat /\ gating \in GatingType /\ gating.closed <= clock
      /\ exception \in [Gates -> Source] /\ route \in RouteDoc
      /\ gating.at # "none" => gating.of \in Gates
  BY DEF GateInv, GateTypeOK
<1>1. CASE Tick
  <2>1. UNCHANGED <<drills, approvals, exception, route, gating>> /\ clock' = clock + 1
    BY <1>1 DEF Tick
  <2>2. clock' \in Nat /\ clock <= clock'
    BY <1>0, <2>1
  <2>3. ApprovedInTime'
    <3>1. \A a \in approvals : a.at \in Nat
      BY DEF GateInv, GateTypeOK, Approval
    <3> QED
      BY <1>0, <2>1, <2>2, <3>1 DEF GateInv, ApprovedInTime
  <2> QED
    BY <2>1, <2>2, <2>3, OutsideMoves DEF GateInv, GateTypeOK
<1>2. CASE LiveDrill
  <2>1. ApprovedInTime'
    BY <1>2 DEF LiveDrill, GateInv, ApprovedInTime
  <2> QED
    BY <1>0, <1>2, <2>1, OutsideMoves DEF LiveDrill, GateInv, GateTypeOK
<1>3. CASE StartGate
  <2>1. PICK g \in Gates :
           gating' = [NoGate EXCEPT !.of = g, !.at = "evidence", !.runs = gating.runs + 1]
    BY <1>3 DEF StartGate
  <2> DEFINE runs == gating.runs + 1
             row  == [NoGate EXCEPT !.of = g, !.at = "evidence", !.runs = runs]
  <2>2. runs \in Nat /\ gating' = row
    BY <1>0, <2>1 DEF GatingType
  <2> HIDE DEF runs
  <2>3. /\ row \in GatingType /\ row.of = g /\ row.at = "evidence" /\ row.closed = 0
        /\ ~row.state.found /\ row.reason = "none"
    BY <2>2, NoSourceTyped DEF NoGate, GatingType, Verdict
  <2> HIDE DEF row
  <2>4. NoBlindRelease' /\ SnoozeValid'
    BY <2>2, <2>3 DEF NoBlindRelease, SnoozeValid
  <2>5. UNCHANGED <<clock, drills, approvals, exception, route>>
    BY <1>3 DEF StartGate
  <2> QED
    BY <1>0, <2>2, <2>3, <2>4, <2>5, GatingMoves
<1>4. CASE FindEvidence
  <2>1. PICK seen \in SUBSET drills :
           LET state == EvidenceState(seen, gating.of, clock)
           IN  gating' = [gating EXCEPT !.state = state,
                                        !.at = IF state.found THEN "evaluate" ELSE "failed"]
    BY <1>4 DEF FindEvidence
  <2> DEFINE found == seen # {}
             stale == \A d \in seen : clock - d > DrillAge[gating.of]
             state == [found |-> found, stale |-> stale]
             at    == IF found THEN "evaluate" ELSE "failed"
             row   == [gating EXCEPT !.state = state, !.at = at]
  <2>2. gating' = row /\ gating.at = "evidence"
    BY <1>4, <2>1 DEF FindEvidence, EvidenceState
  <2>3. found \in BOOLEAN /\ stale \in BOOLEAN /\ at \in {"evaluate", "failed"}
    OBVIOUS
  <2>4. (found => drills # {}) /\ (at = "evaluate" => found)
    OBVIOUS
  <2> HIDE DEF found, stale, at
  <2>5. /\ row \in GatingType /\ row.of = gating.of /\ row.at = at /\ row.closed = gating.closed
        /\ row.state.found = found /\ row.reason = gating.reason /\ row.admitted = gating.admitted
        /\ row.doc = gating.doc
    BY <1>0, <2>3 DEF GatingType
  <2> HIDE DEF row
  <2>6. UNCHANGED <<clock, drills, approvals, exception, route>>
    BY <1>4 DEF FindEvidence
  <2>7. NoBlindRelease' /\ SnoozeValid'
    BY <2>2, <2>3, <2>5, <2>6 DEF GateInv, NoBlindRelease, SnoozeValid
  <2> QED
    BY <1>0, <2>2, <2>3, <2>4, <2>5, <2>6, <2>7, GatingMoves
<1>5. CASE EvaluateEvidence
  <2> DEFINE source  == exception[gating.of]
             verdict == EvidenceVerdict(gating.state, gating.of, source, clock)
             at      == IF verdict[1] = "allow" THEN "route" ELSE "failed"
             reason  == verdict[2]
             doc     == IF reason = "snooze_active" THEN source.doc ELSE NoSource.doc
             row     == [gating EXCEPT !.at = at, !.reason = reason, !.admitted = clock, !.doc = doc]
  <2>1. gating' = row /\ gating.at = "evaluate" /\ UNCHANGED <<clock, drills, approvals, exception, route>>
    BY <1>5 DEF EvaluateEvidence
  <2>2. gating.state.found /\ gating.state.stale \in BOOLEAN /\ gating.of \in Gates /\ drills # {}
    BY <1>0, <2>1 DEF GateInv, Evidenced, GatingType
  <2>3. reason \in Verdict /\ at \in {"route", "failed"}
    BY <2>2 DEF EvidenceVerdict, Verdict
  <2>4. reason = "snooze_active" =>
           (source.json \/ source.path) /\ ExceptionValid(source.doc, gating.of, clock)
    BY <2>2 DEF EvidenceVerdict
  <2>5. doc \in ExceptionDoc /\ (reason = "snooze_active" => doc = source.doc)
    BY <1>0, <2>2, NoSourceTyped DEF Source
  <2> HIDE DEF reason, at, doc
  <2>6. /\ row \in GatingType /\ row.of = gating.of /\ row.at = at /\ row.closed = gating.closed
        /\ row.state = gating.state /\ row.reason = reason /\ row.admitted = clock /\ row.doc = doc
    BY <1>0, <2>3, <2>5 DEF GatingType
  <2> HIDE DEF row
  <2>7. NoBlindRelease'
    BY <2>1, <2>2, <2>3, <2>6 DEF NoBlindRelease
  <2>8. SnoozeValid'
    BY <2>1, <2>4, <2>5, <2>6 DEF SnoozeValid, ExceptionValid
  <2> QED
    BY <1>0, <2>1, <2>2, <2>3, <2>6, <2>7, <2>8, GatingMoves
<1>6. CASE VerifyRoute
  <2> DEFINE at  == IF route.configured /\ ~RouteErrors(route, clock) THEN "passed" ELSE "failed"
             row == [gating EXCEPT !.at = at, !.closed = clock]
  <2>1. gating' = row /\ gating.at = "route" /\ UNCHANGED <<clock, drills, approvals, exception, route>>
    BY <1>6 DEF VerifyRoute
  <2>2. at \in {"passed", "failed"}
    OBVIOUS
  <2>3. ASSUME at = "passed", NEW r \in RouteReview
        PROVE  /\ route.reviewed[r] >= 0
               /\ route.age[r] > 0 => clock - route.reviewed[r] <= route.age[r]
    <3>1. ~ReviewErrors(route, r, clock)
      BY <2>3 DEF RouteErrors
    <3>2. route.reviewed[r] \in Int /\ route.age[r] \in Int
      BY <1>0 DEF RouteDoc
    <3> QED
      BY <1>0, <3>1, <3>2 DEF ReviewErrors
  <2> HIDE DEF at
  <2>4. /\ row \in GatingType /\ row.of = gating.of /\ row.at = at /\ row.closed = clock
        /\ row.state = gating.state /\ row.reason = gating.reason /\ row.admitted = gating.admitted
        /\ row.doc = gating.doc
    BY <1>0, <2>2 DEF GatingType
  <2>5. gating.state.found /\ drills # {}
    BY <2>1 DEF GateInv, Evidenced
  <2> HIDE DEF row
  <2>6. NoBlindRelease' /\ SnoozeValid'
    BY <2>1, <2>2, <2>3, <2>4, <2>5 DEF GateInv, NoBlindRelease, SnoozeValid
  <2> QED
    BY <1>0, <2>1, <2>2, <2>4, <2>5, <2>6, GatingMoves
<1>7. CASE UNCHANGED gateVars
  BY <1>7 DEF gateVars, GateInv, GateTypeOK, Evidenced, ApprovedInTime, NoBlindRelease,
              SnoozeValid
<1> QED
  BY <1>1, <1>2, <1>3, <1>4, <1>5, <1>6, <1>7, ApproveMoves, ConfigureMoves, ReviewMoves DEF GateNext

LEMMA GateAlways == GateSpec => []GateInv
BY GateInitially, GateStep, PTL DEF GateSpec

\* No exception stands in for a drill that was never run or for a review: a gate
\* that passed follows a live drill, with every review within its own days.
THEOREM NoReleaseIsBlind == GateSpec => []NoBlindRelease
<1>1. GateInv => NoBlindRelease
  BY DEF GateInv
<1> QED
  BY <1>1, GateAlways, PTL

\* Wherever operators put a document that was approved, it admits a release only
\* at the gate it was approved for, within that gate's hours from the approval.
THEOREM ApprovalsBuyTheirHours == GateSpec => []ApprovalNotStretched
<1>1. ASSUME GateInv, gating.reason = "snooze_active", NEW a \in approvals, a.doc = gating.doc
      PROVE  /\ a.gate = gating.of
             /\ LET hours == EffectiveSnoozePolicy(SnoozePolicy, a.gate).hours
                IN  hours # 0 => gating.admitted < a.at + hours
  <2> DEFINE hours == EffectiveSnoozePolicy(SnoozePolicy, a.gate).hours
  <2>1. gating.doc.gate = gating.of /\ gating.doc.expires > gating.admitted
    BY <1>1 DEF GateInv, SnoozeValid
  <2>2. a.doc.gate = a.gate /\ hours \in Int /\ (hours # 0 => a.doc.expires - a.at <= hours)
    BY <1>1 DEF GateInv, ApprovedInTime
  <2>3. a.doc.expires \in Int /\ a.at \in Nat /\ gating.admitted \in Nat
    BY <1>1 DEF GateInv, GateTypeOK, Approval, ExceptionDoc, GatingType
  <2> HIDE DEF hours
  <2>4. hours # 0 => gating.admitted < a.at + hours
    BY <1>1, <2>1, <2>2, <2>3
  <2> QED
    BY <1>1, <2>1, <2>2, <2>4 DEF hours
<1>2. GateInv => ApprovalNotStretched
  BY <1>1 DEF ApprovalNotStretched
<1> QED
  BY <1>2, GateAlways, PTL

-----------------------------------------------------------------------------
(* The governance of the policy.                                            *)

Status     == {"future", "stale", "reminder", "ok"}
ReportType == [day : Nat, rows : [Baseline -> [approved : Nat, status : Status]]]
CheckType  == [drift : SUBSET Baseline, compliant : BOOLEAN, used : Int,
               proof : SUBSET {RoutingProof(r) : r \in RoutingSetup}]
Channel    == {NoVar} \cup {EscalationFile(r, s) : r \in RoutingSetup, s \in PromotionStage}
                      \cup {WebhookUrl(r, s) : r \in RoutingSetup, s \in PromotionStage}
PromotionType ==
    [stage : PromotionStage, at : {"none", "route", "blocked", "promoted"},
     breach : {"none", "recorded"}, sent : Channel,
     outcome : {"none", "no_record", "noop", "skip", "sent", "error", "dry_run"},
     routing : SUBSET RoutingSetup, runs : Nat]

AttestationTypeOK ==
    /\ day \in Nat /\ policy \in Nat
    /\ baselines \in [Baseline -> [approved : Nat, pins : Nat]]
    /\ reports \subseteq ReportType
    /\ checks \in CheckType
    /\ promotion \in PromotionType

\* No day that was due has passed without its report.
Scheduled ==
    \A k \in 0..(day - 1) : k % Cadence = 0 => \E r \in reports : r.day = k

\* A report tells the approvals of its day; what it tells of an environment is
\* still so unless the environment has been approved since.
ReportsTrue ==
    /\ \A e \in Baseline : baselines[e].approved <= day
    /\ \A r \in reports : r.day <= day
    /\ \A r \in reports, e \in Baseline :
          /\ r.rows[e].status = AgeStatus(r.day - r.rows[e].approved)
          /\ r.rows[e].approved <= baselines[e].approved
          /\ baselines[e].approved < r.day => r.rows[e].approved = baselines[e].approved

\* What an escalation came to, by the routing of its job.
Reached(row) ==
    row.at = "blocked" =>
        \A r \in row.routing :
            /\ row.sent \in {NoVar, EscalationFile(r, row.stage), WebhookUrl(r, row.stage)}
            /\ EffectiveSink(r) = "webhook" /\ row.outcome = "skip" => WebhookUrl(r, row.stage) = NoVar

\* The aggregation goes by no report of the future.
UsedPast == checks.used <= day

AttestationInv ==
    AttestationTypeOK /\ Scheduled /\ ReportsTrue /\ UsedPast /\ Reached(promotion)
        /\ StaleForewarned /\ SlaLagBounded

\* The last multiple of a cadence up to a day.
LEMMA LastDue ==
    ASSUME NEW c \in Nat \ {0}, NEW x \in Nat
    PROVE  \E k \in 0..x : k % c = 0 /\ x - k < c
<1> DEFINE q == x \div c
           k == c * q
<1>1. q \in Nat /\ x = k + (x % c) /\ x % c \in 0..(c - 1)
  OBVIOUS
<1>2. k \in Nat
  BY <1>1
<1>3. k % c = 0
  BY <1>1
<1> HIDE DEF k
<1> QED
  BY <1>1, <1>2, <1>3

LEMMA AgeStatusTyped ==
    ASSUME NEW age \in Int
    PROVE  /\ AgeStatus(age) \in Status
           /\ AgeStatus(age) = "stale" <=> age > MaxAge
           /\ AgeStatus(age) \in {"ok", "reminder"} <=> age \in 0..MaxAge
           /\ age \in (MaxAge - Window)..MaxAge => AgeStatus(age) = "reminder"
BY AttestationAssumption DEF AgeStatus, Status

\* WebhookUrl, as an operator of what it looks up.
UrlIn(vars, urls) ==
    LET set == {i \in DOMAIN vars : vars[i] \in urls}
    IN  IF set = {} THEN NoVar ELSE vars[CHOOSE i \in set : \A j \in set : i <= j]

\* The names a stage's URL is looked up under are its own or everyone's.
LEMMA UrlVarsOwn ==
    ASSUME NEW r, NEW s \in PromotionStage
    PROVE  /\ DOMAIN UrlVars(r, s) = 1..4
           /\ \A i \in 1..4 : UrlVars(r, s)[i] \in OwnNames(r, s)
           /\ WebhookUrl(r, s) = UrlIn(UrlVars(r, s), r.urls)
<1> DEFINE vars == UrlVars(r, s)
<1>1. MapWebhookVar(r, s) \in {r.byGithub[s], r.byPromotion[s], r.routes[s]}
  BY DEF MapWebhookVar, FirstOf
<1>2. /\ DOMAIN vars = 1..4 /\ vars[1] = MapWebhookVar(r, s) /\ vars[2] = "DIRECT"
      /\ vars[3] = s /\ vars[4] = GithubVar[s]
  BY DEF UrlVars
<1> HIDE DEF vars
<1>3. \A i \in 1..4 : vars[i] \in OwnNames(r, s)
  <2>1. \A i \in 1..4 : i = 1 \/ i = 2 \/ i = 3 \/ i = 4
    OBVIOUS
  <2> QED
    BY <1>1, <1>2, <2>1 DEF OwnNames
<1>4. WebhookUrl(r, s) = UrlIn(UrlVars(r, s), r.urls)
  BY DEF WebhookUrl, UrlIn
<1> QED
  BY <1>2, <1>3, <1>4 DEF vars

\* A stage's channel is its own or everyone's.
LEMMA UrlFound ==
    ASSUME NEW r, NEW s \in PromotionStage
    PROVE  /\ WebhookUrl(r, s) \in OwnNames(r, s) \cup {NoVar}
           /\ EscalationFile(r, s) \in OwnNames(r, s) \cup {NoVar}
<1> DEFINE vars  == UrlVars(r, s)
           set   == {i \in DOMAIN vars : vars[i] \in r.urls}
           first == CHOOSE i \in set : \A j \in set : i <= j
<1>1. /\ DOMAIN vars = 1..4 /\ \A i \in 1..4 : vars[i] \in OwnNames(r, s)
      /\ WebhookUrl(r, s) = UrlIn(vars, r.urls)
  BY UrlVarsOwn
<1>2. UrlIn(vars, r.urls) = IF set = {} THEN NoVar ELSE vars[first]
  BY DEF UrlIn
<1> HIDE DEF vars
<1>3. set \subseteq 1..4
  BY <1>1
<1>4. ASSUME set # {}
      PROVE  first \in set
  <2> HIDE DEF set
  <2>1. CASE 1 \in set
    <3>1. \A j \in set : 1 <= j
      BY <1>3
    <3> QED
      BY <2>1, <3>1
  <2>2. CASE 1 \notin set /\ 2 \in set
    <3>1. \A j \in set : 2 <= j
      BY <1>3, <2>2
    <3> QED
      BY <2>2, <3>1
  <2>3. CASE 1 \notin set /\ 2 \notin set /\ 3 \in set
    <3>1. \A j \in set : 3 <= j
      BY <1>3, <2>3
    <3> QED
      BY <2>3, <3>1
  <2>4. CASE 1 \notin set /\ 2 \notin set /\ 3 \notin set
    <3>1. \A j \in set : j = 4
      BY <1>3, <2>4
    <3>2. 4 \in set /\ \A j \in set : 4 <= j
      BY <1>4, <3>1
    <3> QED
      BY <3>2
  <2> QED
    BY <2>1, <2>2, <2>3, <2>4
<1>5. WebhookUrl(r, s) \in OwnNames(r, s) \cup {NoVar}
  <2>1. CASE set = {}
    BY <1>1, <1>2, <2>1
  <2>2. CASE set # {}
    <3>1. first \in 1..4
      BY <1>3, <1>4, <2>2
    <3> HIDE DEF set, first
    <3>2. WebhookUrl(r, s) = vars[first]
      BY <1>1, <1>2, <2>2
    <3> QED
      BY <1>1, <3>1, <3>2
  <2> QED
    BY <2>1, <2>2
<1>6. EscalationFile(r, s) \in {NoVar, "FILE", r.fileOf[s]}
  BY DEF EscalationFile, FirstOf
<1> QED
  BY <1>5, <1>6 DEF OwnNames

\* What a stage's webhook comes to depends on the stage's view alone.
LEMMA ViewDecides ==
    ASSUME NEW p, NEW q, NEW s \in PromotionStage, OwnView(p, s) = OwnView(q, s)
    PROVE  WebhookUrl(p, s) = WebhookUrl(q, s)
<1> DEFINE vars == UrlVars(p, s)
<1>1. /\ p.byGithub[s] = q.byGithub[s] /\ p.byPromotion[s] = q.byPromotion[s]
      /\ p.routes[s] = q.routes[s]
      /\ p.urls \cap OwnNames(p, s) = q.urls \cap OwnNames(q, s)
  BY DEF OwnView
<1>2. UrlVars(q, s) = vars
  BY <1>1 DEF UrlVars, MapWebhookVar, FirstOf
<1>3. DOMAIN vars = 1..4 /\ \A i \in 1..4 : vars[i] \in OwnNames(p, s) /\ vars[i] \in OwnNames(q, s)
  BY <1>2, UrlVarsOwn
<1> HIDE DEF vars
<1> DEFINE inP == {i \in DOMAIN vars : vars[i] \in p.urls}
           inQ == {i \in DOMAIN vars : vars[i] \in q.urls}
<1>4. inP = inQ
  BY <1>1, <1>3
<1>5. UrlIn(vars, p.urls) = UrlIn(vars, q.urls)
  <2>1. UrlIn(vars, p.urls) = IF inP = {} THEN NoVar ELSE vars[CHOOSE i \in inP : \A j \in inP : i <= j]
    BY DEF UrlIn
  <2>2. UrlIn(vars, q.urls) = IF inQ = {} THEN NoVar ELSE vars[CHOOSE i \in inQ : \A j \in inQ : i <= j]
    BY DEF UrlIn
  <2> HIDE DEF inP, inQ
  <2> QED
    BY <1>4, <2>1, <2>2
<1> QED
  BY <1>2, <1>5, UrlVarsOwn DEF vars

LEMMA AttestationInitially == AttestationInit => AttestationInv
<1> SUFFICES ASSUME AttestationInit PROVE AttestationInv
  OBVIOUS
<1>1. /\ day = 0 /\ policy = 0 /\ reports = {}
      /\ baselines \in [Baseline -> [approved : Nat, pins : Nat]]
      /\ \A e \in Baseline : baselines[e].approved = 0
  BY DEF AttestationInit
<1>2. checks \in CheckType /\ ~checks.compliant /\ checks.used = -1
  BY DEF AttestationInit, NoChecks, NoDay, CheckType
<1>3. promotion \in PromotionType /\ promotion.at = "none"
  BY DEF AttestationInit, NoPromotion, PromotionType, PromotionStage, Channel
<1>4. AttestationTypeOK
  BY <1>1, <1>2, <1>3 DEF AttestationTypeOK
<1>5. Scheduled /\ ReportsTrue /\ StaleForewarned
  BY <1>1 DEF Scheduled, ReportsTrue, StaleForewarned
<1>6. UsedPast /\ Reached(promotion) /\ SlaLagBounded
  BY <1>1, <1>2, <1>3 DEF UsedPast, Reached, SlaLagBounded
<1> QED
  BY <1>4, <1>5, <1>6 DEF AttestationInv

\* The calendar is left alone.
LEMMA CalendarStays ==
    ASSUME AttestationInv, UNCHANGED <<day, baselines, reports>>
    PROVE  Scheduled' /\ ReportsTrue' /\ StaleForewarned'
BY DEF AttestationInv, Scheduled, ReportsTrue, StaleForewarned

\* There is a latest day.
LEMMA LatestOfDays ==
    ASSUME NEW n \in Nat, NEW days \in SUBSET (0..n), days # {}
    PROVE  \E d \in days : \A x \in days : d >= x
<1> DEFINE gaps == {g \in 0..n : n - g \in days}
           R    == {ss \in Nat \X Nat : ss[1] < ss[2]}
<1>1. gaps \subseteq Nat /\ gaps # {}
  <2>1. PICK d \in days : d \in 0..n
    OBVIOUS
  <2>2. n - d \in 0..n /\ n - (n - d) = d
    BY <2>1
  <2>3. n - d \in gaps
    BY <2>1, <2>2
  <2>4. gaps # {}
    BY <2>3
  <2>5. gaps \subseteq Nat
    OBVIOUS
  <2> QED
    BY <2>4, <2>5
<1> HIDE DEF gaps
<1>2. PICK g \in gaps : \A h \in gaps : g <= h
  <2>1. IsWellFoundedOn(R, Nat)
    BY NatLessThanWellFounded DEF OpToRel
  <2>2. PICK g \in gaps : \A h \in gaps : ~(<<h, g>> \in R)
    <3> HIDE DEF R
    <3> QED
      BY <1>1, <2>1, WFMin
  <2>3. ASSUME NEW h \in gaps
        PROVE  g <= h
    <3>1. h \in Nat /\ g \in Nat
      BY <1>1
    <3>2. ~(h < g)
      BY <2>2, <3>1
    <3> QED
      BY <3>1, <3>2
  <2> QED
    BY <2>3
<1>3. n - g \in days /\ g \in 0..n
  BY <1>2 DEF gaps
<1>4. ASSUME NEW x \in days
      PROVE  n - g >= x
  <2>1. n - x \in 0..n /\ n - (n - x) = x
    OBVIOUS
  <2>2. n - x \in gaps
    BY <2>1 DEF gaps
  <2> QED
    BY <1>2, <1>3, <2>1, <2>2
<1> QED
  BY <1>3, <1>4

\* The aggregation goes by the latest report it has: what that tells of the
\* approvals still bounds them.
LEMMA LatestBounds ==
    ASSUME AttestationTypeOK, ReportsTrue,
           NEW found \in SUBSET reports, found # {},
           NEW used \in Int, used \in {r.day : r \in found}, \A r \in found : used >= r.day,
           Breaches(LatestReport(found)) = {},
           NEW e \in Baseline
    PROVE  day - baselines[e].approved <= MaxAge + (day - used)
<1> DEFINE last == LatestReport(found)
<1>1. \A r \in reports : r \in ReportType /\ r.day \in Nat
  BY DEF AttestationTypeOK, ReportType
<1>2. PICK newest \in found : newest.day = used
  OBVIOUS
<1>3. last \in found /\ \A s \in found : last.day >= s.day
  <2>1. \E r \in found : \A s \in found : r.day >= s.day
    BY <1>2
  <2> QED
    BY <2>1 DEF LatestReport
<1> HIDE DEF last
<1>4. last \in reports /\ last.day \in Nat /\ last.day = used
  BY <1>1, <1>2, <1>3
<1>5. day \in Nat /\ MaxAge \in Nat
  BY AttestationAssumption DEF AttestationTypeOK
<1> DEFINE approved == last.rows[e].approved
<1>7. approved \in Nat /\ baselines[e].approved \in Nat
  BY <1>1, <1>4 DEF AttestationTypeOK, ReportType
<1>8. /\ last.rows[e].status = AgeStatus(last.day - approved)
      /\ approved <= baselines[e].approved
  BY <1>4 DEF ReportsTrue
<1>9. last.rows[e].status \in {"ok", "reminder"}
  BY DEF Breaches, last
<1> HIDE DEF approved
<1>10. last.day - approved \in 0..MaxAge
  BY <1>4, <1>7, <1>8, <1>9, AgeStatusTyped
<1> QED
  BY <1>4, <1>5, <1>7, <1>8, <1>10

\* A report that finds an approval stale comes after one that found it due.
LEMMA NewReportForewarned ==
    ASSUME AttestationTypeOK, Scheduled, ReportsTrue,
           NEW e \in Baseline, day - baselines[e].approved > MaxAge
    PROVE  \E s \in reports : /\ s.day < day
                              /\ s.rows[e].approved = baselines[e].approved
                              /\ s.rows[e].status = "reminder"
<1> DEFINE approved == baselines[e].approved
           due      == approved + MaxAge
<1>1. approved \in Nat /\ day \in Nat
  BY DEF AttestationTypeOK
<1>2. /\ MaxAge \in Nat /\ Window \in Nat /\ Cadence \in Nat \ {0}
      /\ Cadence <= Window + 1 /\ Window < MaxAge
  BY AttestationAssumption
<1>3. due \in Nat /\ due < day
  BY <1>1, <1>2
<1>4. PICK k \in 0..due : k % Cadence = 0 /\ due - k < Cadence
  BY <1>2, <1>3, LastDue
<1>5. PICK s \in reports : s.day = k
  BY <1>1, <1>3, <1>4 DEF Scheduled
<1>6. k - approved \in (MaxAge - Window)..MaxAge /\ approved < k /\ k < day
  BY <1>1, <1>2, <1>3, <1>4
<1>7. /\ s.rows[e].approved = approved
      /\ s.rows[e].status = AgeStatus(k - approved)
  BY <1>5, <1>6 DEF ReportsTrue
<1>8. AgeStatus(k - approved) = "reminder"
  BY <1>1, <1>4, <1>6, AgeStatusTyped
<1> QED
  BY <1>5, <1>6, <1>7, <1>8

LEMMA NextDayMoves == AttestationInv /\ NextDay => AttestationInv'
<1> SUFFICES ASSUME AttestationInv, NextDay PROVE AttestationInv'
  OBVIOUS
<1>0. /\ day \in Nat /\ day' = day + 1 /\ ~ReportDue
      /\ checks' = [NoChecks EXCEPT !.proof = checks.proof]
      /\ UNCHANGED <<policy, baselines, reports, promotion>>
  BY DEF NextDay, AttestationInv, AttestationTypeOK
<1>1. checks' \in CheckType /\ ~checks'.compliant /\ checks'.used = -1
  <2> DEFINE proof == checks.proof
  <2>1. proof \in SUBSET {RoutingProof(r) : r \in RoutingSetup}
    BY DEF AttestationInv, AttestationTypeOK, CheckType
  <2> HIDE DEF proof
  <2>2. checks' = [NoChecks EXCEPT !.proof = proof]
    BY <1>0 DEF proof
  <2>3. checks' = [drift |-> {}, compliant |-> FALSE, used |-> -1, proof |-> proof]
    BY <2>2 DEF NoChecks, NoDay
  <2>4. {} \in SUBSET Baseline /\ FALSE \in BOOLEAN /\ -1 \in Int
    OBVIOUS
  <2>5. checks' \in CheckType
    BY <2>1, <2>3, <2>4 DEF CheckType
  <2> QED
    BY <2>3, <2>5
<1>2. Scheduled'
  <2> SUFFICES ASSUME NEW k \in 0..day, k % Cadence = 0
               PROVE  \E r \in reports : r.day = k
    BY <1>0 DEF Scheduled
  <2>1. CASE k = day
    BY <1>0, <2>1 DEF ReportDue
  <2>2. CASE k # day
    <3>1. k \in 0..(day - 1)
      BY <1>0, <2>2
    <3> QED
      BY <3>1 DEF AttestationInv, Scheduled
  <2> QED
    BY <2>1, <2>2
<1>3. ReportsTrue'
  <2>1. /\ \A r \in reports : r.day \in Nat
        /\ \A e \in Baseline : baselines[e].approved \in Nat
    BY DEF AttestationInv, AttestationTypeOK, ReportType
  <2>2. \A e \in Baseline : baselines[e].approved <= day'
    BY <1>0, <2>1 DEF AttestationInv, ReportsTrue
  <2>3. \A r \in reports : r.day <= day'
    BY <1>0, <2>1 DEF AttestationInv, ReportsTrue
  <2> QED
    BY <1>0, <2>2, <2>3 DEF AttestationInv, ReportsTrue
<1>4. StaleForewarned' /\ SlaLagBounded' /\ UsedPast' /\ Reached(promotion)'
  BY <1>0, <1>1 DEF AttestationInv, StaleForewarned, SlaLagBounded, UsedPast, Reached
<1>5. AttestationTypeOK'
  BY <1>0, <1>1 DEF AttestationInv, AttestationTypeOK
<1> QED
  BY <1>0, <1>2, <1>3, <1>4, <1>5 DEF AttestationInv

LEMMA AgingReportMoves == AttestationInv /\ AgingReport => AttestationInv'
<1> SUFFICES ASSUME AttestationInv, AgingReport PROVE AttestationInv'
  OBVIOUS
<1> DEFINE new == ReportNow
<1>0. /\ reports' = reports \cup {new}
      /\ UNCHANGED <<day, policy, baselines, checks, promotion>>
  BY DEF AgingReport
<1>1. /\ day \in Nat /\ reports \subseteq ReportType
      /\ \A e \in Baseline : baselines[e].approved \in Nat /\ day - baselines[e].approved \in Int
  BY DEF AttestationInv, AttestationTypeOK
<1>2. /\ new \in ReportType /\ new.day = day
      /\ \A e \in Baseline : /\ new.rows[e].approved = baselines[e].approved
                             /\ new.rows[e].status = AgeStatus(day - baselines[e].approved)
  <2> DEFINE Row(e) == [approved |-> baselines[e].approved,
                        status   |-> AgeStatus(day - baselines[e].approved)]
  <2>1. \A e \in Baseline : Row(e) \in [approved : Nat, status : Status]
    BY <1>1, AgeStatusTyped
  <2>2. new = [day |-> day, rows |-> [e \in Baseline |-> Row(e)]]
    BY DEF ReportNow
  <2>3. \A e \in Baseline : /\ Row(e).approved = baselines[e].approved
                            /\ Row(e).status = AgeStatus(day - baselines[e].approved)
    OBVIOUS
  <2> HIDE DEF Row, new
  <2> QED
    BY <1>1, <2>1, <2>2, <2>3 DEF ReportType
<1> HIDE DEF new
<1>3. Scheduled'
  BY <1>0 DEF AttestationInv, Scheduled
<1>4. ReportsTrue'
  <2>1. ASSUME NEW r \in reports', NEW e \in Baseline
        PROVE  /\ r.rows[e].status = AgeStatus(r.day - r.rows[e].approved)
               /\ r.rows[e].approved <= baselines[e].approved
               /\ baselines[e].approved < r.day => r.rows[e].approved = baselines[e].approved
    <3>1. CASE r \in reports
      BY <3>1 DEF AttestationInv, ReportsTrue
    <3>2. CASE r = new
      BY <1>1, <1>2, <3>2
    <3> QED
      BY <1>0, <3>1, <3>2
  <2>2. \A r \in reports' : r.day <= day
    BY <1>0, <1>1, <1>2 DEF AttestationInv, ReportsTrue
  <2> QED
    BY <1>0, <2>1, <2>2 DEF AttestationInv, ReportsTrue, AgeStatus
<1>5. StaleForewarned'
  <2> SUFFICES ASSUME NEW r \in reports', NEW e \in Baseline, r.rows[e].status = "stale"
               PROVE  \E s \in reports' : /\ s.day < r.day
                                          /\ s.rows[e].approved = r.rows[e].approved
                                          /\ s.rows[e].status = "reminder"
    BY <1>0 DEF StaleForewarned
  <2>1. CASE r \in reports
    BY <1>0, <2>1 DEF AttestationInv, StaleForewarned
  <2>2. CASE r = new
    <3>1. day - baselines[e].approved > MaxAge
      BY <1>1, <1>2, <2>2, AgeStatusTyped
    <3> QED
      BY <1>0, <1>2, <2>2, <3>1, NewReportForewarned DEF AttestationInv
  <2> QED
    BY <1>0, <2>1, <2>2
<1>6. SlaLagBounded' /\ UsedPast' /\ Reached(promotion)'
  BY <1>0 DEF AttestationInv, SlaLagBounded, UsedPast, Reached
<1>7. AttestationTypeOK'
  BY <1>0, <1>1, <1>2 DEF AttestationInv, AttestationTypeOK
<1> QED
  BY <1>0, <1>3, <1>4, <1>5, <1>6, <1>7 DEF AttestationInv

LEMMA ApproveBaselineMoves ==
    ASSUME AttestationInv, NEW e \in Baseline, ApproveBaseline(e)
    PROVE  AttestationInv'
<1> DEFINE row == [approved |-> day, pins |-> policy]
<1>0. /\ baselines' = [baselines EXCEPT ![e] = row]
      /\ UNCHANGED <<day, policy, reports, checks, promotion>>
  BY DEF ApproveBaseline
<1>1. row \in [approved : Nat, pins : Nat] /\ row.approved = day /\ day \in Nat
  BY DEF AttestationInv, AttestationTypeOK
<1> HIDE DEF row
<1>2. /\ baselines' \in [Baseline -> [approved : Nat, pins : Nat]]
      /\ \A d \in Baseline : baselines'[d].approved = IF d = e THEN day ELSE baselines[d].approved
      /\ \A d \in Baseline : baselines[d].approved \in Nat
  BY <1>0, <1>1 DEF AttestationInv, AttestationTypeOK
<1>3. ReportsTrue'
  <2>1. \A r \in reports : /\ r.day \in Nat /\ r.day <= day
                           /\ \A d \in Baseline : r.rows[d].approved \in Nat
    BY DEF AttestationInv, AttestationTypeOK, ReportType, ReportsTrue
  <2>2. \A d \in Baseline : baselines'[d].approved <= day
    BY <1>1, <1>2 DEF AttestationInv, ReportsTrue
  <2>3. ASSUME NEW r \in reports, NEW d \in Baseline
        PROVE  /\ r.rows[d].approved <= baselines'[d].approved
               /\ baselines'[d].approved < r.day => r.rows[d].approved = baselines'[d].approved
    <3>1. /\ r.rows[d].approved <= baselines[d].approved /\ baselines[d].approved <= day
          /\ baselines[d].approved < r.day => r.rows[d].approved = baselines[d].approved
      BY DEF AttestationInv, ReportsTrue
    <3> QED
      BY <1>1, <1>2, <2>1, <3>1
  <2> QED
    BY <1>0, <2>1, <2>2, <2>3 DEF AttestationInv, ReportsTrue, AgeStatus
<1>4. Scheduled' /\ StaleForewarned' /\ UsedPast' /\ Reached(promotion)'
  BY <1>0 DEF AttestationInv, Scheduled, StaleForewarned, UsedPast, Reached
<1>5. SlaLagBounded'
  <2> SUFFICES ASSUME checks.compliant, checks.used # NoDay, NEW d \in Baseline
               PROVE  day - baselines'[d].approved <= MaxAge + (day - checks.used)
    BY <1>0 DEF SlaLagBounded
  <2>0. checks.used \in Int /\ checks.used <= day
    BY DEF AttestationInv, AttestationTypeOK, CheckType, UsedPast
  <2>1. CASE d = e
    BY <1>1, <1>2, <2>0, <2>1, AttestationAssumption
  <2>2. CASE d # e
    BY <1>2, <2>2 DEF AttestationInv, SlaLagBounded
  <2> QED
    BY <2>1, <2>2
<1>6. AttestationTypeOK'
  BY <1>0, <1>2 DEF AttestationInv, AttestationTypeOK
<1> QED
  BY <1>0, <1>3, <1>4, <1>5, <1>6 DEF AttestationInv

\* A check of today.
LEMMA CheckMoves ==
    ASSUME AttestationInv, checks' \in CheckType,
           UNCHANGED <<day, policy, baselines, reports, promotion>>,
           checks'.used <= day,
           checks'.compliant /\ checks'.used # NoDay =>
              \A e \in Baseline : day - baselines[e].approved <= MaxAge + (day - checks'.used)
    PROVE  AttestationInv'
<1>1. SlaLagBounded' /\ UsedPast' /\ Reached(promotion)'
  BY DEF AttestationInv, SlaLagBounded, UsedPast, Reached
<1>2. AttestationTypeOK'
  BY DEF AttestationInv, AttestationTypeOK
<1> QED
  BY <1>1, <1>2, CalendarStays DEF AttestationInv

\* A step of the promotion.
LEMMA PromotionMoves ==
    ASSUME AttestationInv, NEW row \in PromotionType, promotion' = row, Reached(row),
           UNCHANGED <<day, policy, baselines, reports, checks>>
    PROVE  AttestationInv'
<1>1. AttestationTypeOK'
  BY DEF AttestationInv, AttestationTypeOK
<1>2. SlaLagBounded' /\ UsedPast'
  BY DEF AttestationInv, SlaLagBounded, UsedPast
<1> QED
  BY <1>1, <1>2, CalendarStays DEF AttestationInv

LEMMA ValidateMoves == AttestationInv /\ ValidateAttestation => AttestationInv'
<1> SUFFICES ASSUME AttestationInv, ValidateAttestation PROVE AttestationInv'
  OBVIOUS
<1>1. PICK stage \in PromotionStage, given \in {"limits", "date", "day"}, eff \in 0..(day + 1) :
         LET breach == IF given # "day" \/ AgeStatus(day - eff) \in {"future", "stale"}
                       THEN "recorded" ELSE "none"
         IN  promotion' = [NoPromotion EXCEPT !.stage = stage, !.at = "route", !.breach = breach,
                                              !.runs = promotion.runs + 1]
  BY Zenon DEF ValidateAttestation
<1> DEFINE breach == IF given # "day" \/ AgeStatus(day - eff) \in {"future", "stale"}
                     THEN "recorded" ELSE "none"
           runs == promotion.runs + 1
           row  == [NoPromotion EXCEPT !.stage = stage, !.at = "route", !.breach = breach, !.runs = runs]
<1>2. promotion' = row
  BY <1>1
<1>3. breach \in {"none", "recorded"}
  OBVIOUS
<1>4. runs \in Nat
  BY DEF AttestationInv, AttestationTypeOK, PromotionType
<1> HIDE DEF breach, runs
<1>5. row \in PromotionType /\ row.at = "route"
  <2> DEFINE none == NoPromotion
  <2>1. none \in PromotionType
    BY DEF NoPromotion, PromotionType, PromotionStage, Channel
  <2> HIDE DEF none
  <2>2. row = [none EXCEPT !.stage = stage, !.at = "route", !.breach = breach, !.runs = runs]
    BY DEF none
  <2> HIDE DEF row
  <2> QED
    BY <1>3, <1>4, <2>1, <2>2 DEF PromotionType
<1> HIDE DEF row
<1>6. UNCHANGED <<day, policy, baselines, reports, checks>>
  BY DEF ValidateAttestation
<1>7. Reached(row)
  BY <1>5 DEF Reached
<1> QED
  BY <1>2, <1>5, <1>6, <1>7, PromotionMoves

LEMMA RouteMoves == AttestationInv /\ RouteEscalation => AttestationInv'
<1> SUFFICES ASSUME AttestationInv, RouteEscalation PROVE AttestationInv'
  OBVIOUS
<1> DEFINE stage == promotion.stage
           at    == IF promotion.breach = "none" THEN "promoted" ELSE "blocked"
           Row(r, to, outcome) == [promotion EXCEPT !.at = at, !.sent = to, !.outcome = outcome,
                                                    !.routing = {r}]
           Routed(r, to, outcome) == promotion' = Row(r, to, outcome)
<1>0. UNCHANGED <<day, policy, baselines, reports, checks>>
  BY DEF RouteEscalation
<1>1. promotion \in PromotionType /\ stage \in PromotionStage
  BY DEF AttestationInv, AttestationTypeOK, PromotionType
<1>2. \A r \in RoutingSetup : EffectiveSink(r) \in {"noop", "file", "webhook"}
  BY RoutingAssumption DEF RoutingType, EffectiveSink
<1>3. PICK r \in RoutingSetup :
         \/ Routed(r, NoVar, "no_record") \/ Routed(r, NoVar, "noop")
         \/ EffectiveSink(r) = "file" /\ (\/ Routed(r, NoVar, "skip") \/ Routed(r, NoVar, "error")
                                          \/ Routed(r, EscalationFile(r, stage), "sent"))
         \/ EffectiveSink(r) = "webhook" /\ (\/ Routed(r, NoVar, "skip") /\ WebhookUrl(r, stage) = NoVar
                                             \/ Routed(r, NoVar, "dry_run") \/ Routed(r, NoVar, "error")
                                             \/ Routed(r, WebhookUrl(r, stage), "sent"))
  BY <1>2 DEF RouteEscalation
<1>4. at \in {"promoted", "blocked"}
  OBVIOUS
<1> HIDE DEF at
<1>5. ASSUME NEW to \in {NoVar, EscalationFile(r, stage), WebhookUrl(r, stage)},
             NEW outcome \in {"no_record", "noop", "skip", "sent", "error", "dry_run"},
             Routed(r, to, outcome),
             EffectiveSink(r) = "webhook" /\ outcome = "skip" => WebhookUrl(r, stage) = NoVar
      PROVE  AttestationInv'
  <2> DEFINE row == Row(r, to, outcome)
  <2>1. to \in Channel
    BY <1>1 DEF Channel
  <2> HIDE DEF stage
  <2>2. /\ row \in PromotionType /\ row.stage = promotion.stage /\ row.sent = to
        /\ row.outcome = outcome /\ row.routing = {r}
    BY <1>1, <1>4, <2>1 DEF PromotionType
  <2>3. promotion' = row
    BY <1>5
  <2> HIDE DEF row
  <2>4. Reached(row)
    BY <1>5, <2>2 DEF Reached, stage
  <2> QED
    BY <1>0, <2>2, <2>3, <2>4, PromotionMoves
<1> HIDE DEF Routed
<1>6. EffectiveSink(r) = "file" => EffectiveSink(r) # "webhook"
  OBVIOUS
<1> QED
  BY <1>3, <1>5, <1>6

LEMMA AttestationStep == AttestationInv /\ [AttestationNext]_attestationVars => AttestationInv'
<1> SUFFICES ASSUME AttestationInv, [AttestationNext]_attestationVars
             PROVE  AttestationInv'
  OBVIOUS
<1>0. day \in Nat /\ policy \in Nat /\ checks \in CheckType
  BY DEF AttestationInv, AttestationTypeOK
<1>a. /\ checks.used <= day
      /\ checks.compliant /\ checks.used # NoDay =>
            \A e \in Baseline : day - baselines[e].approved <= MaxAge + (day - checks.used)
  BY DEF AttestationInv, UsedPast, SlaLagBounded
<1>1. CASE EditPolicy
  <2>1. policy' = policy + 1 /\ UNCHANGED <<day, baselines, reports, checks, promotion>>
    BY <1>1 DEF EditPolicy
  <2>2. AttestationTypeOK'
    BY <1>0, <2>1 DEF AttestationInv, AttestationTypeOK
  <2>3. SlaLagBounded' /\ UsedPast' /\ Reached(promotion)'
    BY <2>1 DEF AttestationInv, SlaLagBounded, UsedPast, Reached
  <2> QED
    BY <2>1, <2>2, <2>3, CalendarStays DEF AttestationInv
<1>2. CASE VerifyBaselines
  <2>1. checks' = [checks EXCEPT !.drift = Drift]
    BY <1>2 DEF VerifyBaselines
  <2>2. Drift \in SUBSET Baseline
    BY DEF Drift
  <2>3. checks' \in CheckType /\ checks'.compliant = checks.compliant /\ checks'.used = checks.used
    BY <1>0, <2>1, <2>2 DEF CheckType
  <2> QED
    BY <1>2, <1>a, <2>3, CheckMoves DEF VerifyBaselines
<1>3. CASE AggregateReports
  <2> DEFINE Days(found)   == {r.day : r \in found}
             Latest(found) == IF found = {} THEN NoDay
                              ELSE CHOOSE d \in Days(found) : \A r \in found : d >= r.day
             Met(found)    == found # {} => Breaches(LatestReport(found)) = {}
  <2>1. PICK found \in SUBSET reports :
           checks' = [checks EXCEPT !.compliant = Met(found), !.used = Latest(found)]
    BY <1>3 DEF AggregateReports
  <2>2. /\ Latest(found) \in Int /\ Latest(found) <= day
        /\ found # {} => /\ Latest(found) \in Days(found)
                         /\ \A r \in found : Latest(found) >= r.day
    <3>1. CASE found = {}
      BY <1>0, <3>1 DEF NoDay
    <3>2. CASE found # {}
      <4>1. \A r \in found : r.day \in Nat /\ r.day <= day
        BY DEF AttestationInv, AttestationTypeOK, ReportType, ReportsTrue
      <4>2. \E d \in Days(found) : \A r \in found : d >= r.day
        <5> DEFINE days == {d \in 0..day : \E r \in found : r.day = d}
        <5>1. days # {} /\ days \in SUBSET (0..day)
          BY <1>0, <3>2, <4>1
        <5>2. PICK d \in days : \A x \in days : d >= x
          BY <1>0, <5>1, LatestOfDays
        <5>3. \A r \in found : r.day \in days
          BY <1>0, <4>1
        <5> QED
          BY <5>2, <5>3
      <4>3. /\ Latest(found) \in Days(found)
            /\ \A r \in found : Latest(found) >= r.day
        BY <3>2, <4>2
      <4>4. PICK r \in found : r.day = Latest(found)
        BY <4>3
      <4> HIDE DEF Latest
      <4>5. Latest(found) \in Int /\ Latest(found) <= day
        BY <4>1, <4>4
      <4> QED
        BY <4>3, <4>5
    <3> QED
      BY <3>1, <3>2
  <2>3. Met(found) /\ Latest(found) # NoDay =>
           \A e \in Baseline : day - baselines[e].approved <= MaxAge + (day - Latest(found))
    <3> SUFFICES ASSUME Met(found), Latest(found) # NoDay
                 PROVE  \A e \in Baseline :
                            day - baselines[e].approved <= MaxAge + (day - Latest(found))
      OBVIOUS
    <3>1. found # {}
      OBVIOUS
    <3>2. Breaches(LatestReport(found)) = {}
      BY <3>1
    <3> HIDE DEF Latest
    <3> QED
      BY <2>2, <3>1, <3>2, LatestBounds DEF AttestationInv
  <2>4. Met(found) \in BOOLEAN
    OBVIOUS
  <2> HIDE DEF Met, Latest, Days
  <2>5. checks' \in CheckType /\ checks'.compliant = Met(found) /\ checks'.used = Latest(found)
    BY <1>0, <2>1, <2>2, <2>4 DEF CheckType
  <2> QED
    BY <1>3, <2>2, <2>3, <2>5, CheckMoves DEF AggregateReports
<1>4. CASE ProveRouting
  <2>1. PICK r \in RoutingSetup : checks' = [checks EXCEPT !.proof = {RoutingProof(r)}]
    BY <1>4 DEF ProveRouting
  <2> DEFINE proof == RoutingProof(r)
  <2>2. checks' = [checks EXCEPT !.proof = {proof}] /\ proof \in {RoutingProof(q) : q \in RoutingSetup}
    BY <2>1
  <2> HIDE DEF proof
  <2>3. checks' \in CheckType /\ checks'.compliant = checks.compliant /\ checks'.used = checks.used
    BY <1>0, <2>2 DEF CheckType
  <2> QED
    BY <1>4, <1>a, <2>3, CheckMoves DEF ProveRouting
<1>5. CASE UNCHANGED attestationVars
  <2>1. UNCHANGED <<day, policy, baselines, reports, checks, promotion>>
    BY <1>5 DEF attestationVars
  <2> QED
    BY <1>0, <1>a, <2>1, CheckMoves
<1> QED
  BY <1>1, <1>2, <1>3, <1>4, <1>5, NextDayMoves, AgingReportMoves, ApproveBaselineMoves,
     ValidateMoves, RouteMoves DEF AttestationNext

LEMMA AttestationAlways == AttestationSpec => []AttestationInv
BY AttestationInitially, AttestationStep, PTL DEF AttestationSpec

\* No approval is called stale before a report has called it due, for any cadence
\* that fits into the reminder window.
THEOREM StaleIsForewarned == AttestationSpec => []StaleForewarned
<1>1. AttestationInv => StaleForewarned
  BY DEF AttestationInv
<1> QED
  BY <1>1, AttestationAlways, PTL

\* When the aggregation calls the SLA met, no approval is older than the limit by
\* more than the age of the latest report it had, whatever it had or skipped.
THEOREM LagIsBounded == AttestationSpec => []SlaLagBounded
<1>1. AttestationInv => SlaLagBounded
  BY DEF AttestationInv
<1> QED
  BY <1>1, AttestationAlways, PTL

\* An escalation goes to a channel of its own stage or of all stages, and one that
\* is skipped in spite of a proof had a job that differed in what concerns the
\* stage.
THEOREM EscalationsAreRouted == AttestationSpec => []RoutedToOwn
<1>1. AttestationInv => RoutedToOwn
  <2> SUFFICES ASSUME AttestationInv, promotion.at = "blocked", NEW r \in promotion.routing
               PROVE  LET s == promotion.stage
                      IN  /\ promotion.sent \in OwnNames(r, s) \cup {NoVar}
                          /\ EffectiveSink(r) = "webhook" /\ promotion.outcome = "skip" =>
                                \A proof \in checks.proof :
                                   proof.rows[s].webhook => OwnView(proof.under, s) # OwnView(r, s)
    BY DEF RoutedToOwn
  <2> DEFINE s == promotion.stage
  <2>1. s \in PromotionStage /\ checks.proof \subseteq {RoutingProof(q) : q \in RoutingSetup}
    BY DEF AttestationInv, AttestationTypeOK, PromotionType, CheckType
  <2>2. /\ promotion.sent \in {NoVar, EscalationFile(r, s), WebhookUrl(r, s)}
        /\ EffectiveSink(r) = "webhook" /\ promotion.outcome = "skip" => WebhookUrl(r, s) = NoVar
    BY DEF AttestationInv, Reached
  <2> HIDE DEF s
  <2>3. ASSUME NEW proof \in checks.proof, proof.rows[s].webhook
        PROVE  WebhookUrl(proof.under, s) # NoVar
    <3>1. PICK q \in RoutingSetup : proof = RoutingProof(q)
      BY <2>1
    <3>2. proof.under = q /\ proof.rows[s].webhook = (WebhookUrl(q, s) # NoVar)
      BY <2>1, <3>1 DEF RoutingProof
    <3> QED
      BY <2>3, <3>2
  <2>4. /\ WebhookUrl(r, s) \in OwnNames(r, s) \cup {NoVar}
        /\ EscalationFile(r, s) \in OwnNames(r, s) \cup {NoVar}
    BY <2>1, UrlFound
  <2>5. \A q : OwnView(q, s) = OwnView(r, s) => WebhookUrl(q, s) = WebhookUrl(r, s)
    BY <2>1, ViewDecides
  <2> QED
    BY <2>2, <2>3, <2>4, <2>5 DEF s
<1> QED
  BY <1>1, AttestationAlways, PTL

===============================================================================
