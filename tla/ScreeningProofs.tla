--------------------------- MODULE ScreeningProofs ---------------------------
(***************************************************************************)
(* What becomes of every pitch, not only of those a run tries: the service *)
(* cannot give a score that the policy admits, so that the red-team suite  *)
(* rejects every case; and what the policy admits, from whatever scorer,   *)
(* leaves the fund within its limits as far as the evaluation saw them.    *)
(***************************************************************************)
EXTENDS PitchScreening, TLAPS

-----------------------------------------------------------------------------
(* The detector, as the service runs it.                                   *)

\* Without templates and earlier pitches two of the five signals stay dark, and
\* the other three take off 0.60 at most.
LEMMA UngivenScore ==
    ASSUME NEW p
    PROVE  DetectAntiGaming(p, {}) \in 40..100
<1> DEFINE F == Flags(p, {})
<1>1. MaxOverlap("templates" \in {}, p.template) = 0 /\ MaxOverlap("prior_corpus" \in {}, p.prior) = 0
  BY DEF MaxOverlap
<1>2. "AG_TEMPLATE_OVERLAP" \notin F /\ "AG_PRIOR_CORPUS_ECHO" \notin F
  BY <1>1 DEF Flags, When
<1>3. Penalty(F) \in 0..60
  BY <1>2 DEF Penalty, Term
<1>4. Clamp(100 - Penalty(F)) \in 40..100
  BY <1>3 DEF Clamp
<1> QED
  BY <1>4 DEF DetectAntiGaming

LEMMA ServiceGaming ==
    ASSUME NEW p, NEW domain
    PROVE  ScoreApplication(p, domain).gaming \in 40..100
<1>1. Gaming(p, {}) \in 40..100
  BY UngivenScore DEF Gaming
<1> QED
  BY <1>1 DEF ScoreApplication, ScoreWith

\* No pitch, domain, application and portfolio get a score of the service past
\* the policy: the least gaming score the service gives is above the greatest
\* one the policy takes for honest (decision_policy.py:434).
THEOREM ServiceNeverAdmitted ==
    ASSUME NEW p, NEW domain, NEW a, NEW state
    PROVE  Evaluate(a, ScoreApplication(p, domain), state).decision = "fail"
<1> DEFINE score == ScoreApplication(p, domain)
           codes == FailedGates(a, score, NormalizePortfolioState(state))
<1>1. score.gaming > 35
  BY ServiceGaming
<1>2. "ANTI_GAMING_HIGH" \in codes
  BY <1>1 DEF FailedGates, When
<1>3. Verdict(codes) = "fail"
  BY <1>2 DEF Verdict, HardFail
<1> QED
  BY <1>3 DEF Evaluate

-----------------------------------------------------------------------------
(* The red-team suite.                                                     *)

LEMMA VerdictIsReject ==
    ASSUME NEW f
    PROVE  SuiteVerdict(f) = "reject"
  BY ServiceNeverAdmitted DEF SuiteVerdict, Canonical

\* What is left to replay was loaded, and the report counts in whole cases.
Loaded == {f \in Fixtures : f.label \in Canon \cup {"none"}}

Wrong == {"false_pass", "false_reject", "false_review"}

Run ==
    [at : {"idle", "replay", "done", "error"}, left : Seq(Loaded), exit : 0..2, matches : Nat,
     confusion : [Canon -> [Canon -> Nat]], counts : [Wrong -> Nat]]

OneColumn(s) ==
    /\ \A e \in Canon, a \in Canon \ {"reject"} : s.confusion[e][a] = 0
    /\ s.counts.false_reject = s.confusion["pass"]["reject"] + s.confusion["manual_review"]["reject"]
    /\ s.matches = s.confusion["reject"]["reject"]

SuiteInv == suite \in Run /\ OneColumn(suite)

LEMMA MistakeNames == {Mistake[a] : a \in Canon} = Wrong
  BY DEF Mistake, Canon, Wrong

LEMMA Columns == "pass" \in Canon /\ "reject" \in Canon /\ "manual_review" \in Canon
  BY DEF Canon

LEMMA BlankReport == NoCases \in Run /\ OneColumn(NoCases)
<1> DEFINE blank == [e \in Canon |-> [a \in Canon |-> 0]]
           none  == [m \in Wrong |-> 0]
<1>1. NoCases = [at |-> "idle", left |-> <<>>, exit |-> 0, matches |-> 0,
                 confusion |-> blank, counts |-> none]
  BY MistakeNames DEF NoCases
<1>2. blank \in [Canon -> [Canon -> Nat]] /\ \A e, a \in Canon : blank[e][a] = 0
  OBVIOUS
<1>3. none \in [Wrong -> Nat] /\ none["false_reject"] = 0
  BY DEF Wrong
<1> HIDE DEF blank, none
<1>4. NoCases \in Run
  BY <1>1, <1>2, <1>3 DEF Run
<1>5. OneColumn(NoCases)
  BY <1>1, <1>2, <1>3, Columns DEF OneColumn
<1> QED
  BY <1>4, <1>5

\* A suite begins anew, with the report blank.
LEMMA AnewInRun ==
    ASSUME NEW at \in {"idle", "replay", "done", "error"}, NEW left \in Seq(Loaded), NEW exit \in 0..2,
           NEW s, s = [at |-> at, left |-> left, exit |-> exit, matches |-> NoCases.matches,
                       confusion |-> NoCases.confusion, counts |-> NoCases.counts]
    PROVE  s \in Run /\ OneColumn(s)
<1>1. s \in Run
  BY BlankReport DEF Run
<1>2. s.confusion = NoCases.confusion /\ s.counts = NoCases.counts /\ s.matches = NoCases.matches
  OBVIOUS
<1> QED
  BY <1>1, <1>2, BlankReport DEF OneColumn

LEMMA InitSuite == SuiteInit => SuiteInv
  BY BlankReport DEF SuiteInit, SuiteInv

LEMMA ErrorKeeps == suite' = SuiteError => SuiteInv'
<1>1. \A r \in Run : [r EXCEPT !.at = "error"] \in Run
  BY DEF Run
<1>2. \A r \in Run, x \in 0..2 : [r EXCEPT !.exit = x] \in Run
  BY DEF Run
<1>3. 2 \in 0..2
  OBVIOUS
<1>4. SuiteError \in Run
  BY <1>1, <1>2, <1>3, BlankReport DEF SuiteError
<1>5. /\ SuiteError.confusion = NoCases.confusion /\ SuiteError.counts = NoCases.counts
      /\ SuiteError.matches = NoCases.matches
  BY BlankReport DEF SuiteError, Run
<1> QED
  BY <1>4, <1>5, BlankReport DEF SuiteInv, OneColumn

LEMMA StartKeeps ==
    ASSUME SuiteInv, NEW fixtures \in Suites, NEW pinned \in BOOLEAN, StartSuite(fixtures, pinned)
    PROVE  SuiteInv'
<1>1. CASE suite' = SuiteError
  BY <1>1, ErrorKeeps
<1>2. CASE pinned /\ Loads(fixtures) /\ suite' = [NoCases EXCEPT !.at = "replay", !.left = fixtures]
  <2>1. fixtures \in Seq(Loaded)
    <3>1. fixtures \in Seq(Fixtures)
      BY SuitesAssumption
    <3>2. \A i \in DOMAIN fixtures : fixtures[i] \in Loaded
      BY <1>2, <3>1 DEF Loads, Loaded
    <3> QED
      BY <3>1, <3>2
  <2>2. NoCases.exit = 0
    BY DEF NoCases
  <2>3. suite' = [at |-> "replay", left |-> fixtures, exit |-> 0, matches |-> NoCases.matches,
                  confusion |-> NoCases.confusion, counts |-> NoCases.counts]
    BY <1>2, <2>2, BlankReport DEF Run
  <2>4. suite' \in Run /\ OneColumn(suite')
    BY <2>1, <2>3, AnewInRun
  <2> QED
    BY <2>4 DEF SuiteInv, OneColumn
<1> QED
  BY <1>1, <1>2 DEF StartSuite

LEMMA CountIncremented ==
    ASSUME NEW S, NEW r \in [S -> Nat], NEW c \in S
    PROVE  [r EXCEPT ![c] = @ + 1] \in [S -> Nat]
  OBVIOUS

\* One more case in the column of the rejected.
LEMMA CountedInRun ==
    ASSUME NEW s \in Run, OneColumn(s), NEW left \in Seq(Loaded), NEW label \in Canon,
           NEW k \in Nat, k = IF label = "reject" THEN 1 ELSE 0,
           NEW l \in Nat, l = IF label # "reject" THEN 1 ELSE 0,
           NEW t, t = [s EXCEPT !.left = left,
                                !.confusion[label]["reject"] = @ + 1,
                                !.matches = @ + k,
                                !.counts["false_reject"] = @ + l]
    PROVE  t \in Run /\ OneColumn(t)
<1> DEFINE row  == [s.confusion[label] EXCEPT !["reject"] = @ + 1]
           conf == [s.confusion EXCEPT ![label] = row]
           cnt  == [s.counts EXCEPT !["false_reject"] = @ + l]
           mat  == s.matches + k
<1>1. /\ t.at = s.at /\ t.exit = s.exit /\ t.left = left
      /\ t.confusion = conf /\ t.counts = cnt /\ t.matches = mat
  BY DEF Run
<1>2. t = [at |-> s.at, left |-> left, exit |-> s.exit, matches |-> mat, confusion |-> conf, counts |-> cnt]
  BY DEF Run
<1>3. conf \in [Canon -> [Canon -> Nat]] /\ cnt \in [Wrong -> Nat] /\ mat \in Nat
  <2>1. row \in [Canon -> Nat]
    <3>1. s.confusion[label] \in [Canon -> Nat]
      BY DEF Run
    <3> QED
      BY <3>1, Columns, CountIncremented
  <2>2. conf \in [Canon -> [Canon -> Nat]]
    BY <2>1 DEF Run
  <2>3. "false_reject" \in Wrong /\ s.counts \in [Wrong -> Nat] /\ s.matches \in Nat
    BY DEF Run, Wrong
  <2>4. cnt \in [Wrong -> Nat]
    BY <2>3
  <2>5. mat \in Nat
    BY <2>3
  <2> QED
    BY <2>2, <2>4, <2>5
<1>4. t \in Run
  BY <1>2, <1>3 DEF Run
<1>5. \A e \in Canon, a \in Canon \ {"reject"} : conf[e][a] = 0
  BY DEF Run, OneColumn
<1>6. /\ cnt["false_reject"] = conf["pass"]["reject"] + conf["manual_review"]["reject"]
      /\ mat = conf["reject"]["reject"]
  BY Columns DEF Run, OneColumn, Wrong, Canon
<1> QED
  BY <1>1, <1>4, <1>5, <1>6 DEF OneColumn

LEMMA ReplayKeeps == SuiteInv /\ ReplayCase => SuiteInv'
<1> SUFFICES ASSUME SuiteInv, ReplayCase PROVE SuiteInv'
  OBVIOUS
<1> DEFINE f == Head(suite.left)
<1>1. f \in Loaded /\ Tail(suite.left) \in Seq(Loaded)
  BY DEF SuiteInv, Run, ReplayCase
<1>2. CASE f.label = "none"
  BY <1>2, ErrorKeeps DEF ReplayCase
<1>3. CASE f.label # "none"
  <2>1. f.label \in Canon
    BY <1>1, <1>3 DEF Loaded
  <2>2. SuiteVerdict(f) = "reject" /\ Mistake["reject"] = "false_reject"
    BY VerdictIsReject DEF Mistake
  <2> DEFINE k == Term(f.label = "reject", 1)
             l == Term(f.label # "reject", 1)
             t == [suite EXCEPT !.left = Tail(suite.left),
                                !.confusion[f.label]["reject"] = @ + 1,
                                !.matches = @ + k,
                                !.counts["false_reject"] = @ + l]
  <2>3. suite' = t
    BY <1>3, <2>2, Zenon DEF ReplayCase
  <2>4. (k = IF f.label = "reject" THEN 1 ELSE 0) /\ (l = IF f.label # "reject" THEN 1 ELSE 0)
    BY Zenon DEF Term
  <2> HIDE DEF k, l
  <2>5. k \in Nat /\ l \in Nat
    BY <2>4
  <2>6. t \in Run /\ OneColumn(t)
    BY <1>1, <2>1, <2>4, <2>5, CountedInRun DEF SuiteInv
  <2> QED
    BY <2>3, <2>6 DEF SuiteInv, OneColumn
<1> QED
  BY <1>2, <1>3

LEMMA EndKeeps == SuiteInv /\ EndSuite => SuiteInv'
<1> SUFFICES ASSUME SuiteInv, EndSuite PROVE SuiteInv'
  OBVIOUS
<1>1. suite' \in Run
  <2>1. Term(Mistakes(suite) > 0, 1) \in 0..2
    BY DEF Term
  <2> QED
    BY <2>1 DEF SuiteInv, Run, EndSuite
<1>2. /\ suite'.confusion = suite.confusion /\ suite'.counts = suite.counts
      /\ suite'.matches = suite.matches
  BY DEF SuiteInv, Run, EndSuite
<1> QED
  BY <1>1, <1>2 DEF SuiteInv, OneColumn

\* A suite of any fixtures rejects every case, and never passes one or sends one
\* to review: its confusion matrix has one column (red_team.py:491).
THEOREM SuiteRejectsAll == SuiteSpec => []AllRejected
<1>1. SuiteInv /\ [SuiteNext]_suite => SuiteInv'
  <2> SUFFICES ASSUME SuiteInv, [SuiteNext]_suite PROVE SuiteInv'
    OBVIOUS
  <2>1. ASSUME NEW fixtures \in Suites, NEW pinned \in BOOLEAN, StartSuite(fixtures, pinned)
        PROVE  SuiteInv'
    BY <2>1, StartKeeps
  <2>2. CASE ReplayCase
    BY <2>2, ReplayKeeps
  <2>3. CASE EndSuite
    BY <2>3, EndKeeps
  <2>4. CASE UNCHANGED suite
    BY <2>4 DEF SuiteInv, OneColumn
  <2> QED
    BY <2>1, <2>2, <2>3, <2>4 DEF SuiteNext
<1>2. SuiteInv => AllRejected
  BY DEF SuiteInv, OneColumn, AllRejected
<1> QED
  BY <1>1, <1>2, InitSuite, PTL DEF SuiteSpec

-----------------------------------------------------------------------------
(* The policy.                                                             *)

\* Every gate that fails is one of those that reject or one of those that ask
\* for a review.
LEMMA GatesCounted ==
    ASSUME NEW a, NEW score, NEW ps
    PROVE  FailedGates(a, score, ps) \subseteq HardFail \cup ManualReviewCodes
  BY DEF FailedGates, PortfolioGates, When, HardFail, ManualReviewCodes

\* An application that passes failed no gate: the two lists of codes, kept apart
\* from the gates in the code (decision_policy.py:484, 492), forget none of them,
\* so that a pass is within every limit of the fund that the evaluation knew of.
THEOREM PassWithinLimits ==
    ASSUME NEW a, NEW score, NEW state,
           Evaluate(a, score, state).decision = "pass"
    PROVE  LET ps == NormalizePortfolioState(state)
           IN  /\ ~(ps.committed + a.requested > ps.capacity)
               /\ ~(ps.capacity - (ps.committed + a.requested) < ps.floor)
               /\ ~(100 * (ps.founderUsd + a.requested) > 12 * ps.capacity)
               /\ ~(100 * (ps.domainUsd + a.requested) > 42 * ps.capacity)
               /\ ~(a.requested > MAX_SINGLE_CHECK)
               /\ ~(score.lower < CsRequired(a.domain, a.requested, ps))
<1> DEFINE ps == NormalizePortfolioState(state)
           codes == FailedGates(a, score, ps)
<1>1. Verdict(codes) = "pass"
  BY DEF Evaluate
<1>2. codes \cap HardFail = {} /\ codes \cap ManualReviewCodes = {}
  BY <1>1 DEF Verdict
<1>3. codes = {}
  BY <1>2, GatesCounted
<1>4. PortfolioGates(a, ps) = {}
  BY <1>3 DEF FailedGates
<1>5. ~(score.lower < CsRequired(a.domain, a.requested, ps))
  BY <1>3 DEF FailedGates, When
<1> HIDE DEF ps
<1>6. /\ ~(ps.committed + a.requested > ps.capacity)
      /\ ~(ps.capacity - (ps.committed + a.requested) < ps.floor)
      /\ ~(100 * (ps.founderUsd + a.requested) > 12 * ps.capacity)
      /\ ~(100 * (ps.domainUsd + a.requested) > 42 * ps.capacity)
      /\ ~(a.requested > MAX_SINGLE_CHECK)
  BY <1>4 DEF PortfolioGates, When
<1> QED
  BY <1>5, <1>6 DEF ps

=============================================================================
