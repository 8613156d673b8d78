--------------------------- MODULE PitchScreening ---------------------------
(***************************************************************************)
(* From a pitch to its verdict: the coherence scorer with its anti-gaming  *)
(* detector, the scoring service, the decision policy; and the red-team    *)
(* suite, which replays a corpus of fixtures through them.  (Backtest       *)
(* replays a dataset of rows that were scored before.)                     *)
(*                                                                         *)
(* A pitch is what the text features come to.  Shares are in percent, the  *)
(* scores of layers in thousandths, coherence in millionths.               *)
(***************************************************************************)
EXTENDS DecisionPolicy, Sequences

CONSTANTS
    Fixtures,   \* [valid, pitch, application, label]
    Suites      \* what a directory of fixtures may hold, in the order of the names

ASSUME SuitesAssumption == Suites \subseteq Seq(Fixtures)

VARIABLE
    suite       \* the run: where it is, the fixtures left, and its report so far

MinOf(a, b) == IF a <= b THEN a ELSE b

-----------------------------------------------------------------------------
(* The anti-gaming detector.  1.0 (here 100) is a clean pitch.             *)

\* Of the texts handed over to compare with; none, no overlap.
MaxOverlap(texts, overlap) == IF texts THEN overlap ELSE 0

\* One proposition has nothing to repeat.
Similarity(p) == IF p.n < 2 THEN 0 ELSE p.similarity

\* Long and complex propositions are more than thrice those with content.
Fluent(p) == IF p.content = 0 THEN p.long > 3 ELSE p.long > 3 * p.content

Flags(p, given) ==
    When(MaxOverlap("templates" \in given, p.template) > 60, "AG_TEMPLATE_OVERLAP")
      \cup When(MaxOverlap("prior_corpus" \in given, p.prior) > 80, "AG_PRIOR_CORPUS_ECHO")
      \cup When(Similarity(p) > 85, "AG_REPETITIVE_FILLER")
      \cup When(Fluent(p), "AG_FLUENCY_WITHOUT_CONTENT")
      \cup When(p.denials > 0, "AG_CONTRADICTION_DENIAL")

\* FLAG_WEIGHTS, all of them together.
Penalty(flags) ==
    Term("AG_TEMPLATE_OVERLAP" \in flags, 30) + Term("AG_REPETITIVE_FILLER" \in flags, 20)
      + Term("AG_PRIOR_CORPUS_ECHO" \in flags, 25) + Term("AG_FLUENCY_WITHOUT_CONTENT" \in flags, 15)
      + Term("AG_CONTRADICTION_DENIAL" \in flags, 25)

DetectAntiGaming(p, given) == IF p.n = 0 THEN 100 ELSE Clamp(100 - Penalty(Flags(p, given)))

-----------------------------------------------------------------------------
(* The scorer.                                                             *)

Layer == {"contradiction", "argumentation", "embedding", "compression", "structural"}

\* A layer that raises counts as 0.5, and tells nothing to the others.
LayerScore(p, l) == IF l \in p.broken THEN 500 ELSE p.layers[l]

\* Layers that corroborate each other take off up to 0.05.
Fusion(p, l) ==
    CASE l = "contradiction" /\ {l, "embedding"} \cap p.broken = {} /\ p.suspicious > 0 ->
             MinOf(50, 20 * p.contradictions)
      [] l = "structural" /\ {l, "argumentation"} \cap p.broken = {} /\ p.grounded ->
             MinOf(50, 15 * p.isolated)
      [] OTHER -> 0

Fused(p, l) == MaxOf(0, LayerScore(p, l) - Fusion(p, l))

RawComposite(p) ==
    10 * (30 * Fused(p, "contradiction") + 20 * Fused(p, "argumentation") + 20 * Fused(p, "embedding")
            + 15 * Fused(p, "compression") + 15 * Fused(p, "structural"))

\* score: a text of less than two propositions is clean, and nothing else.
Composite(p, gaming) == IF p.n < 2 THEN 0 ELSE (RawComposite(p) * (100 + gaming)) \div 200
Gaming(p, given)     == IF p.n < 2 THEN 100 ELSE DetectAntiGaming(p, given)

-----------------------------------------------------------------------------
(* The scoring service and the policy.                                     *)

\* The comparator knows the premises of one of the fund's three domains, and
\* compares no text of less than two propositions.
DomainCoherence(p, domain) == IF p.n < 2 \/ domain # "market_economics" THEN 500000 ELSE p.baseline

\* calibrated_superiority_interval_95, its width within what the profile allows.
Interval(superiority, spread) ==
    LET half == MaxOf(25000, MinOf(125000, spread))
    IN  [lower |-> MaxOf(-1000000, superiority - half), upper |-> MinOf(1000000, superiority + half)]

ScoreWith(p, domain, given) ==
    LET gaming == Gaming(p, given)
        ci     == Interval(Composite(p, gaming) - DomainCoherence(p, domain), p.spread)
    IN  [quality |-> MaxOf(20, MinOf(100, p.length)), gaming |-> gaming,
         lower |-> ci.lower, upper |-> ci.upper]

\* Mutant: the service hands the scorer templates and earlier pitches.
ScoreApplication_Corpora(p, domain) == ScoreWith(p, domain, {"templates", "prior_corpus"})

\* score_application: the service gives the scorer the text alone.
ScoreApplication(p, domain) == ScoreWith(p, domain, {})

Canonical(decision) == IF decision = "fail" THEN "reject" ELSE decision

-----------------------------------------------------------------------------
(* The red-team suite.                                                     *)

Canon == {"pass", "reject", "manual_review"}

Mistake == [pass |-> "false_pass", reject |-> "false_reject", manual_review |-> "false_review"]

NoCases ==
    [at |-> "idle", left |-> <<>>, exit |-> 0, matches |-> 0,
     confusion |-> [e \in Canon |-> [a \in Canon |-> 0]],
     counts |-> [m \in {Mistake[a] : a \in Canon} |-> 0]]

SuiteError == [NoCases EXCEPT !.at = "error", !.exit = 2]

\* Fixtures and labels are read before any case is replayed.
Loads(fixtures) ==
    /\ fixtures # <<>>
    /\ \A i \in DOMAIN fixtures :
           fixtures[i].valid /\ fixtures[i].label \in Canon \cup {"none"}

StartSuite(fixtures, pinned) ==
    /\ suite.at = "idle"
    /\ suite' = IF pinned /\ Loads(fixtures)
                THEN [NoCases EXCEPT !.at = "replay", !.left = fixtures] ELSE SuiteError

\* No portfolio is asked for: the policy's defaults.
SuiteVerdict(f) ==
    Canonical(Evaluate(f.application, ScoreApplication(f.pitch, f.application.domain), <<>>).decision)

ReplayCase ==
    /\ suite.at = "replay" /\ suite.left # <<>>
    /\ LET f == Head(suite.left)
           actual == SuiteVerdict(f)
       IN  suite' = IF f.label = "none" THEN SuiteError
                    ELSE [suite EXCEPT !.left = Tail(@),
                                       !.confusion[f.label][actual] = @ + 1,
                                       !.matches = @ + Term(f.label = actual, 1),
                                       !.counts[Mistake[actual]] = @ + Term(f.label # actual, 1)]

Mistakes(s) == s.counts.false_pass + s.counts.false_reject + s.counts.false_review

EndSuite ==
    /\ suite.at = "replay" /\ suite.left = <<>>
    /\ suite' = [suite EXCEPT !.at = "done", !.exit = Term(Mistakes(suite) > 0, 1)]

SuiteInit == suite = NoCases

SuiteNext ==
    \/ \E fixtures \in Suites, pinned \in BOOLEAN : StartSuite(fixtures, pinned)
    \/ ReplayCase
    \/ EndSuite

SuiteSpec == SuiteInit /\ [][SuiteNext]_suite

-----------------------------------------------------------------------------
(* Properties.                                                             *)

\* The matrix that tests/test_red_team_harness.py pins, whatever the corpus:
\* every case is rejected, no pitch slips through, and what was labelled
\* otherwise is counted as a false reject.  (The gate refuses a clean pitch's
\* 1.0 as gamed; and the signals that the service can see leave 0.40.)
AllRejected ==
    /\ \A e \in Canon, a \in Canon \ {"reject"} : suite.confusion[e][a] = 0
    /\ suite.counts.false_reject = suite.confusion["pass"]["reject"]
                                     + suite.confusion["manual_review"]["reject"]
    /\ suite.matches = suite.confusion["reject"]["reject"]

=============================================================================
