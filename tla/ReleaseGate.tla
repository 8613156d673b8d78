------------------------------ MODULE ReleaseGate ------------------------------
(***************************************************************************)
(* The on-call gate of release.yml and nonprod-release-smoke.yml: live     *)
(* drills leave evidence that ages, an exception (a "snooze") may stand in *)
(* for evidence that is stale (evaluate_oncall_evidence_exception.py), and *)
(* the route policy and its reviews must be in order                       *)
(* (verify_oncall_route_policy.py).  Exceptions are approved against the   *)
(* policy-as-code, but the gates run the evaluator without it and ask for  *)
(* no approval.  The steps of a gate take time; drills, reviews, approvals *)
(* and secrets go on between them.                                         *)
(***************************************************************************)
EXTENDS Integers, Sequences, FiniteSets

CONSTANTS
    LastTick,     \* bound: when the model's clock stops
    MaxGates,     \* bound: how many gates are run
    MaxActs,      \* bound: how often drills, approvals, secrets and reviews happen
    DrillAge,     \* gate |-> max age of evidence (a variable of the repository)
    SnoozePolicy, \* the policy-as-code, or one that cannot be used
    Exceptions,   \* the exception documents considered
    RoutePolicies \* the route policies considered

VARIABLES
    clock,
    drills,     \* when live drills that left their artifact ran
    approvals,  \* the approval artifacts
    exception,  \* gate |-> what its secret and its variable hold
    route,      \* the private route policy
    gating,       \* the gate that runs
    acts        \* how often the operators acted

gateVars == <<clock, drills, approvals, exception, route, gating, acts>>

Gates == {"release", "nonprod"}
SnoozeField == {"expires_at", "approver", "change_id", "reason", "reason_code"}
RouteReview == {"escalation_ownership", "oncall_route_policy", "verification_evidence"}
ReviewAge == 90   \* DEFAULT_MAX_*_AGE_DAYS of the command line

ExceptionDoc == [form : STRING, known : BOOLEAN, gate : STRING, repository : STRING,
                 environment : STRING, given : SUBSET SnoozeField, code : STRING, expires : Int]

\* reviewed: a tick, -1 unset, -2 no date; age: days, 0 unset; escalation,
\* rotation, labels: the row has one.
RouteRow == [name : STRING, provider : STRING, required : BOOLEAN, escalation : BOOLEAN,
             rotation : BOOLEAN, labels : BOOLEAN]
RouteDoc == [configured : BOOLEAN, readable : BOOLEAN, version : Int,
             reviewed : [RouteReview -> Int], age : [RouteReview -> Int], rows : Seq(RouteRow)]

-----------------------------------------------------------------------------
(* The exception (given: its snooze's fields) and its policy.               *)

\* effective_policy_for_gate: a gate's own values replace those of the root.
EffectiveSnoozePolicy(policy, g) ==
    [f \in DOMAIN policy.root |->
        IF f \in DOMAIN policy.gates[g] THEN policy.gates[g][f] ELSE policy.root[f]]

ASSUME GateAssumption ==
    /\ LastTick \in Nat /\ MaxGates \in Nat /\ MaxActs \in Nat
    /\ Exceptions \subseteq ExceptionDoc /\ Exceptions # {}
    /\ RoutePolicies \subseteq RouteDoc
    /\ SnoozePolicy.readable => \A g \in Gates : EffectiveSnoozePolicy(SnoozePolicy, g).hours \in Int

\* _apply_policy_constraints finds nothing; hours: 0 for none.
WithinSnoozePolicy(doc, g, now, policy) ==
    LET eff == EffectiveSnoozePolicy(policy, g)
    IN  /\ doc.environment = (IF g = "release" THEN "production" ELSE "nonprod")
        /\ eff.hours # 0 => eff.hours > 0 /\ doc.expires - now <= eff.hours
        /\ eff.codes # {} => doc.code \in eff.codes
        /\ eff.required \subseteq doc.given

\* Mutant: any gate's exception will do.
ExceptionValid_AnyGate(doc, g, now) ==
    /\ doc.known /\ doc.repository \in {"unset", "this"}
    /\ {"expires_at", "approver", "change_id"} \subseteq doc.given
    /\ doc.expires > now

\* _validate_exception without a policy.
ExceptionValid(doc, g, now) ==
    /\ doc.known                                  \* keys, schema_version, types
    /\ doc.gate = g
    /\ doc.repository \in {"unset", "this"}
    /\ {"expires_at", "approver", "change_id"} \subseteq doc.given
    /\ doc.expires > now

\* _load_exception_doc: one source, and an object in it.
ExceptionLoads(source) ==
    /\ source.json => ~source.path
    /\ source.doc.form = "object"

\* evaluate: the decision and its reason, of a state file.
EvidenceVerdict(state, g, source, now) ==
    CASE ~state.found                        -> <<"deny", "missing_evidence">>
      [] state.found /\ ~state.stale         -> <<"allow", "fresh_within_window">>
      [] state.found /\ state.stale ->
            IF ~source.json /\ ~source.path THEN <<"deny", "stale_no_exception">>
            ELSE IF ~ExceptionLoads(source) THEN <<"deny", "exception_load_error">>
            ELSE IF ExceptionValid(source.doc, g, now) THEN <<"allow", "snooze_active">>
            ELSE <<"deny", "exception_invalid_or_expired">>

-----------------------------------------------------------------------------
(* The route policy.                                                        *)

\* Mutant: the command line's days are the ones in force.
ReviewErrors_OwnAge(doc, r, now) ==
    doc.age[r] < 0 \/ doc.reviewed[r] < 0 \/ now - doc.reviewed[r] > ReviewAge

\* verify_reviewed_at_staleness with fail_on_stale, and the shape of the two
\* fields (validate_policy_metadata): a review in the future only warns.
ReviewErrors(doc, r, now) ==
    LET most == IF doc.age[r] > 0 THEN doc.age[r] ELSE ReviewAge
    IN  \/ doc.age[r] < 0
        \/ doc.reviewed[r] < 0
        \/ now - doc.reviewed[r] > most

\* validate_environment_entry and verify_escalation_rotation_refs: required:
\* the entry's other fields are as they must be; labels: its alert labels.
PagedProvider == {"pagerduty", "opsgenie"}
RowErrors(row) ==
    \/ ~row.required
    \/ row.provider \notin PagedProvider \cup {"alertmanager", "slack", "custom"}
    \/ row.provider \in PagedProvider /\ ~(row.escalation /\ row.rotation)
    \/ row.provider = "alertmanager" /\ ~row.labels

\* verify_policy_document and main, as the gate calls them.
RouteErrors(doc, now) ==
    \/ ~doc.readable
    \/ doc.version # 1
    \/ \E i \in DOMAIN doc.rows :
          \/ RowErrors(doc.rows[i])
          \/ \E j \in 1..(i - 1) : doc.rows[i].name = doc.rows[j].name
    \/ \E r \in RouteReview : ReviewErrors(doc, r, now)

-----------------------------------------------------------------------------
NoSource == [json |-> FALSE, path |-> FALSE, doc |-> CHOOSE e \in Exceptions : TRUE]
NoGate == [of |-> "none", at |-> "none", runs |-> 0, state |-> [found |-> FALSE, stale |-> FALSE],
           reason |-> "none", doc |-> NoSource.doc, admitted |-> 0, closed |-> 0]

GateInit ==
    /\ clock = 0
    /\ drills = {} /\ approvals = {}
    /\ exception = [g \in Gates |-> NoSource]
    /\ route \in RoutePolicies
    /\ gating = NoGate
    /\ acts = 0

Act == acts < MaxActs /\ acts' = acts + 1

Tick ==
    /\ clock < LastTick
    /\ clock' = clock + 1
    /\ UNCHANGED <<drills, approvals, exception, route, gating, acts>>

\* oncall-route-verification.yml posts to the provider and keeps the artifact.
LiveDrill ==
    /\ Act
    /\ drills' = drills \cup {clock}
    /\ UNCHANGED <<clock, approvals, exception, route, gating>>

\* _main_approve_artifact: a proposal is held against the policy now.
Approve ==
    /\ Act
    /\ \E doc \in Exceptions, g \in Gates :
          /\ SnoozePolicy.readable /\ doc.form = "object"
          /\ ExceptionValid(doc, g, clock)
          /\ WithinSnoozePolicy(doc, g, clock, SnoozePolicy)
          /\ approvals' = approvals \cup {[gate |-> g, at |-> clock, doc |-> doc]}
    /\ UNCHANGED <<clock, drills, exception, route, gating>>

\* An operator puts an exception, approved or not, in the secret, or a file of
\* the checkout, of some gate, or takes what is there away.
Configure ==
    /\ Act
    /\ \E g \in Gates :
          \/ \E doc \in Exceptions, where \in {"json", "path"} :
                exception' = [exception EXCEPT ![g] = [@ EXCEPT ![where] = TRUE, !.doc = doc]]
          \/ exception' = [exception EXCEPT ![g] = NoSource]
    /\ exception' # exception
    /\ UNCHANGED <<clock, drills, approvals, route, gating>>

\* The owners review a part of the route policy and date it.
ReviewRoute ==
    /\ Act
    /\ \E r \in RouteReview : route' = [route EXCEPT !.reviewed[r] = clock]
    /\ route' # route
    /\ UNCHANGED <<clock, drills, approvals, exception, gating>>

StartGate ==
    /\ gating.at \in {"none", "failed", "passed"}
    /\ gating.runs < MaxGates
    /\ \E g \in Gates : gating' = [NoGate EXCEPT !.of = g, !.at = "evidence", !.runs = gating.runs + 1]
    /\ UNCHANGED <<clock, drills, approvals, exception, route, acts>>

\* Mutant: a job that finds no evidence goes on, and calls it stale.
EvidenceState_NoExit(seen, g, now) ==
    [found |-> TRUE, stale |-> \A d \in seen : now - d > DrillAge[g]]

\* The newest of the drills seen, and whether it is too old; with none the
\* step fails before it writes a state file.
EvidenceState(seen, g, now) ==
    [found |-> seen # {}, stale |-> \A d \in seen : now - d > DrillAge[g]]

\* A run whose artifacts cannot be listed is passed over.
FindEvidence ==
    /\ gating.at = "evidence"
    /\ \E seen \in SUBSET drills :
          LET state == EvidenceState(seen, gating.of, clock)
          IN  gating' = [gating EXCEPT !.state = state, !.at = IF state.found THEN "evaluate" ELSE "failed"]
    /\ UNCHANGED <<clock, drills, approvals, exception, route, acts>>

EvaluateEvidence ==
    /\ gating.at = "evaluate"
    /\ LET verdict == EvidenceVerdict(gating.state, gating.of, exception[gating.of], clock)
       IN  gating' = [gating EXCEPT !.at = IF verdict[1] = "allow" THEN "route" ELSE "failed",
                                !.reason = verdict[2], !.admitted = clock,
                                !.doc = IF verdict[2] = "snooze_active"
                                        THEN exception[gating.of].doc ELSE NoSource.doc]
    /\ UNCHANGED <<clock, drills, approvals, exception, route, acts>>

VerifyRoute ==
    /\ gating.at = "route"
    /\ gating' = [gating EXCEPT !.at = IF route.configured /\ ~RouteErrors(route, clock)
                                   THEN "passed" ELSE "failed",
                            !.closed = clock]
    /\ UNCHANGED <<clock, drills, approvals, exception, route, acts>>

GateNext ==
    \/ Tick \/ LiveDrill \/ Approve \/ Configure \/ ReviewRoute
    \/ StartGate \/ FindEvidence \/ EvaluateEvidence \/ VerifyRoute

GateSpec == GateInit /\ [][GateNext]_gateVars

-----------------------------------------------------------------------------
(* Properties.                                                              *)

\* A snooze waives neither missing evidence nor a review: whatever exceptions are
\* about, a gate that let a release through follows a live drill; and when it
\* passed, every part of the route policy had been reviewed, within the days its
\* own document allows.
NoBlindRelease ==
    /\ gating.at \in {"route", "passed"} => drills # {}
    /\ gating.at = "passed" =>
        \A r \in RouteReview :
            /\ route.reviewed[r] >= 0
            /\ route.age[r] > 0 => gating.closed - route.reviewed[r] <= route.age[r]

\* What an approval buys: the document approved, wherever operators put it and
\* whenever, snoozes the evidence of the one gate it was approved for, and no
\* longer than the hours of that gate's policy from its approval.  (A document
\* that nobody approved is bound by what it says itself; no gate asks.)
ApprovalNotStretched ==
    gating.reason = "snooze_active" =>
        \A a \in approvals : a.doc = gating.doc =>
            /\ a.gate = gating.of
            /\ LET hours == EffectiveSnoozePolicy(SnoozePolicy, a.gate).hours
               IN  hours # 0 => gating.admitted < a.at + hours

===============================================================================
