----------------------------- MODULE Attestation -----------------------------
(***************************************************************************)
(* Governance of the uncertainty policy (deploy/scripts and its workflows): *)
(* the baselines pin the policy file and carry the day of their approval;  *)
(* a scheduled report tells their age, a verification tells drift, an      *)
(* aggregation holds the latest reports to an SLA; a promotion needs an    *)
(* ownership attestation that is young enough, and one that is refused     *)
(* leaves an escalation that is routed to its stage's channel.  The routes  *)
(* are also proved on a schedule; each run reads the map, the variables and *)
(* the sink of its own job, whatever another one had.                       *)
(***************************************************************************)
EXTENDS Integers, FiniteSets

CONSTANTS
    Baseline,       \* the environments of the baselines file
    LastDay,        \* bound: when the model's calendar ends
    MaxAge,         \* --max-age-days, MAX_VAR
    Window,         \* --reminder-days-before-max, REM_VAR
    Cadence,        \* days between two scheduled reports
    MaxEdits,       \* bound: how often the policy file changes
    MaxPromotions,  \* bound: how many promotions are dispatched
    RoutingSetup    \* the routings a job may run with: a map, environment variables, a sink

ASSUME AttestationAssumption ==
    /\ MaxAge \in Nat /\ Window \in Nat /\ Cadence \in Nat \ {0}
    /\ Cadence <= Window + 1 /\ Window < MaxAge

VARIABLES
    day,
    policy,      \* the policy file's content, by its edits
    baselines,   \* environment |-> day of its approval, and the policy it pins
    reports,     \* the aging reports
    checks,      \* what the verification and the aggregation of today found, and the last proof
    promotion    \* the promotion that runs

attestationVars == <<day, policy, baselines, reports, checks, promotion>>

-----------------------------------------------------------------------------
(* The age.                                                                 *)

\* Mutant: reminders begin a day late.
AgeStatus_LateReminder(age) ==
    CASE age < 0      -> "future"
      [] age > MaxAge -> "stale"
      [] age \in (MaxAge - Window + 1)..MaxAge -> "reminder"
      [] OTHER        -> "ok"

\* The same for a baseline's approval and for an attestation.
AgeStatus(age) ==
    CASE age < 0      -> "future"
      [] age > MaxAge -> "stale"
      [] age \in (MaxAge - Window)..MaxAge -> "reminder"
      [] OTHER        -> "ok"

\* cmd_report: a row for each environment.
ReportNow ==
    [day  |-> day,
     rows |-> [e \in Baseline |->
                  [approved |-> baselines[e].approved, status |-> AgeStatus(day - baselines[e].approved)]]]

\* verify_baselines.
Drift == {e \in Baseline : baselines[e].pins # policy}

\* Mutant: the first report of the directory.
LatestReport_First(found) == CHOOSE r \in found : \A s \in found : r.day <= s.day

\* aggregate_reports: the latest of a repository.
LatestReport(found) == CHOOSE r \in found : \A s \in found : r.day >= s.day

\* evaluate_environment_sla with a policy that allows ok and reminder.
Breaches(report) == {e \in Baseline : report.rows[e].status \notin {"ok", "reminder"}}

-----------------------------------------------------------------------------
(* The channel of an escalation.                                            *)

PromotionStage == {"canary", "prod"}
NoVar == "none"

\* "empty" stands for no text; an entry of a map is a variable's name or NoVar.
RoutingType ==
    LET ByStage == [PromotionStage -> STRING]
    IN  [sink : {"empty", "noop", "other", "file", "webhook"}, byGithub : ByStage,
         byPromotion : ByStage, routes : ByStage, urls : SUBSET STRING, file : BOOLEAN,
         fileOf : ByStage, dry : BOOLEAN]

ASSUME RoutingAssumption == RoutingSetup \subseteq RoutingType

GithubVar == [canary |-> "GITHUB_canary", prod |-> "GITHUB_prod"]

FirstOf(names) ==
    CASE names[1] # NoVar -> names[1]
      [] names[1] = NoVar /\ names[2] # NoVar -> names[2]
      [] OTHER -> names[3]

\* Mutant: an entry of the map is for every stage.
MapWebhookVar_AnyStage(routing, stage) ==
    FirstOf(<<routing.byGithub["canary"], routing.byPromotion[stage], routing.routes[stage]>>)

\* _map_webhook_var.
MapWebhookVar(routing, stage) ==
    FirstOf(<<routing.byGithub[stage], routing.byPromotion[stage], routing.routes[stage]>>)

\* The variables that may hold a stage's URL, in the order they are looked up.
UrlVars(routing, stage) == <<MapWebhookVar(routing, stage), "DIRECT", stage, GithubVar[stage]>>

\* _resolve_webhook_url.
WebhookUrl(routing, stage) ==
    LET vars == UrlVars(routing, stage)
        set  == {i \in DOMAIN vars : vars[i] \in routing.urls}
    IN  IF set = {} THEN NoVar ELSE vars[CHOOSE i \in set : \A j \in set : i <= j]

\* _resolve_file_path: the variable before the map.
EscalationFile(routing, stage) ==
    IF routing.file THEN "FILE" ELSE FirstOf(<<routing.fileOf[stage], NoVar, NoVar>>)

\* _sink_from_env and "auto".
EffectiveSink(routing) ==
    IF routing.sink \in {"empty", "noop", "other"}
    THEN (IF routing.file THEN "file" ELSE "noop") ELSE routing.sink

\* emit_routing_proof, by the routing its own job has.
RoutingProof(routing) ==
    [under |-> routing,
     rows  |-> [s \in PromotionStage |-> [webhook |-> WebhookUrl(routing, s) # NoVar,
                                          file    |-> EscalationFile(routing, s)]]]

-----------------------------------------------------------------------------
NoPromotion == [stage |-> "canary", at |-> "none", breach |-> "none", sent |-> NoVar,
                outcome |-> "none", routing |-> {}, runs |-> 0]
NoDay    == -1
NoChecks == [drift |-> {}, compliant |-> FALSE, used |-> NoDay, proof |-> {}]

AttestationInit ==
    /\ day = 0 /\ policy = 0
    /\ baselines = [e \in Baseline |-> [approved |-> 0, pins |-> 0]]
    /\ reports = {}
    /\ checks = NoChecks
    /\ promotion = NoPromotion

ReportDue == day % Cadence = 0 /\ \A r \in reports : r.day # day

\* The scheduled report of a day is made on that day.
NextDay ==
    /\ day < LastDay /\ ~ReportDue
    /\ day' = day + 1
    /\ checks' = [NoChecks EXCEPT !.proof = checks.proof]
    /\ UNCHANGED <<policy, baselines, reports, promotion>>

AgingReport ==
    /\ ReportDue
    /\ reports' = reports \cup {ReportNow}
    /\ UNCHANGED <<day, policy, baselines, checks, promotion>>

EditPolicy ==
    /\ policy < MaxEdits
    /\ policy' = policy + 1
    /\ UNCHANGED <<day, baselines, reports, checks, promotion>>

\* A change review: the owners approve the policy as it is and date it.
ApproveBaseline(e) ==
    /\ baselines' = [baselines EXCEPT ![e] = [approved |-> day, pins |-> policy]]
    /\ baselines' # baselines
    /\ UNCHANGED <<day, policy, reports, checks, promotion>>

VerifyBaselines ==
    /\ checks' = [checks EXCEPT !.drift = Drift]
    /\ checks' # checks
    /\ UNCHANGED <<day, policy, baselines, reports, promotion>>

\* The trend aggregation, of whatever reports its input directory holds and it
\* can read: none, or old ones, and it does not ask how old.  It goes by the
\* latest of them; no row is no breach.
AggregateReports ==
    /\ \E found \in SUBSET reports :
          checks' = [checks EXCEPT
              !.compliant = found # {} => Breaches(LatestReport(found)) = {},
              !.used = IF found = {} THEN NoDay
                       ELSE CHOOSE d \in {r.day : r \in found} : \A r \in found : d >= r.day]
    /\ checks' # checks
    /\ UNCHANGED <<day, policy, baselines, reports, promotion>>

\* The recurring proof of the routes, in a workflow run of its own.
ProveRouting ==
    /\ \E routing \in RoutingSetup : checks' = [checks EXCEPT !.proof = {RoutingProof(routing)}]
    /\ checks' # checks
    /\ UNCHANGED <<day, policy, baselines, reports, promotion>>

\* A promotion is dispatched with the day of its attestation, or none that can
\* be read, or limits that are no numbers; the kind of its breach, which the
\* record tells, makes no difference to its route.
ValidateAttestation ==
    /\ promotion.runs < MaxPromotions
    /\ \E stage \in PromotionStage, given \in {"limits", "date", "day"}, eff \in 0..(day + 1) :
          LET breach == IF given # "day" \/ AgeStatus(day - eff) \in {"future", "stale"}
                        THEN "recorded" ELSE "none"
          IN  promotion' = [NoPromotion EXCEPT !.stage = stage, !.at = "route", !.breach = breach,
                                               !.runs = promotion.runs + 1]
    /\ promotion.at \in {"none", "blocked", "promoted"}
    /\ UNCHANGED <<day, policy, baselines, reports, checks>>

\* The step runs always, with the routing of the promotion's job, and finds a
\* record only of a refusal.
RouteEscalation ==
    \E routing \in RoutingSetup :
        LET stage == promotion.stage
            file  == EscalationFile(routing, stage)
            url   == WebhookUrl(routing, stage)
            Routed(to, outcome) ==
                promotion' = [promotion EXCEPT
                    !.at = IF promotion.breach = "none" THEN "promoted" ELSE "blocked",
                    !.sent = to, !.outcome = outcome, !.routing = {routing}]
        IN  /\ promotion.at = "route"
            /\ CASE promotion.breach = "none" -> Routed(NoVar, "no_record")
                 [] promotion.breach # "none" /\ EffectiveSink(routing) = "noop" -> Routed(NoVar, "noop")
                 [] promotion.breach # "none" /\ EffectiveSink(routing) = "file" ->
                       IF file = NoVar THEN Routed(NoVar, "skip")
                       ELSE Routed(file, "sent") \/ Routed(NoVar, "error")
                 [] promotion.breach # "none" /\ EffectiveSink(routing) = "webhook" ->
                       IF url = NoVar THEN Routed(NoVar, "skip")
                       ELSE IF routing.dry THEN Routed(NoVar, "dry_run")
                       ELSE Routed(url, "sent") \/ Routed(NoVar, "error")
            /\ UNCHANGED <<day, policy, baselines, reports, checks>>

AttestationNext ==
    \/ NextDay \/ AgingReport \/ EditPolicy \/ VerifyBaselines \/ AggregateReports \/ ProveRouting
    \/ ValidateAttestation \/ RouteEscalation
    \/ \E e \in Baseline : ApproveBaseline(e)

AttestationSpec == AttestationInit /\ [][AttestationNext]_attestationVars

-----------------------------------------------------------------------------
(* Properties.                                                              *)

\* No approval is called stale out of the blue: as long as reports are not
\* further apart than the reminder window is long, one of them called that
\* approval due before.
StaleForewarned ==
    \A r \in reports, e \in Baseline :
        r.rows[e].status = "stale" =>
            \E s \in reports : /\ s.day < r.day
                               /\ s.rows[e].approved = r.rows[e].approved
                               /\ s.rows[e].status = "reminder"

\* When the aggregation calls the SLA met, an approval may be older than the
\* limit by the age of the latest report it had, and by no more; of an aggregation
\* that had none nothing follows.
SlaLagBounded ==
    checks.compliant /\ checks.used # NoDay =>
        \A e \in Baseline : day - baselines[e].approved <= MaxAge + (day - checks.used)

\* The variables and files that are a stage's own, or everyone's.
OwnNames(routing, s) ==
    {routing.byGithub[s], routing.byPromotion[s], routing.routes[s], routing.fileOf[s],
     s, GithubVar[s], "DIRECT", "FILE"}

\* What of a routing concerns the webhook of one stage.
OwnView(routing, s) ==
    <<routing.byGithub[s], routing.byPromotion[s], routing.routes[s],
      routing.urls \cap OwnNames(routing, s)>>

\* An escalation goes to its stage's own channel, or the one for all stages.  One
\* is skipped in spite of a proof that found the stage's webhook only where the
\* two jobs differed in what concerns that stage: another stage's entries and
\* URLs, a file or a sink do not bring it about.
RoutedToOwn ==
    promotion.at = "blocked" =>
        LET s == promotion.stage
        IN  \A routing \in promotion.routing :
               /\ promotion.sent \in OwnNames(routing, s) \cup {NoVar}
               /\ EffectiveSink(routing) = "webhook" /\ promotion.outcome = "skip" =>
                     \A proof \in checks.proof :
                        proof.rows[s].webhook => OwnView(proof.under, s) # OwnView(routing, s)

===============================================================================
