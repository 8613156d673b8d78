------------------------------- MODULE MCFund -------------------------------
(***************************************************************************)
(* The parts of the fund that have a module of their own and share nothing *)
(* that they change: one is chosen at the start and runs by itself, the     *)
(* others rest in a state of their own Init.                               *)
(***************************************************************************)
EXTENDS Portfolio, FundApi, ApiKeys, TrackerHandoff, ReleaseGate, ProfileRegistry,
        AlertRouting, Attestation, Backtest, TLC

VARIABLE part

Parts == {"portfolio", "api", "keys", "handoff", "gate", "registry", "alerts", "attestation",
          "suite", "backtest"}

-----------------------------------------------------------------------------
(* Portfolio: five sixths of the capacity are promised already; three         *)
(* founders, one of them with two applications, and two domains.             *)

CONSTANTS a1, a2, a3, a4

MCCheckOf   == [a \in Candidate |-> 200]
MCFounderOf == a1 :> "f1" @@ a2 :> "f1" @@ a3 :> "f2" @@ a4 :> "f3"
MCDomainOf  == a1 :> "market_economics" @@ a2 :> "market_economics"
                 @@ a3 :> "governance" @@ a4 :> "governance"
MCFunded    == [market_economics |-> 800, governance |-> 400, public_health |-> 800]

-----------------------------------------------------------------------------
(* TrackerHandoff: a document of policies from the secret or a file, or none *)
(* at all; a good ticket and one each with something wrong.                  *)

GoodTicket == [file |-> "object", good |-> {"schema", "environment", "title", "labels"},
               repository |-> "owner/repo", project |-> "OPS"]
Tickets == {GoodTicket, [GoodTicket EXCEPT !.project = "empty"], [GoodTicket EXCEPT !.repository = "repo"],
            [GoodTicket EXCEPT !.good = @ \ {"schema"}], [GoodTicket EXCEPT !.file = "missing_payload_file"]}
AnyTarget == [url : {TRUE}, provider : {"empty", "jira", "github"}, ticket : Tickets, heeds : BOOLEAN,
              body : {{"id"}, {"number"}}]
ProductionTarget == [url |-> TRUE, provider |-> "github", ticket |-> GoodTicket, heeds |-> TRUE,
                     body |-> {"number"}]
StagingTargets == AnyTarget \cup {[ProductionTarget EXCEPT !.url = FALSE]}
Overlays == {<<>>, [max_attempts |-> 2], [mode |-> "off", max_attempts |-> 0],
             [retryable |-> {401, 700}, max_attempts |-> 3]}
SetupOf(inSecret, inFile, overlay, target) ==
    [secret |-> inSecret, path |-> inFile, defaults |-> [mode |-> "run_env_payload", max_attempts |-> 2],
     rows   |-> [staging |-> overlay, production |-> <<>>],
     target |-> [staging |-> target, production |-> ProductionTarget]]
MCSetup ==
    {SetupOf("unset", "doc", o, t) : o \in Overlays, t \in StagingTargets}
      \cup {SetupOf(s, "unset", <<>>, ProductionTarget) : s \in {"unset", "doc", "invalid"}}

-----------------------------------------------------------------------------
(* ReleaseGate: production's hours and codes are narrower than the others',  *)
(* and one of its two exceptions outlives what can be approved at first.     *)

ExceptionOf(g, repository, environment, code, expires) ==
    [form |-> "object", known |-> TRUE, gate |-> g, repository |-> repository,
     environment |-> environment, given |-> {"expires_at", "approver", "change_id", "reason"},
     code |-> code, expires |-> expires]
MCExceptions == {ExceptionOf("release", "this", "production", "INCIDENT", t) : t \in {1, 3}}
                  \cup {ExceptionOf("nonprod", "unset", "nonprod", "DRILL", 3)}
MCDrillAge == [release |-> 1, nonprod |-> 2]
MCSnoozePolicy ==
    [readable |-> TRUE,
     root  |-> [hours |-> 2, codes |-> {"INCIDENT"}, required |-> {"reason"}],
     gates |-> [release |-> [hours |-> 1], nonprod |-> [hours |-> 3, codes |-> {"INCIDENT", "DRILL"}]]]
GoodRoute ==
    [configured |-> TRUE, readable |-> TRUE, version |-> 1,
     reviewed |-> [escalation_ownership |-> 0, oncall_route_policy |-> 0, verification_evidence |-> -1],
     age      |-> [escalation_ownership |-> 1, oncall_route_policy |-> 0, verification_evidence |-> 0],
     rows     |-> <<[name |-> "prod", provider |-> "pagerduty", required |-> TRUE,
                     escalation |-> TRUE, rotation |-> TRUE, labels |-> FALSE]>>]
MCRoutePolicies == {GoodRoute, [GoodRoute EXCEPT !.rows[1].rotation = FALSE]}

-----------------------------------------------------------------------------
(* ProfileRegistry: the gates of data/governed/uncertainty_governance.json;  *)
(* a profile that meets all of them and one that meets the first stage's.    *)

Calibrated(coverage, width, n) == [coverage |-> coverage, width |-> width, records |-> n]
Limits(coverage, width, n) ==
    [min_coverage |-> coverage, max_mean_width |-> width, min_records |-> n]
GatesOf(gates, triggers) == gates @@ [max_drop |-> 2, max_increase |-> 2, triggers |-> triggers]
MCProfiles     == {Calibrated(94, 25, 60), Calibrated(86, 40, 10)}
MCHealthReport == {Calibrated(90, 30, 60), Calibrated(80, 30, 0)}
MCGatePolicy   == [shadow |-> GatesOf(Limits(85, 45, 5), Limits(75, 55, 3)),
                   canary |-> GatesOf(Limits(90, 35, 20), Limits(82, 42, 15)),
                   prod   |-> GatesOf(Limits(93, 28, 50), Limits(88, 35, 30))]

-----------------------------------------------------------------------------
(* AlertRouting: every mode with every set of channels.                      *)

Thresholds == [depth |-> 2, oldest |-> 1, dlq |-> 1]
RouterOf(mode, set, dedupe, warn) == [mode |-> mode, set |-> set, dedupe |-> dedupe, warn |-> warn]
Channels == {"file", "webhook", "pagerduty", "opsgenie", "alertmanager"}
MCRouterConfigs ==
    {RouterOf(m, s, "component_tags", Thresholds) : m \in Channels \cup {"none"}, s \in SUBSET Channels}
      \cup {RouterOf("pagerduty", {"pagerduty"}, d, [Thresholds EXCEPT !.oldest = 0]) :
               d \in {"component", "payload_hash"}}
MCMetrics == {[depth |-> 0, oldest |-> NoAge, dlq |-> 0], [depth |-> 2, oldest |-> 0, dlq |-> 0],
              [depth |-> 3, oldest |-> 0, dlq |-> 1]}

-----------------------------------------------------------------------------
(* Attestation: a map by GitHub environment, the same without the canary and  *)
(* dry, a file and no sink.                                                  *)

BothStages(name) == [canary |-> name, prod |-> name]
RoutingOf(sink, byGithub, urls, file, fileOf, dry) ==
    [sink |-> sink, byGithub |-> byGithub, byPromotion |-> BothStages(NoVar),
     routes |-> [canary |-> NoVar, prod |-> "ROUTE_PROD"],
     urls |-> urls, file |-> file, fileOf |-> fileOf, dry |-> dry]
MCRoutingSetup ==
    {RoutingOf("webhook", [canary |-> "GH_CANARY", prod |-> "GH_PROD"], {"GH_CANARY", "GH_PROD"},
               FALSE, BothStages(NoVar), FALSE),
     RoutingOf("webhook", [canary |-> NoVar, prod |-> "GH_PROD"], {"GH_PROD"},
               FALSE, BothStages(NoVar), TRUE),
     RoutingOf("file", BothStages(NoVar), {}, FALSE, [canary |-> NoVar, prod |-> "PATH_PROD"], FALSE),
     RoutingOf("empty", BothStages(NoVar), {}, FALSE, BothStages(NoVar), FALSE)}

-----------------------------------------------------------------------------
(* PitchScreening and Backtest: pitches clean and gamed, as good as a pitch   *)
(* can be otherwise, and each one thing worse; rows with every gap.           *)

GoodPitch ==
    [n |-> 20, template |-> 0, prior |-> 0, similarity |-> 30, long |-> 2, content |-> 8, denials |-> 0,
     layers |-> [l \in Layer |-> 1000], broken |-> {}, contradictions |-> 0, suspicious |-> 0,
     grounded |-> TRUE, isolated |-> 0, baseline |-> 200000, spread |-> 20000, length |-> 120]
GamedPitch == [GoodPitch EXCEPT !.template = 90, !.prior = 95, !.similarity = 95, !.content = 0,
                                !.long = 9, !.denials = 2]
MCPitches ==
    {GoodPitch, GamedPitch, [GoodPitch EXCEPT !.n = 1], [GoodPitch EXCEPT !.denials = 1],
     [GamedPitch EXCEPT !.similarity = 40], [GoodPitch EXCEPT !.template = 90, !.prior = 95],
     [GoodPitch EXCEPT !.contradictions = 4, !.suspicious = 1, !.isolated = 2, !.broken = {"embedding"}]}
FixtureOf(valid, pitch, compliance, label) ==
    [valid |-> valid, pitch |-> pitch, label |-> label,
     application |-> [requested |-> 50, domain |-> "market_economics", compliance |-> compliance]]
MCFixtures ==
    {FixtureOf(TRUE, p, c, l) : p \in MCPitches, c \in {"clear", "review_required"}, l \in Canon}
      \cup {FixtureOf(TRUE, GoodPitch, "clear", l) : l \in {"none", "fail"}}
      \cup {FixtureOf(FALSE, GoodPitch, "clear", "pass")}
MCSuites == {<<>>} \cup {<<f>> : f \in MCFixtures} \cup {<<f, g>> : f, g \in MCFixtures}

GoodRow == [absent |-> {}, superiority |-> 900000, outcome |-> 400000, spread |-> 20000,
            quality |-> 95, gaming |-> Missing, domain |-> Missing, compliance |-> Missing]
MCRows ==
    {[GoodRow EXCEPT !.quality = q, !.gaming = g, !.domain = d] :
        q \in {0, 60}, g \in {Missing, 0, 10, 30}, d \in {Missing, "governance"}}
      \cup {[GoodRow EXCEPT !.superiority = s, !.gaming = 10] : s \in {-1000000, 0, 1000000}}
      \cup {[GoodRow EXCEPT !.outcome = 0, !.gaming = 10, !.compliance = "blocked"],
            [GoodRow EXCEPT !.absent = {"n_contradictions"}],
            [GoodRow EXCEPT !.absent = {"layer_scores"}]}
MCDatasets == {<<>>} \cup {<<r>> : r \in MCRows} \cup {<<r, q>> : r, q \in MCRows}
MCSnapshots ==
    {Unset, Unreadable,
     [nav |-> 2400, reserve |-> 600, drawdown |-> 5, regime |-> "recovery",
      invested |-> [market_economics |-> 600, governance |-> 1100]]}

-----------------------------------------------------------------------------
(* One part runs; a part that rests has one state.                           *)

Chosen(p, v, S) == part # p => v = CHOOSE x \in S : TRUE

MCInit ==
    /\ part \in Parts
    /\ PortfolioInit
    /\ Chosen("registry", profileFile, Profiles) /\ RegistryInit
    /\ Chosen("keys", secret, {BootToken}) /\ KeysInit
    /\ Chosen("api", calls, [Call -> NewCall]) /\ ApiInit
    /\ Chosen("handoff", setup, Setup) /\ HandoffInit
    /\ Chosen("gate", route, RoutePolicies) /\ GateInit
    /\ Chosen("alerts", router, RouterConfigs) /\ AlertInit
    /\ AttestationInit /\ SuiteInit /\ BacktestInit

Resting(p) ==
    /\ part = p
    /\ p # "portfolio"   => UNCHANGED portfolioVars
    /\ p # "api"         => UNCHANGED apiVars
    /\ p # "keys"        => UNCHANGED keyVars
    /\ p # "handoff"     => UNCHANGED handoffVars
    /\ p # "gate"        => UNCHANGED gateVars
    /\ p # "registry"    => UNCHANGED registryVars
    /\ p # "alerts"      => UNCHANGED alertVars
    /\ p # "attestation" => UNCHANGED attestationVars
    /\ p # "suite"       => UNCHANGED suite
    /\ p # "backtest"    => UNCHANGED backtest
    /\ UNCHANGED part

MCNext ==
    \/ Resting("portfolio")   /\ PortfolioNext
    \/ Resting("api")         /\ ApiNext
    \/ Resting("keys")        /\ KeysNext
    \/ Resting("handoff")     /\ HandoffNext
    \/ Resting("gate")        /\ GateNext
    \/ Resting("registry")    /\ RegistryNext
    \/ Resting("alerts")      /\ AlertNext
    \/ Resting("attestation") /\ AttestationNext
    \/ Resting("suite")       /\ SuiteNext
    \/ Resting("backtest")    /\ BacktestNext

fundVars == <<part, portfolioVars, apiVars, keyVars, handoffVars, gateVars, registryVars, alertVars,
              attestationVars, suite, backtest>>

MCSpec == MCInit /\ [][MCNext]_fundVars

===============================================================================
