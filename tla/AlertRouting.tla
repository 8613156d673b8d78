----------------------------- MODULE AlertRouting -----------------------------
(***************************************************************************)
(* The workers' alerts (ops_telemetry.py, alert_routing.py): after each    *)
(* batch a worker takes a snapshot of its queue, writes it to its sinks    *)
(* and, if a threshold is passed, pages; a cooldown kept in the process    *)
(* silences what it has paged about.  Failures to page are swallowed.  The *)
(* drill of deploy/scripts pages with the same configuration.              *)
(***************************************************************************)
EXTENDS Integers, FiniteSets

CONSTANTS
    OpsWorker,       \* worker processes, each of one thread
    Cooldown,        \* COHERENCE_FUND_OPS_ALERT_COOLDOWN_SECONDS, in ticks
    DeliveryTicks,   \* the longest a delivery takes (its timeout)
    RouterConfigs,   \* the configurations considered
    Metrics          \* the snapshots considered

ASSUME AlertAssumption == Cooldown \in Nat /\ DeliveryTicks \in Nat

VARIABLES
    router,     \* the configuration, the same for all processes
    pager,      \* worker |-> the alert it has in hand
    lastFired,  \* worker |-> key |-> ticks since the alert recorded for it
    heard,      \* history: worker |-> warn tags |-> ticks since the process
                \* began to send the last page about them that was acknowledged
    drill       \* what the last drill found

alertVars == <<router, pager, lastFired, heard, drill>>

-----------------------------------------------------------------------------
(* The snapshot.                                                            *)

Level   == {"depth", "oldest", "dlq"}
WarnTag == [depth |-> "queue_depth", oldest |-> "oldest_latency", dlq |-> "failed_dlq"]
NoAge   == -1    \* oldest_..._age_seconds of an empty queue

\* AlertRouterConfig; set: what has its key, URL or path; any other text for
\* dedupe is as good as component_tags.
RouterMode == {"none", "file", "webhook", "pagerduty", "opsgenie", "alertmanager"}
RouterType == [mode : RouterMode, set : SUBSET (RouterMode \ {"none"}),
               dedupe : {"component_tags", "component", "payload_hash"}, warn : [Level -> Int]]

ASSUME RouterAssumption ==
    RouterConfigs \subseteq RouterType /\ Metrics \subseteq [Level -> Int]

\* _scoring_warn_tags and _outbox_warn_tags: a threshold of 0 is none.
WarnTags(metrics, cfg) ==
    {WarnTag[l] : l \in {m \in Level : /\ cfg.warn[m] > 0
                                       /\ metrics[m] # NoAge
                                       /\ metrics[m] >= cfg.warn[m]}}

\* _dedupe_key_for_payload: the component is the worker's own, the payload is
\* as good as its metrics.
NoKey == [tags |-> {}, payload |-> {}]
DedupeKey(tags, metrics, cfg) ==
    CASE cfg.dedupe = "component"    -> NoKey
      [] cfg.dedupe = "payload_hash" -> [NoKey EXCEPT !.payload = {metrics}]
      [] OTHER                       -> [NoKey EXCEPT !.tags = tags]

-----------------------------------------------------------------------------
(* The channel.                                                             *)

\* Mutant: alertmanager has no use for the generic webhook.
ResolveDelivery_OwnUrlOnly(cfg) ==
    LET set == cfg.set
    IN  CASE cfg.mode \in {"file", "webhook"} -> cfg.mode
          [] cfg.mode \in set   -> cfg.mode
          [] cfg.mode \notin set /\ cfg.mode # "alertmanager" /\ "webhook" \in set -> "webhook"
          [] cfg.mode \notin set /\ "file" \in set -> "file"
          [] OTHER -> "unresolved"

\* _resolve_delivery: alertmanager posts to the webhook's URL when it has none
\* of its own.
ResolveDelivery(cfg) ==
    LET set == cfg.set
    IN  CASE cfg.mode \in {"file", "webhook"} -> cfg.mode
          [] cfg.mode \in {"pagerduty", "opsgenie"} ->
                IF cfg.mode \in set THEN cfg.mode
                ELSE IF "webhook" \in set THEN "webhook"
                ELSE IF "file" \in set THEN "file" ELSE "unresolved"
          [] cfg.mode = "alertmanager" ->
                IF set \cap {"alertmanager", "webhook"} # {} THEN "alertmanager"
                ELSE IF "file" \in set THEN "file" ELSE "unresolved"
          [] OTHER -> "unresolved"

\* What a channel needs: do_file and do_webhook raise without it.
Deliverable(cfg, channel) ==
    IF channel = "alertmanager" THEN cfg.set \cap {"alertmanager", "webhook"} # {}
                                ELSE channel \in cfg.set

\* verify_alert_router_config.
VerifyConfig(cfg) ==
    CASE cfg.mode = "none" -> {}
      [] cfg.mode \in {"file", "webhook"} ->
            IF cfg.mode \in cfg.set THEN {} ELSE {"unset"}
      [] cfg.mode = "pagerduty" ->
            IF cfg.set \cap {"pagerduty", "webhook", "file"} = {} THEN {"no_fallback"}
            ELSE IF cfg.set \cap {"pagerduty", "webhook"} = {} THEN {"file_only"} ELSE {}
      [] cfg.mode = "opsgenie" ->
            IF cfg.set \cap {"opsgenie", "webhook", "file"} = {} THEN {"no_fallback"} ELSE {}
      [] cfg.mode = "alertmanager" ->
            IF cfg.set \cap {"alertmanager", "webhook", "file"} = {} THEN {"no_fallback"} ELSE {}

-----------------------------------------------------------------------------
AllTags == {WarnTags(m, c) : m \in Metrics, c \in RouterConfigs}
AllKeys == {DedupeKey(WarnTags(m, c), m, c) : m \in Metrics, c \in RouterConfigs}
Never   == -1

NoAlert == [at |-> "loop", tags |-> {}, key |-> NoKey,
            took |-> 0, channel |-> "none", result |-> "none"]
NoDrill == [channel |-> "none", result |-> "none", exit |-> -1]

AlertInit ==
    /\ router \in RouterConfigs
    /\ pager = [w \in OpsWorker |-> NoAlert]
    /\ lastFired = [w \in OpsWorker |-> [k \in AllKeys |-> Never]]
    /\ heard = [w \in OpsWorker |-> [t \in AllTags |-> Never]]
    /\ drill = NoDrill

\* The batch is committed; the queue is whatever it is by then.
Snapshot(w) ==
    /\ pager[w].at = "loop"
    /\ \E m \in Metrics :
          LET tags == WarnTags(m, router)
          IN  pager' = [pager EXCEPT ![w] = [NoAlert EXCEPT !.at = "sinks", !.tags = tags,
                                                            !.key = DedupeKey(tags, m, router)]]
    /\ UNCHANGED <<router, lastFired, heard, drill>>

\* Mutant: an alert is silent for one tick too long.
WithinCooldown_Late(fired) == fired # Never /\ fired <= Cooldown

\* _within_cooldown; a record older than the cooldown says nothing.
WithinCooldown(fired) == fired # Never /\ fired < Cooldown

\* The file and the textfile are written; then the alert is silenced, has no
\* channel, or is to be sent.
RouteAlert(w) ==
    /\ pager[w].at = "sinks"
    /\ LET alert   == pager[w]
           channel == ResolveDelivery(router)
           Ended(result) == pager' = [pager EXCEPT ![w].at = "loop", ![w].result = result]
       IN  CASE alert.tags = {} \/ router.mode = "none" -> Ended("quiet")
             [] alert.tags # {} /\ router.mode # "none" ->
                   IF WithinCooldown(lastFired[w][alert.key]) THEN Ended("suppressed")
                   ELSE IF channel = "unresolved" THEN Ended("misconfigured")
                   ELSE IF ~Deliverable(router, channel) THEN Ended("failed")
                   ELSE pager' = [pager EXCEPT ![w].at = "deliver", ![w].channel = channel]
    /\ UNCHANGED <<router, lastFired, heard, drill>>

\* Mutant: only the last alert is remembered.
Recorded_LastOnly(fired, key, since) == [k \in AllKeys |-> IF k = key THEN since ELSE Never]

\* _record_alert_success, with the time before the delivery.
Recorded(fired, key, since) == [fired EXCEPT ![key] = since]

\* deliver(): acknowledged, or not (whether or not the page went out).
Deliver(w) ==
    /\ pager[w].at = "deliver"
    /\ \/ /\ lastFired' = [lastFired EXCEPT ![w] = Recorded(@, pager[w].key, pager[w].took)]
          /\ heard' = [heard EXCEPT ![w][pager[w].tags] = pager[w].took]
          /\ pager' = [pager EXCEPT ![w].at = "loop", ![w].result = "delivered"]
       \/ /\ pager' = [pager EXCEPT ![w].at = "loop", ![w].result = "failed"]
          /\ UNCHANGED <<lastFired, heard>>
    /\ UNCHANGED <<router, drill>>

\* The process starts anew: it was stopped, or a sink could not be written,
\* which nothing catches.
RestartWorker(w) ==
    /\ pager' = [pager EXCEPT ![w] = NoAlert]
    /\ lastFired' = [lastFired EXCEPT ![w] = [k \in AllKeys |-> Never]]
    /\ heard' = [heard EXCEPT ![w] = [t \in AllTags |-> Never]]
    /\ UNCHANGED <<router, drill>>

\* synthetic_alert_drill.py without --verify-only: it looks at no cooldown and
\* leaves none behind.
Drill ==
    /\ drill = NoDrill
    /\ \E strict \in BOOLEAN :
          LET channel == ResolveDelivery(router)
              Found(result, exit) ==
                  drill' = [channel |-> channel, result |-> result, exit |-> exit]
          IN  CASE strict /\ VerifyConfig(router) # {}   -> Found("verify", 1)
                [] ~strict \/ VerifyConfig(router) = {} ->
                      IF router.mode = "none" THEN Found("quiet", 0)
                      ELSE IF channel = "unresolved" THEN Found("misconfigured", 1)
                      ELSE IF ~Deliverable(router, channel) THEN Found("failed", 1)
                      ELSE Found("delivered", 0) \/ Found("failed", 1)
    /\ UNCHANGED <<router, pager, lastFired, heard>>

\* Ticks are counted as far as the cooldown and a delivery reach.
Later(since) == IF since \in 0..(Cooldown + DeliveryTicks) THEN since + 1 ELSE since

AlertTick ==
    /\ \A w \in OpsWorker : pager[w].at = "deliver" => pager[w].took < DeliveryTicks
    /\ pager' = [w \in OpsWorker |->
           IF pager[w].at = "deliver" THEN [pager[w] EXCEPT !.took = @ + 1]
           ELSE IF pager[w].at = "loop" THEN NoAlert ELSE pager[w]]
    /\ lastFired' = [w \in OpsWorker |-> [k \in AllKeys |-> Later(lastFired[w][k])]]
    /\ heard' = [w \in OpsWorker |-> [t \in AllTags |-> Later(heard[w][t])]]
    /\ UNCHANGED <<router, drill>>

AlertNext ==
    \/ \E w \in OpsWorker : Snapshot(w) \/ RouteAlert(w) \/ Deliver(w) \/ RestartWorker(w)
    \/ Drill \/ AlertTick

AlertSpec == AlertInit /\ [][AlertNext]_alertVars

-----------------------------------------------------------------------------
(* Properties.                                                              *)

\* No silence without a page: a process drops a warning only if, since it was
\* started, it paged (about the same tags, unless its key is the component
\* alone), was acknowledged, and began to within the cooldown.  A page that
\* failed, a drill or another process's page silence nothing.
SilenceJustified ==
    \A w \in OpsWorker :
        pager[w].result = "suppressed" =>
            \E t \in AllTags :
                /\ t # {} /\ (router.dedupe # "component" => t = pager[w].tags)
                /\ heard[w][t] \in 0..(Cooldown - 1)

\* A process does not page again about what it was heard about within the
\* cooldown, as long as its key is not of the whole payload.
PagedOncePerCooldown ==
    \A w \in OpsWorker :
        pager[w].at = "deliver" /\ router.dedupe # "payload_hash" =>
            \A t \in (IF router.dedupe = "component" THEN AllTags ELSE {pager[w].tags}) :
                heard[w][t] = Never \/ heard[w][t] >= Cooldown + pager[w].took

\* A configuration that the verification has nothing against has a channel: no
\* warning, and no drill, is lost for want of one.
VerifiedReachable ==
    VerifyConfig(router) = {} =>
        /\ router.mode # "none" => Deliverable(router, ResolveDelivery(router))
        /\ \A w \in OpsWorker : pager[w].result # "misconfigured"
        /\ drill.result # "misconfigured"

===============================================================================
