--------------------------- MODULE OperationsProofs ---------------------------
(***************************************************************************)
(* The theorems about what the operators rely on: the alerts of the        *)
(* workers (AlertRouting) and the registry of uncertainty profiles         *)
(* (ProfileRegistry), for any workers, clerks, configurations and bounds.  *)
(***************************************************************************)
EXTENDS AlertRouting, ProfileRegistry, WellFoundedInduction, SequenceTheorems, TLAPS

-----------------------------------------------------------------------------
(* The channel.                                                             *)

\* What has passed the verification has a channel, and what the channel needs.
LEMMA VerifiedResolves ==
    ASSUME NEW cfg \in RouterType, VerifyConfig(cfg) = {}, cfg.mode # "none"
    PROVE  ResolveDelivery(cfg) # "unresolved" /\ Deliverable(cfg, ResolveDelivery(cfg))
<1>1. CASE cfg.mode \in {"file", "webhook"}
  <2>1. ResolveDelivery(cfg) = cfg.mode /\ cfg.mode \in cfg.set
    BY <1>1 DEF ResolveDelivery, VerifyConfig
  <2> QED
    BY <1>1, <2>1 DEF Deliverable
<1>2. CASE cfg.mode = "pagerduty"
  <2>1. "pagerduty" \in cfg.set \/ "webhook" \in cfg.set
    BY <1>2 DEF VerifyConfig
  <2>2. ResolveDelivery(cfg) \in cfg.set \cap {"pagerduty", "webhook"}
    BY <1>2, <2>1 DEF ResolveDelivery
  <2> QED
    BY <2>2 DEF Deliverable
<1>3. CASE cfg.mode = "opsgenie"
  <2>1. "opsgenie" \in cfg.set \/ "webhook" \in cfg.set \/ "file" \in cfg.set
    BY <1>3 DEF VerifyConfig
  <2>2. ResolveDelivery(cfg) \in cfg.set \cap {"opsgenie", "webhook", "file"}
    BY <1>3, <2>1 DEF ResolveDelivery
  <2> QED
    BY <2>2 DEF Deliverable
<1>4. CASE cfg.mode = "alertmanager"
  <2>1. cfg.set \cap {"alertmanager", "webhook", "file"} # {}
    BY <1>4 DEF VerifyConfig
  <2>2. CASE cfg.set \cap {"alertmanager", "webhook"} # {}
    <3>1. ResolveDelivery(cfg) = "alertmanager"
      BY <1>4, <2>2 DEF ResolveDelivery
    <3> QED
      BY <2>2, <3>1 DEF Deliverable
  <2>3. CASE cfg.set \cap {"alertmanager", "webhook"} = {}
    <3>1. ResolveDelivery(cfg) = "file" /\ "file" \in cfg.set
      BY <1>4, <2>1, <2>3 DEF ResolveDelivery
    <3> QED
      BY <3>1 DEF Deliverable
  <2> QED
    BY <2>2, <2>3
<1> QED
  BY <1>1, <1>2, <1>3, <1>4 DEF RouterType, RouterMode

-----------------------------------------------------------------------------
(* The alerts.                                                              *)

Since     == Never..(Cooldown + DeliveryTicks + 1)
AlertType == [at : {"loop", "sinks", "deliver"}, tags : AllTags \cup {{}},
              key : AllKeys \cup {NoKey}, took : 0..DeliveryTicks,
              channel : {"none", "file", "webhook", "pagerduty", "opsgenie", "alertmanager",
                         "unresolved"},
              result : {"none", "quiet", "suppressed", "misconfigured", "failed", "delivered"}]

AlertTypeOK ==
    /\ router \in RouterConfigs
    /\ pager \in [OpsWorker -> AlertType]
    /\ lastFired \in [OpsWorker -> [AllKeys -> Since]]
    /\ heard \in [OpsWorker -> [AllTags -> Since]]

\* An alert with these tags may have this key.
KeyOf(t, k) == \E m \in Metrics : t = WarnTags(m, router) /\ k = DedupeKey(t, m, router)

\* The alert that a worker has in hand, and what it left behind.
AlertInHand(w) ==
    LET alert == pager[w]
    IN  /\ alert.at # "loop" => KeyOf(alert.tags, alert.key) /\ alert.result = "none"
        /\ alert.at = "sinks" => alert.took = 0
        /\ alert.at = "deliver" => alert.tags # {}

\* Every record of an alert is of a page that was heard, about tags of its key;
\* and it is older than the delivery that goes on.
RecordsHeard(w) ==
    \A k \in AllKeys : lastFired[w][k] # Never =>
        /\ \E t \in AllTags : t # {} /\ KeyOf(t, k) /\ heard[w][t] \in 0..lastFired[w][k]
        /\ pager[w].at = "deliver" => pager[w].took <= lastFired[w][k]

\* A page that was heard left its record, unless the key is of the payload.
HeardRecorded(w) ==
    router.dedupe # "payload_hash" =>
        \A t \in AllTags : heard[w][t] # Never =>
            \E k \in AllKeys : KeyOf(t, k) /\ lastFired[w][k] \in 0..heard[w][t]

\* SilenceJustified and PagedOncePerCooldown, of a worker.
Silenced(w) ==
    pager[w].result = "suppressed" =>
        \E t \in AllTags : /\ t # {} /\ (router.dedupe # "component" => t = pager[w].tags)
                           /\ heard[w][t] \in 0..(Cooldown - 1)
PagesOnce(w) ==
    pager[w].at = "deliver" /\ router.dedupe # "payload_hash" =>
        \A t \in (IF router.dedupe = "component" THEN AllTags ELSE {pager[w].tags}) :
            heard[w][t] = Never \/ heard[w][t] >= Cooldown + pager[w].took

WorkerInv(w) ==
    /\ AlertInHand(w) /\ RecordsHeard(w) /\ HeardRecorded(w) /\ Silenced(w) /\ PagesOnce(w)
    /\ VerifyConfig(router) = {} => pager[w].result # "misconfigured"

AlertInv ==
    /\ AlertTypeOK
    /\ \A w \in OpsWorker : WorkerInv(w)
    /\ VerifyConfig(router) = {} => drill.result # "misconfigured"

LEMMA NeverTyped == Never \in Since /\ Never \in Int /\ Never < 0
BY AlertAssumption DEF Never, Since

LEMMA KeysKnown ==
    ASSUME router \in RouterConfigs, NEW t, NEW k, KeyOf(t, k)
    PROVE  t \in AllTags /\ k \in AllKeys
BY DEF KeyOf, AllTags, AllKeys

\* Unless the key is of the payload, the tags have one key, and unless it is of
\* the component, a key has one set of tags.
LEMMA SameKey ==
    ASSUME router.dedupe # "payload_hash", NEW t, NEW k, NEW u, NEW l, KeyOf(t, k), KeyOf(u, l),
           router.dedupe = "component" \/ t = u
    PROVE  k = l
BY DEF KeyOf, DedupeKey

LEMMA SameTags ==
    ASSUME router.dedupe # "component", NEW t, NEW u, NEW k, KeyOf(t, k), KeyOf(u, k)
    PROVE  t = u
<1>1. PICK m \in Metrics : t = WarnTags(m, router) /\ k = DedupeKey(t, m, router)
  BY DEF KeyOf
<1>2. PICK n \in Metrics : u = WarnTags(n, router) /\ k = DedupeKey(u, n, router)
  BY DEF KeyOf
<1>3. CASE router.dedupe = "payload_hash"
  <2>1. k = [NoKey EXCEPT !.payload = {m}] /\ k = [NoKey EXCEPT !.payload = {n}]
    BY <1>1, <1>2, <1>3 DEF DedupeKey
  <2>2. k.payload = {m} /\ k.payload = {n}
    BY <2>1 DEF NoKey
  <2> QED
    BY <1>1, <1>2, <2>2
<1>4. CASE router.dedupe # "payload_hash"
  <2>1. k = [NoKey EXCEPT !.tags = t] /\ k = [NoKey EXCEPT !.tags = u]
    BY <1>1, <1>2, <1>4 DEF DedupeKey
  <2> QED
    BY <2>1 DEF NoKey
<1> QED
  BY <1>3, <1>4

\* Time passes alike for the records and what was heard.
LEMMA LaterMoves ==
    ASSUME NEW s \in Since
    PROVE  /\ Later(s) \in Since /\ (Later(s) = Never <=> s = Never)
           /\ \A r \in Since : r \in 0..s => Later(r) \in 0..Later(s)
           /\ \A n \in 0..(DeliveryTicks - 1) :
                 /\ s # Never /\ n <= s => n + 1 <= Later(s)
                 /\ s # Never /\ Cooldown + n <= s => Cooldown + (n + 1) <= Later(s)
BY AlertAssumption DEF Since, Never, Later

\* A worker that a step leaves alone.
LEMMA WorkerStays ==
    ASSUME NEW w \in OpsWorker, WorkerInv(w), router' = router,
           pager'[w] = pager[w], lastFired'[w] = lastFired[w], heard'[w] = heard[w]
    PROVE  WorkerInv(w)'
<1>1. \A t, k : KeyOf(t, k)' <=> KeyOf(t, k)
  BY DEF KeyOf, WarnTags, DedupeKey
<1>2. VerifyConfig(router)' = VerifyConfig(router)
  BY DEF VerifyConfig
<1> QED
  BY <1>1, <1>2 DEF WorkerInv, AlertInHand, RecordsHeard, HeardRecorded, Silenced, PagesOnce

LEMMA AlertInitially == AlertInit => AlertInv
<1> SUFFICES ASSUME AlertInit PROVE AlertInv
  OBVIOUS
<1>1. NoAlert \in AlertType /\ NoAlert.at = "loop" /\ NoAlert.result = "none"
  BY AlertAssumption DEF NoAlert, AlertType
<1>2. /\ router \in RouterConfigs /\ pager \in [OpsWorker -> AlertType]
      /\ lastFired \in [OpsWorker -> [AllKeys -> Since]]
      /\ heard \in [OpsWorker -> [AllTags -> Since]]
  BY <1>1, NeverTyped DEF AlertInit
<1>3. ASSUME NEW w \in OpsWorker
      PROVE  WorkerInv(w)
  <2>1. /\ pager[w] = NoAlert /\ \A k \in AllKeys : lastFired[w][k] = Never
        /\ \A t \in AllTags : heard[w][t] = Never
    BY DEF AlertInit
  <2> QED
    BY <1>1, <2>1 DEF WorkerInv, AlertInHand, RecordsHeard, HeardRecorded, Silenced, PagesOnce
<1>4. drill.result = "none"
  BY DEF AlertInit, NoDrill
<1> QED
  BY <1>2, <1>3, <1>4 DEF AlertInv, AlertTypeOK

\* A worker's step, by its rows.
LEMMA WorkerMoves ==
    ASSUME AlertInv, NEW w \in OpsWorker, NEW row \in AlertType,
           NEW fired \in [AllKeys -> Since], NEW told \in [AllTags -> Since],
           pager' = [pager EXCEPT ![w] = row], lastFired' = [lastFired EXCEPT ![w] = fired],
           heard' = [heard EXCEPT ![w] = told], UNCHANGED <<router, drill>>,
           WorkerInv(w)'
    PROVE  AlertInv'
<1>1. AlertTypeOK'
  BY DEF AlertInv, AlertTypeOK
<1>2. ASSUME NEW d \in OpsWorker
      PROVE  WorkerInv(d)'
  <2>1. CASE d = w
    BY <2>1
  <2>2. CASE d # w
    <3>1. pager'[d] = pager[d] /\ lastFired'[d] = lastFired[d] /\ heard'[d] = heard[d]
      BY <2>2 DEF AlertInv, AlertTypeOK
    <3> QED
      BY <3>1, WorkerStays DEF AlertInv
  <2> QED
    BY <2>1, <2>2
<1>3. VerifyConfig(router)' = VerifyConfig(router)
  BY DEF VerifyConfig
<1> QED
  BY <1>1, <1>2, <1>3 DEF AlertInv

\* A step that pages no one.
LEMMA PagerMoves ==
    ASSUME AlertInv, NEW w \in OpsWorker, NEW row \in AlertType,
           pager' = [pager EXCEPT ![w] = row], UNCHANGED <<router, lastFired, heard, drill>>,
           row.at # "loop" => KeyOf(row.tags, row.key) /\ row.result = "none" /\ row.took = 0,
           row.at = "deliver" =>
              /\ row.tags # {}
              /\ router.dedupe # "payload_hash" =>
                    \A t \in (IF router.dedupe = "component" THEN AllTags ELSE {row.tags}) :
                        heard[w][t] = Never \/ heard[w][t] >= Cooldown,
           row.result = "suppressed" =>
              \E t \in AllTags : /\ t # {} /\ (router.dedupe # "component" => t = row.tags)
                                 /\ heard[w][t] \in 0..(Cooldown - 1),
           VerifyConfig(router) = {} => row.result # "misconfigured"
    PROVE  AlertInv'
<1>0. /\ pager \in [OpsWorker -> AlertType] /\ WorkerInv(w)
      /\ lastFired[w] \in [AllKeys -> Since] /\ heard[w] \in [AllTags -> Since]
      /\ lastFired \in [OpsWorker -> [AllKeys -> Since]]
      /\ heard \in [OpsWorker -> [AllTags -> Since]]
  BY DEF AlertInv, AlertTypeOK
<1>1. pager'[w] = row /\ UNCHANGED <<lastFired[w], heard[w]>>
  BY <1>0
<1>2. \A t, k : KeyOf(t, k)' <=> KeyOf(t, k)
  BY DEF KeyOf, WarnTags, DedupeKey
<1>3. VerifyConfig(router)' = VerifyConfig(router)
  BY DEF VerifyConfig
<1>4. AlertInHand(w)'
  BY <1>1, <1>2 DEF AlertInHand
<1>5. RecordsHeard(w)'
  <2>1. \A k \in AllKeys : lastFired[w][k] # Never => lastFired[w][k] >= 0
    BY <1>0 DEF Since, Never
  <2> QED
    BY <1>0, <1>1, <1>2, <2>1 DEF WorkerInv, RecordsHeard
<1>6. HeardRecorded(w)'
  BY <1>0, <1>1, <1>2 DEF WorkerInv, HeardRecorded
<1>7. Silenced(w)' 
  BY <1>1 DEF Silenced
<1>8. PagesOnce(w)'
  <2>1. row.at = "deliver" => row.took = 0
    OBVIOUS
  <2>2. Cooldown + 0 = Cooldown
    BY AlertAssumption
  <2> QED
    BY <1>1, <2>1, <2>2 DEF PagesOnce
<1>9. WorkerInv(w)'
  BY <1>1, <1>3, <1>4, <1>5, <1>6, <1>7, <1>8 DEF WorkerInv
<1>10. lastFired' = [lastFired EXCEPT ![w] = lastFired[w]] /\ heard' = [heard EXCEPT ![w] = heard[w]]
  BY <1>0
<1> QED
  BY <1>0, <1>9, <1>10, WorkerMoves

LEMMA SnapshotMoves ==
    ASSUME AlertInv, NEW w \in OpsWorker, Snapshot(w)
    PROVE  AlertInv'
<1>1. PICK m \in Metrics :
         LET tags == WarnTags(m, router)
         IN  pager' = [pager EXCEPT ![w] = [NoAlert EXCEPT !.at = "sinks", !.tags = tags,
                                                           !.key = DedupeKey(tags, m, router)]]
  BY DEF Snapshot
<1> DEFINE tags == WarnTags(m, router)
           key  == DedupeKey(tags, m, router)
           row  == [NoAlert EXCEPT !.at = "sinks", !.tags = tags, !.key = key]
<1>2. pager' = [pager EXCEPT ![w] = row]
  BY <1>1
<1>3. KeyOf(tags, key) /\ tags \in AllTags /\ key \in AllKeys
  BY KeysKnown DEF KeyOf, AlertInv, AlertTypeOK
<1> HIDE DEF tags, key
<1>4. /\ row \in AlertType /\ row.at = "sinks" /\ row.tags = tags /\ row.key = key /\ row.took = 0
      /\ row.result = "none"
  <2>1. 0 \in 0..DeliveryTicks
    BY AlertAssumption
  <2>2. /\ NoAlert \in AlertType /\ NoAlert.took = 0 /\ NoAlert.result = "none"
        /\ DOMAIN NoAlert = {"at", "tags", "key", "took", "channel", "result"}
    BY <2>1 DEF NoAlert, AlertType
  <2> QED
    BY <1>3, <2>2 DEF AlertType
<1> HIDE DEF row
<1> QED
  BY <1>2, <1>3, <1>4, PagerMoves DEF Snapshot

LEMMA RouteAlertMoves ==
    ASSUME AlertInv, NEW w \in OpsWorker, RouteAlert(w)
    PROVE  AlertInv'
<1> DEFINE alert   == pager[w]
           channel == ResolveDelivery(router)
           since   == lastFired[w][alert.key]
<1>0. /\ alert \in AlertType /\ alert.at = "sinks" /\ WorkerInv(w) /\ router \in RouterType
      /\ pager \in [OpsWorker -> AlertType] /\ UNCHANGED <<router, lastFired, heard, drill>>
  BY RouterAssumption DEF RouteAlert, AlertInv, AlertTypeOK
<1>1. /\ KeyOf(alert.tags, alert.key) /\ alert.result = "none" /\ alert.took = 0
      /\ alert.tags \in AllTags /\ alert.key \in AllKeys
  BY <1>0, KeysKnown DEF WorkerInv, AlertInHand, AlertInv, AlertTypeOK
<1>2. /\ since \in Since /\ Cooldown \in Nat /\ Never = -1
      /\ \A t \in AllTags : heard[w][t] \in Since
  BY <1>1, AlertAssumption DEF AlertInv, AlertTypeOK, Never
<1>3. \/ \E result \in {"quiet", "failed"} :
            pager' = [pager EXCEPT ![w].at = "loop", ![w].result = result]
      \/ /\ pager' = [pager EXCEPT ![w].at = "loop", ![w].result = "misconfigured"]
         /\ router.mode # "none" /\ channel = "unresolved"
      \/ /\ pager' = [pager EXCEPT ![w].at = "loop", ![w].result = "suppressed"]
         /\ WithinCooldown(since)
      \/ /\ pager' = [pager EXCEPT ![w].at = "deliver", ![w].channel = channel]
         /\ alert.tags # {} /\ ~WithinCooldown(since)
  BY DEF RouteAlert
<1>4. ASSUME NEW result \in {"quiet", "failed", "misconfigured", "suppressed"},
             pager' = [pager EXCEPT ![w].at = "loop", ![w].result = result],
             result = "misconfigured" => router.mode # "none" /\ channel = "unresolved",
             result = "suppressed" => WithinCooldown(since)
      PROVE  AlertInv'
  <2> DEFINE row == [alert EXCEPT !.at = "loop", !.result = result]
  <2>1. pager' = [pager EXCEPT ![w] = row]
    BY <1>0, <1>4
  <2> HIDE DEF alert
  <2>2. row \in AlertType /\ row.at = "loop" /\ row.result = result /\ row.tags = alert.tags
    BY <1>0 DEF AlertType
  <2> HIDE DEF row
  <2>3. ASSUME result = "suppressed"
        PROVE  \E t \in AllTags : /\ t # {} /\ (router.dedupe # "component" => t = alert.tags)
                                  /\ heard[w][t] \in 0..(Cooldown - 1)
    <3>1. since # Never /\ since < Cooldown
      BY <1>4, <2>3 DEF WithinCooldown
    <3>2. PICK t \in AllTags : t # {} /\ KeyOf(t, alert.key) /\ heard[w][t] \in 0..since
      BY <1>0, <1>1, <3>1 DEF WorkerInv, RecordsHeard
    <3>3. router.dedupe # "component" => t = alert.tags
      BY <1>1, <3>2, SameTags
    <3>4. heard[w][t] \in 0..(Cooldown - 1)
      <4> HIDE DEF since
      <4> QED
        BY <1>2, <3>1, <3>2 DEF Since
    <3> QED
      BY <3>2, <3>3, <3>4
  <2>4. VerifyConfig(router) = {} => result # "misconfigured"
    BY <1>0, <1>4, VerifiedResolves
  <2> HIDE DEF channel, since
  <2> QED
    BY <1>0, <2>1, <2>2, <2>3, <2>4, PagerMoves
<1>5. ASSUME pager' = [pager EXCEPT ![w].at = "deliver", ![w].channel = channel],
             alert.tags # {}, ~WithinCooldown(since)
      PROVE  AlertInv'
  <2> DEFINE row == [alert EXCEPT !.at = "deliver", !.channel = channel]
  <2>1. pager' = [pager EXCEPT ![w] = row]
    BY <1>0, <1>5
  <2>2. channel \in {"file", "webhook", "pagerduty", "opsgenie", "alertmanager", "unresolved"}
    BY <1>0 DEF ResolveDelivery, RouterType, RouterMode
  <2> HIDE DEF channel, alert
  <2>3. /\ row \in AlertType /\ row.at = "deliver" /\ row.tags = alert.tags /\ row.key = alert.key
        /\ row.took = 0 /\ row.result = "none"
    BY <1>0, <1>1, <2>2 DEF AlertType
  <2> HIDE DEF row
  <2>4. ASSUME router.dedupe # "payload_hash",
               NEW t \in (IF router.dedupe = "component" THEN AllTags ELSE {alert.tags}),
               heard[w][t] # Never
        PROVE  heard[w][t] >= Cooldown
    <3>1. t \in AllTags
      BY <1>1, <2>4
    <3>2. PICK k \in AllKeys : KeyOf(t, k) /\ lastFired[w][k] \in 0..heard[w][t]
      BY <1>0, <2>4, <3>1 DEF WorkerInv, HeardRecorded
    <3>3. k = alert.key
      BY <1>1, <2>4, <3>2, SameKey
    <3>4. since \in 0..heard[w][t]
      BY <3>2, <3>3
    <3>5. since >= Cooldown
      <4>1. since # Never
        BY <1>2, <3>4
      <4> QED
        BY <1>2, <1>5, <4>1 DEF WithinCooldown, Since
    <3> HIDE DEF since
    <3> QED
      BY <1>2, <3>1, <3>4, <3>5 DEF Since
  <2>5. router.dedupe # "payload_hash" =>
           \A t \in (IF router.dedupe = "component" THEN AllTags ELSE {row.tags}) :
               heard[w][t] = Never \/ heard[w][t] >= Cooldown
    BY <2>3, <2>4
  <2>6. KeyOf(row.tags, row.key) /\ row.tags # {}
    BY <1>1, <1>5, <2>3
  <2> HIDE DEF since
  <2>7. /\ row.at # "loop" /\ row.at # "sinks"
        /\ row.result # "suppressed" /\ row.result # "misconfigured"
    BY <2>3
  <2> QED
    BY <1>0, <2>1, <2>3, <2>5, <2>6, <2>7, PagerMoves
<1> HIDE DEF since, channel, alert
<1> QED
  BY <1>3, <1>4, <1>5

LEMMA DeliverMoves ==
    ASSUME AlertInv, NEW w \in OpsWorker, Deliver(w)
    PROVE  AlertInv'
<1> DEFINE alert == pager[w]
<1>0. /\ alert \in AlertType /\ alert.at = "deliver" /\ WorkerInv(w)
      /\ pager \in [OpsWorker -> AlertType] /\ UNCHANGED <<router, drill>>
      /\ lastFired \in [OpsWorker -> [AllKeys -> Since]]
      /\ heard \in [OpsWorker -> [AllTags -> Since]]
  BY DEF Deliver, AlertInv, AlertTypeOK
<1>1. /\ KeyOf(alert.tags, alert.key) /\ alert.tags # {}
      /\ alert.tags \in AllTags /\ alert.key \in AllKeys
  BY <1>0, KeysKnown DEF WorkerInv, AlertInHand, AlertInv, AlertTypeOK
<1>2. CASE /\ pager' = [pager EXCEPT ![w].at = "loop", ![w].result = "failed"]
           /\ UNCHANGED <<lastFired, heard>>
  <2> DEFINE row == [alert EXCEPT !.at = "loop", !.result = "failed"]
  <2>1. pager' = [pager EXCEPT ![w] = row]
    BY <1>0, <1>2
  <2>2. row \in AlertType /\ row.at = "loop" /\ row.result = "failed"
    BY <1>0 DEF AlertType
  <2> HIDE DEF row
  <2> QED
    BY <1>0, <1>2, <2>1, <2>2, PagerMoves
<1>3. CASE /\ lastFired' = [lastFired EXCEPT ![w] = Recorded(@, pager[w].key, pager[w].took)]
           /\ heard' = [heard EXCEPT ![w][pager[w].tags] = pager[w].took]
           /\ pager' = [pager EXCEPT ![w].at = "loop", ![w].result = "delivered"]
  <2> DEFINE took  == alert.took
             row   == [alert EXCEPT !.at = "loop", !.result = "delivered"]
             fired == [lastFired[w] EXCEPT ![alert.key] = took]
             told  == [heard[w] EXCEPT ![alert.tags] = took]
  <2>1. /\ pager' = [pager EXCEPT ![w] = row] /\ lastFired' = [lastFired EXCEPT ![w] = fired]
        /\ heard' = [heard EXCEPT ![w] = told]
    BY <1>0, <1>3 DEF Recorded
  <2>2. row \in AlertType /\ row.at = "loop" /\ row.result = "delivered"
    BY <1>0 DEF AlertType
  <2>3. took \in Since /\ took # Never /\ took \in Nat
    BY <1>0, AlertAssumption DEF AlertType, Since, Never
  <2>4. /\ fired \in [AllKeys -> Since] /\ told \in [AllTags -> Since]
        /\ \A k \in AllKeys : fired[k] = IF k = alert.key THEN took ELSE lastFired[w][k]
        /\ \A t \in AllTags : told[t] = IF t = alert.tags THEN took ELSE heard[w][t]
    BY <1>0, <1>1, <2>3
  <2> HIDE DEF row, fired, told, took
  <2>5. pager'[w] = row /\ lastFired'[w] = fired /\ heard'[w] = told
    BY <1>0, <2>1
  <2>6. \A t, k : KeyOf(t, k)' <=> KeyOf(t, k)
    BY <1>0 DEF KeyOf, WarnTags, DedupeKey
  <2>7. ASSUME NEW k \in AllKeys, lastFired[w][k] # Never
        PROVE  took <= lastFired[w][k] /\ lastFired[w][k] \in Nat
    BY <1>0, <2>7 DEF WorkerInv, RecordsHeard, Since, Never, took
  <2>8. RecordsHeard(w)'
    <3> SUFFICES ASSUME NEW k \in AllKeys, fired[k] # Never
                 PROVE  \E t \in AllTags : t # {} /\ KeyOf(t, k) /\ told[t] \in 0..fired[k]
      BY <2>2, <2>5, <2>6 DEF RecordsHeard
    <3>1. CASE k = alert.key
      BY <1>1, <2>3, <2>4, <3>1
    <3>2. CASE k # alert.key
      <4>1. PICK t \in AllTags : t # {} /\ KeyOf(t, k) /\ heard[w][t] \in 0..lastFired[w][k]
        BY <1>0, <2>4, <3>2 DEF WorkerInv, RecordsHeard
      <4>2. fired[k] = lastFired[w][k] /\ took <= lastFired[w][k]
        BY <2>4, <2>7, <3>2
      <4>3. told[t] \in {took, heard[w][t]}
        BY <2>4
      <4> QED
        BY <2>3, <2>4, <2>7, <3>2, <4>1, <4>2, <4>3
    <3> QED
      BY <3>1, <3>2
  <2>9. HeardRecorded(w)'
    <3> SUFFICES ASSUME router.dedupe # "payload_hash", NEW t \in AllTags, told[t] # Never
                 PROVE  \E k \in AllKeys : KeyOf(t, k) /\ fired[k] \in 0..told[t]
      BY <1>0, <2>5, <2>6 DEF HeardRecorded
    <3>1. CASE t = alert.tags
      BY <1>1, <2>3, <2>4, <3>1
    <3>2. CASE t # alert.tags
      <4>1. PICK k \in AllKeys : KeyOf(t, k) /\ lastFired[w][k] \in 0..heard[w][t]
        BY <1>0, <2>4, <3>2 DEF WorkerInv, HeardRecorded
      <4>2. lastFired[w][k] # Never
        BY <4>1 DEF Never
      <4>3. fired[k] \in {took, lastFired[w][k]} /\ took <= lastFired[w][k]
        BY <2>4, <2>7, <4>2
      <4>4. heard[w][t] \in Int /\ told[t] = heard[w][t]
        BY <1>0, <2>4, <3>2 DEF Since, Never
      <4> QED
        BY <2>3, <2>7, <4>1, <4>2, <4>3, <4>4
    <3> QED
      BY <3>1, <3>2
  <2>10. AlertInHand(w)' /\ Silenced(w)' /\ PagesOnce(w)'
    BY <2>2, <2>5 DEF AlertInHand, Silenced, PagesOnce
  <2>11. WorkerInv(w)'
    BY <2>2, <2>5, <2>8, <2>9, <2>10 DEF WorkerInv
  <2> QED
    BY <1>0, <2>1, <2>2, <2>4, <2>11, WorkerMoves
<1> QED
  BY <1>2, <1>3 DEF Deliver

LEMMA RestartMoves ==
    ASSUME AlertInv, NEW w \in OpsWorker, RestartWorker(w)
    PROVE  AlertInv'
<1> DEFINE fired == [k \in AllKeys |-> Never]
           told  == [t \in AllTags |-> Never]
<1>1. NoAlert \in AlertType /\ NoAlert.at = "loop" /\ NoAlert.result = "none"
  BY AlertAssumption DEF NoAlert, AlertType
<1>2. fired \in [AllKeys -> Since] /\ told \in [AllTags -> Since]
  BY NeverTyped
<1>3. /\ pager' = [pager EXCEPT ![w] = NoAlert] /\ lastFired' = [lastFired EXCEPT ![w] = fired]
      /\ heard' = [heard EXCEPT ![w] = told] /\ UNCHANGED <<router, drill>>
  BY DEF RestartWorker
<1>4. /\ pager'[w] = NoAlert /\ \A k \in AllKeys : lastFired'[w][k] = Never
      /\ \A t \in AllTags : heard'[w][t] = Never
  BY <1>3 DEF AlertInv, AlertTypeOK
<1>5. WorkerInv(w)'
  BY <1>1, <1>4 DEF WorkerInv, AlertInHand, RecordsHeard, HeardRecorded, Silenced, PagesOnce
<1> HIDE DEF fired, told
<1> QED
  BY <1>1, <1>2, <1>3, <1>5, WorkerMoves

LEMMA DrillMoves == AlertInv /\ Drill => AlertInv'
<1> SUFFICES ASSUME AlertInv, Drill PROVE AlertInv'
  OBVIOUS
<1>1. UNCHANGED <<router, pager, lastFired, heard>>
  BY DEF Drill
<1>2. router \in RouterType
  BY RouterAssumption DEF AlertInv, AlertTypeOK
<1>3. VerifyConfig(router) = {} => drill'.result # "misconfigured"
  <2> SUFFICES ASSUME VerifyConfig(router) = {} PROVE drill'.result # "misconfigured"
    OBVIOUS
  <2>1. router.mode # "none" => ResolveDelivery(router) # "unresolved"
    BY <1>2, VerifiedResolves
  <2>2. drill'.result \in {"quiet", "failed", "delivered"}
    BY <2>1 DEF Drill
  <2> QED
    BY <2>2
<1>4. VerifyConfig(router)' = VerifyConfig(router)
  BY <1>1 DEF VerifyConfig
<1>5. \A w \in OpsWorker : WorkerInv(w)'
  BY <1>1, WorkerStays DEF AlertInv
<1> QED
  BY <1>1, <1>3, <1>4, <1>5 DEF AlertInv, AlertTypeOK

LEMMA AlertTickMoves == AlertInv /\ AlertTick => AlertInv'
<1> SUFFICES ASSUME AlertInv, AlertTick PROVE AlertInv'
  OBVIOUS
<1>0. /\ pager \in [OpsWorker -> AlertType] /\ UNCHANGED <<router, drill>>
      /\ lastFired \in [OpsWorker -> [AllKeys -> Since]]
      /\ heard \in [OpsWorker -> [AllTags -> Since]]
      /\ \A w \in OpsWorker : WorkerInv(w)
      /\ \A w \in OpsWorker : pager[w].at = "deliver" => pager[w].took < DeliveryTicks
  BY DEF AlertTick, AlertInv, AlertTypeOK
<1> DEFINE Row(w) == IF pager[w].at = "deliver" THEN [pager[w] EXCEPT !.took = @ + 1]
                     ELSE IF pager[w].at = "loop" THEN NoAlert ELSE pager[w]
<1>1. ASSUME NEW w \in OpsWorker
      PROVE  /\ Row(w) \in AlertType
             /\ Row(w).at = pager[w].at
             /\ pager[w].at = "deliver" =>
                   /\ pager[w].took \in 0..(DeliveryTicks - 1) /\ Row(w).took = pager[w].took + 1
                   /\ Row(w).tags = pager[w].tags /\ Row(w).key = pager[w].key
                   /\ Row(w).result = pager[w].result
             /\ pager[w].at = "sinks" => Row(w) = pager[w]
             /\ pager[w].at = "loop" => Row(w).result = "none"
  <2>1. CASE pager[w].at = "deliver"
    <3> DEFINE took == pager[w].took + 1
    <3>1. pager[w].took \in 0..(DeliveryTicks - 1) /\ took \in 0..DeliveryTicks
      BY <1>0, <2>1, AlertAssumption DEF AlertType
    <3>2. Row(w) = [pager[w] EXCEPT !.took = took]
      BY <2>1
    <3>a. pager[w] \in AlertType
      BY <1>0
    <3> DEFINE row == [pager[w] EXCEPT !.took = took]
    <3> HIDE DEF took
    <3>3. row \in AlertType /\ row.took = took
      BY <3>1, <3>a DEF AlertType
    <3>4. /\ row.tags = pager[w].tags /\ row.key = pager[w].key
          /\ row.result = pager[w].result /\ row.at = pager[w].at
      BY <3>a DEF AlertType
    <3> HIDE DEF row, Row
    <3> QED
      BY <2>1, <3>1, <3>2, <3>3, <3>4 DEF took, row
  <2>2. CASE pager[w].at = "loop"
    <3>1. NoAlert \in AlertType /\ NoAlert.at = "loop" /\ NoAlert.result = "none"
      BY AlertAssumption DEF NoAlert, AlertType
    <3> QED
      BY <2>2, <3>1
  <2>3. CASE pager[w].at = "sinks"
    BY <1>0, <2>3
  <2> QED
    BY <1>0, <2>1, <2>2, <2>3 DEF AlertType
<1>2. /\ pager' = [w \in OpsWorker |-> Row(w)]
      /\ \A w \in OpsWorker : pager'[w] = Row(w)
  BY DEF AlertTick
<1> HIDE DEF Row
<1>3. /\ lastFired' \in [OpsWorker -> [AllKeys -> Since]]
      /\ heard' \in [OpsWorker -> [AllTags -> Since]]
      /\ \A w \in OpsWorker : /\ \A k \in AllKeys : lastFired'[w][k] = Later(lastFired[w][k])
                              /\ \A t \in AllTags : heard'[w][t] = Later(heard[w][t])
  BY <1>0, LaterMoves DEF AlertTick
<1>4. \A t, k : KeyOf(t, k)' <=> KeyOf(t, k)
  BY <1>0 DEF KeyOf, WarnTags, DedupeKey
<1>5. VerifyConfig(router)' = VerifyConfig(router)
  BY <1>0 DEF VerifyConfig
<1>6. AlertTypeOK'
  <2>1. pager' \in [OpsWorker -> AlertType]
    BY <1>1, <1>2
  <2> QED
    BY <1>0, <1>3, <2>1 DEF AlertInv, AlertTypeOK
<1>7. ASSUME NEW w \in OpsWorker
      PROVE  WorkerInv(w)'
  <2>0. /\ AlertInHand(w) /\ RecordsHeard(w) /\ HeardRecorded(w) /\ Silenced(w) /\ PagesOnce(w)
        /\ VerifyConfig(router) = {} => pager[w].result # "misconfigured"
        /\ pager[w].at \in {"loop", "sinks", "deliver"}
    BY <1>0 DEF WorkerInv, AlertType
  <2>1. /\ pager'[w].at # "loop" => KeyOf(pager'[w].tags, pager'[w].key)
        /\ pager'[w].result = "none"
    BY <1>1, <1>2, <2>0 DEF AlertInHand
  <2>2. AlertInHand(w)'
    BY <1>1, <1>2, <1>4, <2>0, <2>1 DEF AlertInHand
  <2>3. ASSUME NEW k \in AllKeys
        PROVE  /\ lastFired[w][k] \in Since
               /\ lastFired'[w][k] = Later(lastFired[w][k])
    BY <1>0, <1>3
  <2>4. ASSUME NEW t \in AllTags
        PROVE  /\ heard[w][t] \in Since
               /\ heard'[w][t] = Later(heard[w][t])
    BY <1>0, <1>3
  <2>5. RecordsHeard(w)'
    <3> SUFFICES ASSUME NEW k \in AllKeys, lastFired'[w][k] # Never
                 PROVE  /\ \E t \in AllTags : t # {} /\ KeyOf(t, k) /\ heard'[w][t] \in 0..lastFired'[w][k]
                        /\ pager'[w].at = "deliver" => pager'[w].took <= lastFired'[w][k]
      BY <1>4 DEF RecordsHeard
    <3>1. lastFired[w][k] # Never
      BY <2>3, LaterMoves
    <3>2. PICK t \in AllTags : t # {} /\ KeyOf(t, k) /\ heard[w][t] \in 0..lastFired[w][k]
      BY <2>0, <3>1 DEF RecordsHeard
    <3>3. heard'[w][t] \in 0..lastFired'[w][k]
      BY <2>3, <2>4, <3>2, LaterMoves
    <3>4. ASSUME pager'[w].at = "deliver"
          PROVE  pager'[w].took <= lastFired'[w][k]
      <4>1. /\ pager[w].at = "deliver" /\ pager[w].took \in 0..(DeliveryTicks - 1)
            /\ pager'[w].took = pager[w].took + 1
        BY <1>1, <1>2, <3>4
      <4>2. pager[w].took <= lastFired[w][k]
        BY <2>0, <3>1, <4>1 DEF RecordsHeard
      <4> QED
        BY <2>3, <3>1, <4>1, <4>2, LaterMoves
    <3> QED
      BY <3>2, <3>3, <3>4
  <2>6. HeardRecorded(w)'
    <3> SUFFICES ASSUME router.dedupe # "payload_hash", NEW t \in AllTags, heard'[w][t] # Never
                 PROVE  \E k \in AllKeys : KeyOf(t, k) /\ lastFired'[w][k] \in 0..heard'[w][t]
      BY <1>0, <1>4 DEF HeardRecorded
    <3>1. heard[w][t] # Never
      BY <2>4, LaterMoves
    <3>2. PICK k \in AllKeys : KeyOf(t, k) /\ lastFired[w][k] \in 0..heard[w][t]
      BY <2>0, <3>1 DEF HeardRecorded
    <3> QED
      BY <2>3, <2>4, <3>2, LaterMoves
  <2>7. Silenced(w)'
    BY <1>1, <1>2, <2>0, <2>1 DEF Silenced
  <2>8. PagesOnce(w)'
    <3> SUFFICES ASSUME pager'[w].at = "deliver", router.dedupe # "payload_hash",
                        NEW t \in (IF router.dedupe = "component" THEN AllTags ELSE {pager'[w].tags}),
                        heard'[w][t] # Never
                 PROVE  heard'[w][t] >= Cooldown + pager'[w].took
      BY <1>0 DEF PagesOnce
    <3>1. /\ pager[w].at = "deliver" /\ pager[w].took \in 0..(DeliveryTicks - 1)
          /\ pager'[w].took = pager[w].took + 1 /\ pager'[w].tags = pager[w].tags
      BY <1>1, <1>2
    <3>2. t \in AllTags
      <4>1. pager[w].tags \in AllTags
        BY <2>0, <3>1, KeysKnown DEF AlertInHand, AlertInv, AlertTypeOK
      <4> QED
        BY <3>1, <4>1
    <3>3. heard[w][t] # Never
      BY <2>4, <3>2, LaterMoves
    <3>4. heard[w][t] >= Cooldown + pager[w].took
      BY <2>0, <3>1, <3>3 DEF PagesOnce
    <3>5. Cooldown + (pager[w].took + 1) <= Later(heard[w][t])
      <4> DEFINE n == pager[w].took
                 s == heard[w][t]
      <4>1. n \in 0..(DeliveryTicks - 1) /\ s \in Since /\ s # Never /\ Cooldown + n <= s
        BY <2>4, <3>1, <3>2, <3>3, <3>4, AlertAssumption DEF Since, Never
      <4> HIDE DEF n, s
      <4>2. Cooldown + (n + 1) <= Later(s)
        BY <4>1, LaterMoves
      <4> QED
        BY <4>2 DEF n, s
    <3>6. Later(heard[w][t]) \in Int /\ pager[w].took \in Int /\ Cooldown \in Int
      BY <2>4, <3>1, <3>2, LaterMoves, AlertAssumption DEF Since, Never
    <3> QED
      BY <2>4, <3>1, <3>2, <3>5, <3>6
  <2>9. VerifyConfig(router) = {} => pager'[w].result # "misconfigured"
    BY <1>1, <1>2, <2>0, <2>1
  <2> QED
    BY <1>5, <2>2, <2>5, <2>6, <2>7, <2>8, <2>9 DEF WorkerInv
<1> QED
  BY <1>0, <1>5, <1>6, <1>7 DEF AlertInv

LEMMA AlertStep == AlertInv /\ [AlertNext]_alertVars => AlertInv'
<1> SUFFICES ASSUME AlertInv, [AlertNext]_alertVars
             PROVE  AlertInv'
  OBVIOUS
<1>1. CASE UNCHANGED alertVars
  <2>1. UNCHANGED <<router, pager, lastFired, heard, drill>>
    BY <1>1 DEF alertVars
  <2>2. \A w \in OpsWorker : WorkerInv(w)'
    BY <2>1, WorkerStays DEF AlertInv
  <2>3. VerifyConfig(router)' = VerifyConfig(router)
    BY <2>1 DEF VerifyConfig
  <2> QED
    BY <2>1, <2>2, <2>3 DEF AlertInv, AlertTypeOK
<1> QED
  BY <1>1, SnapshotMoves, RouteAlertMoves, DeliverMoves, RestartMoves, DrillMoves, AlertTickMoves
     DEF AlertNext

LEMMA AlertAlways == AlertSpec => []AlertInv
BY AlertInitially, AlertStep, PTL DEF AlertSpec

\* A warning is dropped only where the process was heard, about the same, no
\* longer ago than the cooldown.
THEOREM SilenceIsJustified == AlertSpec => []SilenceJustified
<1>1. AlertInv => SilenceJustified
  BY DEF AlertInv, WorkerInv, Silenced, SilenceJustified
<1> QED
  BY <1>1, AlertAlways, PTL

\* A process does not page twice about the same within the cooldown.
THEOREM PagesOncePerCooldown == AlertSpec => []PagedOncePerCooldown
<1>1. AlertInv => PagedOncePerCooldown
  BY DEF AlertInv, WorkerInv, PagesOnce, PagedOncePerCooldown
<1> QED
  BY <1>1, AlertAlways, PTL

\* A configuration that the verification has nothing against always finds its
\* channel.
THEOREM VerifiedIsReachable == AlertSpec => []VerifiedReachable
<1>1. AlertInv => VerifiedReachable
  BY VerifiedResolves, RouterAssumption DEF AlertInv, AlertTypeOK, WorkerInv, VerifiedReachable
<1> QED
  BY <1>1, AlertAlways, PTL

-----------------------------------------------------------------------------
(* What a history leads to.  Replayed is a function that recurs on the       *)
(* length of the history; the lemmas below say that there is one such        *)
(* function, and what one entry more makes of it.                            *)

LEMMA SetInduction ==
    ASSUME NEW S, 0 \in S, \A n \in Nat : n \in S => n + 1 \in S
    PROVE  Nat \subseteq S
<1> DEFINE R == {ss \in Nat \X Nat : ss[1] < ss[2]}
           T == Nat \ S
<1>1. IsWellFoundedOn(R, Nat)
  BY NatLessThanWellFounded DEF OpToRel
<1>2. SUFFICES ASSUME T # {} PROVE FALSE
  OBVIOUS
<1>3. PICK x \in T : \A y \in T : ~(<<y, x>> \in R)
  <2> HIDE DEF R
  <2> QED
    BY <1>1, <1>2, WFMin
<1>4. \A y \in T : ~(y < x)
  BY <1>3
<1>5. x - 1 \in Nat
  OBVIOUS
<1>6. x - 1 \in S
  BY <1>4, <1>5
<1> QED
  BY <1>5, <1>6

ReplayStep(before, entry, s) ==
    CASE entry.stage # s                                -> before
      [] entry.stage = s /\ entry.event = "promote"     -> Append(before, entry.profile)
      [] OTHER                                          -> SubSeq(before, 1, Len(before) - 1)

IsReplay(f, h, s, m) ==
    f = [n \in 0..m |-> IF n = 0 THEN <<>> ELSE ReplayStep(f[n - 1], h[n], s)]

LEMMA ReplayExists ==
    ASSUME NEW h, NEW s, NEW m \in Nat
    PROVE  \E f : IsReplay(f, h, s, m)
<1> DEFINE S == {n \in Nat : \E f : IsReplay(f, h, s, n)}
<1>1. 0 \in S
  <2> DEFINE f == [n \in 0..0 |-> <<>>]
  <2>1. f = [n \in 0..0 |-> IF n = 0 THEN <<>> ELSE ReplayStep(f[n - 1], h[n], s)]
    OBVIOUS
  <2> HIDE DEF f
  <2>2. IsReplay(f, h, s, 0)
    BY <2>1 DEF IsReplay
  <2> QED
    BY <2>2
<1>2. ASSUME NEW n \in Nat, n \in S
      PROVE  n + 1 \in S
  <2>1. PICK f : IsReplay(f, h, s, n)
    BY <1>2
  <2> DEFINE g == [i \in 0..(n + 1) |-> IF i = n + 1 THEN ReplayStep(f[n], h[n + 1], s) ELSE f[i]]
             r == [i \in 0..(n + 1) |-> IF i = 0 THEN <<>> ELSE ReplayStep(g[i - 1], h[i], s)]
  <2>2. ASSUME NEW i \in 0..(n + 1)
        PROVE  g[i] = r[i]
    <3>1. CASE i = 0
      <4>1. f[0] = <<>>
        BY <2>1 DEF IsReplay
      <4> QED
        BY <3>1, <4>1
    <3>2. CASE i \in 1..n
      <4>1. f[i] = ReplayStep(f[i - 1], h[i], s)
        BY <2>1, <3>2 DEF IsReplay
      <4>2. g[i] = f[i] /\ g[i - 1] = f[i - 1] /\ r[i] = ReplayStep(g[i - 1], h[i], s)
        BY <3>2
      <4> QED
        BY <4>1, <4>2
    <3>3. CASE i = n + 1
      <4>1. g[i] = ReplayStep(f[n], h[n + 1], s) /\ g[i - 1] = f[n]
        BY <3>3
      <4>2. r[i] = ReplayStep(g[i - 1], h[i], s)
        BY <3>3
      <4> QED
        BY <3>3, <4>1, <4>2
    <3> QED
      BY <3>1, <3>2, <3>3
  <2>3. g = r
    BY <2>2
  <2>4. IsReplay(g, h, s, n + 1)
    <3> HIDE DEF g
    <3> QED
      BY <2>3 DEF IsReplay
  <2> HIDE DEF g
  <2> QED
    BY <2>4
<1> HIDE DEF S
<1>3. Nat \subseteq S
  BY <1>1, <1>2, SetInduction
<1> QED
  BY <1>3 DEF S

LEMMA ReplayUnique ==
    ASSUME NEW h, NEW k, NEW s, NEW m \in Nat, NEW l \in Nat, m <= l,
           NEW f, IsReplay(f, h, s, m), NEW g, IsReplay(g, k, s, l),
           \A n \in 1..m : h[n] = k[n]
    PROVE  f[m] = g[m]
<1> DEFINE S == {n \in Nat : n <= m => f[n] = g[n]}
<1>1. 0 \in S
  BY DEF IsReplay
<1>2. ASSUME NEW n \in Nat, n \in S
      PROVE  n + 1 \in S
  <2> SUFFICES ASSUME n + 1 <= m PROVE f[n + 1] = g[n + 1]
    OBVIOUS
  <2>1. f[n] = g[n] /\ h[n + 1] = k[n + 1] /\ n + 1 \in 1..m /\ (n + 1) - 1 = n
    BY <1>2
  <2>2. f[n + 1] = ReplayStep(f[(n + 1) - 1], h[n + 1], s)
    BY <2>1 DEF IsReplay
  <2>3. g[n + 1] = ReplayStep(g[(n + 1) - 1], k[n + 1], s)
    BY <2>1 DEF IsReplay
  <2> QED
    BY <2>1, <2>2, <2>3
<1> HIDE DEF S
<1>3. Nat \subseteq S
  BY <1>1, <1>2, SetInduction
<1> QED
  BY <1>3 DEF S

\* Replayed is the value of the function.
LEMMA ReplayedIs ==
    ASSUME NEW h, Len(h) \in Nat, NEW s
    PROVE  \E f : IsReplay(f, h, s, Len(h)) /\ Replayed(h, s) = f[Len(h)]
<1> DEFINE F == CHOOSE f : IsReplay(f, h, s, Len(h))
<1>1. IsReplay(F, h, s, Len(h))
  BY ReplayExists
<1>2. Replayed(h, s) = F[Len(h)]
  BY DEF Replayed, IsReplay, ReplayStep
<1> QED
  BY <1>1, <1>2

LEMMA ReplayedEmpty == ASSUME NEW s PROVE Replayed(<<>>, s) = <<>>
<1>1. Len(<<>>) = 0
  OBVIOUS
<1>2. PICK f : IsReplay(f, <<>>, s, Len(<<>>)) /\ Replayed(<<>>, s) = f[Len(<<>>)]
  BY <1>1, ReplayedIs
<1> QED
  BY <1>1, <1>2 DEF IsReplay

\* An entry more is a step more.
LEMMA ReplayedAppend ==
    ASSUME NEW E, NEW h \in Seq(E), NEW entry \in E, NEW s
    PROVE  Replayed(Append(h, entry), s) = ReplayStep(Replayed(h, s), entry, s)
<1> DEFINE k == Append(h, entry)
           m == Len(h)
<1>1. /\ m \in Nat /\ Len(k) = m + 1 /\ k[m + 1] = entry
      /\ \A n \in 1..m : h[n] = k[n]
  OBVIOUS
<1>2. PICK f : IsReplay(f, h, s, m) /\ Replayed(h, s) = f[m]
  BY <1>1, ReplayedIs
<1> HIDE DEF k, m
<1>3. PICK g : IsReplay(g, k, s, m + 1) /\ Replayed(k, s) = g[m + 1]
  <2>1. Len(k) \in Nat
    BY <1>1
  <2>2. \E g : IsReplay(g, k, s, Len(k)) /\ Replayed(k, s) = g[Len(k)]
    BY <2>1, ReplayedIs
  <2> QED
    BY <1>1, <2>2
<1>4. f[m] = g[m]
  <2>1. m + 1 \in Nat /\ m <= m + 1
    BY <1>1
  <2> QED
    BY <1>1, <1>2, <1>3, <2>1, ReplayUnique
<1>5. g[m + 1] = ReplayStep(g[m], k[m + 1], s)
  <2>1. m + 1 \in 0..(m + 1) /\ m + 1 # 0 /\ (m + 1) - 1 = m
    BY <1>1
  <2>2. g[m + 1] = ReplayStep(g[(m + 1) - 1], k[m + 1], s)
    BY <1>3, <2>1 DEF IsReplay
  <2> QED
    BY <2>1, <2>2
<1> QED
  BY <1>1, <1>2, <1>3, <1>4, <1>5 DEF k

-----------------------------------------------------------------------------
(* The registry.                                                            *)

Block        == [active : Profile, stack : Seq(Profile)]
Entry        == [event : {"promote", "rollback"}, stage : Stage, profile : Profile]
RegistryType == [stages : [Stage -> Block], history : Seq(Entry)]
Line         == [event : {"promote", "rollback"}, stage : Stage, approved : BOOLEAN]
Command      == [at : {"away", "load", "reread", "save", "read", "append"}, op : {"none", "promote", "rollback"},
                 stage : Stage, profile : Profile, approved : BOOLEAN,
                 written : BOOLEAN, copy : RegistryType, lines : Seq(Line)]

RegistryTypeOK ==
    /\ registry \in RegistryType
    /\ auditLog \in Seq(Line)
    /\ clerk \in [Clerk -> Command]
    /\ profileFile \in Profile
    /\ disturbed \in Nat

\* The profiles that may be in a stage whatever the gates say of them.
Excuses == forced \cup swapped

\* A profile that may be in a stage, of what has been excused.
Met(s, p, f) ==
    \/ <<s, p>> \in f
    \/ /\ p.coverage >= GatePolicy[s].min_coverage
       /\ p.width <= GatePolicy[s].max_mean_width
       /\ p.records >= GatePolicy[s].min_records

\* A stage of a registry is what the history leads to, of profiles that may be
\* there; under no profile there is none.
BlockSound(block, history, s, f) ==
    /\ block.active = NoProfile => block.stack = <<>>
    /\ block.active # NoProfile => Met(s, block.active, f)
    /\ \A i \in 1..Len(block.stack) : block.stack[i] # NoProfile /\ Met(s, block.stack[i], f)
    /\ Replayed(history, s) =
          IF block.active = NoProfile THEN <<>> ELSE Append(block.stack, block.active)

Sound(reg, f) == \A s \in Stage : BlockSound(reg.stages[s], reg.history, s, f)

\* Each command holds what it needs: as long as the file was not written, what
\* it read or is about to read met the gates it was held to, and its copy was the
\* registry once.
CommandSound(me, f, file) ==
    /\ me.at # "away" => me.op \in {"promote", "rollback"}
    /\ me.at = "reread" => me.op = "promote"
    /\ me.at \in {"load", "reread"} /\ me.op = "promote" /\ me.approved /\ ~me.written =>
          Met(me.stage, file, {})
    /\ me.at = "save" /\ me.op = "promote" =>
          /\ me.profile # NoProfile
          /\ me.approved /\ ~me.written => Met(me.stage, me.profile, {})
    /\ me.at \in {"reread", "save"} => Sound(me.copy, f)
    /\ me.at = "save" /\ me.op = "rollback" => me.copy.stages[me.stage].stack # <<>>

\* A log that tells a history.
Tells(log, history) ==
    /\ Len(log) = Len(history)
    /\ \A i \in 1..Len(log) : log[i].event = history[i].event /\ log[i].stage = history[i].stage

\* Undisturbed, one command runs at a time, and the log is behind by its change.
Undisturbed ==
    disturbed = 0 =>
        /\ \A c, d \in Clerk : clerk[c].at # "away" /\ clerk[d].at # "away" => c = d
        /\ (\A c \in Clerk : clerk[c].at \in {"away", "load", "reread", "save"}) =>
              Tells(auditLog, registry.history)
        /\ \A c \in Clerk :
              /\ clerk[c].at \in {"reread", "save"} => clerk[c].copy = registry
              /\ clerk[c].at \in {"read", "append"} =>
                    \E h \in Seq(Entry), entry \in Entry :
                        /\ registry.history = Append(h, entry) /\ Tells(auditLog, h)
                        /\ entry.event = clerk[c].op /\ entry.stage = clerk[c].stage
              /\ clerk[c].at = "append" => clerk[c].lines = auditLog

RegistryInv ==
    /\ RegistryTypeOK /\ Sound(registry, Excuses)
    /\ \A c \in Clerk : CommandSound(clerk[c], Excuses, profileFile)
    /\ Undisturbed

\* A sequence without its last element.
LEMMA FrontOf ==
    ASSUME NEW E, NEW q \in Seq(E), q # <<>>
    PROVE  LET front == SubSeq(q, 1, Len(q) - 1)
           IN  /\ front \in Seq(E) /\ Len(front) = Len(q) - 1 /\ Len(q) \in Nat \ {0}
               /\ \A i \in 1..Len(front) : front[i] = q[i] /\ i \in 1..Len(q)
               /\ q[Len(q)] \in E /\ q = Append(front, q[Len(q)])
<1> DEFINE front == SubSeq(q, 1, Len(q) - 1)
           again == Append(front, q[Len(q)])
<1>1. Len(q) \in Nat \ {0} /\ q[Len(q)] \in E
  OBVIOUS
<1>2. /\ front \in Seq(E) /\ Len(front) = Len(q) - 1
      /\ \A i \in 1..Len(front) : front[i] = q[i] /\ i \in 1..Len(q)
  <2> DEFINE n == Len(q) - 1
  <2>1. n \in Int /\ \A i \in 1..n : q[i] \in E /\ i \in 1..Len(q)
    BY <1>1
  <2> HIDE DEF n
  <2>2. /\ SubSeq(q, 1, n) \in Seq(E)
        /\ Len(SubSeq(q, 1, n)) = IF 1 <= n THEN n - 1 + 1 ELSE 0
        /\ \A i \in 1..(n - 1 + 1) : SubSeq(q, 1, n)[i] = q[1 + i - 1]
    BY <2>1, SubSeqProperties
  <2>3. front = SubSeq(q, 1, n) /\ n = Len(q) - 1
    BY DEF n
  <2> HIDE DEF front
  <2>4. Len(front) = n
    BY <1>1, <2>2, <2>3
  <2>5. \A i \in 1..n : front[i] = q[i]
    BY <2>1, <2>2, <2>3
  <2> QED
    BY <2>1, <2>2, <2>3, <2>4, <2>5
<1> HIDE DEF front
<1>3. again \in Seq(E) /\ Len(again) = Len(q)
  BY <1>1, <1>2
<1>4. \A i \in 1..Len(q) : again[i] = q[i]
  BY <1>1, <1>2
<1>5. q = again
  BY <1>3, <1>4
<1> QED
  BY <1>1, <1>2, <1>5 DEF front

LEMMA FrontOfAppend ==
    ASSUME NEW E, NEW q \in Seq(E), NEW x \in E
    PROVE  SubSeq(Append(q, x), 1, Len(Append(q, x)) - 1) = q
<1> DEFINE r == Append(q, x)
           front == SubSeq(r, 1, Len(r) - 1)
<1>1. r \in Seq(E) /\ r # <<>> /\ Len(r) = Len(q) + 1 /\ \A i \in 1..Len(q) : r[i] = q[i]
  <2>1. r \in Seq(E) /\ Len(r) = Len(q) + 1 /\ Len(q) \in Nat
    OBVIOUS
  <2>2. \A i \in 1..Len(q) : r[i] = q[i]
    OBVIOUS
  <2>3. r # <<>>
    BY <2>1
  <2> QED
    BY <2>1, <2>2, <2>3
<1> HIDE DEF r
<1>2. front \in Seq(E) /\ Len(front) = Len(q) /\ \A i \in 1..Len(front) : front[i] = r[i]
  BY <1>1, FrontOf
<1> HIDE DEF front
<1>3. front = q
  BY <1>1, <1>2
<1> QED
  BY <1>3 DEF front, r

LEMMA MetGrows ==
    ASSUME NEW s, NEW p, NEW f, NEW g, f \subseteq g, Met(s, p, f)
    PROVE  Met(s, p, g)
BY DEF Met

LEMMA SoundGrows ==
    ASSUME NEW reg, NEW f, NEW g, f \subseteq g, Sound(reg, f)
    PROVE  Sound(reg, g)
BY MetGrows DEF Sound, BlockSound

Changed(reg, stage, block, entry) == Record([reg EXCEPT !.stages[stage] = block], entry)

\* What a change of one stage keeps: the others, whose history is as it was.
LEMMA ChangeSound ==
    ASSUME NEW reg \in RegistryType, NEW f, NEW g, f \subseteq g, Sound(reg, f),
           NEW stage \in Stage, NEW block \in Block, NEW entry \in Entry, entry.stage = stage,
           BlockSound(block, Append(reg.history, entry), stage, g)
    PROVE  LET new == Changed(reg, stage, block, entry)
           IN  /\ new \in RegistryType /\ Sound(new, g)
               /\ new.history = Append(reg.history, entry)
<1> DEFINE new == Changed(reg, stage, block, entry)
           stages  == [reg.stages EXCEPT ![stage] = block]
           history == Append(reg.history, entry)
<1>1. reg.history \in Seq(Entry) /\ reg.stages \in [Stage -> Block]
  BY DEF RegistryType
<1>2. history \in Seq(Entry)
  BY <1>1
<1>3. /\ stages \in [Stage -> Block]
      /\ \A s \in Stage : stages[s] = IF s = stage THEN block ELSE reg.stages[s]
  BY <1>1
<1>4. new = [stages |-> stages, history |-> history]
  <2> DEFINE changed == [reg EXCEPT !.stages[stage] = block]
  <2>1. changed = [reg EXCEPT !.stages = stages]
    OBVIOUS
  <2> HIDE DEF stages, changed
  <2>2. changed = [stages |-> stages, history |-> reg.history]
    BY <2>1 DEF RegistryType
  <2>3. new = [changed EXCEPT !.history = Append(@, entry)]
    BY DEF Record, Changed, changed
  <2> HIDE DEF new
  <2> QED
    BY <2>2, <2>3
<1>5. ASSUME NEW s \in Stage, s # stage
      PROVE  BlockSound(reg.stages[s], history, s, g)
  <2>1. BlockSound(reg.stages[s], reg.history, s, g)
    BY SoundGrows DEF Sound
  <2>2. Replayed(history, s) = Replayed(reg.history, s)
    <3>1. Replayed(history, s) = ReplayStep(Replayed(reg.history, s), entry, s)
      BY <1>1, ReplayedAppend
    <3> QED
      BY <1>5, <3>1 DEF ReplayStep
  <2> HIDE DEF history
  <2> QED
    BY <2>1, <2>2 DEF BlockSound
<1> HIDE DEF stages, history, new
<1>6. new.stages = stages /\ new.history = history
  BY <1>4
<1>7. new \in RegistryType
  BY <1>2, <1>3, <1>4 DEF RegistryType
<1>8. Sound(new, g)
  BY <1>3, <1>5, <1>6 DEF Sound, history
<1> QED
  BY <1>6, <1>7, <1>8 DEF new, history

LEMMA PromotedSound ==
    ASSUME NEW reg \in RegistryType, NEW f, NEW g, f \subseteq g, Sound(reg, f),
           NEW stage \in Stage, NEW profile \in Profile, profile # NoProfile, Met(stage, profile, g)
    PROVE  LET new == Promoted(reg, stage, profile)
           IN  /\ new \in RegistryType /\ Sound(new, g)
               /\ \E entry \in Entry : /\ new.history = Append(reg.history, entry)
                                       /\ entry.event = "promote" /\ entry.stage = stage
<1> DEFINE old   == reg.stages[stage]
           under == IF old.active = NoProfile THEN old.stack ELSE Append(old.stack, old.active)
           block == [active |-> profile, stack |-> under]
           entry == [event |-> "promote", stage |-> stage, profile |-> profile]
           history == Append(reg.history, entry)
<1>1. /\ old.active \in Profile /\ old.stack \in Seq(Profile) /\ reg.history \in Seq(Entry)
      /\ BlockSound(old, reg.history, stage, g)
  BY SoundGrows DEF RegistryType, Block, Sound
<1>2. entry \in Entry /\ entry.stage = stage /\ entry.event = "promote" /\ entry.profile = profile
  BY DEF Entry
<1>3. under \in Seq(Profile)
  BY <1>1
<1>4. Replayed(reg.history, stage) = under
  BY <1>1 DEF BlockSound
<1>5. \A i \in 1..Len(under) : under[i] # NoProfile /\ Met(stage, under[i], g)
  <2>1. CASE old.active = NoProfile
    BY <1>1, <2>1 DEF BlockSound
  <2>2. CASE old.active # NoProfile
    <3>1. /\ Len(under) = Len(old.stack) + 1 /\ under[Len(old.stack) + 1] = old.active
          /\ \A i \in 1..Len(old.stack) : under[i] = old.stack[i]
      BY <1>1, <2>2
    <3> HIDE DEF under
    <3>2. ASSUME NEW i \in 1..Len(under)
          PROVE  under[i] # NoProfile /\ Met(stage, under[i], g)
      <4>1. i \in 1..Len(old.stack) \/ i = Len(old.stack) + 1
        BY <1>1, <3>1
      <4> QED
        BY <1>1, <2>2, <3>1, <4>1 DEF BlockSound
    <3> QED
      BY <3>2
  <2> QED
    BY <2>1, <2>2
<1> HIDE DEF entry
<1>6. Replayed(history, stage) = Append(under, profile)
  <2>1. Replayed(history, stage) = ReplayStep(Replayed(reg.history, stage), entry, stage)
    BY <1>1, <1>2, ReplayedAppend
  <2> HIDE DEF under
  <2> QED
    BY <1>2, <1>4, <2>1 DEF ReplayStep
<1> HIDE DEF under
<1>7. block \in Block /\ block.active = profile /\ block.stack = under
  BY <1>3 DEF Block
<1> HIDE DEF block, history
<1>8. BlockSound(block, history, stage, g)
  BY <1>5, <1>6, <1>7 DEF BlockSound
<1>9. Promoted(reg, stage, profile) = Changed(reg, stage, block, entry)
  BY DEF Promoted, Record, Changed, block, entry, under
<1> HIDE DEF old
<1>10. LET new == Changed(reg, stage, block, entry)
       IN  /\ new \in RegistryType /\ Sound(new, g) /\ new.history = Append(reg.history, entry)
  BY <1>2, <1>7, <1>8, ChangeSound DEF history
<1> QED
  BY <1>2, <1>9, <1>10

LEMMA RolledBackSound ==
    ASSUME NEW reg \in RegistryType, NEW f, Sound(reg, f),
           NEW stage \in Stage, reg.stages[stage].stack # <<>>
    PROVE  LET new == RolledBack(reg, stage)
           IN  /\ new \in RegistryType /\ Sound(new, f)
               /\ \E entry \in Entry : /\ new.history = Append(reg.history, entry)
                                       /\ entry.event = "rollback" /\ entry.stage = stage
<1> DEFINE old   == reg.stages[stage]
           stack == old.stack
           top   == stack[Len(stack)]
           front == SubSeq(stack, 1, Len(stack) - 1)
           block == [active |-> top, stack |-> front]
           entry == [event |-> "rollback", stage |-> stage, profile |-> top]
           history == Append(reg.history, entry)
<1>1. /\ old.active \in Profile /\ stack \in Seq(Profile) /\ reg.history \in Seq(Entry)
      /\ BlockSound(old, reg.history, stage, f)
  BY DEF RegistryType, Block, Sound
<1>2. /\ front \in Seq(Profile) /\ Len(stack) \in Nat \ {0}
      /\ \A i \in 1..Len(front) : front[i] = stack[i] /\ i \in 1..Len(stack)
      /\ top \in Profile /\ stack = Append(front, top)
  BY <1>1, FrontOf
<1>3. entry \in Entry /\ entry.stage = stage /\ entry.event = "rollback"
  <2> HIDE DEF top
  <2> QED
    BY <1>2 DEF Entry
<1>4. top # NoProfile /\ Met(stage, top, f)
  BY <1>1, <1>2 DEF BlockSound
<1>5. \A i \in 1..Len(front) : front[i] # NoProfile /\ Met(stage, front[i], f)
  BY <1>1, <1>2 DEF BlockSound
<1>6. Replayed(reg.history, stage) = Append(stack, old.active)
  BY <1>1 DEF BlockSound
<1> HIDE DEF entry
<1>7. Replayed(history, stage) = stack
  <2>1. Replayed(history, stage) = ReplayStep(Replayed(reg.history, stage), entry, stage)
    BY <1>1, <1>3, ReplayedAppend
  <2>2. SubSeq(Append(stack, old.active), 1, Len(Append(stack, old.active)) - 1) = stack
    BY <1>1, FrontOfAppend
  <2> HIDE DEF stack, old
  <2> QED
    BY <1>3, <1>6, <2>1, <2>2 DEF ReplayStep
<1>8. RolledBack(reg, stage) = Changed(reg, stage, block, entry)
  BY DEF RolledBack, Record, Changed, entry
<1> HIDE DEF top, front, stack
<1>9. block \in Block /\ block.active = top /\ block.stack = front
  BY <1>2 DEF Block
<1> HIDE DEF block, history
<1>10. BlockSound(block, history, stage, f)
  BY <1>2, <1>4, <1>5, <1>7, <1>9 DEF BlockSound
<1> HIDE DEF old
<1>a. BlockSound(block, Append(reg.history, entry), stage, f) /\ f \subseteq f
  BY <1>10 DEF history
<1>11. LET new == Changed(reg, stage, block, entry)
       IN  /\ new \in RegistryType /\ Sound(new, f) /\ new.history = Append(reg.history, entry)
  BY <1>3, <1>9, <1>a, ChangeSound
<1> QED
  BY <1>3, <1>8, <1>11

LEMMA EmptyIsSound ==
    /\ Away \in Command /\ Away.at = "away" /\ Away.copy = EmptyRegistry
    /\ EmptyRegistry \in RegistryType /\ Sound(EmptyRegistry, {}) /\ EmptyRegistry.history = <<>>
<1>1. NoProfile \in Profile
  BY DEF NoProfile, Profile
<1> DEFINE block  == [active |-> NoProfile, stack |-> <<>>]
           stages == [s \in Stage |-> block]
<1>2. block \in Block /\ block.active = NoProfile /\ block.stack = <<>>
  BY <1>1 DEF Block
<1>3. EmptyRegistry = [stages |-> stages, history |-> <<>>]
  BY DEF EmptyRegistry
<1> HIDE DEF block
<1>4. stages \in [Stage -> Block] /\ \A s \in Stage : stages[s] = block
  BY <1>2
<1> HIDE DEF stages
<1>5. EmptyRegistry \in RegistryType /\ EmptyRegistry.stages = stages /\ EmptyRegistry.history = <<>>
  <2>1. <<>> \in Seq(Entry)
    OBVIOUS
  <2> QED
    BY <1>3, <1>4, <2>1 DEF RegistryType
<1>6. Sound(EmptyRegistry, {})
  <2>1. Len(<<>>) = 0
    OBVIOUS
  <2>2. ASSUME NEW s \in Stage
        PROVE  BlockSound(block, <<>>, s, {})
    BY <1>2, <2>1, ReplayedEmpty DEF BlockSound
  <2> QED
    BY <1>4, <1>5, <2>2 DEF Sound
<1>7. Away \in Command /\ Away.at = "away" /\ Away.copy = EmptyRegistry
  <2>1. <<>> \in Seq(Line) /\ "shadow" \in Stage
    BY DEF Stage
  <2> QED
    BY <1>1, <1>5, <2>1 DEF Away, Command
<1> QED
  BY <1>5, <1>6, <1>7

LEMMA RegistryInitially == RegistryInit => RegistryInv
<1> SUFFICES ASSUME RegistryInit PROVE RegistryInv
  OBVIOUS
<1>1. /\ registry = EmptyRegistry /\ auditLog = <<>> /\ Excuses = {} /\ disturbed = 0
      /\ clerk \in [Clerk -> Command] /\ \A c \in Clerk : clerk[c] = Away
      /\ profileFile \in Profile
  BY EmptyIsSound, RegistryAssumption DEF RegistryInit, Excuses, NoProfile, Profile
<1>2. RegistryTypeOK
  <2>1. <<>> \in Seq(Line)
    OBVIOUS
  <2> QED
    BY <1>1, <2>1, EmptyIsSound DEF RegistryTypeOK
<1>3. \A c \in Clerk : CommandSound(clerk[c], Excuses, profileFile)
  BY <1>1, EmptyIsSound DEF CommandSound
<1>4. Tells(auditLog, registry.history)
  <2>1. Len(<<>>) = 0
    OBVIOUS
  <2> QED
    BY <1>1, <2>1, EmptyIsSound DEF Tells
<1>5. Undisturbed
  BY <1>1, <1>4, EmptyIsSound DEF Undisturbed
<1> QED
  BY <1>1, <1>2, <1>3, <1>5, EmptyIsSound DEF RegistryInv

\* What a command is after its step is all there is to see about the others.
LEMMA ClerkMoves ==
    ASSUME RegistryInv, NEW c \in Clerk, NEW row \in Command, clerk' = [clerk EXCEPT ![c] = row],
           profileFile' = profileFile, Excuses \subseteq Excuses', CommandSound(row, Excuses', profileFile')
    PROVE  /\ clerk' \in [Clerk -> Command] /\ clerk'[c] = row
           /\ \A d \in Clerk : d # c => clerk'[d] = clerk[d]
           /\ \A d \in Clerk : CommandSound(clerk'[d], Excuses', profileFile')
<1>1. clerk \in [Clerk -> Command] /\ \A d \in Clerk : CommandSound(clerk[d], Excuses, profileFile)
  BY DEF RegistryInv, RegistryTypeOK
<1>2. /\ clerk' \in [Clerk -> Command] /\ clerk'[c] = row
      /\ \A d \in Clerk : d # c => clerk'[d] = clerk[d]
  BY <1>1
<1>3. \A d \in Clerk : CommandSound(clerk[d], Excuses', profileFile')
  BY <1>1, SoundGrows DEF CommandSound
<1> QED
  BY <1>2, <1>3

\* As long as nothing was disturbed, a command that is on its way is alone.
LEMMA AloneAtWork ==
    ASSUME RegistryInv, disturbed = 0, NEW c \in Clerk, clerk[c].at # "away"
    PROVE  \A d \in Clerk : d # c => clerk[d].at = "away"
BY DEF RegistryInv, Undisturbed

LEMMA BeginMoves ==
    ASSUME RegistryInv, NEW c \in Clerk, NEW command \in Command, command.at = "load",
           CommandSound(command, Excuses, profileFile), Begin(c, command)
    PROVE  RegistryInv'
<1>1. /\ clerk[c].at = "away" /\ clerk' = [clerk EXCEPT ![c] = command]
      /\ registry' = registry /\ auditLog' = auditLog /\ Excuses' = Excuses /\ profileFile' = profileFile
  BY DEF Begin, Excuses
<1>2. /\ clerk' \in [Clerk -> Command] /\ clerk'[c] = command
      /\ \A d \in Clerk : d # c => clerk'[d] = clerk[d]
      /\ \A d \in Clerk : CommandSound(clerk'[d], Excuses', profileFile')
  BY <1>1, ClerkMoves
<1>3. /\ disturbed' \in Nat
      /\ disturbed' = 0 => disturbed = 0 /\ \A d \in Clerk : clerk[d].at = "away"
  BY DEF Begin, Disturb, RegistryInv, RegistryTypeOK
<1>4. Undisturbed'
  <2> SUFFICES ASSUME disturbed' = 0
               PROVE  /\ \A d, e \in Clerk : clerk'[d].at # "away" /\ clerk'[e].at # "away" => d = e
                      /\ Tells(auditLog', registry'.history)
                      /\ \A d \in Clerk : clerk'[d].at \in {"away", "load"}
    BY DEF Undisturbed
  <2>1. Tells(auditLog, registry.history)
    BY <1>3 DEF RegistryInv, Undisturbed
  <2> QED
    BY <1>1, <1>2, <1>3, <2>1
<1> QED
  BY <1>1, <1>2, <1>3, <1>4 DEF RegistryInv, RegistryTypeOK

LEMMA GatesMet ==
    ASSUME NEW stage \in Stage, NEW profile \in Profile, NEW baseline,
           QualityFailures(stage, profile, baseline) = {}
    PROVE  Met(stage, profile, {})
<1> DEFINE Fails(f) ==
        \/ f = "coverage" /\ profile.coverage < GatePolicy[stage].min_coverage
        \/ f = "width"    /\ profile.width > GatePolicy[stage].max_mean_width
        \/ f = "records"  /\ profile.records < GatePolicy[stage].min_records
<1>1. \A f \in {"coverage", "width", "records"} : ~Fails(f)
  BY DEF QualityFailures
<1>2. /\ ~(profile.coverage < GatePolicy[stage].min_coverage)
      /\ ~(profile.width > GatePolicy[stage].max_mean_width)
      /\ ~(profile.records < GatePolicy[stage].min_records)
  BY <1>1
<1> QED
  BY <1>2, RegistryAssumption DEF Met, Profile

LEMMA StartPromoteMoves ==
    ASSUME RegistryInv, NEW c \in Clerk, StartPromote(c) PROVE RegistryInv'
<1> DEFINE Asked(stage, approved) ==
        [Away EXCEPT !.at = "load", !.op = "promote", !.stage = stage, !.approved = approved]
<1>1. PICK stage \in StageInUse, baseline \in Profiles :
        \E approved \in BOOLEAN :
            /\ approved <=> QualityFailures(stage, profileFile, baseline) = {}
            /\ Begin(c, Asked(stage, approved))
  BY Zenon DEF StartPromote
<1>2. PICK approved \in BOOLEAN :
            /\ approved <=> QualityFailures(stage, profileFile, baseline) = {}
            /\ Begin(c, Asked(stage, approved))
  BY <1>1, Zenon
<1> DEFINE command == Asked(stage, approved)
<1>3. stage \in Stage /\ profileFile \in Profile
  BY RegistryAssumption DEF RegistryInv, RegistryTypeOK
<1>4. /\ command \in Command /\ command.at = "load" /\ command.op = "promote"
      /\ command.stage = stage /\ command.approved = approved
  BY <1>3, EmptyIsSound DEF Command
<1>5. Begin(c, command)
  BY <1>2
<1> HIDE DEF command, Asked
<1>6. approved => Met(stage, profileFile, {})
  BY <1>2, <1>3, GatesMet
<1>7. CommandSound(command, Excuses, profileFile)
  BY <1>3, <1>4, <1>6 DEF CommandSound
<1> QED
  BY <1>4, <1>5, <1>7, BeginMoves

LEMMA StartRollbackMoves ==
    ASSUME RegistryInv, NEW c \in Clerk, StartRollback(c) PROVE RegistryInv'
<1> DEFINE Asked(stage) == [Away EXCEPT !.at = "load", !.op = "rollback", !.stage = stage]
           Advised(stage, approved) ==
              [Away EXCEPT !.at = "load", !.op = "rollback", !.stage = stage, !.approved = approved]
<1>1. PICK stage \in StageInUse :
          \/ Begin(c, Asked(stage))
          \/ \E health \in HealthReport : Begin(c, Advised(stage, RollbackAdvised(stage, health)))
  BY Zenon DEF StartRollback
<1>2. /\ Asked(stage) \in Command /\ Asked(stage).at = "load" /\ Asked(stage).op = "rollback"
      /\ \A approved \in BOOLEAN :
            /\ Advised(stage, approved) \in Command
            /\ Advised(stage, approved).at = "load" /\ Advised(stage, approved).op = "rollback"
  <2>1. stage \in Stage
    BY RegistryAssumption
  <2>2. /\ Asked(stage) \in Command /\ Asked(stage).at = "load" /\ Asked(stage).op = "rollback"
    BY <2>1, EmptyIsSound DEF Command
  <2>3. ASSUME NEW approved \in BOOLEAN
        PROVE  /\ Advised(stage, approved) \in Command
               /\ Advised(stage, approved).at = "load" /\ Advised(stage, approved).op = "rollback"
    BY <2>1, EmptyIsSound DEF Command
  <2> HIDE DEF Asked, Advised
  <2> QED
    BY <2>2, <2>3
<1>3. \A health : RollbackAdvised(stage, health) \in BOOLEAN
  BY Zenon DEF RollbackAdvised
<1> HIDE DEF Asked, Advised
<1>4. PICK command \in Command : command.at = "load" /\ command.op = "rollback" /\ Begin(c, command)
  BY <1>1, <1>2, <1>3, Zenon
<1>5. CommandSound(command, Excuses, profileFile)
  BY <1>4 DEF CommandSound
<1> QED
  BY <1>4, <1>5, BeginMoves

LEMMA LoadMoves ==
    ASSUME RegistryInv, NEW c \in Clerk, LoadRegistry(c) PROVE RegistryInv'
<1> DEFINE me   == clerk[c]
           next == IF me.op = "promote" THEN "reread" ELSE "save"
           held == [me EXCEPT !.at = next, !.copy = registry]
           row  == IF me.op = "rollback" /\ registry.stages[me.stage].stack = <<>> THEN Away ELSE held
<1>1. /\ me \in Command /\ me.at = "load" /\ CommandSound(me, Excuses, profileFile)
      /\ registry \in RegistryType /\ Sound(registry, Excuses)
  BY DEF LoadRegistry, RegistryInv, RegistryTypeOK
<1>2. /\ clerk' = [clerk EXCEPT ![c] = row]
      /\ UNCHANGED <<registry, auditLog, profileFile, Excuses, disturbed>>
  BY DEF LoadRegistry, Excuses
<1>3. /\ held \in Command /\ held.at = next /\ held.written = me.written /\ held.op = me.op /\ held.copy = registry
      /\ held.stage = me.stage /\ held.profile = me.profile /\ held.approved = me.approved
  <2> HIDE DEF me
  <2> QED
    BY <1>1 DEF Command
<1> HIDE DEF held
<1>4. /\ row \in Command /\ row.at \in {"away", "reread", "save"}
      /\ row.at \in {"reread", "save"} => row.copy = registry
      /\ CommandSound(row, Excuses, profileFile)
  <2>1. CASE me.op = "rollback" /\ registry.stages[me.stage].stack = <<>>
    BY <2>1, EmptyIsSound DEF CommandSound
  <2>2. CASE ~(me.op = "rollback" /\ registry.stages[me.stage].stack = <<>>)
    <3>1. CommandSound(held, Excuses, profileFile)
      BY <1>1, <1>3, <2>2 DEF CommandSound
    <3> QED
      BY <1>3, <2>2, <3>1
  <2> QED
    BY <2>1, <2>2
<1> HIDE DEF row
<1>5. /\ clerk' \in [Clerk -> Command] /\ clerk'[c] = row
      /\ \A d \in Clerk : d # c => clerk'[d] = clerk[d]
      /\ \A d \in Clerk : CommandSound(clerk'[d], Excuses', profileFile')
  BY <1>2, <1>4, ClerkMoves
<1>6. Undisturbed'
  <2> SUFFICES ASSUME disturbed' = 0
               PROVE  /\ \A d, e \in Clerk : clerk'[d].at # "away" /\ clerk'[e].at # "away" => d = e
                      /\ Tells(auditLog', registry'.history)
                      /\ \A d \in Clerk :
                            /\ clerk'[d].at \in {"away", "reread", "save"}
                            /\ clerk'[d].at \in {"reread", "save"} => clerk'[d].copy = registry'
    BY DEF Undisturbed
  <2>1. \A d \in Clerk : d # c => clerk[d].at = "away"
    BY <1>1, <1>2, AloneAtWork
  <2>2. Tells(auditLog, registry.history)
    BY <1>1, <1>2, <2>1 DEF RegistryInv, Undisturbed
  <2> QED
    BY <1>2, <1>4, <1>5, <2>1, <2>2
<1> QED
  BY <1>2, <1>5, <1>6 DEF RegistryInv, RegistryTypeOK

LEMMA RereadMoves ==
    ASSUME RegistryInv, NEW c \in Clerk, RereadProfile(c) PROVE RegistryInv'
<1> DEFINE me   == clerk[c]
           held == [me EXCEPT !.at = "save", !.profile = profileFile]
           row  == IF profileFile = NoProfile THEN Away ELSE held
<1>1. /\ me \in Command /\ me.at = "reread" /\ CommandSound(me, Excuses, profileFile)
      /\ profileFile \in Profile
  BY DEF RereadProfile, RegistryInv, RegistryTypeOK
<1>2. /\ clerk' = [clerk EXCEPT ![c] = row]
      /\ UNCHANGED <<registry, auditLog, profileFile, Excuses, disturbed>>
  BY DEF RereadProfile, Excuses
<1>3. /\ held \in Command /\ held.at = "save" /\ held.op = me.op /\ held.written = me.written
      /\ held.stage = me.stage /\ held.profile = profileFile /\ held.approved = me.approved
      /\ held.copy = me.copy
  <2> HIDE DEF me
  <2> QED
    BY <1>1 DEF Command
<1> HIDE DEF held
<1>4. /\ row \in Command /\ row.at \in {"away", "save"}
      /\ row.at = "save" => row.copy = me.copy
      /\ CommandSound(row, Excuses, profileFile)
  <2>1. CASE profileFile = NoProfile
    BY <2>1, EmptyIsSound DEF CommandSound
  <2>2. CASE profileFile # NoProfile
    <3>1. CommandSound(held, Excuses, profileFile)
      BY <1>1, <1>3, <2>2 DEF CommandSound
    <3> QED
      BY <1>3, <2>2, <3>1
  <2> QED
    BY <2>1, <2>2
<1> HIDE DEF row
<1>5. /\ clerk' \in [Clerk -> Command] /\ clerk'[c] = row
      /\ \A d \in Clerk : d # c => clerk'[d] = clerk[d]
      /\ \A d \in Clerk : CommandSound(clerk'[d], Excuses', profileFile')
  BY <1>2, <1>4, ClerkMoves
<1>6. Undisturbed'
  <2> SUFFICES ASSUME disturbed' = 0
               PROVE  /\ \A d, e \in Clerk : clerk'[d].at # "away" /\ clerk'[e].at # "away" => d = e
                      /\ Tells(auditLog', registry'.history)
                      /\ \A d \in Clerk : /\ clerk'[d].at \in {"away", "save"}
                                          /\ clerk'[d].at = "save" => clerk'[d].copy = registry'
    BY DEF Undisturbed
  <2>1. \A d \in Clerk : d # c => clerk[d].at = "away"
    BY <1>1, <1>2, AloneAtWork
  <2>2. Tells(auditLog, registry.history) /\ me.copy = registry
    BY <1>1, <1>2, <2>1 DEF RegistryInv, Undisturbed
  <2> QED
    BY <1>2, <1>4, <1>5, <2>1, <2>2
<1> QED
  BY <1>2, <1>5, <1>6 DEF RegistryInv, RegistryTypeOK

\* A calibration: the commands it happens to rely on their file no more.
LEMMA CalibrateMoves == RegistryInv /\ Calibrate => RegistryInv'
<1> SUFFICES ASSUME RegistryInv, Calibrate PROVE RegistryInv'
  OBVIOUS
<1> DEFINE hit(d)  == clerk[d].op = "promote" /\ clerk[d].at \in {"load", "reread"}
           told(d) == [clerk[d] EXCEPT !.written = TRUE]
<1>1. /\ clerk' = [d \in Clerk |-> IF hit(d) THEN told(d) ELSE clerk[d]]
      /\ UNCHANGED <<registry, auditLog, Excuses, disturbed>>
      /\ profileFile' \in Profiles \cup {NoProfile}
  BY DEF Calibrate, Excuses
<1>2. clerk \in [Clerk -> Command] /\ \A d \in Clerk : CommandSound(clerk[d], Excuses, profileFile)
  BY DEF RegistryInv, RegistryTypeOK
<1>3. profileFile' \in Profile
  <2>1. NoProfile \in Profile
    BY DEF NoProfile, Profile
  <2> QED
    BY <1>1, <2>1, RegistryAssumption
<1>4. ASSUME NEW d \in Clerk
      PROVE  /\ clerk'[d] \in Command /\ clerk'[d].at = clerk[d].at /\ clerk'[d].op = clerk[d].op
             /\ clerk'[d].stage = clerk[d].stage /\ clerk'[d].copy = clerk[d].copy
             /\ clerk'[d].lines = clerk[d].lines
             /\ CommandSound(clerk'[d], Excuses', profileFile')
  <2>1. clerk[d] \in Command /\ CommandSound(clerk[d], Excuses, profileFile)
    BY <1>2
  <2>2. CASE hit(d)
    <3>1. clerk'[d] = told(d)
      BY <1>1, <2>2
    <3>2. /\ told(d) \in Command /\ told(d).written = TRUE /\ told(d).at = clerk[d].at
          /\ told(d).op = clerk[d].op /\ told(d).stage = clerk[d].stage
          /\ told(d).copy = clerk[d].copy /\ told(d).lines = clerk[d].lines
      BY <2>1 DEF Command
    <3> HIDE DEF told
    <3>3. CommandSound(told(d), Excuses, profileFile')
      BY <2>1, <2>2, <3>2 DEF CommandSound
    <3> QED
      BY <1>1, <3>1, <3>2, <3>3
  <2>3. CASE ~hit(d)
    <3>1. clerk'[d] = clerk[d]
      BY <1>1, <2>3
    <3>2. CommandSound(clerk[d], Excuses, profileFile')
      BY <2>1, <2>3 DEF CommandSound
    <3> QED
      BY <1>1, <2>1, <3>1, <3>2
  <2> QED
    BY <2>2, <2>3
<1>5. clerk' \in [Clerk -> Command]
  <2>1. clerk' = [d \in Clerk |-> clerk'[d]]
    BY <1>1
  <2> QED
    BY <1>4, <2>1
<1> HIDE DEF hit, told
<1>6. Undisturbed'
  <2>1. Undisturbed
    BY DEF RegistryInv
  <2> QED
    BY <1>1, <1>4, <2>1 DEF Undisturbed
<1> QED
  BY <1>1, <1>3, <1>4, <1>5, <1>6 DEF RegistryInv, RegistryTypeOK

LEMMA SaveMoves ==
    ASSUME RegistryInv, NEW c \in Clerk, SaveRegistry(c) PROVE RegistryInv'
<1> DEFINE me  == clerk[c]
           row == [me EXCEPT !.at = "read", !.profile = NoProfile, !.written = FALSE,
                             !.copy = EmptyRegistry]
<1>1. /\ me \in Command /\ me.at = "save" /\ CommandSound(me, Excuses, profileFile)
      /\ clerk \in [Clerk -> Command] /\ registry \in RegistryType
  BY DEF SaveRegistry, RegistryInv, RegistryTypeOK
<1>2. /\ clerk' = [clerk EXCEPT ![c] = row] /\ UNCHANGED <<auditLog, profileFile, disturbed>>
      /\ registry' = IF me.op = "promote" THEN Promoted(me.copy, me.stage, me.profile)
                                          ELSE RolledBack(me.copy, me.stage)
      /\ forced' = IF me.op = "promote" /\ ~me.approved
                   THEN forced \cup {<<me.stage, me.profile>>} ELSE forced
      /\ swapped' = IF me.op = "promote" /\ me.written
                    THEN swapped \cup {<<me.stage, me.profile>>} ELSE swapped
  BY DEF SaveRegistry
<1>3. row \in Command /\ row.at = "read" /\ row.op = me.op /\ row.stage = me.stage
  <2> HIDE DEF me
  <2>1. NoProfile \in Profile
    BY DEF NoProfile, Profile
  <2> QED
    BY <1>1, <2>1, EmptyIsSound DEF Command
<1> HIDE DEF row
<1>4. Excuses \subseteq Excuses'
  BY <1>2 DEF Excuses
<1>5. CommandSound(row, Excuses', profileFile')
  BY <1>1, <1>3 DEF CommandSound
<1>6. /\ clerk' \in [Clerk -> Command] /\ clerk'[c] = row
      /\ \A d \in Clerk : d # c => clerk'[d] = clerk[d]
      /\ \A d \in Clerk : CommandSound(clerk'[d], Excuses', profileFile')
  BY <1>2, <1>3, <1>4, <1>5, ClerkMoves
<1>7. /\ me.copy \in RegistryType /\ Sound(me.copy, Excuses)
      /\ me.stage \in Stage /\ me.profile \in Profile /\ me.op \in {"promote", "rollback"}
  BY <1>1 DEF Command, CommandSound
<1>8. /\ registry' \in RegistryType /\ Sound(registry', Excuses')
      /\ \E entry \in Entry : /\ registry'.history = Append(me.copy.history, entry)
                              /\ entry.event = me.op /\ entry.stage = me.stage
  <2>1. CASE me.op = "promote"
    <3>1. me.profile # NoProfile /\ Met(me.stage, me.profile, Excuses')
      <4>1. CASE me.approved /\ ~me.written
        <5>1. Met(me.stage, me.profile, {})
          BY <1>1, <2>1, <4>1 DEF CommandSound
        <5> QED
          BY <1>1, <2>1, <5>1, MetGrows DEF CommandSound
      <4>2. CASE ~(me.approved /\ ~me.written)
        <5>1. <<me.stage, me.profile>> \in Excuses'
          BY <1>2, <2>1, <4>2 DEF Excuses
        <5> QED
          BY <1>1, <2>1, <5>1 DEF Met, CommandSound
      <4> QED
        BY <4>1, <4>2
    <3>2. registry' = Promoted(me.copy, me.stage, me.profile)
      BY <1>2, <2>1
    <3> DEFINE copy == me.copy
               stage == me.stage
               profile == me.profile
    <3>3. copy \in RegistryType /\ Sound(copy, Excuses) /\ stage \in Stage /\ profile \in Profile
      BY <1>7
    <3>4. registry' = Promoted(copy, stage, profile) /\ profile # NoProfile /\ Met(stage, profile, Excuses')
      BY <3>1, <3>2
    <3> HIDE DEF copy, stage, profile
    <3>5. /\ registry' \in RegistryType /\ Sound(registry', Excuses')
          /\ \E entry \in Entry : /\ registry'.history = Append(copy.history, entry)
                                  /\ entry.event = "promote" /\ entry.stage = stage
      BY <1>4, <3>3, <3>4, PromotedSound
    <3> QED
      BY <2>1, <3>5 DEF copy, stage
  <2>2. CASE me.op = "rollback"
    <3>1. registry' = RolledBack(me.copy, me.stage) /\ Excuses' = Excuses
      BY <1>2, <2>2 DEF Excuses
    <3>2. me.copy.stages[me.stage].stack # <<>>
      BY <1>1, <2>2 DEF CommandSound
    <3> HIDE DEF me
    <3> QED
      BY <1>7, <2>2, <3>1, <3>2, RolledBackSound
  <2> QED
    BY <1>7, <2>1, <2>2
<1>9. Undisturbed'
  <2> SUFFICES ASSUME disturbed' = 0
               PROVE  /\ \A d, e \in Clerk : clerk'[d].at # "away" /\ clerk'[e].at # "away" => d = e
                      /\ clerk'[c].at = "read" /\ \A d \in Clerk : d # c => clerk'[d].at = "away"
                      /\ \E h \in Seq(Entry), entry \in Entry :
                            /\ registry'.history = Append(h, entry) /\ Tells(auditLog', h)
                            /\ entry.event = clerk'[c].op /\ entry.stage = clerk'[c].stage
    BY DEF Undisturbed
  <2>1. \A d \in Clerk : d # c => clerk[d].at = "away"
    BY <1>1, <1>2, AloneAtWork
  <2>2. Tells(auditLog, registry.history) /\ me.copy = registry
    BY <1>1, <1>2, <2>1 DEF RegistryInv, Undisturbed
  <2>3. PICK entry \in Entry : /\ registry'.history = Append(registry.history, entry)
                               /\ entry.event = me.op /\ entry.stage = me.stage
    BY <1>8, <2>2
  <2>4. registry.history \in Seq(Entry)
    BY <1>1 DEF RegistryType
  <2> HIDE DEF me
  <2>5. \E h \in Seq(Entry), e \in Entry :
           /\ registry'.history = Append(h, e) /\ Tells(auditLog', h)
           /\ e.event = clerk'[c].op /\ e.stage = clerk'[c].stage
    BY <1>2, <1>3, <1>6, <2>2, <2>3, <2>4
  <2> QED
    BY <1>3, <1>6, <2>1, <2>5
<1> QED
  <2>1. auditLog' \in Seq(Line) /\ disturbed' \in Nat /\ profileFile' \in Profile
    BY <1>2 DEF RegistryInv, RegistryTypeOK
  <2> QED
    BY <1>6, <1>8, <1>9, <2>1 DEF RegistryInv, RegistryTypeOK

LEMMA ReadMoves ==
    ASSUME RegistryInv, NEW c \in Clerk, ReadAuditLog(c) PROVE RegistryInv'
<1> DEFINE me  == clerk[c]
           row == [me EXCEPT !.at = "append", !.lines = auditLog]
<1>1. /\ me \in Command /\ me.at = "read" /\ CommandSound(me, Excuses, profileFile) /\ auditLog \in Seq(Line)
  BY DEF ReadAuditLog, RegistryInv, RegistryTypeOK
<1>2. /\ clerk' = [clerk EXCEPT ![c] = row]
      /\ UNCHANGED <<registry, auditLog, profileFile, Excuses, disturbed>>
  BY DEF ReadAuditLog, Excuses
<1>3. /\ row \in Command /\ row.at = "append" /\ row.op = me.op /\ row.stage = me.stage
      /\ row.lines = auditLog
  <2> HIDE DEF me
  <2> QED
    BY <1>1 DEF Command
<1> HIDE DEF row
<1>4. CommandSound(row, Excuses, profileFile)
  BY <1>1, <1>3 DEF CommandSound
<1>5. /\ clerk' \in [Clerk -> Command] /\ clerk'[c] = row
      /\ \A d \in Clerk : d # c => clerk'[d] = clerk[d]
      /\ \A d \in Clerk : CommandSound(clerk'[d], Excuses', profileFile')
  BY <1>2, <1>3, <1>4, ClerkMoves
<1>6. Undisturbed'
  <2> SUFFICES ASSUME disturbed' = 0
               PROVE  /\ \A d, e \in Clerk : clerk'[d].at # "away" /\ clerk'[e].at # "away" => d = e
                      /\ \A d \in Clerk : d # c => clerk'[d].at = "away"
                      /\ clerk'[c].at = "append" /\ clerk'[c].lines = auditLog'
                      /\ \E h \in Seq(Entry), entry \in Entry :
                            /\ registry'.history = Append(h, entry) /\ Tells(auditLog', h)
                            /\ entry.event = clerk'[c].op /\ entry.stage = clerk'[c].stage
    BY DEF Undisturbed
  <2>1. \A d \in Clerk : d # c => clerk[d].at = "away"
    BY <1>1, <1>2, AloneAtWork
  <2>2. \E h \in Seq(Entry), entry \in Entry :
            /\ registry.history = Append(h, entry) /\ Tells(auditLog, h)
            /\ entry.event = me.op /\ entry.stage = me.stage
    BY <1>1, <1>2 DEF RegistryInv, Undisturbed
  <2> QED
    BY <1>2, <1>3, <1>5, <2>1, <2>2
<1> QED
  BY <1>2, <1>5, <1>6 DEF RegistryInv, RegistryTypeOK

\* A log of a history, with a line for an entry more.
LEMMA TellsGrows ==
    ASSUME NEW log \in Seq(Line), NEW h \in Seq(Entry), Tells(log, h),
           NEW line \in Line, NEW entry \in Entry, line.event = entry.event, line.stage = entry.stage
    PROVE  Tells(Append(log, line), Append(h, entry))
<1> DEFINE log2 == Append(log, line)
           h2   == Append(h, entry)
<1>1. /\ Len(log) \in Nat /\ Len(log) = Len(h)
      /\ \A i \in 1..Len(log) : log[i].event = h[i].event /\ log[i].stage = h[i].stage
  BY DEF Tells
<1>2. Len(log2) = Len(log) + 1 /\ log2[Len(log) + 1] = line /\ \A i \in 1..Len(log) : log2[i] = log[i]
  BY AppendProperties
<1>3. Len(h2) = Len(h) + 1 /\ h2[Len(h) + 1] = entry /\ \A i \in 1..Len(h) : h2[i] = h[i]
  BY AppendProperties
<1> HIDE DEF log2, h2
<1>4. ASSUME NEW i \in 1..Len(log2)
      PROVE  log2[i].event = h2[i].event /\ log2[i].stage = h2[i].stage
  <2>1. i \in 1..Len(log) \/ i = Len(log) + 1
    BY <1>1, <1>2
  <2> QED
    BY <1>1, <1>2, <1>3, <2>1
<1> QED
  BY <1>1, <1>2, <1>3, <1>4 DEF Tells, log2, h2

LEMMA AppendMoves ==
    ASSUME RegistryInv, NEW c \in Clerk, AppendAuditLog(c) PROVE RegistryInv'
<1> DEFINE me   == clerk[c]
           line == [event |-> me.op, stage |-> me.stage, approved |-> me.approved]
<1>1. me \in Command /\ me.at = "append" /\ CommandSound(me, Excuses, profileFile)
  BY DEF AppendAuditLog, RegistryInv, RegistryTypeOK
<1>2. /\ clerk' = [clerk EXCEPT ![c] = Away]
      /\ UNCHANGED <<registry, profileFile, Excuses, disturbed>>
      /\ auditLog' = Append(me.lines, line)
  BY DEF AppendAuditLog, AuditLine, Excuses
<1>3. me.lines \in Seq(Line) /\ line \in Line /\ line.event = me.op /\ line.stage = me.stage
  BY <1>1 DEF Command, CommandSound, Line
<1> HIDE DEF line
<1>4. auditLog' \in Seq(Line)
  <2> HIDE DEF me
  <2> QED
    BY <1>2, <1>3, AppendProperties
<1>5. CommandSound(Away, Excuses, profileFile)
  BY EmptyIsSound DEF CommandSound
<1>6. /\ clerk' \in [Clerk -> Command] /\ clerk'[c] = Away
      /\ \A d \in Clerk : d # c => clerk'[d] = clerk[d]
      /\ \A d \in Clerk : CommandSound(clerk'[d], Excuses', profileFile')
  BY <1>2, <1>5, ClerkMoves, EmptyIsSound
<1>7. Undisturbed'
  <2> SUFFICES ASSUME disturbed' = 0
               PROVE  /\ \A d \in Clerk : clerk'[d].at = "away"
                      /\ Tells(auditLog', registry'.history)
    BY DEF Undisturbed
  <2>1. \A d \in Clerk : d # c => clerk[d].at = "away"
    BY <1>1, <1>2, AloneAtWork
  <2>2. PICK h \in Seq(Entry), entry \in Entry :
            /\ registry.history = Append(h, entry) /\ Tells(auditLog, h)
            /\ entry.event = me.op /\ entry.stage = me.stage
    BY <1>1, <1>2 DEF RegistryInv, Undisturbed
  <2>3. me.lines = auditLog
    BY <1>1, <1>2 DEF RegistryInv, Undisturbed
  <2> HIDE DEF me
  <2>4. Tells(Append(auditLog, line), Append(h, entry))
    BY <1>3, <2>2, <2>3, TellsGrows
  <2> QED
    BY <1>2, <1>6, <2>1, <2>2, <2>3, <2>4, EmptyIsSound
<1> QED
  BY <1>2, <1>4, <1>6, <1>7 DEF RegistryInv, RegistryTypeOK

LEMMA KilledMoves ==
    ASSUME RegistryInv, NEW c \in Clerk, Killed(c) PROVE RegistryInv'
<1>1. clerk' = [clerk EXCEPT ![c] = Away] /\ UNCHANGED <<registry, auditLog, profileFile, Excuses>>
  BY DEF Killed, Excuses
<1>2. disturbed' \in Nat /\ disturbed' # 0
  BY DEF Killed, Disturb, RegistryInv, RegistryTypeOK
<1>3. CommandSound(Away, Excuses, profileFile)
  BY EmptyIsSound DEF CommandSound
<1>4. clerk' \in [Clerk -> Command] /\ \A d \in Clerk : CommandSound(clerk'[d], Excuses', profileFile')
  BY <1>1, <1>3, ClerkMoves, EmptyIsSound
<1>5. Undisturbed'
  BY <1>2 DEF Undisturbed
<1> QED
  BY <1>1, <1>2, <1>4, <1>5 DEF RegistryInv, RegistryTypeOK

LEMMA RegistryStep == RegistryInv /\ [RegistryNext]_registryVars => RegistryInv'
<1> SUFFICES ASSUME RegistryInv, [RegistryNext]_registryVars
             PROVE  RegistryInv'
  OBVIOUS
<1>1. CASE UNCHANGED registryVars
  <2>1. UNCHANGED <<registry, auditLog, profileFile, clerk, Excuses, disturbed>>
    BY <1>1 DEF registryVars, Excuses
  <2>2. Undisturbed'
    BY <2>1 DEF RegistryInv, Undisturbed
  <2> QED
    BY <2>1, <2>2 DEF RegistryInv, RegistryTypeOK
<1>2. CASE RegistryNext
  BY <1>2, CalibrateMoves, StartPromoteMoves, StartRollbackMoves, LoadMoves, RereadMoves, SaveMoves,
     ReadMoves, AppendMoves, KilledMoves DEF RegistryNext
<1> QED
  BY <1>1, <1>2

LEMMA RegistryAlways == RegistrySpec => []RegistryInv
BY RegistryInitially, RegistryStep, PTL DEF RegistrySpec

\* Whoever overwrote whom, a stage is what the recorded history leads to.
THEOREM StagesReplayHistory == RegistrySpec => []HistoryReplays
<1>1. RegistryInv => HistoryReplays
  BY DEF RegistryInv, Sound, BlockSound, HistoryReplays
<1> QED
  BY <1>1, RegistryAlways, PTL

\* What is active in a stage, or can come back there, met its gates, was forced,
\* or came with a file that was written after the gates had looked at it.
THEOREM StagesHoldApproved == RegistrySpec => []OnlyApproved
<1>1. RegistryInv => OnlyApproved
  <2> DEFINE block(s) == registry.stages[s]
             held(s)  == {block(s).stack[i] : i \in DOMAIN block(s).stack}
                            \cup ({block(s).active} \ {NoProfile})
  <2>1. ASSUME RegistryInv, NEW s \in Stage, NEW p \in held(s)
        PROVE  Met(s, p, Excuses)
    <3>1. BlockSound(block(s), registry.history, s, Excuses) /\ block(s).stack \in Seq(Profile)
      BY <2>1 DEF RegistryInv, Sound, RegistryTypeOK, RegistryType, Block
    <3>2. DOMAIN block(s).stack = 1..Len(block(s).stack)
      BY <3>1
    <3> HIDE DEF block
    <3> QED
      BY <3>1, <3>2 DEF BlockSound
  <2> HIDE DEF block, held
  <2>2. ASSUME RegistryInv
        PROVE  \A s \in Stage : \A p \in held(s) :
                  <<s, p>> \in forced \cup swapped \/
                     /\ p.coverage >= GatePolicy[s].min_coverage
                     /\ p.width <= GatePolicy[s].max_mean_width
                     /\ p.records >= GatePolicy[s].min_records
    BY <2>1, <2>2 DEF Met, Excuses
  <2> QED
    BY <2>2, Zenon DEF OnlyApproved, held, block
<1> QED
  BY <1>1, RegistryAlways, PTL

\* Undisturbed, the audit log tells the history.
THEOREM LogTellsHistory == RegistrySpec => []AuditTellsHistory
<1>1. RegistryInv => AuditTellsHistory
  <2> SUFFICES ASSUME RegistryInv, disturbed = 0,
                      \A c \in Clerk : clerk[c].at \in {"away", "load", "reread", "save"}
               PROVE  /\ Len(auditLog) = Len(registry.history)
                      /\ \A i \in DOMAIN auditLog :
                            /\ auditLog[i].event = registry.history[i].event
                            /\ auditLog[i].stage = registry.history[i].stage
    BY DEF AuditTellsHistory
  <2>1. Tells(auditLog, registry.history) /\ auditLog \in Seq(Line)
    BY DEF RegistryInv, Undisturbed, RegistryTypeOK
  <2>2. DOMAIN auditLog = 1..Len(auditLog)
    BY <2>1
  <2> QED
    BY <2>1, <2>2 DEF Tells
<1> QED
  BY <1>1, RegistryAlways, PTL

===============================================================================
