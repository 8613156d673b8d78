----------------------------- MODULE ProfileRegistry -----------------------------
(***************************************************************************)
(* The uncertainty profiles' registry: uncertainty-profile promote and     *)
(* rollback (cli.py), run by several operators over the same registry file *)
(* and audit log.  A command reads the registry, changes its copy and      *)
(* replaces the file; then it reads the log and replaces it with one line  *)
(* more.  Nothing is locked, and a command may be killed at any step.      *)
(* A promotion reads its profile file twice, for the gates and for the     *)
(* registry, and a calibration may write that file at any time.            *)
(*                                                                         *)
(* A profile is what the gates look at: coverage and mean width in         *)
(* percent, and the number of records.                                     *)
(***************************************************************************)
EXTENDS Integers, Sequences, FiniteSets

CONSTANTS
    Clerk,        \* the operators
    Profiles,     \* the calibrated profiles there are
    HealthReport, \* the health metrics a rollback may be given
    GatePolicy,   \* stage |-> its promotion_gates and rollback_triggers
    StageInUse,   \* bound: the stages the operators work on
    MaxHistory,   \* bound: how many changes the registry records
    MaxOverlaps,  \* bound: how often commands overlap or are killed
    MaxWrites     \* bound: how often the profile file is written

VARIABLES
    registry,    \* the file: stages and history
    auditLog,    \* the file, a line per change
    profileFile, \* what calibrate-uncertainty wrote last; NoProfile before, and while it writes
    clerk,       \* operator |-> its command and what it has read
    forced,      \* history: the profiles a --force put in a stage
    swapped,     \* history: those put there by a promotion whose file was written after its gates
    writes,      \* counts the calibrations, up to the bound
    disturbed    \* history: how often commands overlapped, or one was killed

registryVars == <<registry, auditLog, profileFile, clerk, forced, swapped, writes, disturbed>>

Stage == {"shadow", "canary", "prod"}
Profile == [coverage : Int, width : Int, records : Int]
NoProfile == [coverage |-> -1, width |-> -1, records |-> -1]

ASSUME RegistryAssumption ==
    /\ Profiles \subseteq Profile /\ NoProfile \notin Profiles
    /\ StageInUse \subseteq Stage
    /\ \A s \in Stage : /\ GatePolicy[s].min_coverage \in Int /\ GatePolicy[s].max_mean_width \in Int
                        /\ GatePolicy[s].min_records \in Int
    /\ MaxHistory \in Nat /\ MaxOverlaps \in Nat /\ MaxWrites \in Nat

-----------------------------------------------------------------------------
(* The gates.                                                               *)

\* Mutant: every stage is held to the first one's gates.
QualityFailures_FirstStage(stage, profile, baseline) ==
    {f \in {"coverage"} : profile.coverage < GatePolicy["shadow"].min_coverage}

\* evaluate_quality_gates with the stage's thresholds; the drop and the increase
\* are of production only and need a baseline.
QualityFailures(stage, profile, baseline) ==
    LET gates == GatePolicy[stage]
    IN  {f \in {"coverage", "width", "records", "drop", "increase"} :
            \/ f = "coverage" /\ profile.coverage < gates.min_coverage
            \/ f = "width"    /\ profile.width > gates.max_mean_width
            \/ f = "records"  /\ profile.records < gates.min_records
            \/ stage = "prod" /\ f = "drop"     /\ baseline.coverage - profile.coverage > gates.max_drop
            \/ stage = "prod" /\ f = "increase" /\ profile.width - baseline.width > gates.max_increase}

\* normalize_health_metrics: a count of 0 is taken for none at all.
HealthUsable(health) == health.records # 0

\* evaluate_rollback_trigger.
RollbackAdvised(stage, health) ==
    LET triggers == GatePolicy[stage].triggers
    IN  \/ health.coverage < triggers.min_coverage
        \/ health.width > triggers.max_mean_width
        \/ health.records < triggers.min_records

-----------------------------------------------------------------------------
(* What promote and rollback make of a registry.                            *)

Record(reg, entry) == [reg EXCEPT !.history = Append(@, entry)]

Promoted(reg, stage, profile) ==
    LET block == reg.stages[stage]
        under == IF block.active = NoProfile THEN block.stack ELSE Append(block.stack, block.active)
    IN  Record([reg EXCEPT !.stages[stage] = [active |-> profile, stack |-> under]],
               [event |-> "promote", stage |-> stage, profile |-> profile])

\* Mutant: the profile restored stays on the stack.
RolledBack_Kept(reg, stage) ==
    LET stack == reg.stages[stage].stack
    IN  Record([reg EXCEPT !.stages[stage].active = stack[Len(stack)]],
               [event |-> "rollback", stage |-> stage, profile |-> stack[Len(stack)]])

RolledBack(reg, stage) ==
    LET stack == reg.stages[stage].stack
        top   == stack[Len(stack)]
    IN  Record([reg EXCEPT !.stages[stage] = [active |-> top, stack |-> SubSeq(stack, 1, Len(stack) - 1)]],
               [event |-> "rollback", stage |-> stage, profile |-> top])

EmptyRegistry == [stages |-> [s \in Stage |-> [active |-> NoProfile, stack |-> <<>>]], history |-> <<>>]

-----------------------------------------------------------------------------
Away == [at |-> "away", op |-> "none", stage |-> "shadow", profile |-> NoProfile, approved |-> TRUE,
         written |-> FALSE, copy |-> EmptyRegistry, lines |-> <<>>]

RegistryInit ==
    /\ registry = EmptyRegistry /\ auditLog = <<>>
    /\ profileFile \in Profiles \cup {NoProfile}
    /\ clerk = [c \in Clerk |-> Away]
    /\ forced = {} /\ swapped = {} /\ writes = 0 /\ disturbed = 0

Disturb == disturbed < MaxOverlaps /\ disturbed' = disturbed + 1

Begin(c, command) ==
    /\ clerk[c].at = "away"
    /\ Len(registry.history) < MaxHistory
    /\ clerk' = [clerk EXCEPT ![c] = command]
    /\ IF \A d \in Clerk : clerk[d].at = "away" THEN UNCHANGED disturbed ELSE Disturb
    /\ UNCHANGED <<registry, auditLog, profileFile, forced, swapped, writes>>

\* promote: the gates look at the profile the file holds now, before the
\* registry is read; production's baseline is a file too, of the repository or
\* written from the active profile some time before.  A file that cannot be read
\* ends the command.
StartPromote(c) ==
    \E stage \in StageInUse, baseline \in Profiles, force \in BOOLEAN :
        LET approved == QualityFailures(stage, profileFile, baseline) = {}
        IN  /\ profileFile # NoProfile
            /\ approved \/ force
            /\ Begin(c, [Away EXCEPT !.at = "load", !.op = "promote", !.stage = stage,
                                     !.approved = approved])

\* rollback, with health metrics or without: what they advise is recorded and
\* does not stop it; metrics that cannot be used do.
StartRollback(c) ==
    \E stage \in StageInUse :
        \/ Begin(c, [Away EXCEPT !.at = "load", !.op = "rollback", !.stage = stage])
        \/ \E health \in HealthReport :
              /\ HealthUsable(health)
              /\ Begin(c, [Away EXCEPT !.at = "load", !.op = "rollback", !.stage = stage,
                                       !.approved = RollbackAdvised(stage, health)])

LoadRegistry(c) ==
    /\ clerk[c].at = "load"
    /\ LET me == clerk[c]
       IN  clerk' = [clerk EXCEPT ![c] =
               IF me.op = "rollback" /\ registry.stages[me.stage].stack = <<>>
               THEN Away                                       \* RegistryError
               ELSE [me EXCEPT !.at = IF me.op = "promote" THEN "reread" ELSE "save", !.copy = registry]]
    /\ UNCHANGED <<registry, auditLog, profileFile, forced, swapped, writes, disturbed>>

\* promote reads the profile a second time: this one goes into the registry, and
\* no gate has seen it.
RereadProfile(c) ==
    /\ clerk[c].at = "reread"
    /\ clerk' = [clerk EXCEPT ![c] = IF profileFile = NoProfile
                                     THEN Away                  \* RegistryError
                                     ELSE [clerk[c] EXCEPT !.at = "save", !.profile = profileFile]]
    /\ UNCHANGED <<registry, auditLog, profileFile, forced, swapped, writes, disturbed>>

\* calibrate-uncertainty empties the file and writes its profile; every promotion
\* between its two reads has this happen to it.
Calibrate ==
    /\ writes < MaxWrites /\ writes' = writes + 1
    /\ profileFile' \in (Profiles \cup {NoProfile}) \ {profileFile}
    /\ clerk' = [c \in Clerk |->
           IF clerk[c].op = "promote" /\ clerk[c].at \in {"load", "reread"}
           THEN [clerk[c] EXCEPT !.written = TRUE] ELSE clerk[c]]
    /\ UNCHANGED <<registry, auditLog, forced, swapped, disturbed>>

SaveRegistry(c) ==
    /\ clerk[c].at = "save"
    /\ LET me == clerk[c]
       IN  /\ registry' = IF me.op = "promote" THEN Promoted(me.copy, me.stage, me.profile)
                                               ELSE RolledBack(me.copy, me.stage)
           /\ forced' = IF me.op = "promote" /\ ~me.approved
                        THEN forced \cup {<<me.stage, me.profile>>} ELSE forced
           /\ swapped' = IF me.op = "promote" /\ me.written
                         THEN swapped \cup {<<me.stage, me.profile>>} ELSE swapped
    /\ clerk' = [clerk EXCEPT ![c].at = "read", ![c].profile = NoProfile, ![c].written = FALSE,
                              ![c].copy = EmptyRegistry]
    /\ UNCHANGED <<auditLog, profileFile, writes, disturbed>>

ReadAuditLog(c) ==
    /\ clerk[c].at = "read"
    /\ clerk' = [clerk EXCEPT ![c].at = "append", ![c].lines = auditLog]
    /\ UNCHANGED <<registry, auditLog, profileFile, forced, swapped, writes, disturbed>>

\* Mutant: only what passed a gate is audited.
AuditLine_OnlyApproved(lines, me) ==
    IF me.approved THEN Append(lines, [event |-> me.op, stage |-> me.stage, approved |-> TRUE]) ELSE lines

\* build_promotion_audit_record and build_rollback_audit_record, appended.
AuditLine(lines, me) ==
    Append(lines, [event |-> me.op, stage |-> me.stage, approved |-> me.approved])

AppendAuditLog(c) ==
    /\ clerk[c].at = "append"
    /\ auditLog' = AuditLine(clerk[c].lines, clerk[c])
    /\ clerk' = [clerk EXCEPT ![c] = Away]
    /\ UNCHANGED <<registry, profileFile, forced, swapped, writes, disturbed>>

Killed(c) ==
    /\ clerk[c].at # "away"
    /\ clerk' = [clerk EXCEPT ![c] = Away]
    /\ Disturb
    /\ UNCHANGED <<registry, auditLog, profileFile, forced, swapped, writes>>

RegistryNext ==
    \/ Calibrate
    \/ \E c \in Clerk :
          \/ StartPromote(c) \/ StartRollback(c) \/ LoadRegistry(c) \/ RereadProfile(c)
          \/ SaveRegistry(c) \/ ReadAuditLog(c) \/ AppendAuditLog(c) \/ Killed(c)

RegistrySpec == RegistryInit /\ [][RegistryNext]_registryVars

-----------------------------------------------------------------------------
(* Properties.                                                              *)

\* What a history says of a stage: its promotions put a profile on top of those
\* before, its rollbacks take the top one off.
Replayed(history, s) ==
    LET replay[n \in 0..Len(history)] ==
            IF n = 0 THEN <<>>
            ELSE LET before == replay[n - 1]
                     entry  == history[n]
                 IN  CASE entry.stage # s         -> before
                       [] entry.stage = s /\ entry.event = "promote" -> Append(before, entry.profile)
                       [] OTHER                   -> SubSeq(before, 1, Len(before) - 1)
    IN  replay[Len(history)]

\* Whoever overwrote whom and wherever a command was killed, the registry's
\* stages are what its own history leads to: a rollback never restores a
\* profile that was not under the active one.
HistoryReplays ==
    \A s \in Stage :
        LET block == registry.stages[s]
        IN  Replayed(registry.history, s) =
                IF block.active = NoProfile THEN <<>> ELSE Append(block.stack, block.active)

\* Every profile that is active in a stage, or that a rollback can bring back
\* there, met that stage's gates, unless it was forced there, or promoted there
\* by a command whose file was written between its gates and its second read: a
\* calibration at any other time, an overlap or a kill lets nothing past them.
OnlyApproved ==
    \A s \in Stage :
        LET block == registry.stages[s]
            held  == {block.stack[i] : i \in DOMAIN block.stack} \cup ({block.active} \ {NoProfile})
        IN  \A p \in held : <<s, p>> \in forced \cup swapped \/
                /\ p.coverage >= GatePolicy[s].min_coverage
                /\ p.width <= GatePolicy[s].max_mean_width
                /\ p.records >= GatePolicy[s].min_records

\* As long as no two commands overlapped and none was killed, the audit log
\* tells the registry's history: one line for each change, in its order.
AuditTellsHistory ==
    disturbed = 0 /\ (\A c \in Clerk : clerk[c].at \in {"away", "load", "reread", "save"}) =>
        /\ Len(auditLog) = Len(registry.history)
        /\ \A i \in DOMAIN auditLog :
              /\ auditLog[i].event = registry.history[i].event
              /\ auditLog[i].stage = registry.history[i].stage

=============================================================================
