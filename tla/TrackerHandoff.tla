--------------------------- MODULE TrackerHandoff ---------------------------
(***************************************************************************)
(* deploy/scripts/validate_oncall_tracker_handoff.py: the job that files a *)
(* ticket for each environment in a tracker, with bounded retries and an   *)
(* Idempotency-Key, and may be run again by hand (the same GITHUB_RUN_ID   *)
(* and the same payload files).  The tracker may take a request whose      *)
(* answer is lost; some trackers heed the key, some do not.                *)
(*                                                                         *)
(* A policy overlay, a ticket file or an answer is a record of what the    *)
(* script tells apart, "empty" a text that is; seconds are in tenths.      *)
(***************************************************************************)
EXTENDS Integers, Sequences, FiniteSets

CONSTANTS
    MaxReruns,   \* bound: how often the job is run again
    Setup        \* the policies, tickets and trackers considered

VARIABLES
    setup,     \* the policy documents, and each environment's ticket and tracker
    job,       \* where the script is
    tracker,   \* environment |-> issues filed, Idempotency-Keys seen
    rows,      \* environment |-> this run's row
    notes      \* environment |-> the section of its follow-up markdown

handoffVars == <<setup, job, tracker, rows, notes>>

Environment == {"staging", "production"}
EnvAt == <<"staging", "production">>

\* good: the fields of the ticket that are as they must be; heeds: the tracker
\* heeds the Idempotency-Key; body: the identifiers in its answer.
TicketType == [file : {"missing_payload_file", "invalid_ticket_json", "ticket_root_not_object", "object"},
               good : SUBSET {"schema", "environment", "title", "labels"},
               repository : {"empty", "repo", "owner/repo"}, project : {"empty", "OPS"}]
TargetType == [url : BOOLEAN, provider : {"empty", "jira", "github", "linear"}, ticket : TicketType,
               heeds : BOOLEAN, body : SUBSET {"key", "number", "id", "url"}]

ASSUME HandoffAssumption ==
    /\ MaxReruns \in Nat
    /\ \A s \in Setup : s.target \in [Environment -> TargetType]
    /\ \A s \in Setup : \A o \in {s.defaults} \cup {s.rows[e] : e \in Environment} :
           "max_attempts" \in DOMAIN o => o.max_attempts \in Int

-----------------------------------------------------------------------------
(* The policy.                                                              *)

Field == {"max_attempts", "retryable", "initial", "max", "mode"}
BuiltinDefaults == [max_attempts |-> 4, retryable |-> {408, 429, 500, 502, 503, 504},
                    initial |-> 10, max |-> 80, mode |-> "run_env_payload"]
Between(x, lo, hi) == IF x < lo THEN lo ELSE IF x > hi THEN hi ELSE x

\* load_policy_doc: the secret, else the file, else the built-in defaults.  A
\* text that is no JSON, or a path that leads nowhere, ends the script.
PolicyLoaded(s) ==
    CASE s.secret # "unset" -> s.secret
      [] s.path # "unset"   -> s.path
      [] OTHER              -> "none"
PolicyUnreadable(s) == PolicyLoaded(s) = "invalid"

\* clamp_effective_policy of an overlay, whose values of a wrong type are left
\* out here as they are replaced there.
ClampEffectivePolicy(overlay) ==
    LET given   == [f \in Field |-> IF f \in DOMAIN overlay THEN overlay[f] ELSE BuiltinDefaults[f]]
        codes   == given.retryable \cap 400..599
        initial == Between(given.initial, 1, 600)
        most    == Between(given.max, 10, 1200)
    IN  [max_attempts |-> Between(given.max_attempts, 1, 10),
         retryable    |-> IF codes = {} THEN BuiltinDefaults.retryable ELSE codes,
         initial      |-> initial,
         max          |-> IF most < initial THEN initial ELSE most,
         mode         |-> IF given.mode \in {"run_env_payload", "off"}
                          THEN given.mode ELSE BuiltinDefaults.mode]

\* defaults of the document, its environment's row over them.
EffectivePolicy(s, e) ==
    IF PolicyLoaded(s) = "none" THEN ClampEffectivePolicy(<<>>)
    ELSE LET over == s.rows[e]
         IN  ClampEffectivePolicy([f \in DOMAIN s.defaults \cup DOMAIN over |->
                                      IF f \in DOMAIN over THEN over[f] ELSE s.defaults[f]])

\* retry_sleep_seconds, the jitter j in percent of its quarter; after: the
\* Retry-After of a 429, or -1.
RetrySleep(policy, attempt, after, j) ==
    LET doubled == policy.initial * 2^(attempt - 1)
        base    == IF doubled < policy.max THEN doubled ELSE policy.max
        total   == base + (base * j) \div 400
    IN  IF after >= 0 THEN (IF after < policy.max THEN after ELSE policy.max)
        ELSE IF total < policy.max THEN total ELSE policy.max

-----------------------------------------------------------------------------
(* The ticket.                                                              *)

\* normalize_provider.
Provider(raw) == IF raw \in {"jira", "github"} THEN raw ELSE "generic"

\* parse_ticket_json and validate_ticket_contract: what they find wrong.
ContractErrors(t, provider) ==
    IF t.file # "object" THEN {t.file}
    ELSE {c \in {"schema", "environment", "title", "labels"} : c \notin t.good}
           \cup (IF t.repository = "empty" THEN {"repository"} ELSE {})
           \cup (IF provider = "jira" /\ t.project = "empty" THEN {"tracker_project_key"} ELSE {})
           \cup (IF provider = "github" /\ t.repository # "owner/repo" THEN {"owner_repo"} ELSE {})

\* Mutant: the key is of the attempt to run the job, too.
IdempotencyKey_PerRun(policy, e, rerun) == <<e, rerun>>

\* The run and the payload are the same in every rerun; "off" sends none.
IdempotencyKey(policy, e, rerun) == IF policy.mode = "off" THEN <<>> ELSE <<e>>

\* extract_tracker_reconciliation of a 2xx answer: the identifiers that its
\* provider's issues have.
Identifiers(provider) ==
    {"id", "url"} \cup (IF provider = "github" THEN {"number"} ELSE {"key"})
Reconciliation(provider, body) ==
    IF body \cap Identifiers(provider) # {} THEN "identifiers" ELSE "skipped"

-----------------------------------------------------------------------------
(* The job.                                                                 *)

NoRow == [status |-> "none", error |-> "none", attempts |-> 0, recon |-> "none"]
Start == [at |-> "rows", next |-> 1, attempt |-> 0, rerun |-> 0, exit |-> -1]

HandoffInit ==
    /\ setup \in Setup
    /\ job = Start
    /\ tracker = [e \in Environment |-> [issues |-> 0, keys |-> {}]]
    /\ rows = [e \in Environment |-> NoRow]
    /\ notes = [e \in Environment |-> "none"]

Env == EnvAt[job.next]
Target == setup.target[Env]
Policy == EffectivePolicy(setup, Env)
Filed(row) == /\ rows' = [rows EXCEPT ![Env] = row]
              /\ job' = [job EXCEPT !.next = @ + 1, !.attempt = 0]

LoadFails ==
    /\ job.at = "rows" /\ job.next = 1 /\ job.attempt = 0
    /\ PolicyUnreadable(setup)
    /\ job' = [job EXCEPT !.at = "done", !.exit = 1]
    /\ UNCHANGED <<setup, tracker, rows, notes>>

\* An environment that is not posted for: it has no URL, or its ticket is not
\* fit for its provider.
RefuseTicket ==
    /\ job.at = "rows" /\ job.next <= Len(EnvAt) /\ job.attempt = 0
    /\ ~PolicyUnreadable(setup)
    /\ LET errors == ContractErrors(Target.ticket, Provider(Target.provider))
       IN  /\ ~Target.url \/ errors # {}
           /\ Filed([NoRow EXCEPT !.status = IF Target.url THEN "failed" ELSE "skipped",
                                  !.error  = IF Target.url THEN "contract" ELSE "none"])
    /\ UNCHANGED <<setup, tracker, notes>>

\* Mutant: only a provider with an adapter has a contract.
MayPost_NoGeneric ==
    Target.url /\ (Provider(Target.provider) = "generic"
                   \/ ContractErrors(Target.ticket, Provider(Target.provider)) = {})

MayPost == Target.url /\ ContractErrors(Target.ticket, Provider(Target.provider)) = {}

\* The tracker takes a request: one with a key it has seen is answered as
\* before, if it heeds the header.
Taken(e, key) ==
    LET t == tracker[e]
    IN  IF setup.target[e].heeds /\ key # <<>> /\ key \in t.keys THEN t
        ELSE [issues |-> t.issues + 1, keys |-> IF key = <<>> THEN t.keys ELSE t.keys \cup {key}]

\* Mutant: one attempt more.
MayRetry_Once(attempt, policy) == attempt <= policy.max_attempts

MayRetry(attempt, policy) == attempt < policy.max_attempts

\* One urlopen of execute_post: what becomes of the request, and whether the
\* answer has it tried again.  urlopen follows a 301, 302 or 303 with a GET, which
\* files nothing: its 2xx counts as one of the tracker, its page may hold anything.
Post ==
    /\ job.at = "rows" /\ job.next <= Len(EnvAt)
    /\ ~PolicyUnreadable(setup)
    /\ MayPost
    /\ LET attempt == job.attempt + 1
           key     == IdempotencyKey(Policy, Env, job.rerun)
           Again   == job' = [job EXCEPT !.attempt = attempt] /\ UNCHANGED rows
           Failed(error) == Filed([NoRow EXCEPT !.status = "failed", !.error = error, !.attempts = attempt])
           \* the tracker files it, or somebody else answers, or a redirect leads
           \* away before it does or after
           Reached == tracker' = [tracker EXCEPT ![Env] = Taken(Env, key)] \/ UNCHANGED tracker
       IN  \/ /\ Reached
              /\ \E body \in {Target.body, {}} :
                    Filed([status |-> "success", error |-> "none", attempts |-> attempt,
                           recon |-> Reconciliation(Provider(Target.provider), body)])
           \* no answer, which is tried again, or one that is not HTTP, which is not
           \/ /\ Reached
              /\ (MayRetry(attempt, Policy) /\ Again) \/ Failed("unanswered")
           \* the tracker refuses, or a gateway before it gives up
           \/ /\ Reached
              /\ \E code \in {401, 503} :
                     IF MayRetry(attempt, Policy) /\ code \in Policy.retryable
                     THEN Again ELSE Failed("http")
    /\ UNCHANGED <<setup, notes>>

\* A contract that failed fails the job, a tracker that failed does not.
WriteResults ==
    /\ job.at = "rows" /\ job.next > Len(EnvAt)
    /\ job' = [job EXCEPT !.at = "done",
                          !.exit = IF \E e \in Environment : rows[e].error = "contract" THEN 2 ELSE 0]
    /\ UNCHANGED <<setup, tracker, rows, notes>>

\* writeback-reconciliation, after a run that succeeded; a file that has the
\* section keeps it.
WriteBack ==
    /\ job.at = "done" /\ job.exit = 0
    /\ notes' = [e \in Environment |->
           IF setup.target[e].ticket.file = "object" /\ notes[e] = "none"
           THEN rows[e].recon ELSE notes[e]]
    /\ notes' # notes
    /\ UNCHANGED <<setup, job, tracker, rows>>

\* The job is killed, or run again: the artifacts are downloaded anew.
RerunJob ==
    /\ job.rerun < MaxReruns
    /\ job' = [Start EXCEPT !.rerun = job.rerun + 1]
    /\ rows' = [e \in Environment |-> NoRow]
    /\ notes' = [e \in Environment |-> "none"]
    /\ UNCHANGED <<setup, tracker>>

HandoffNext == LoadFails \/ RefuseTicket \/ Post \/ WriteResults \/ WriteBack \/ RerunJob

HandoffSpec == HandoffInit /\ [][HandoffNext]_handoffVars

-----------------------------------------------------------------------------
(* Properties.                                                              *)

\* However often a request is retried, its answer lost and the job run again: a
\* tracker that heeds the Idempotency-Key files one issue for an environment,
\* unless the policy turned the key off.
OneIssue ==
    \A e \in Environment :
        setup.target[e].heeds /\ EffectivePolicy(setup, e).mode # "off" => tracker[e].issues <= 1

\* However a run ends and whatever a row says of it: no blind POST, since what an
\* issue was filed for had a ticket fit for its provider; and no tracker, not one
\* that ignores the Idempotency-Key either, holds more issues of an environment
\* than the runs of the job had attempts under its policy.
FilingBounded ==
    \A e \in Environment :
        LET t == setup.target[e]
        IN  /\ tracker[e].issues > 0 => t.url /\ ContractErrors(t.ticket, Provider(t.provider)) = {}
            /\ tracker[e].issues <= (job.rerun + 1) * EffectivePolicy(setup, e).max_attempts

=============================================================================
