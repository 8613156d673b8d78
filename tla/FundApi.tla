------------------------------ MODULE FundApi ------------------------------
(***************************************************************************)
(* The applications API of server/fund (routers/applications.py and the    *)
(* parts of ApplicationService behind it): one application, the calls that *)
(* clients make of it, some of them repeated with the same Idempotency-Key, *)
(* and fund_idempotency_records, which has no unique key.                  *)
(*                                                                         *)
(* A call is three steps, its reads seeing what is committed meanwhile:    *)
(* the record, the rows its checks need, and the writes with their commit. *)
(***************************************************************************)
EXTENDS Integers, FiniteSets

CONSTANTS
    Call,            \* calls, each made once; a retry is a call of its own
    RequestKey

VARIABLES
    calls,     \* each call's endpoint, key and progress
    records,   \* endpoint, key |-> fund_idempotency_records rows
    effects,   \* endpoint, key |-> applications, sessions, jobs or packets written
    fund       \* the application: status, scoring mode, decision

apiVars == <<calls, records, effects, fund>>

Keyed    == {"applications", "interview-sessions", "score", "escalation-packet"}
Endpoint == Keyed \cup {"mode"}
Slot     == Keyed \X RequestKey

\* mode: the one its checks read.  before: the effects of its endpoint and key
\* when the call came in (for the properties only).
CallRow == [endpoint : Endpoint, key : RequestKey, at : {"new", "record", "check", "write", "done"},
            answer : {"none", "fresh", "cached", "refused", "error", "lost"},
            want : {"enforce", "shadow"}, force : BOOLEAN, ok : BOOLEAN,
            mode : {"enforce", "shadow"}, before : Nat]

\* The bodies: the mode and force of a mode call, and whether the body is good
\* (the consents of an application, the name of a mode).
NewCall == {r \in [endpoint : Endpoint, key : RequestKey, at : {"new"}, answer : {"none"},
                   want : {"enforce", "shadow"}, force : BOOLEAN, ok : BOOLEAN,
                   mode : {"enforce"}, before : {0}] :
                /\ r.endpoint # "mode" => r.want = "enforce" /\ ~r.force
                /\ r.endpoint \notin {"applications", "mode"} => r.ok}

ApiInit ==
    /\ calls \in [Call -> NewCall]
    /\ records = [s \in Slot |-> 0]
    /\ effects = [s \in Slot |-> 0]
    /\ fund = [status |-> "intake_created", mode |-> "enforce", decision |-> "pending",
               sessions |-> FALSE]

SlotOf(c) == <<calls[c].endpoint, calls[c].key>>

Answered(c, answer) == calls' = [calls EXCEPT ![c].at = "done", ![c].answer = answer]
Proceed(c, at)      == calls' = [calls EXCEPT ![c].at = at]

\* The role and the key are there (see ApiKeys for the roles); the mode
\* endpoint has no key to look up.
Receive(c) ==
    /\ calls[c].at = "new"
    /\ calls' = [calls EXCEPT
           ![c].at = IF calls[c].endpoint = "mode" THEN "check" ELSE "record",
           ![c].before = IF calls[c].endpoint = "mode" THEN 0 ELSE effects[SlotOf(c)]]
    /\ UNCHANGED <<records, effects, fund>>

\* Mutant: the record is looked up by the key, and only answers a call to a
\* new application.
Found_CreateOnly(s) == IF s[1] = "applications" THEN records[s] ELSE 0

\* The rows that get_idempotency_response selects.
Found(s) == records[s]

\* One row is the answer, whatever the body of the call is; with two or more
\* scalar_one_or_none raises.
LookUp(c) ==
    /\ calls[c].at = "record"
    /\ CASE Found(SlotOf(c)) = 0 -> Proceed(c, "check")
         [] Found(SlotOf(c)) = 1 -> Answered(c, "cached")
         [] OTHER                -> Answered(c, "error")
    /\ UNCHANGED <<records, effects, fund>>

\* What the endpoint checks before it writes.
Admits(c) ==
    CASE calls[c].endpoint = "applications"      -> calls[c].ok
      [] calls[c].endpoint = "score"             -> fund.sessions
      [] calls[c].endpoint = "escalation-packet" -> fund.mode = "enforce" /\ fund.decision = "pass"
      [] calls[c].endpoint = "mode"              ->
             /\ calls[c].ok
             /\ fund.mode = "enforce" /\ calls[c].want = "shadow" =>
                    calls[c].force \/ fund.decision = "pending"
      [] OTHER                                   -> TRUE

\* A refusal is no record: the same key may be tried again.
Check(c) ==
    /\ calls[c].at = "check"
    /\ calls' = IF Admits(c)
                THEN [calls EXCEPT ![c].at = "write", ![c].mode = fund.mode]
                ELSE [calls EXCEPT ![c].at = "done", ![c].answer = "refused"]
    /\ UNCHANGED <<records, effects, fund>>

\* The row of the application after the writes of each endpoint.  The new
\* application of "applications" is another row.
Written(c) ==
    CASE calls[c].endpoint = "applications"       -> fund
      [] calls[c].endpoint = "interview-sessions" -> [fund EXCEPT !.status = "interview_in_progress",
                                                                  !.sessions = TRUE]
      [] calls[c].endpoint = "score"              -> [fund EXCEPT !.status = "scoring_queued"]
      [] calls[c].endpoint = "escalation-packet"  -> [fund EXCEPT !.status = "escalated"]
      [] calls[c].endpoint = "mode"               ->
             [fund EXCEPT !.mode = IF calls[c].mode = calls[c].want THEN @ ELSE calls[c].want]

\* save_idempotency_response is flushed with the effect, before the one commit.
WriteAndCommit(c) ==
    /\ calls[c].at = "write"
    /\ fund' = Written(c)
    /\ IF calls[c].endpoint = "mode"
       THEN UNCHANGED <<records, effects>>
       ELSE /\ effects' = [effects EXCEPT ![SlotOf(c)] = @ + 1]
            /\ records' = [records EXCEPT ![SlotOf(c)] = @ + 1]
    /\ Answered(c, "fresh")

\* The server or the connection dies before the commit; the client will retry.
LoseCall(c) ==
    /\ calls[c].at \in {"record", "check", "write"}
    /\ Answered(c, "lost")
    /\ UNCHANGED <<records, effects, fund>>

\* The scoring worker commits a decision (ScoringQueue).
WorkerDecides(d) ==
    /\ fund.decision = "pending"
    /\ fund.sessions
    /\ fund' = [fund EXCEPT !.decision = d, !.status = d]
    /\ UNCHANGED <<calls, records, effects>>

ApiNext ==
    \/ \E c \in Call : Receive(c) \/ LookUp(c) \/ Check(c) \/ WriteAndCommit(c) \/ LoseCall(c)
    \/ \E d \in {"pass", "fail"} : WorkerDecides(d)

ApiSpec == ApiInit /\ [][ApiNext]_apiVars

-----------------------------------------------------------------------------
(* Properties.                                                              *)

\* A call that comes in after one with its key has been applied is not applied:
\* it gets the first one's answer, or (when two were applied side by side,
\* which nothing prevents) an error.
RepeatNotApplied ==
    \A c \in Call : calls[c].answer = "fresh" => calls[c].before = 0

=============================================================================
