------------------------------- MODULE Outbox -------------------------------
(***************************************************************************)
(* The transactional outbox of server/fund: the fund_event_outbox table,   *)
(* the dispatcher replicas that publish its rows to a broker, and the      *)
(* operator command that replays the rows that failed for good.            *)
(*                                                                         *)
(* A dispatcher reads a batch of rows without locking them, publishes and  *)
(* marks them one by one, and commits once, after the last.  `row' is the  *)
(* committed table.  `copy' is a row as the dispatcher read it until it    *)
(* marks it, and then the row as its open transaction has written it; it   *)
(* holds the row lock from there to the commit.  The session writes only   *)
(* the columns whose value it changed, on the row as it is by then.        *)
(***************************************************************************)
EXTENDS Integers, FiniteSets

CONSTANTS
    Event,         \* outbox rows, numbered in the order of occurred_at
    Dispatcher,    \* outbox worker replicas
    Operator,      \* sessions of the replay-outbox command
    Outcomes,      \* what Publisher.publish may do, with this broker
    ReplayResets,  \* the values operators give to --reset-attempts
    BatchSize,     \* --batch-size
    MaxAttempts,   \* OutboxRepository.max_attempts
    RetryBase,     \* OutboxRepository.retry_base_seconds
    MaxCrashes,    \* bound: dispatcher transactions lost to a crash
    MaxReplays,    \* bound: replay commands committed
    MaxUnsure,     \* bound: errors raised for events the broker accepted
    NoEvent        \* the dispatcher publishes no event

\* accepted: the call returns, the broker has the event.  refused: it raises,
\* the broker does not have it.  unsure: it raises (a timeout), the broker has
\* it.  dropped: it returns, the broker does not have it: KafkaPublisher reads
\* no delivery report and Redis pub/sub keeps nothing for an absent consumer.
AnyOutcome == {"accepted", "refused", "unsure", "dropped"}

ASSUME ConstantsAssumption ==
    /\ Event \subseteq Nat
    /\ Outcomes \subseteq AnyOutcome
    /\ ReplayResets \subseteq BOOLEAN
    /\ BatchSize \in Nat \ {0}
    /\ MaxAttempts \in Nat \ {0}
    /\ RetryBase \in Nat \ {0}
    /\ MaxCrashes \in Nat
    /\ MaxReplays \in Nat
    /\ MaxUnsure \in Nat
    /\ NoEvent \notin Event

VARIABLES
    clock,     \* _utc_now()
    row,       \* committed fund_event_outbox rows
    accepted,  \* how often the broker has accepted each event
    pc,        \* where each dispatcher is in dispatch_once
    batch,     \* the events of `pending' it has not yet marked
    event,     \* the loop variable
    copy,      \* the rows of its batch, as read or as written
    held,      \* the events it has marked in its open transaction
    replaying, \* failed rows a replay command has read and not yet written
    crashes,   \* dispatcher transactions lost so far
    replays,   \* replay commands committed so far
    unsure     \* errors so far for events that the broker accepted

tableVars      == <<row, accepted>>
dispatcherVars == <<pc, batch, event, copy, held>>
boundVars      == <<crashes, replays, unsure>>
vars == <<clock, tableVars, dispatcherVars, replaying, boundVars>>

EventStatus == {"absent", "pending", "published", "failed"}

\* A NULL next_attempt_at is 0: either way the event is due.
EventRow == [status : EventStatus, attempts : Nat, nextAt : Int]
NoTime   == 0

NewRow(status) == [status |-> status, attempts |-> 0, nextAt |-> NoTime]

DispatcherState == {"idle", "publish", "published", "failed", "commit"}

Unlocked(e) == \A d \in Dispatcher : e \notin held[d]

\* Mutant: the retry of a row that failed once is never due.
Due_FirstOnly(r) == r.status = "pending" /\ r.nextAt = NoTime

\* fetch_pending's WHERE, and its ORDER BY occurred_at LIMIT batch_size.
Due(r) == r.status = "pending" /\ r.nextAt <= clock
Oldest(S) == {e \in S : Cardinality({f \in S : f < e}) < BatchSize}

\* Mutant: the batch has no order.
IsNext_Unordered(e, S) == e \in S

\* The for loop takes the batch in the order of the query.
IsNext(e, S) == e \in S /\ \A f \in S : e <= f

\* What mark_published leaves of the committed row r, for a row read as `read'.
MarkedPublished(r, read) ==
    [status |-> "published", attempts |-> r.attempts,
     nextAt |-> IF read.nextAt = NoTime THEN r.nextAt ELSE NoTime]

\* Mutant: the row is given up one attempt too early.
MarkedFailed_OneTooEarly(r, read) ==
    IF read.attempts + 2 >= MaxAttempts
    THEN [status |-> "failed", attempts |-> read.attempts + 1, nextAt |-> NoTime]
    ELSE [status |-> r.status, attempts |-> read.attempts + 1,
          nextAt |-> clock + RetryBase * 2^read.attempts]

\* What mark_failed leaves of it.  A row read as pending and marked pending has
\* no change of status to write.
MarkedFailed(r, read) ==
    IF read.attempts + 1 >= MaxAttempts
    THEN [status |-> "failed", attempts |-> read.attempts + 1,
          nextAt |-> IF read.nextAt = NoTime THEN r.nextAt ELSE NoTime]
    ELSE [status |-> r.status, attempts |-> read.attempts + 1,
          nextAt |-> clock + RetryBase * 2^read.attempts]

\* Mutant: the replay takes the attempts of one round back.
Replayed_Refunds(r, reset) ==
    [status |-> "pending", attempts |-> r.attempts - MaxAttempts, nextAt |-> clock]

\* What replay_failed does to a row it read as failed.
Replayed(r, reset) ==
    [status |-> "pending", attempts |-> IF reset THEN 0 ELSE r.attempts, nextAt |-> clock]

-----------------------------------------------------------------------------
Init ==
    /\ clock = 0
    /\ row = [e \in Event |-> NewRow("absent")]
    /\ accepted = [e \in Event |-> 0]
    /\ pc = [d \in Dispatcher |-> "idle"]
    /\ batch = [d \in Dispatcher |-> {}]
    /\ event = [d \in Dispatcher |-> NoEvent]
    /\ copy = [d \in Dispatcher |-> [e \in Event |-> NewRow("absent")]]
    /\ held = [d \in Dispatcher |-> {}]
    /\ replaying = [o \in Operator |-> {}]
    /\ crashes = 0
    /\ replays = 0
    /\ unsure = 0

-----------------------------------------------------------------------------
\* EventPublisher.publish, and the commit of the transaction it is part of.
\* Transactions commit in any order, whatever occurred_at they stamped.
AppendEvent(e) ==
    /\ row[e].status = "absent"
    /\ row' = [row EXCEPT ![e] = NewRow("pending")]
    /\ UNCHANGED <<clock, accepted, dispatcherVars, replaying, boundVars>>

-----------------------------------------------------------------------------
(* The dispatcher: run_loop around dispatch_once.                          *)

Stop(d) ==
    /\ pc' = [pc EXCEPT ![d] = "idle"]
    /\ batch' = [batch EXCEPT ![d] = {}]
    /\ event' = [event EXCEPT ![d] = NoEvent]
    /\ copy' = [copy EXCEPT ![d] = [e \in Event |-> NewRow("absent")]]
    /\ held' = [held EXCEPT ![d] = {}]

\* fetch_pending.  A batch without events changes nothing.
FetchPending(d) ==
    /\ pc[d] = "idle"
    /\ LET pending == Oldest({e \in Event : Due(row[e])}) IN
        /\ pending # {}
        /\ batch' = [batch EXCEPT ![d] = pending]
        /\ copy' = [copy EXCEPT ![d] = [e \in Event |-> IF e \in pending THEN row[e] ELSE @[e]]]
    /\ pc' = [pc EXCEPT ![d] = "publish"]
    /\ UNCHANGED <<clock, tableVars, event, held, replaying, boundVars>>

\* Mutant: a refused event is marked like an accepted one.
PublishEvent_IgnoresErrors(d, e, outcome) ==
    /\ pc[d] = "publish"
    /\ IsNext(e, batch[d])
    /\ outcome = "unsure" => unsure < MaxUnsure
    /\ event' = [event EXCEPT ![d] = e]
    /\ pc' = [pc EXCEPT ![d] = "published"]
    /\ accepted' = [accepted EXCEPT ![e] = IF outcome \in {"accepted", "unsure"} THEN @ + 1 ELSE @]
    /\ unsure' = IF outcome = "unsure" THEN unsure + 1 ELSE unsure
    /\ UNCHANGED <<clock, row, batch, copy, held, replaying, crashes, replays>>

\* publisher.publish of the next event of the batch.
PublishEvent(d, e, outcome) ==
    /\ pc[d] = "publish"
    /\ IsNext(e, batch[d])
    /\ outcome = "unsure" => unsure < MaxUnsure
    /\ event' = [event EXCEPT ![d] = e]
    /\ pc' = [pc EXCEPT ![d] = IF outcome \in {"accepted", "dropped"} THEN "published" ELSE "failed"]
    /\ accepted' = [accepted EXCEPT ![e] = IF outcome \in {"accepted", "unsure"} THEN @ + 1 ELSE @]
    /\ unsure' = IF outcome = "unsure" THEN unsure + 1 ELSE unsure
    /\ UNCHANGED <<clock, row, batch, copy, held, replaying, crashes, replays>>

\* mark_published or mark_failed: the flush waits for the row's lock.
MarkEvent(d) ==
    /\ pc[d] \in {"published", "failed"}
    /\ LET e == event[d] IN
        /\ Unlocked(e)
        /\ copy' = [copy EXCEPT ![d][e] = IF pc[d] = "published" THEN MarkedPublished(row[e], @)
                                                                 ELSE MarkedFailed(row[e], @)]
        /\ batch' = [batch EXCEPT ![d] = @ \ {e}]
        /\ held' = [held EXCEPT ![d] = @ \cup {e}]
        /\ pc' = [pc EXCEPT ![d] = IF batch[d] = {e} THEN "commit" ELSE "publish"]
    /\ event' = [event EXCEPT ![d] = NoEvent]
    /\ UNCHANGED <<clock, tableVars, replaying, boundVars>>

\* Mutant: only the last row of the batch is committed.
Commit_KeepsPending(d) ==
    /\ pc[d] = "commit"
    /\ row' = [e \in Event |-> IF e \in held[d] /\ \A f \in held[d] : f <= e
                               THEN copy[d][e] ELSE row[e]]
    /\ Stop(d)
    /\ UNCHANGED <<clock, accepted, replaying, boundVars>>

\* db.commit() at the end of the batch.
Commit(d) ==
    /\ pc[d] = "commit"
    /\ row' = [e \in Event |-> IF e \in held[d] THEN copy[d][e] ELSE row[e]]
    /\ Stop(d)
    /\ UNCHANGED <<clock, accepted, replaying, boundVars>>

\* The process dies, or a database error ends it: run_loop catches nothing.
\* Every mark of the batch is rolled back, the events stay with the broker.
Crash(d) ==
    /\ pc[d] # "idle"
    /\ crashes < MaxCrashes
    /\ crashes' = crashes + 1
    /\ Stop(d)
    /\ UNCHANGED <<clock, tableVars, replaying, replays, unsure>>

-----------------------------------------------------------------------------
(* The operator: replay-outbox.                                            *)

\* Mutant: the replay selects whatever ids it is given.
ReplayRead_AnyStatus(o, S) ==
    /\ replaying[o] = {}
    /\ replays < MaxReplays
    /\ S # {}
    /\ \A e \in S : row[e].status # "absent"
    /\ replaying' = [replaying EXCEPT ![o] = S]
    /\ UNCHANGED <<clock, tableVars, dispatcherVars, boundVars>>

\* SELECT ... WHERE status = 'failed', of the ids or the number asked for.
ReplayRead(o, S) ==
    /\ replaying[o] = {}
    /\ replays < MaxReplays
    /\ S # {}
    /\ \A e \in S : row[e].status = "failed"
    /\ replaying' = [replaying EXCEPT ![o] = S]
    /\ UNCHANGED <<clock, tableVars, dispatcherVars, boundVars>>

\* The flush, by primary key, and the commit.
ReplayWrite(o, reset) ==
    /\ replaying[o] # {}
    /\ replays < MaxReplays
    /\ \A e \in replaying[o] : Unlocked(e)
    /\ row' = [e \in Event |-> IF e \in replaying[o] THEN Replayed(row[e], reset) ELSE row[e]]
    /\ replaying' = [replaying EXCEPT ![o] = {}]
    /\ replays' = replays + 1
    /\ UNCHANGED <<clock, accepted, dispatcherVars, crashes, unsure>>

-----------------------------------------------------------------------------
\* Time passes while a pending row waits for it.
Tick ==
    /\ \E e \in Event : row[e].status = "pending" /\ row[e].nextAt > clock
    /\ clock' = clock + 1
    /\ UNCHANGED <<tableVars, dispatcherVars, replaying, boundVars>>

DispatcherStep(d) ==
    \/ FetchPending(d)
    \/ \E e \in Event, outcome \in Outcomes : PublishEvent(d, e, outcome)
    \/ MarkEvent(d)
    \/ Commit(d)

Next ==
    \/ \E e \in Event : AppendEvent(e)
    \/ \E d \in Dispatcher : DispatcherStep(d) \/ Crash(d)
    \/ \E o \in Operator, S \in SUBSET Event : ReplayRead(o, S)
    \/ \E o \in Operator, reset \in ReplayResets : ReplayWrite(o, reset)
    \/ Tick

Spec == Init /\ [][Next]_vars

\* run_loop polls for ever and a fetched batch runs to its commit, whatever
\* the broker answers; nothing makes a request commit or an operator act.
Fairness ==
    /\ \A d \in Dispatcher : WF_vars(DispatcherStep(d))
    /\ WF_vars(Tick)

FairSpec == Spec /\ Fairness

-----------------------------------------------------------------------------
(* Properties.                                                             *)

TypeOK ==
    /\ clock \in Nat
    /\ row \in [Event -> EventRow]
    /\ accepted \in [Event -> Nat]
    /\ pc \in [Dispatcher -> DispatcherState]
    /\ batch \in [Dispatcher -> SUBSET Event]
    /\ event \in [Dispatcher -> Event \cup {NoEvent}]
    /\ copy \in [Dispatcher -> [Event -> EventRow]]
    /\ held \in [Dispatcher -> SUBSET Event]
    /\ replaying \in [Operator -> SUBSET Event]
    /\ crashes \in Nat
    /\ replays \in Nat
    /\ unsure \in Nat

\* No event is lost: a row is committed as published only if the broker has
\* accepted its event, whatever races, crashes, retries and replays came
\* before.  It needs a broker client that reports what it could not deliver.
PublishedDelivered == \A e \in Event : row[e].status = "published" => accepted[e] >= 1

\* Duplicates are bounded: beside one delivery by each replica, again after
\* each replay, only a crash or an error for an accepted event (a timeout)
\* makes dispatch_once publish an event once more.
DuplicatesBounded ==
    \A e \in Event :
        accepted[e] <= Cardinality(Dispatcher) * (1 + replays) + crashes + unsure

\* An event is in the dead-letter list only after all its attempts.  It needs
\* a single dispatcher: a second one writes attempts it counted from its read.
DeadLetterExhausted ==
    \A e \in Event : row[e].status = "failed" => row[e].attempts >= MaxAttempts

\* docs/ops/README.md:112, "failed_dlq - terminal failures": an event recorded
\* as published never turns into a failed one (nor is it ever pending again).
PublishedFinal ==
    [][\A e \in Event : row[e].status = "published" => row'[e].status = "published"]_row

\* Every committed event is eventually published or dead-lettered, whatever
\* the broker answers and however the batches of the replicas overlap.
EventSettles ==
    \A e \in Event : row[e].status = "pending" ~> row[e].status \in {"published", "failed"}

\* Dispatchers that hold marked rows never wait for each other for ever: all
\* take their rows in the order of occurred_at.
WaitEnds == \A d \in Dispatcher : pc[d] \in {"published", "failed"} ~> pc[d] \in {"idle", "commit", "publish"}

=============================================================================
