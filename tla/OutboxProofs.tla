---------------------------- MODULE OutboxProofs ----------------------------
(***************************************************************************)
(* Proofs about Outbox, for every set of events, dispatchers and operators *)
(* and every batch size and attempt limit.  First types, then that no      *)
(* event is lost with any number of dispatchers, then what holds only with *)
(* a single one: what it read is still there when it writes.  Last, how    *)
(* often any number of them deliver an event.                              *)
(***************************************************************************)
EXTENDS Outbox, FiniteSetTheorems, TLAPS

USE DEF tableVars, dispatcherVars, boundVars

-----------------------------------------------------------------------------
(* Types.                                                                  *)

\* A dispatcher that marks an event has one.
EventKnown ==
    \A d \in Dispatcher : pc[d] \in {"published", "failed"} => event[d] \in Event

\* Every write to an outbox row keeps its type.
LEMMA RowTypes ==
    ASSUME NEW r \in EventRow, NEW read \in EventRow, clock \in Nat
    PROVE  /\ MarkedPublished(r, read) \in EventRow
           /\ MarkedFailed(r, read) \in EventRow
           /\ \A reset \in BOOLEAN : Replayed(r, reset) \in EventRow
           /\ NewRow("absent") \in EventRow /\ NewRow("pending") \in EventRow
<1>1. MarkedPublished(r, read) \in EventRow
  BY DEF MarkedPublished, EventRow, EventStatus, NoTime
<1>2. MarkedFailed(r, read) \in EventRow
  <2>1. clock + RetryBase * 2^read.attempts \in Int
    BY ConstantsAssumption DEF EventRow
  <2> QED BY <2>1 DEF MarkedFailed, EventRow, EventStatus, NoTime
<1>3. \A reset \in BOOLEAN : Replayed(r, reset) \in EventRow
  BY DEF Replayed, EventRow, EventStatus
<1>4. NewRow("absent") \in EventRow /\ NewRow("pending") \in EventRow
  BY DEF NewRow, EventRow, EventStatus, NoTime
<1> QED BY <1>1, <1>2, <1>3, <1>4

\* What mark_published and mark_failed do to the dispatcher's rows.
LEMMA MarkStep ==
    ASSUME TypeOK, EventKnown, NEW d \in Dispatcher, MarkEvent(d)
    PROVE  LET e == event[d] IN
           /\ e \in Event
           /\ \A c \in Dispatcher : e \notin held[c]
           /\ copy' \in [Dispatcher -> [Event -> EventRow]]
           /\ pc[d] = "published" => copy'[d][e] = MarkedPublished(row[e], copy[d][e])
           /\ pc[d] = "failed" => copy'[d][e] = MarkedFailed(row[e], copy[d][e])
           /\ \A c \in Dispatcher, f \in Event : c # d \/ f # e => copy'[c][f] = copy[c][f]
<1> DEFINE e == event[d]
           new == IF pc[d] = "published" THEN MarkedPublished(row[e], copy[d][e])
                                         ELSE MarkedFailed(row[e], copy[d][e])
<1>1. e \in Event /\ \A c \in Dispatcher : e \notin held[c]
  BY DEF MarkEvent, EventKnown, Unlocked
<1>2. row[e] \in EventRow /\ copy[d][e] \in EventRow /\ clock \in Nat
  BY <1>1 DEF TypeOK
<1>3. new \in EventRow
  BY <1>2, RowTypes
<1>4. copy' = [copy EXCEPT ![d] = [copy[d] EXCEPT ![e] = new]]
  BY DEF MarkEvent
<1> HIDE DEF new
<1>5. /\ copy' \in [Dispatcher -> [Event -> EventRow]]
      /\ copy'[d][e] = new
      /\ \A c \in Dispatcher, f \in Event : c # d \/ f # e => copy'[c][f] = copy[c][f]
  BY <1>1, <1>3, <1>4 DEF TypeOK
<1> QED BY <1>1, <1>5 DEF new

\* The end of a dispatcher's turn is typed.
LEMMA StopTypes ==
    ASSUME TypeOK, NEW d \in Dispatcher, Stop(d)
    PROVE  /\ pc' \in [Dispatcher -> DispatcherState]
           /\ batch' \in [Dispatcher -> SUBSET Event]
           /\ event' \in [Dispatcher -> Event \cup {NoEvent}]
           /\ copy' \in [Dispatcher -> [Event -> EventRow]]
           /\ held' \in [Dispatcher -> SUBSET Event]
<1>1. [e \in Event |-> NewRow("absent")] \in [Event -> EventRow]
  BY RowTypes DEF NewRow, EventRow, EventStatus, NoTime
<1> QED BY <1>1 DEF TypeOK, Stop, DispatcherState

LEMMA TypeInit == Init => TypeOK /\ EventKnown
BY DEF Init, TypeOK, EventKnown, NewRow, EventRow, EventStatus, NoTime, DispatcherState

LEMMA TypeNext == TypeOK /\ EventKnown /\ [Next]_vars => TypeOK' /\ EventKnown'
<1> SUFFICES ASSUME TypeOK, EventKnown, [Next]_vars PROVE TypeOK' /\ EventKnown'
  OBVIOUS
<1>1. ASSUME NEW e \in Event, AppendEvent(e) PROVE TypeOK' /\ EventKnown'
  <2>1. NewRow("pending") \in EventRow
    BY DEF NewRow, EventRow, EventStatus, NoTime
  <2> QED BY <1>1, <2>1 DEF TypeOK, EventKnown, AppendEvent
<1>2. ASSUME NEW d \in Dispatcher, FetchPending(d) PROVE TypeOK' /\ EventKnown'
  <2> DEFINE pending == Oldest({e \in Event : Due(row[e])})
             new == [e \in Event |-> IF e \in pending THEN row[e] ELSE copy[d][e]]
  <2>1. pending \in SUBSET Event /\ new \in [Event -> EventRow]
    BY DEF Oldest, TypeOK
  <2>2. /\ batch' = [batch EXCEPT ![d] = pending]
        /\ copy' = [copy EXCEPT ![d] = new]
        /\ pc' = [pc EXCEPT ![d] = "publish"]
        /\ UNCHANGED <<clock, row, accepted, event, held, replaying, crashes, replays, unsure>>
    BY <1>2 DEF FetchPending
  <2> HIDE DEF pending, new
  <2> QED BY <2>1, <2>2 DEF TypeOK, EventKnown, DispatcherState
<1>3. ASSUME NEW d \in Dispatcher, NEW e \in Event, NEW outcome \in Outcomes,
             PublishEvent(d, e, outcome)
      PROVE  TypeOK' /\ EventKnown'
  BY <1>3 DEF TypeOK, EventKnown, PublishEvent, DispatcherState
<1>4. ASSUME NEW d \in Dispatcher, MarkEvent(d) PROVE TypeOK' /\ EventKnown'
  <2>1. copy' \in [Dispatcher -> [Event -> EventRow]] /\ event[d] \in Event
    BY <1>4, MarkStep
  <2> QED BY <1>4, <2>1 DEF TypeOK, EventKnown, MarkEvent, DispatcherState
<1>5. ASSUME NEW d \in Dispatcher, Commit(d) PROVE TypeOK' /\ EventKnown'
  <2>1. row' \in [Event -> EventRow]
    BY <1>5 DEF TypeOK, Commit
  <2> QED BY <1>5, <2>1, StopTypes DEF TypeOK, EventKnown, Commit, Stop
<1>6. ASSUME NEW d \in Dispatcher, Crash(d) PROVE TypeOK' /\ EventKnown'
  <2>1. Stop(d) /\ UNCHANGED <<clock, row, accepted, replaying, replays, unsure>>
        /\ crashes' = crashes + 1
    BY <1>6 DEF Crash
  <2>2. TypeOK'
    BY <2>1, StopTypes DEF TypeOK
  <2>3. EventKnown'
    BY <2>1 DEF TypeOK, EventKnown, Stop
  <2> QED BY <2>2, <2>3
<1>7. ASSUME NEW o \in Operator, NEW S \in SUBSET Event, ReplayRead(o, S)
      PROVE  TypeOK' /\ EventKnown'
  BY <1>7 DEF TypeOK, EventKnown, ReplayRead
<1>8. ASSUME NEW o \in Operator, NEW reset \in ReplayResets, ReplayWrite(o, reset)
      PROVE  TypeOK' /\ EventKnown'
  <2>1. \A e \in Event : Replayed(row[e], reset) \in EventRow
    BY RowTypes, ConstantsAssumption DEF TypeOK
  <2> QED BY <1>8, <2>1 DEF TypeOK, EventKnown, ReplayWrite
<1>9. CASE Tick \/ UNCHANGED vars
  BY <1>9 DEF TypeOK, EventKnown, Tick, vars
<1> QED BY <1>1, <1>2, <1>3, <1>4, <1>5, <1>6, <1>7, <1>8, <1>9 DEF Next, DispatcherStep

\* The type invariant of the outbox.
THEOREM TypeCorrect == Spec => []TypeOK
BY TypeInit, TypeNext, PTL DEF Spec

-----------------------------------------------------------------------------
(* No event is lost.                                                       *)

\* A dispatcher is about to write `published', or has written it, only for an
\* event that the broker has.
MarksDelivered ==
    \A d \in Dispatcher :
        /\ pc[d] = "published" => accepted[event[d]] >= 1
        /\ \A e \in held[d] : copy[d][e].status = "published" => accepted[e] >= 1

DeliveredInv == TypeOK /\ EventKnown /\ MarksDelivered /\ PublishedDelivered

LEMMA DeliveredNext ==
    ASSUME "dropped" \notin Outcomes, DeliveredInv, [Next]_vars
    PROVE  MarksDelivered' /\ PublishedDelivered'
<1> USE DEF DeliveredInv
<1>1. ASSUME NEW e \in Event, AppendEvent(e) PROVE MarksDelivered' /\ PublishedDelivered'
  BY <1>1 DEF MarksDelivered, PublishedDelivered, AppendEvent, NewRow, TypeOK
<1>2. ASSUME NEW d \in Dispatcher, FetchPending(d) PROVE MarksDelivered' /\ PublishedDelivered'
  <2>1. /\ \A c \in Dispatcher : pc'[c] = "published" => pc[c] = "published"
        /\ \A c \in Dispatcher \ {d} : copy'[c] = copy[c]
        /\ \A e \in held[d] : \/ copy'[d][e] = copy[d][e]
                              \/ copy'[d][e] = row[e]
        /\ UNCHANGED <<event, held, row, accepted>>
    BY <1>2 DEF FetchPending, TypeOK
  <2> QED BY <2>1 DEF MarksDelivered, PublishedDelivered, TypeOK
<1>3. ASSUME NEW d \in Dispatcher, NEW e \in Event, NEW outcome \in Outcomes,
             PublishEvent(d, e, outcome)
      PROVE  MarksDelivered' /\ PublishedDelivered'
  <2>1. /\ \A f \in Event : accepted'[f] >= accepted[f]
        /\ UNCHANGED <<row, copy, held>>
    BY <1>3 DEF PublishEvent, TypeOK
  <2>2. pc'[d] = "published" => event'[d] = e /\ accepted'[e] >= 1
    BY <1>3 DEF PublishEvent, TypeOK
  <2>3. \A c \in Dispatcher \ {d} : pc'[c] = pc[c] /\ event'[c] = event[c]
    BY <1>3 DEF PublishEvent, TypeOK
  <2>4. \A f \in Event : accepted[f] \in Nat /\ accepted'[f] \in Nat
    BY TypeNext DEF TypeOK
  <2>5. ASSUME NEW c \in Dispatcher, pc'[c] = "published" PROVE accepted'[event'[c]] >= 1
    <3>1. CASE c = d
      BY <2>2, <2>5, <3>1
    <3>2. CASE c # d
      <4>1. event[c] \in Event /\ accepted[event[c]] >= 1
        BY <2>3, <2>5, <3>2 DEF MarksDelivered, EventKnown
      <4> QED BY <2>1, <2>3, <2>4, <3>2, <4>1
    <3> QED BY <3>1, <3>2
  <2>6. ASSUME NEW c \in Dispatcher, NEW f \in held[c], copy[c][f].status = "published"
        PROVE  accepted'[f] >= 1
    <3>1. f \in Event /\ accepted[f] >= 1
      BY <2>6 DEF MarksDelivered, TypeOK
    <3> QED BY <2>1, <2>4, <3>1
  <2>7. ASSUME NEW f \in Event, row[f].status = "published" PROVE accepted'[f] >= 1
    BY <2>1, <2>4, <2>7 DEF PublishedDelivered
  <2> QED BY <2>1, <2>5, <2>6, <2>7 DEF MarksDelivered, PublishedDelivered
<1>4. ASSUME NEW d \in Dispatcher, MarkEvent(d) PROVE MarksDelivered' /\ PublishedDelivered'
  <2> DEFINE e == event[d]
  <2>1. /\ e \in Event
        /\ \A c \in Dispatcher, f \in Event : c # d \/ f # e => copy'[c][f] = copy[c][f]
    BY <1>4, MarkStep
  <2>2. copy'[d][e].status = "published" => accepted[e] >= 1
    <3>1. CASE pc[d] = "published"
      BY <3>1 DEF MarksDelivered
    <3>2. CASE pc[d] = "failed"
      <4>1. copy'[d][e] = MarkedFailed(row[e], copy[d][e])
        BY <1>4, <3>2, MarkStep
      <4>2. copy'[d][e].status \in {"failed", row[e].status}
        BY <4>1 DEF MarkedFailed
      <4> QED BY <2>1, <4>2 DEF PublishedDelivered
    <3> QED BY <1>4, <3>1, <3>2 DEF MarkEvent
  <2>3. /\ \A c \in Dispatcher \ {d} : pc'[c] = pc[c] /\ event'[c] = event[c] /\ held'[c] = held[c]
        /\ pc'[d] # "published" /\ held'[d] = held[d] \cup {e}
        /\ UNCHANGED <<row, accepted>>
    BY <1>4 DEF MarkEvent, TypeOK
  <2> QED BY <2>1, <2>2, <2>3 DEF MarksDelivered, PublishedDelivered, TypeOK
<1>5. ASSUME NEW d \in Dispatcher, Commit(d) \/ Crash(d) PROVE MarksDelivered' /\ PublishedDelivered'
  <2>1. /\ \A c \in Dispatcher \ {d} : /\ pc'[c] = pc[c] /\ event'[c] = event[c]
                                       /\ held'[c] = held[c] /\ copy'[c] = copy[c]
        /\ pc'[d] # "published" /\ held'[d] = {} /\ accepted' = accepted
    BY <1>5 DEF Commit, Crash, Stop, TypeOK
  <2>2. \A e \in Event : \/ row'[e] = row[e]
                         \/ e \in held[d] /\ row'[e] = copy[d][e]
    BY <1>5 DEF Commit, Crash
  <2> QED BY <2>1, <2>2 DEF MarksDelivered, PublishedDelivered
<1>6. ASSUME NEW o \in Operator, NEW reset \in ReplayResets, ReplayWrite(o, reset)
      PROVE  MarksDelivered' /\ PublishedDelivered'
  <2>1. \A e \in Event : row'[e] = row[e] \/ row'[e].status = "pending"
    BY <1>6 DEF ReplayWrite, Replayed
  <2> QED BY <1>6, <2>1 DEF ReplayWrite, MarksDelivered, PublishedDelivered
<1>7. CASE (\E o \in Operator, S \in SUBSET Event : ReplayRead(o, S)) \/ Tick \/ UNCHANGED vars
  BY <1>7 DEF ReplayRead, Tick, vars, MarksDelivered, PublishedDelivered
<1> QED BY <1>1, <1>2, <1>3, <1>4, <1>5, <1>6, <1>7 DEF Next, DispatcherStep

\* With a broker client that reports what it could not deliver, a published
\* row is a delivered event: for any number of replicas, crashes and replays.
THEOREM NoEventLost ==
    ASSUME "dropped" \notin Outcomes
    PROVE  Spec => []PublishedDelivered
<1>1. Init => DeliveredInv
  BY TypeInit DEF Init, DeliveredInv, MarksDelivered, PublishedDelivered, NewRow
<1>2. DeliveredInv /\ [Next]_vars => DeliveredInv'
  BY TypeNext, DeliveredNext DEF DeliveredInv
<1> QED BY <1>1, <1>2, PTL DEF Spec, DeliveredInv

-----------------------------------------------------------------------------
(* A single dispatcher.  Nobody else writes a pending row, so a mark is     *)
(* made on the row that was read.                                          *)

OneDispatcher == \A c, d \in Dispatcher : c = d
OneOperator   == \A o, p \in Operator : o = p

\* What a replay command has read as failed is failed when it writes.
ReplayedFailed == \A o \in Operator : \A e \in replaying[o] : row[e].status = "failed"

\* A row to mark is as it was read, and a marked row is still pending.
ReadGrounded ==
    \A d \in Dispatcher :
        /\ pc[d] \in {"published", "failed"} => event[d] \in batch[d]
        /\ pc[d] = "idle" => held[d] = {}
        /\ batch[d] \cap held[d] = {}
        /\ \A e \in batch[d] : copy[d][e] = row[e] /\ row[e].status = "pending"
        /\ \A e \in held[d] : /\ row[e].status = "pending"
                              /\ copy[d][e].status = "failed" => copy[d][e].attempts >= MaxAttempts

SingleInv == /\ TypeOK
             /\ EventKnown
             /\ ReplayedFailed
             /\ ReadGrounded
             /\ DeadLetterExhausted

\* A pending row that the dispatcher fetched is not changed by others.
LEMMA GroundedKept ==
    ASSUME ReadGrounded, NEW d \in Dispatcher,
           UNCHANGED <<pc, batch, event, copy, held>>,
           \A e \in batch[d] \cup held[d] : row'[e] = row[e]
    PROVE  ReadGrounded!(d)'
BY DEF ReadGrounded

LEMMA SingleNext ==
    ASSUME OneDispatcher, OneOperator, SingleInv, [Next]_vars
    PROVE  SingleInv'
<1> USE DEF SingleInv
<1>0. TypeOK' /\ EventKnown'
  BY TypeNext
<1> SUFFICES ReplayedFailed' /\ ReadGrounded' /\ DeadLetterExhausted'
  BY <1>0
<1>1. ASSUME NEW e \in Event, AppendEvent(e)
      PROVE  ReplayedFailed' /\ ReadGrounded' /\ DeadLetterExhausted'
  <2>1. /\ row[e].status = "absent" /\ row'[e].status = "pending"
        /\ \A f \in Event \ {e} : row'[f] = row[f]
        /\ UNCHANGED <<pc, batch, event, copy, held, replaying>>
    BY <1>1 DEF AppendEvent, NewRow, TypeOK
  <2>2. ReadGrounded'
    <3> SUFFICES ASSUME NEW d \in Dispatcher PROVE ReadGrounded!(d)'
      BY DEF ReadGrounded
    <3>1. \A f \in batch[d] \cup held[d] : f \in Event \ {e}
      BY <2>1 DEF ReadGrounded, TypeOK
    <3>2. \A f \in batch[d] \cup held[d] : row'[f] = row[f]
      BY <2>1, <3>1
    <3> QED BY <2>1, <3>2, GroundedKept
  <2> QED BY <2>1, <2>2 DEF ReplayedFailed, DeadLetterExhausted, TypeOK
<1>2. ASSUME NEW d \in Dispatcher, FetchPending(d)
      PROVE  ReplayedFailed' /\ ReadGrounded' /\ DeadLetterExhausted'
  <2>1. /\ held[d] = {} /\ UNCHANGED <<row, held, replaying>>
        /\ pc'[d] = "publish"
        /\ \A e \in batch'[d] : e \in Event /\ row[e].status = "pending" /\ copy'[d][e] = row[e]
    <3> DEFINE pending == Oldest({e \in Event : Due(row[e])})
               new == [e \in Event |-> IF e \in pending THEN row[e] ELSE copy[d][e]]
    <3>1. /\ batch' = [batch EXCEPT ![d] = pending]
          /\ copy' = [copy EXCEPT ![d] = new]
      BY <1>2 DEF FetchPending
    <3>2. batch'[d] = pending /\ copy'[d] = new
      <4> HIDE DEF pending, new
      <4> QED BY <3>1 DEF TypeOK
    <3>3. \A e \in pending : e \in Event /\ row[e].status = "pending" /\ new[e] = row[e]
      BY DEF Oldest, Due
    <3>4. /\ held[d] = {} /\ UNCHANGED <<row, held, replaying>> /\ pc'[d] = "publish"
      BY <1>2 DEF FetchPending, ReadGrounded, TypeOK
    <3> QED BY <3>2, <3>3, <3>4
  <2>2. ReadGrounded'
    BY <2>1 DEF ReadGrounded, OneDispatcher
  <2> QED BY <2>1, <2>2 DEF ReplayedFailed, DeadLetterExhausted
<1>3. ASSUME NEW d \in Dispatcher, NEW e \in Event, NEW outcome \in Outcomes,
             PublishEvent(d, e, outcome)
      PROVE  ReplayedFailed' /\ ReadGrounded' /\ DeadLetterExhausted'
  <2>1. /\ e \in batch[d] /\ event'[d] = e /\ pc'[d] # "idle"
        /\ UNCHANGED <<row, batch, copy, held, replaying>>
    BY <1>3 DEF PublishEvent, IsNext, TypeOK
  <2>2. ReadGrounded'
    BY <2>1 DEF ReadGrounded, OneDispatcher
  <2> QED BY <2>1, <2>2 DEF ReplayedFailed, DeadLetterExhausted
<1>4. ASSUME NEW d \in Dispatcher, MarkEvent(d)
      PROVE  ReplayedFailed' /\ ReadGrounded' /\ DeadLetterExhausted'
  <2> DEFINE e == event[d]
  <2>1. /\ e \in Event /\ e \in batch[d] /\ row[e] = copy[d][e] /\ row[e].status = "pending"
        /\ \A f \in Event \ {e} : copy'[d][f] = copy[d][f]
    <3>1. e \in batch[d]
      BY <1>4 DEF ReadGrounded, MarkEvent
    <3>2. e \in Event /\ \A f \in Event \ {e} : copy'[d][f] = copy[d][f]
      BY <1>4, MarkStep
    <3> QED BY <3>1, <3>2 DEF ReadGrounded
  <2>2. copy'[d][e].status = "failed" => copy'[d][e].attempts >= MaxAttempts
    <3>1. CASE pc[d] = "published"
      <4>1. copy'[d][e] = MarkedPublished(row[e], copy[d][e])
        BY <1>4, <3>1, MarkStep
      <4> QED BY <4>1 DEF MarkedPublished
    <3>2. CASE pc[d] = "failed"
      <4>1. copy'[d][e] = MarkedFailed(row[e], copy[d][e])
        BY <1>4, <3>2, MarkStep
      <4> QED BY <2>1, <4>1 DEF MarkedFailed
    <3> QED BY <1>4, <3>1, <3>2 DEF MarkEvent
  <2>3. /\ batch'[d] = batch[d] \ {e} /\ held'[d] = held[d] \cup {e}
        /\ pc'[d] \in {"commit", "publish"}
        /\ UNCHANGED <<row, replaying>>
    BY <1>4 DEF MarkEvent, TypeOK
  <2>4. ReadGrounded'
    BY <2>1, <2>2, <2>3 DEF ReadGrounded, OneDispatcher, TypeOK
  <2> QED BY <2>3, <2>4 DEF ReplayedFailed, DeadLetterExhausted
<1>5. ASSUME NEW d \in Dispatcher, Commit(d) \/ Crash(d)
      PROVE  ReplayedFailed' /\ ReadGrounded' /\ DeadLetterExhausted'
  <2>1. /\ pc'[d] = "idle" /\ batch'[d] = {} /\ held'[d] = {} /\ replaying' = replaying
    BY <1>5 DEF Commit, Crash, Stop, TypeOK
  <2>2. \A e \in Event : \/ row'[e] = row[e]
                         \/ e \in held[d] /\ row'[e] = copy[d][e]
    BY <1>5 DEF Commit, Crash
  <2>3. ReadGrounded'
    BY <2>1 DEF ReadGrounded, OneDispatcher
  <2>4. ReplayedFailed'
    BY <2>1, <2>2 DEF ReplayedFailed, ReadGrounded, TypeOK
  <2>5. DeadLetterExhausted'
    BY <2>2 DEF DeadLetterExhausted, ReadGrounded
  <2> QED BY <2>3, <2>4, <2>5
<1>6. ASSUME NEW o \in Operator, NEW S \in SUBSET Event, ReplayRead(o, S)
      PROVE  ReplayedFailed' /\ ReadGrounded' /\ DeadLetterExhausted'
  BY <1>6 DEF ReplayRead, ReplayedFailed, ReadGrounded, DeadLetterExhausted, TypeOK
<1>7. ASSUME NEW o \in Operator, NEW reset \in ReplayResets, ReplayWrite(o, reset)
      PROVE  ReplayedFailed' /\ ReadGrounded' /\ DeadLetterExhausted'
  <2>1. /\ \A e \in Event : IF e \in replaying[o]
                            THEN row[e].status = "failed" /\ row'[e].status = "pending"
                            ELSE row'[e] = row[e]
        /\ replaying'[o] = {}
        /\ UNCHANGED <<pc, batch, event, copy, held>>
    BY <1>7 DEF ReplayWrite, Replayed, ReplayedFailed, TypeOK
  <2>2. ReadGrounded'
    BY <2>1 DEF ReadGrounded, TypeOK
  <2>3. ReplayedFailed' /\ DeadLetterExhausted'
    BY <2>1 DEF ReplayedFailed, OneOperator, DeadLetterExhausted
  <2> QED BY <2>2, <2>3
<1>8. CASE Tick \/ UNCHANGED vars
  BY <1>8 DEF Tick, vars, ReplayedFailed, ReadGrounded, DeadLetterExhausted
<1> QED BY <1>1, <1>2, <1>3, <1>4, <1>5, <1>6, <1>7, <1>8 DEF Next, DispatcherStep

LEMMA SingleInvariant ==
    ASSUME OneDispatcher, OneOperator
    PROVE  Spec => []SingleInv
<1>1. Init => SingleInv
  BY TypeInit DEF Init, SingleInv, ReplayedFailed, ReadGrounded, DeadLetterExhausted, NewRow
<1>2. SingleInv /\ [Next]_vars => SingleInv'
  BY SingleNext
<1> QED BY <1>1, <1>2, PTL DEF Spec

\* With one dispatcher a dead-lettered event has used up all its attempts.
THEOREM DeadLettersExhausted ==
    ASSUME OneDispatcher, OneOperator
    PROVE  Spec => []DeadLetterExhausted
BY SingleInvariant, PTL DEF SingleInv

\* With one dispatcher and one operator a published row stays published.
THEOREM PublishedRowsFinal ==
    ASSUME OneDispatcher, OneOperator
    PROVE  Spec => PublishedFinal
<1>1. ASSUME SingleInv, Next, NEW e \in Event, row[e].status = "published"
      PROVE  row'[e].status = "published"
  <2>1. ASSUME NEW f \in Event, AppendEvent(f) PROVE row'[e].status = "published"
    BY <1>1, <2>1 DEF AppendEvent, SingleInv, TypeOK
  <2>2. ASSUME NEW d \in Dispatcher, Commit(d) PROVE row'[e].status = "published"
    BY <1>1, <2>2 DEF Commit, SingleInv, ReadGrounded
  <2>3. ASSUME NEW o \in Operator, NEW reset \in ReplayResets, ReplayWrite(o, reset)
        PROVE  row'[e].status = "published"
    BY <1>1, <2>3 DEF ReplayWrite, SingleInv, ReplayedFailed
  <2>4. ASSUME NEW d \in Dispatcher, DispatcherStep(d) \/ Crash(d), ~Commit(d) PROVE row' = row
    BY <2>4 DEF DispatcherStep, Crash, FetchPending, PublishEvent, MarkEvent
  <2>5. (\E o \in Operator, S \in SUBSET Event : ReplayRead(o, S)) \/ Tick => row' = row
    BY DEF ReplayRead, Tick
  <2> QED BY <1>1, <2>1, <2>2, <2>3, <2>4, <2>5 DEF Next
<1>2. SingleInv /\ [Next]_vars
        => [\A e \in Event : row[e].status = "published" => row'[e].status = "published"]_row
  BY <1>1 DEF vars
<1> QED BY <1>2, SingleInvariant, PTL DEF PublishedFinal, Spec

-----------------------------------------------------------------------------
(* Duplicates, for any number of dispatchers.                              *)

\* A row that may still be due: not published and not given up.
Open(r) == r.status \in {"absent", "pending"}

\* The dispatcher may yet deliver the event at no charge: it has it in its batch
\* and has not just delivered it, or its row is open once the dispatcher is done.
MayDeliver(d, e) ==
    IF e \in batch[d] THEN ~(pc[d] = "published" /\ event[d] = e)
    ELSE IF e \in held[d] THEN Open(copy[d][e])
    ELSE Open(row[e])

Free(e) == {d \in Dispatcher : MayDeliver(d, e)}

\* An idle dispatcher holds nothing; an event that is delivered or refused is
\* still in the batch; no two dispatchers hold a row; and what one leaves open
\* was open, since the row cannot change before the commit.
TurnKept ==
    /\ \A d \in Dispatcher :
          /\ pc[d] = "idle" => batch[d] = {} /\ held[d] = {}
          /\ pc[d] \in {"published", "failed"} => event[d] \in batch[d]
          /\ \A e \in held[d] : /\ Open(copy[d][e]) => Open(row[e])
                                /\ \A c \in Dispatcher : e \in held[c] => c = d

\* Each delivery so far, and each that is yet to come at no charge.
Allowance == Cardinality(Dispatcher) * (1 + replays) + crashes + unsure
Charged(e) == accepted[e] + Cardinality(Free(e)) <= Allowance

ChargedInv == TypeOK /\ EventKnown /\ TurnKept /\ \A e \in Event : Charged(e)

LEMMA SomeDispatchers ==
    ASSUME IsFiniteSet(Dispatcher), NEW A \in SUBSET Dispatcher, NEW B \in SUBSET Dispatcher
    PROVE  /\ Cardinality(A) \in Nat /\ Cardinality(B) \in Nat
           /\ Cardinality(A) <= Cardinality(Dispatcher)
           /\ A \subseteq B => Cardinality(A) <= Cardinality(B)
           /\ \A d \in B : A \subseteq B \ {d} => Cardinality(A) + 1 <= Cardinality(B)
           /\ \A d \in Dispatcher : A \subseteq B \cup {d} => Cardinality(A) <= Cardinality(B) + 1
<1>1. /\ IsFiniteSet(A) /\ Cardinality(A) \in Nat /\ Cardinality(A) <= Cardinality(Dispatcher)
      /\ IsFiniteSet(B) /\ Cardinality(B) \in Nat
      /\ A \subseteq B => Cardinality(A) <= Cardinality(B)
  BY FS_Subset, FS_CardinalityType
<1>2. ASSUME NEW d \in B, A \subseteq B \ {d} PROVE Cardinality(A) + 1 <= Cardinality(B)
  <2>1. IsFiniteSet(B \ {d}) /\ Cardinality(B \ {d}) = Cardinality(B) - 1
    BY <1>1, FS_RemoveElement
  <2>2. Cardinality(A) <= Cardinality(B \ {d})
    BY <1>2, <2>1, FS_Subset
  <2> QED
    BY <1>1, <2>1, <2>2
<1>3. ASSUME NEW d \in Dispatcher, A \subseteq B \cup {d} PROVE Cardinality(A) <= Cardinality(B) + 1
  <2>1. /\ IsFiniteSet(B \cup {d})
        /\ Cardinality(B \cup {d}) = IF d \in B THEN Cardinality(B) ELSE Cardinality(B) + 1
    BY <1>1, FS_AddElement
  <2>2. Cardinality(A) <= Cardinality(B \cup {d})
    BY <1>3, <2>1, FS_Subset
  <2> QED
    BY <1>1, <2>1, <2>2
<1> QED
  BY <1>1, <1>2, <1>3

\* The ways in which a step keeps the account of an event.
LEMMA ChargedKept ==
    ASSUME IsFiniteSet(Dispatcher), TypeOK, TypeOK', NEW e \in Event, Charged(e),
           \/ /\ accepted'[e] = accepted[e] /\ Free(e)' \subseteq Free(e)
              /\ replays' = replays /\ crashes' = crashes /\ unsure' \in {unsure, unsure + 1}
           \/ /\ accepted'[e] = accepted[e] + 1
              /\ \E d \in Free(e) : Free(e)' \subseteq Free(e) \ {d}
              /\ replays' = replays /\ crashes' = crashes /\ unsure' = unsure
           \/ /\ accepted'[e] = accepted[e] + 1 /\ Free(e)' \subseteq Free(e)
              /\ replays' = replays /\ crashes' = crashes /\ unsure' = unsure + 1
           \/ /\ accepted'[e] = accepted[e] /\ \E d \in Dispatcher : Free(e)' \subseteq Free(e) \cup {d}
              /\ replays' = replays /\ crashes' = crashes + 1 /\ unsure' = unsure
           \/ /\ accepted'[e] = accepted[e] /\ replays' = replays + 1
              /\ crashes' = crashes /\ unsure' = unsure
    PROVE  Charged(e)'
<1> DEFINE N == Cardinality(Dispatcher)
           A == Free(e)'
           B == Free(e)
<1>1. A \in SUBSET Dispatcher /\ B \in SUBSET Dispatcher
  BY DEF Free
<1>2. /\ accepted[e] \in Nat /\ accepted'[e] \in Nat /\ crashes \in Nat /\ unsure \in Nat /\ replays \in Nat
  BY DEF TypeOK
<1>3. N \in Nat
  BY FS_CardinalityType
<1>4. N * (2 + replays) = N * (1 + replays) + N /\ N * (1 + replays) \in Nat
  BY <1>2, <1>3
<1>5. 1 + (replays + 1) = 2 + replays
  BY <1>2
<1>6. accepted[e] + Cardinality(B) <= N * (1 + replays) + crashes + unsure
  BY DEF Charged, Allowance
<1>7. /\ Cardinality(A) \in Nat /\ Cardinality(B) \in Nat /\ Cardinality(A) <= N
      /\ A \subseteq B => Cardinality(A) <= Cardinality(B)
      /\ \A d \in B : A \subseteq B \ {d} => Cardinality(A) + 1 <= Cardinality(B)
      /\ \A d \in Dispatcher : A \subseteq B \cup {d} => Cardinality(A) <= Cardinality(B) + 1
  <2> HIDE DEF A, B
  <2> QED
    BY <1>1, SomeDispatchers
<1>8. Charged(e)' <=> accepted'[e] + Cardinality(A) <= N * (1 + replays') + crashes' + unsure'
  BY DEF Charged, Allowance
<1> DEFINE old == N * (1 + replays)
           new == N * (1 + replays')
<1>9. /\ old \in Nat
      /\ replays' = replays => new = old
      /\ replays' = replays + 1 => new = old + N
  BY <1>4, <1>5
<1>10. /\ accepted[e] + Cardinality(B) <= old + crashes + unsure
       /\ Charged(e)' <=> accepted'[e] + Cardinality(A) <= new + crashes' + unsure'
  BY <1>6, <1>8
<1>11. \/ /\ accepted'[e] = accepted[e] /\ A \subseteq B
          /\ replays' = replays /\ crashes' = crashes /\ unsure' \in {unsure, unsure + 1}
       \/ /\ accepted'[e] = accepted[e] + 1 /\ \E d \in B : A \subseteq B \ {d}
          /\ replays' = replays /\ crashes' = crashes /\ unsure' = unsure
       \/ /\ accepted'[e] = accepted[e] + 1 /\ A \subseteq B
          /\ replays' = replays /\ crashes' = crashes /\ unsure' = unsure + 1
       \/ /\ accepted'[e] = accepted[e] /\ \E d \in Dispatcher : A \subseteq B \cup {d}
          /\ replays' = replays /\ crashes' = crashes + 1 /\ unsure' = unsure
       \/ /\ accepted'[e] = accepted[e] /\ replays' = replays + 1
          /\ crashes' = crashes /\ unsure' = unsure
  OBVIOUS
<1> HIDE DEF A, B, N, old, new
<1>12. \/ /\ accepted'[e] = accepted[e] /\ Cardinality(A) <= Cardinality(B)
          /\ replays' = replays /\ crashes' = crashes /\ unsure' \in {unsure, unsure + 1}
       \/ /\ accepted'[e] = accepted[e] + 1 /\ Cardinality(A) + 1 <= Cardinality(B)
          /\ replays' = replays /\ crashes' = crashes /\ unsure' = unsure
       \/ /\ accepted'[e] = accepted[e] + 1 /\ Cardinality(A) <= Cardinality(B)
          /\ replays' = replays /\ crashes' = crashes /\ unsure' = unsure + 1
       \/ /\ accepted'[e] = accepted[e] /\ Cardinality(A) <= Cardinality(B) + 1
          /\ replays' = replays /\ crashes' = crashes + 1 /\ unsure' = unsure
       \/ /\ accepted'[e] = accepted[e] /\ replays' = replays + 1
          /\ crashes' = crashes /\ unsure' = unsure
  BY <1>7, <1>11
<1> QED
  BY <1>2, <1>3, <1>7, <1>9, <1>10, <1>12

\* A step of one dispatcher changes what it may deliver; the others see the rows
\* it commits.
LEMMA ChargedNext ==
    ASSUME IsFiniteSet(Dispatcher), ChargedInv, TypeOK', [Next]_vars
    PROVE  TurnKept' /\ \A e \in Event : Charged(e)'
<1> USE DEF ChargedInv
<1>1. ASSUME NEW f \in Event, AppendEvent(f) PROVE TurnKept' /\ \A e \in Event : Charged(e)'
  <2>1. /\ \A e \in Event : Open(row'[e]) <=> Open(row[e])
        /\ UNCHANGED <<clock, accepted, pc, batch, event, copy, held, replaying, crashes, replays, unsure>>
    BY <1>1 DEF AppendEvent, Open, NewRow, TypeOK
  <2>2. TurnKept'
    BY <2>1 DEF TurnKept, TypeOK
  <2>3. ASSUME NEW e \in Event PROVE Charged(e)'
    <3>1. Free(e)' \subseteq Free(e)
      BY <2>1 DEF Free, MayDeliver
    <3> QED
      BY <2>1, <3>1, ChargedKept
  <2> QED
    BY <2>2, <2>3
<1>2. ASSUME NEW d \in Dispatcher, FetchPending(d) PROVE TurnKept' /\ \A e \in Event : Charged(e)'
  <2> DEFINE pending == Oldest({e \in Event : Due(row[e])})
  <2>1. /\ pc[d] = "idle" /\ batch[d] = {} /\ held[d] = {} /\ pc'[d] = "publish" /\ batch'[d] = pending
        /\ \A e \in pending : Open(row[e])
        /\ \A c \in Dispatcher \ {d} : pc'[c] = pc[c] /\ batch'[c] = batch[c] /\ copy'[c] = copy[c]
        /\ UNCHANGED <<row, accepted, event, held, replaying, crashes, replays, unsure>>
    BY <1>2 DEF FetchPending, TurnKept, TypeOK, Oldest, Due, Open
  <2> HIDE DEF pending
  <2>2. TurnKept'
    BY <2>1 DEF TurnKept, TypeOK
  <2>3. ASSUME NEW e \in Event PROVE Charged(e)'
    <3>1. Free(e)' \subseteq Free(e)
      BY <2>1 DEF Free, MayDeliver
    <3> QED
      BY <2>1, <3>1, ChargedKept
  <2> QED
    BY <2>2, <2>3
<1>3. ASSUME NEW d \in Dispatcher, NEW f \in Event, NEW outcome \in Outcomes, PublishEvent(d, f, outcome)
      PROVE  TurnKept' /\ \A e \in Event : Charged(e)'
  <2>1. /\ pc[d] = "publish" /\ f \in batch[d] /\ event'[d] = f
        /\ pc'[d] = IF outcome \in {"accepted", "dropped"} THEN "published" ELSE "failed"
        /\ \A c \in Dispatcher \ {d} : pc'[c] = pc[c] /\ event'[c] = event[c]
        /\ \A e \in Event \ {f} : accepted'[e] = accepted[e]
        /\ accepted'[f] = IF outcome \in {"accepted", "unsure"} THEN accepted[f] + 1 ELSE accepted[f]
        /\ unsure' = IF outcome = "unsure" THEN unsure + 1 ELSE unsure
        /\ UNCHANGED <<row, batch, copy, held, replaying, crashes, replays>>
    BY <1>3 DEF PublishEvent, IsNext, TypeOK
  <2>2. TurnKept'
    BY <2>1 DEF TurnKept, TypeOK
  <2>3. \A e \in Event : Free(e)' \subseteq Free(e)
    BY <2>1 DEF Free, MayDeliver
  <2>4. ASSUME NEW e \in Event PROVE Charged(e)'
    <3>1. CASE e # f
      <4>1. accepted'[e] = accepted[e] /\ unsure' \in {unsure, unsure + 1}
        BY <2>1, <3>1
      <4> QED
        BY <2>1, <2>3, <4>1, ChargedKept
    <3>2. CASE e = f /\ outcome = "accepted"
      <4>1. d \in Free(e) /\ d \notin Free(e)'
        BY <2>1, <3>2 DEF Free, MayDeliver
      <4>2. Free(e)' \subseteq Free(e) \ {d}
        BY <2>3, <4>1
      <4>3. accepted'[e] = accepted[e] + 1 /\ unsure' = unsure
        BY <2>1, <3>2
      <4> QED
        BY <2>1, <4>1, <4>2, <4>3, ChargedKept
    <3>3. CASE e = f /\ outcome = "unsure"
      <4>1. accepted'[e] = accepted[e] + 1 /\ unsure' = unsure + 1
        BY <2>1, <3>3
      <4> QED
        BY <2>1, <2>3, <4>1, ChargedKept
    <3>4. CASE e = f /\ outcome \in {"refused", "dropped"}
      <4>1. accepted'[e] = accepted[e] /\ unsure' \in {unsure, unsure + 1}
        BY <2>1, <3>4
      <4> QED
        BY <2>1, <2>3, <4>1, ChargedKept
    <3> QED
      BY <3>1, <3>2, <3>3, <3>4, ConstantsAssumption DEF AnyOutcome
  <2> QED
    BY <2>2, <2>4
<1>4. ASSUME NEW d \in Dispatcher, MarkEvent(d) PROVE TurnKept' /\ \A e \in Event : Charged(e)'
  <2> DEFINE f == event[d]
  <2>1. /\ f \in Event /\ f \in batch[d] /\ \A c \in Dispatcher : f \notin held[c]
        /\ batch'[d] = batch[d] \ {f} /\ held'[d] = held[d] \cup {f}
        /\ pc'[d] \in {"commit", "publish"} /\ pc[d] \in {"published", "failed"}
        /\ \A c \in Dispatcher \ {d} : /\ pc'[c] = pc[c] /\ event'[c] = event[c]
                                       /\ batch'[c] = batch[c] /\ held'[c] = held[c]
        /\ UNCHANGED <<row, accepted, replaying, crashes, replays, unsure>>
    BY <1>4 DEF MarkEvent, Unlocked, TurnKept, EventKnown, TypeOK
  <2>2. /\ \A c \in Dispatcher, e \in Event : c # d \/ e # f => copy'[c][e] = copy[c][e]
        /\ pc[d] = "published" => copy'[d][f] = MarkedPublished(row[f], copy[d][f])
        /\ pc[d] = "failed" => copy'[d][f] = MarkedFailed(row[f], copy[d][f])
    BY <1>4, MarkStep
  <2>3. /\ Open(copy'[d][f]) => Open(row[f])
        /\ pc[d] = "published" => ~Open(copy'[d][f])
    BY <2>1, <2>2 DEF MarkedPublished, MarkedFailed, Open
  <2> HIDE DEF f
  <2>4. TurnKept'
    <3>1. ASSUME NEW c \in Dispatcher
          PROVE  /\ pc'[c] = "idle" => batch'[c] = {} /\ held'[c] = {}
                 /\ pc'[c] \in {"published", "failed"} => event'[c] \in batch'[c]
      BY <2>1 DEF TurnKept
    <3>2. ASSUME NEW c \in Dispatcher, NEW e \in held'[c], NEW b \in Dispatcher, e \in held'[b]
          PROVE  b = c
      BY <2>1, <3>2 DEF TurnKept
    <3>3. ASSUME NEW c \in Dispatcher, NEW e \in held'[c], Open(copy'[c][e])
          PROVE  Open(row'[e])
      <4>1. CASE c = d /\ e = f
        BY <2>1, <2>3, <3>3, <4>1
      <4>2. CASE ~(c = d /\ e = f)
        <5>1. e \in held[c] /\ copy'[c][e] = copy[c][e]
          BY <2>1, <2>2, <4>2 DEF TypeOK
        <5> QED
          BY <2>1, <3>3, <5>1 DEF TurnKept
      <4> QED
        BY <4>1, <4>2
    <3> QED
      BY <3>1, <3>2, <3>3 DEF TurnKept
  <2>5. ASSUME NEW e \in Event PROVE Charged(e)'
    <3>1. Free(e)' \subseteq Free(e)
      BY <2>1, <2>2, <2>3 DEF Free, MayDeliver, f, TypeOK
    <3> QED
      BY <2>1, <3>1, ChargedKept
  <2> QED
    BY <2>4, <2>5
<1>5. ASSUME NEW d \in Dispatcher, Stop(d) PROVE
        /\ pc'[d] = "idle" /\ batch'[d] = {} /\ held'[d] = {}
        /\ \A c \in Dispatcher \ {d} : /\ pc'[c] = pc[c] /\ event'[c] = event[c] /\ copy'[c] = copy[c]
                                       /\ batch'[c] = batch[c] /\ held'[c] = held[c]
  BY <1>5 DEF Stop, TypeOK
<1>6. ASSUME NEW d \in Dispatcher, Commit(d) PROVE TurnKept' /\ \A e \in Event : Charged(e)'
  <2>1. Stop(d) /\ UNCHANGED <<accepted, replaying, crashes, replays, unsure>> /\ pc[d] = "commit"
    BY <1>6 DEF Commit
  <2>2. \A e \in Event : row'[e] = IF e \in held[d] THEN copy[d][e] ELSE row[e]
    BY <1>6 DEF Commit
  <2>3. \A e \in Event : Open(row'[e]) => Open(row[e])
    BY <2>2 DEF TurnKept
  <2>4. \A c \in Dispatcher \ {d} : \A e \in held[c] : row'[e] = row[e]
    BY <2>2 DEF TurnKept, TypeOK
  <2>5. TurnKept'
    <3>1. ASSUME NEW c \in Dispatcher
          PROVE  /\ pc'[c] = "idle" => batch'[c] = {} /\ held'[c] = {}
                 /\ pc'[c] \in {"published", "failed"} => event'[c] \in batch'[c]
      BY <1>5, <2>1 DEF TurnKept
    <3>2. ASSUME NEW c \in Dispatcher, NEW e \in held'[c], NEW b \in Dispatcher, e \in held'[b]
          PROVE  b = c
      BY <1>5, <2>1, <3>2 DEF TurnKept
    <3>3. ASSUME NEW c \in Dispatcher, NEW e \in held'[c], Open(copy'[c][e])
          PROVE  Open(row'[e])
      <4>1. c # d /\ e \in held[c] /\ copy'[c] = copy[c]
        BY <1>5, <2>1
      <4>2. row'[e] = row[e] /\ Open(copy[c][e])
        BY <2>4, <3>3, <4>1
      <4> QED
        BY <4>1, <4>2 DEF TurnKept
    <3> QED
      BY <3>1, <3>2, <3>3 DEF TurnKept
  <2>6. ASSUME NEW e \in Event PROVE Charged(e)'
    <3>1. Free(e)' \subseteq Free(e)
      BY <1>5, <2>1, <2>2, <2>3 DEF Free, MayDeliver
    <3> QED
      BY <2>1, <3>1, ChargedKept
  <2> QED
    BY <2>5, <2>6
<1>7. ASSUME NEW d \in Dispatcher, Crash(d) PROVE TurnKept' /\ \A e \in Event : Charged(e)'
  <2>1. Stop(d) /\ UNCHANGED <<row, accepted, replaying, replays, unsure>> /\ crashes' = crashes + 1
    BY <1>7 DEF Crash
  <2>2. TurnKept'
    BY <1>5, <2>1 DEF TurnKept, TypeOK
  <2>3. ASSUME NEW e \in Event PROVE Charged(e)'
    <3>1. Free(e)' \subseteq Free(e) \cup {d}
      BY <1>5, <2>1 DEF Free, MayDeliver
    <3> QED
      BY <2>1, <3>1, ChargedKept
  <2> QED
    BY <2>2, <2>3
<1>8. ASSUME NEW o \in Operator, NEW reset \in ReplayResets, ReplayWrite(o, reset)
      PROVE  TurnKept' /\ \A e \in Event : Charged(e)'
  <2>1. /\ \A c \in Dispatcher : \A e \in held[c] : row'[e] = row[e]
        /\ replays' = replays + 1
        /\ UNCHANGED <<accepted, pc, batch, event, copy, held, crashes, unsure>>
    BY <1>8 DEF ReplayWrite, Unlocked, TypeOK
  <2>2. TurnKept'
    BY <2>1 DEF TurnKept, TypeOK
  <2>3. ASSUME NEW e \in Event PROVE Charged(e)'
    BY <2>1, ChargedKept
  <2> QED
    BY <2>2, <2>3
<1>9. CASE (\E o \in Operator, S \in SUBSET Event : ReplayRead(o, S)) \/ Tick \/ UNCHANGED vars
  <2>1. UNCHANGED <<row, accepted, pc, batch, event, copy, held, crashes, replays, unsure>>
    BY <1>9 DEF ReplayRead, Tick, vars
  <2>2. TurnKept'
    BY <2>1 DEF TurnKept
  <2>3. ASSUME NEW e \in Event PROVE Charged(e)'
    BY <2>1 DEF Charged, Allowance, Free, MayDeliver
  <2> QED
    BY <2>2, <2>3
<1> QED
  BY <1>1, <1>2, <1>3, <1>4, <1>6, <1>7, <1>8, <1>9 DEF Next, DispatcherStep

\* Any number of dispatchers deliver an event no more than once each, and once
\* more each after a replay, unless one crashes or is told of an error for an
\* event that the broker had accepted.
THEOREM DuplicatesAreBounded ==
    ASSUME IsFiniteSet(Dispatcher)
    PROVE  Spec => []DuplicatesBounded
<1>1. Init => ChargedInv
  <2> SUFFICES ASSUME Init PROVE ChargedInv
    OBVIOUS
  <2>1. TurnKept
    BY DEF Init, TurnKept
  <2>2. ASSUME NEW e \in Event PROVE Charged(e)
    <3>1. Free(e) \in SUBSET Dispatcher
      BY DEF Free
    <3>2. Cardinality(Free(e)) <= Cardinality(Dispatcher) /\ Cardinality(Free(e)) \in Nat
      BY <3>1, SomeDispatchers
    <3>3. Cardinality(Dispatcher) \in Nat
      BY FS_CardinalityType
    <3>4. accepted[e] = 0 /\ replays = 0 /\ crashes = 0 /\ unsure = 0
      BY DEF Init
    <3> QED
      BY <3>2, <3>3, <3>4 DEF Charged, Allowance
  <2> QED
    BY <2>1, <2>2, TypeInit DEF ChargedInv
<1>2. ChargedInv /\ [Next]_vars => ChargedInv'
  <2> SUFFICES ASSUME ChargedInv, [Next]_vars PROVE ChargedInv'
    OBVIOUS
  <2>1. TypeOK' /\ EventKnown'
    BY TypeNext DEF ChargedInv
  <2> QED
    BY <2>1, ChargedNext DEF ChargedInv
<1>3. ChargedInv => DuplicatesBounded
  <2> SUFFICES ASSUME ChargedInv, NEW e \in Event
               PROVE  accepted[e] <= Cardinality(Dispatcher) * (1 + replays) + crashes + unsure
    BY DEF DuplicatesBounded
  <2>1. Free(e) \in SUBSET Dispatcher
    BY DEF Free
  <2>2. Cardinality(Free(e)) \in Nat
    BY <2>1, SomeDispatchers
  <2>3. Charged(e) /\ accepted[e] \in Nat
    BY DEF ChargedInv, TypeOK
  <2>4. Allowance \in Int
    BY FS_CardinalityType DEF ChargedInv, TypeOK, Allowance
  <2> HIDE DEF Allowance
  <2>5. accepted[e] <= Allowance
    BY <2>2, <2>3, <2>4 DEF Charged
  <2> QED
    BY <2>5 DEF Allowance
<1> QED
  BY <1>1, <1>2, <1>3, PTL DEF Spec

=============================================================================
