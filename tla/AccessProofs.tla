---------------------------- MODULE AccessProofs ----------------------------
(***************************************************************************)
(* The theorems about who gets what out of the applications API: a call    *)
(* that repeats an applied one (FundApi), and a token shown at the gate    *)
(* (ApiKeys), for any number of calls, keys, operators and ticks.          *)
(***************************************************************************)
EXTENDS FundApi, ApiKeys, TLAPS

-----------------------------------------------------------------------------
(* The applications API.                                                   *)

FundRow == [status : {"intake_created", "interview_in_progress", "scoring_queued", "escalated",
                      "pass", "fail"},
            mode : {"enforce", "shadow"}, decision : {"pending", "pass", "fail"}, sessions : BOOLEAN]

ApiTypeOK ==
    /\ calls \in [Call -> CallRow]
    /\ records \in [Slot -> Nat] /\ effects \in [Slot -> Nat]
    /\ fund \in FundRow

\* What has been applied has its record, since one commit writes both.
Recorded == effects = records

\* The effects of an endpoint and a key only grow; a call that is past the
\* record had found none, so that there was no effect when it came in.
BeforeGrounded ==
    \A c \in Call :
        /\ calls[c].at = "new" => calls[c].answer = "none"
        /\ calls[c].at \in {"record", "check", "write"} => calls[c].answer = "none"
        /\ calls[c].at = "record" =>
              calls[c].endpoint # "mode" /\ calls[c].before <= effects[SlotOf(c)]
        /\ calls[c].at \in {"check", "write"} \/ calls[c].answer = "fresh" => calls[c].before = 0

ApiInv == ApiTypeOK /\ Recorded /\ BeforeGrounded

LEMMA ApiInitially == ApiInit => ApiInv
<1> SUFFICES ASSUME ApiInit PROVE ApiInv
  OBVIOUS
<1>1. \A r \in NewCall : r \in CallRow /\ r.at = "new" /\ r.answer = "none" /\ r.before = 0
  BY DEF NewCall, CallRow
<1>2. calls \in [Call -> CallRow] /\ \A c \in Call : calls[c].at = "new" /\ calls[c].answer = "none"
  BY <1>1 DEF ApiInit
<1>3. fund \in FundRow
  BY DEF ApiInit, FundRow
<1>4. records \in [Slot -> Nat] /\ effects \in [Slot -> Nat] /\ effects = records
  BY DEF ApiInit
<1> QED
  BY <1>2, <1>3, <1>4 DEF ApiInv, ApiTypeOK, Recorded, BeforeGrounded

\* A call has a slot unless it sets the mode.
LEMMA SlotTyped ==
    ASSUME ApiTypeOK, NEW c \in Call, calls[c].endpoint # "mode"
    PROVE  SlotOf(c) \in Slot
BY DEF ApiTypeOK, CallRow, Endpoint, Slot, SlotOf

\* A step of a call replaces its row by one of the same endpoint and key, and
\* takes no effect back.
LEMMA CallMoves ==
    ASSUME ApiInv, NEW c \in Call, NEW row \in CallRow,
           calls' = [calls EXCEPT ![c] = row],
           row.endpoint = calls[c].endpoint, row.key = calls[c].key,
           fund' \in FundRow, effects' \in [Slot -> Nat], records' = effects',
           \A s \in Slot : effects[s] <= effects'[s],
           row.at \in {"record", "check", "write"} => row.answer = "none",
           row.at # "new",
           row.at = "record" => row.endpoint # "mode" /\ row.before <= effects'[SlotOf(c)],
           row.at \in {"check", "write"} \/ row.answer = "fresh" => row.before = 0
    PROVE  ApiInv'
<1>1. calls' \in [Call -> CallRow]
  BY DEF ApiInv, ApiTypeOK
<1>2. ASSUME NEW d \in Call
      PROVE  SlotOf(d)' = SlotOf(d)
  BY DEF SlotOf, ApiInv, ApiTypeOK
<1>3. ASSUME NEW d \in Call, calls[d].endpoint # "mode", calls[d].before <= effects[SlotOf(d)]
      PROVE  calls[d].before <= effects'[SlotOf(d)]
  <2>1. SlotOf(d) \in Slot /\ calls[d].before \in Nat
    BY <1>3, SlotTyped DEF ApiInv, ApiTypeOK, CallRow
  <2> QED
    BY <1>3, <2>1 DEF ApiInv, ApiTypeOK
<1>4. \A d \in Call : calls'[d] = IF d = c THEN row ELSE calls[d]
  BY DEF ApiInv, ApiTypeOK
<1>5. BeforeGrounded'
  BY <1>2, <1>3, <1>4 DEF ApiInv, BeforeGrounded
<1> QED
  BY <1>1, <1>5 DEF ApiInv, ApiTypeOK, Recorded

\* A step that writes none of the tables.
LEMMA CallReads ==
    ASSUME ApiInv, NEW c \in Call, NEW row \in CallRow,
           calls' = [calls EXCEPT ![c] = row], UNCHANGED <<records, effects, fund>>,
           row.endpoint = calls[c].endpoint, row.key = calls[c].key,
           row.at \in {"record", "check", "write"} => row.answer = "none",
           row.at # "new",
           row.at = "record" => row.endpoint # "mode" /\ row.before <= effects[SlotOf(c)],
           row.at \in {"check", "write"} \/ row.answer = "fresh" => row.before = 0
    PROVE  ApiInv'
<1> HIDE DEF Slot
<1>1. effects' \in [Slot -> Nat] /\ records' = effects' /\ fund' \in FundRow
  BY DEF ApiInv, ApiTypeOK, Recorded
<1>2. \A s \in Slot : effects[s] <= effects'[s]
  BY DEF ApiInv, ApiTypeOK
<1>3. row.at = "record" => row.endpoint # "mode" /\ row.before <= effects'[SlotOf(c)]
  OBVIOUS
<1> QED
  BY <1>1, <1>2, <1>3, CallMoves

LEMMA AnsweredMoves ==
    ASSUME ApiInv, NEW c \in Call, NEW answer \in {"cached", "refused", "error", "lost"},
           Answered(c, answer), UNCHANGED <<records, effects, fund>>
    PROVE  ApiInv'
<1> DEFINE row == [calls[c] EXCEPT !.at = "done", !.answer = answer]
<1>1. /\ row \in CallRow /\ row.endpoint = calls[c].endpoint /\ row.key = calls[c].key
      /\ row.at = "done" /\ row.answer = answer
  BY DEF ApiInv, ApiTypeOK, CallRow
<1>2. calls' = [calls EXCEPT ![c] = row]
  BY DEF Answered, ApiInv, ApiTypeOK, CallRow
<1> HIDE DEF row
<1> QED
  BY <1>1, <1>2, CallReads

LEMMA ApiStep == ApiInv /\ [ApiNext]_apiVars => ApiInv'
<1> SUFFICES ASSUME ApiInv, [ApiNext]_apiVars
             PROVE  ApiInv'
  OBVIOUS
<1>0. /\ calls \in [Call -> CallRow] /\ fund \in FundRow
      /\ effects \in [Slot -> Nat] /\ records = effects
  BY DEF ApiInv, ApiTypeOK, Recorded
<1>1. ASSUME NEW c \in Call, Receive(c)
      PROVE  ApiInv'
  <2> DEFINE mode == calls[c].endpoint = "mode"
             row  == [calls[c] EXCEPT !.at = IF mode THEN "check" ELSE "record",
                                      !.before = IF mode THEN 0 ELSE effects[SlotOf(c)]]
  <2>1. ~mode => SlotOf(c) \in Slot /\ effects[SlotOf(c)] \in Nat
    BY <1>0, SlotTyped DEF ApiInv
  <2>2. calls[c].answer = "none"
    BY <1>1 DEF Receive, ApiInv, BeforeGrounded
  <2>3. /\ row \in CallRow /\ row.endpoint = calls[c].endpoint /\ row.key = calls[c].key
        /\ row.at = (IF mode THEN "check" ELSE "record") /\ row.answer = "none"
        /\ row.before = IF mode THEN 0 ELSE effects[SlotOf(c)]
    BY <1>0, <2>1, <2>2 DEF CallRow
  <2>4. calls' = [calls EXCEPT ![c] = row] /\ UNCHANGED <<records, effects, fund>>
    BY <1>0, <1>1 DEF Receive, CallRow
  <2>5. /\ row.at = "record" => row.endpoint # "mode" /\ row.before <= effects[SlotOf(c)]
        /\ row.at = "check" => row.before = 0
        /\ row.at \in {"record", "check"} /\ row.answer = "none"
    BY <2>1, <2>3
  <2> HIDE DEF row
  <2> QED
    BY <2>3, <2>4, <2>5, CallReads
<1>2. ASSUME NEW c \in Call, LookUp(c)
      PROVE  ApiInv'
  <2>1. SlotOf(c) \in Slot /\ calls[c].before \in Nat /\ calls[c].before <= effects[SlotOf(c)]
        /\ calls[c].answer = "none"
    BY <1>0, <1>2, SlotTyped DEF LookUp, ApiInv, BeforeGrounded, CallRow
  <2>2. CASE Found(SlotOf(c)) = 0
    <3> DEFINE row == [calls[c] EXCEPT !.at = "check"]
    <3>1. /\ row \in CallRow /\ row.endpoint = calls[c].endpoint /\ row.key = calls[c].key
          /\ row.at = "check" /\ row.answer = "none" /\ row.before = calls[c].before
      BY <1>0, <2>1 DEF CallRow
    <3>2. calls' = [calls EXCEPT ![c] = row] /\ UNCHANGED <<records, effects, fund>>
      BY <1>0, <1>2, <2>2 DEF LookUp, Proceed
    <3>3. calls[c].before = 0
      BY <1>0, <2>1, <2>2 DEF Found
    <3> HIDE DEF row
    <3> QED
      BY <3>1, <3>2, <3>3, CallReads
  <2>3. CASE Found(SlotOf(c)) # 0
    <3>1. \E answer \in {"cached", "error"} : Answered(c, answer)
      BY <1>2, <2>3 DEF LookUp
    <3> QED
      BY <1>2, <3>1, AnsweredMoves DEF LookUp
  <2> QED
    BY <2>2, <2>3
<1>3. ASSUME NEW c \in Call, Check(c)
      PROVE  ApiInv'
  <2>1. CASE Admits(c)
    <3> DEFINE row == [calls[c] EXCEPT !.at = "write", !.mode = fund.mode]
    <3>1. /\ row \in CallRow /\ row.endpoint = calls[c].endpoint /\ row.key = calls[c].key
          /\ row.at = "write" /\ row.answer = calls[c].answer /\ row.before = calls[c].before
      BY <1>0 DEF CallRow, FundRow
    <3>2. calls' = [calls EXCEPT ![c] = row] /\ UNCHANGED <<records, effects, fund>>
      BY <1>0, <1>3, <2>1 DEF Check, CallRow
    <3>3. calls[c].before = 0 /\ calls[c].answer = "none"
      BY <1>3 DEF Check, ApiInv, BeforeGrounded
    <3> HIDE DEF row
    <3> QED
      BY <3>1, <3>2, <3>3, CallReads
  <2>2. CASE ~Admits(c)
    BY <1>3, <2>2, AnsweredMoves DEF Check, Answered
  <2> QED
    BY <2>1, <2>2
<1>4. ASSUME NEW c \in Call, WriteAndCommit(c)
      PROVE  ApiInv'
  <2> DEFINE row == [calls[c] EXCEPT !.at = "done", !.answer = "fresh"]
  <2>1. calls[c].endpoint \in Endpoint /\ calls[c].want \in {"enforce", "shadow"}
    BY <1>0 DEF CallRow
  <2>2. fund' \in FundRow
    BY <1>0, <1>4, <2>1 DEF WriteAndCommit, Written, FundRow, Endpoint, Keyed
  <2>3. /\ row \in CallRow /\ row.endpoint = calls[c].endpoint /\ row.key = calls[c].key
        /\ row.at = "done" /\ row.before = calls[c].before
    BY <1>0 DEF CallRow
  <2>4. calls' = [calls EXCEPT ![c] = row]
    BY <1>0, <1>4 DEF WriteAndCommit, Answered, CallRow
  <2>5. calls[c].before = 0
    BY <1>4 DEF WriteAndCommit, ApiInv, BeforeGrounded
  <2>6. /\ effects' \in [Slot -> Nat] /\ records' = effects'
        /\ \A s \in Slot : effects[s] <= effects'[s]
    <3>1. CASE calls[c].endpoint = "mode"
      BY <1>0, <1>4, <3>1 DEF WriteAndCommit
    <3>2. CASE calls[c].endpoint # "mode"
      <4>1. SlotOf(c) \in Slot
        BY <3>2, SlotTyped DEF ApiInv
      <4> HIDE DEF Slot
      <4>2. /\ effects' = [effects EXCEPT ![SlotOf(c)] = @ + 1]
            /\ records' = [records EXCEPT ![SlotOf(c)] = @ + 1]
        BY <1>4, <3>2 DEF WriteAndCommit
      <4> QED
        BY <1>0, <4>1, <4>2
    <3> QED
      BY <3>1, <3>2
  <2> HIDE DEF row
  <2> QED
    BY <2>2, <2>3, <2>4, <2>5, <2>6, CallMoves
<1>5. ASSUME NEW c \in Call, LoseCall(c)
      PROVE  ApiInv'
  BY <1>5, AnsweredMoves DEF LoseCall
<1>6. ASSUME NEW d \in {"pass", "fail"}, WorkerDecides(d)
      PROVE  ApiInv'
  <2>1. fund' \in FundRow
    BY <1>0, <1>6 DEF WorkerDecides, FundRow
  <2> QED
    BY <1>6, <2>1 DEF WorkerDecides, ApiInv, ApiTypeOK, Recorded, BeforeGrounded, SlotOf
<1>7. CASE UNCHANGED apiVars
  BY <1>7 DEF apiVars, ApiInv, ApiTypeOK, Recorded, BeforeGrounded, SlotOf
<1> QED
  BY <1>1, <1>2, <1>3, <1>4, <1>5, <1>6, <1>7 DEF ApiNext

\* However many calls are made with a key, side by side or one after another,
\* with lost answers and a worker that decides in between: a call that comes in
\* after one that was applied is not applied.
THEOREM RepeatsNotApplied == ApiSpec => []RepeatNotApplied
<1>1. ApiInv => RepeatNotApplied
  BY DEF ApiInv, BeforeGrounded, RepeatNotApplied
<1> QED
  BY ApiInitially, ApiStep, <1>1, PTL DEF ApiSpec

-----------------------------------------------------------------------------
(* API keys and the gate.                                                   *)

Stored == Token \cup {NoToken}

KeysTypeOK ==
    /\ keys \in [ApiKey -> KeyRow]
    /\ secret \in Token
    /\ operators \in [Operator -> OpRow]
    /\ late \subseteq ApiKey
    /\ taken \in [ApiKey -> {"no", "alone", "replaced"}]
    /\ gate \in GateRow
    /\ cache \in CacheRow

\* What is flushed: a new key whose row nobody else sees and whose token nobody
\* else makes, and an old one that is there.  The put of a rotation took the old
\* token out of the secret for good, since only new tokens are put.
Flushed ==
    /\ \A o \in Operator :
        LET op == operators[o]
        IN  /\ op.at = "idle" => op = NoOperation
            /\ op.new # NoToken => keys[op.new].state = "absent"
            /\ op.old # NoToken => keys[op.old].state # "absent"
            /\ op.sync => op.new # NoToken
            /\ op.at = "synced" => op.sync /\ secret # op.old
    /\ \A o, p \in Operator :
        o # p /\ operators[o].new # NoToken => operators[o].new # operators[p].new

\* A put that is still on its way carries a token of no key and no operation, and
\* only a key that is revoked was taken: no put brings one back that was replaced.
PutsFresh ==
    /\ \A t \in late : keys[t].state = "absent" /\ \A o \in Operator : operators[o].new # t
    /\ \A k \in ApiKey : taken[k] # "no" => keys[k].state = "revoked"

\* The secret's token, fetched or cached, is stale for no longer than the fetch
\* took and the entry has lived.
StaleBounded ==
    /\ gate.stale <= gate.waited
    /\ gate.at # "fetched" => gate.fetched = NoToken /\ gate.waited = 0
    /\ cache.stale + cache.left <= CacheTtl + FetchTicks

\* A key that is gone stays so; one that was gone at first is not let through.
DeadRefused ==
    /\ gate.dead => gate.token \in ApiKey /\ Gone(gate.token)
    /\ gate.at = "use" => gate.token \in ApiKey /\ ~gate.dead
    /\ gate.by # "none" => gate.at = "limit"

KeysInv == /\ KeysTypeOK
           /\ Flushed
           /\ PutsFresh
           /\ SecretNeverBehind
           /\ StaleBounded
           /\ DeadRefused
           /\ AdmissionCurrent

LEMMA KeysInitially == KeysInit => KeysInv
<1> SUFFICES ASSUME KeysInit PROVE KeysInv
  OBVIOUS
<1>1. CacheTtl \in Nat \ {0} /\ FetchTicks \in Nat /\ Lifetime \in Nat \ {0} /\ FirstKey \in ApiKey
  BY ApiKeysAssumption
<1>2. keys \in [ApiKey -> KeyRow]
  BY <1>1 DEF KeysInit, KeyRow, Unlimited
<1>3. operators \in [Operator -> OpRow] /\ \A o \in Operator : operators[o] = NoOperation
  BY <1>1 DEF KeysInit, NoOperation, OpRow, Unlimited
<1>4. /\ gate \in GateRow /\ gate.stale = 0 /\ gate.waited = 0 /\ gate.fetched = NoToken
      /\ gate.dead = FALSE /\ gate.at = "idle" /\ gate.by = "none"
  BY <1>1 DEF KeysInit, NoRequest, GateRow, StaleCap
<1>5. cache \in CacheRow /\ cache.stale = 0 /\ cache.left = 0
  BY <1>1 DEF KeysInit, NothingCached, CacheRow, StaleCap
<1>6. /\ secret \in Token /\ late \subseteq ApiKey /\ late = {}
      /\ taken \in [ApiKey -> {"no", "alone", "replaced"}] /\ \A k \in ApiKey : taken[k] = "no"
  BY <1>1 DEF KeysInit, Token
<1>7. Flushed
  BY <1>3 DEF Flushed, NoOperation
<1>8. PutsFresh
  BY <1>6 DEF PutsFresh
<1>9. SecretNeverBehind
  <2>1. \A k \in ApiKey : keys[k].state # "revoked"
    BY DEF KeysInit
  <2> QED
    BY <1>6, <2>1 DEF SecretNeverBehind
<1> QED
  BY <1>1, <1>2, <1>3, <1>4, <1>5, <1>6, <1>7, <1>8, <1>9
  DEF KeysInv, KeysTypeOK, StaleBounded, DeadRefused, AdmissionCurrent

\* A step of the gate leaves the keys, the secret and the operators alone.
LEMMA GateMoves ==
    ASSUME KeysInv, UNCHANGED <<keys, secret, operators, late, taken>>,
           gate' \in GateRow, cache' \in CacheRow,
           StaleBounded', DeadRefused', AdmissionCurrent'
    PROVE  KeysInv'
<1>1. Flushed' /\ PutsFresh' /\ SecretNeverBehind'
  BY DEF KeysInv, Flushed, PutsFresh, SecretNeverBehind
<1> QED
  BY <1>1 DEF KeysInv, KeysTypeOK

\* A put makes what is cached or fetched fresh again, or leaves it as stale as it is.
LEMMA PutFreshens ==
    ASSUME KeysInv, NEW t \in ApiKey, PutSecret(t), \A k \in ApiKey : Gone(k) => Gone(k)'
    PROVE  /\ secret' = t
           /\ gate' \in GateRow /\ cache' \in CacheRow
           /\ StaleBounded' /\ DeadRefused' /\ AdmissionCurrent'
<1>1. CacheTtl \in Nat \ {0} /\ FetchTicks \in Nat
  BY ApiKeysAssumption
<1>2. /\ gate' \in GateRow /\ gate'.stale \in {0, gate.stale}
      /\ gate'.at = gate.at /\ gate'.token = gate.token /\ gate'.dead = gate.dead
      /\ gate'.fetched = gate.fetched /\ gate'.waited = gate.waited /\ gate'.by = gate.by
  BY <1>1 DEF PutSecret, KeysInv, KeysTypeOK, GateRow, StaleCap
<1>3. cache' \in CacheRow /\ cache'.stale \in {0, cache.stale} /\ cache'.left = cache.left
  BY <1>1 DEF PutSecret, KeysInv, KeysTypeOK, CacheRow, StaleCap
<1>4. /\ gate.waited \in Nat /\ gate.stale \in Nat /\ cache.left \in 0..CacheTtl /\ cache.stale \in Nat
      /\ gate.by = "bootstrap" => cache.stale < CacheTtl + FetchTicks
  BY <1>1 DEF KeysInv, KeysTypeOK, GateRow, CacheRow, StaleCap, AdmissionCurrent
<1>5. StaleBounded'
  BY <1>1, <1>2, <1>3, <1>4 DEF KeysInv, StaleBounded
<1>6. DeadRefused'
  BY <1>2 DEF KeysInv, DeadRefused
<1>7. AdmissionCurrent'
  BY <1>1, <1>2, <1>3, <1>4 DEF KeysInv, AdmissionCurrent
<1> QED
  BY <1>2, <1>3, <1>5, <1>6, <1>7 DEF PutSecret

\* The three ways to begin an operation: its rows are flushed, nothing is committed.
LEMMA OperationBegins ==
    ASSUME KeysInv, NEW o \in Operator, operators[o].at = "idle", NEW row \in OpRow,
           operators' = [operators EXCEPT ![o] = row],
           UNCHANGED <<keys, secret, late, taken, gate, cache>>,
           row.at = "flushed",
           row.new # NoToken => row.new \in Unborn,
           row.old # NoToken => keys[row.old].state # "absent",
           row.sync => row.new # NoToken
    PROVE  KeysInv'
<1>1. operators' \in [Operator -> OpRow] /\ \A p \in Operator : operators'[p] = IF p = o THEN row ELSE operators[p]
  BY DEF KeysInv, KeysTypeOK
<1>2. row.new # NoToken => keys[row.new].state = "absent" /\ \A p \in Operator : operators[p].new # row.new
  BY DEF Unborn
<1>3. Flushed'
  <2>1. ASSUME NEW p \in Operator
        PROVE  LET op == operators'[p]
               IN  /\ op.at = "idle" => op = NoOperation
                   /\ op.new # NoToken => keys[op.new].state = "absent"
                   /\ op.old # NoToken => keys[op.old].state # "absent"
                   /\ op.sync => op.new # NoToken
                   /\ op.at = "synced" => op.sync /\ secret # op.old
    BY <1>1, <1>2 DEF KeysInv, Flushed
  <2>2. ASSUME NEW p \in Operator, NEW q \in Operator, p # q, operators'[p].new # NoToken
        PROVE  operators'[p].new # operators'[q].new
    BY <1>1, <1>2, <2>2 DEF KeysInv, Flushed
  <2> QED
    BY <2>1, <2>2 DEF Flushed
<1>4. PutsFresh' /\ SecretNeverBehind'
  <2>1. \A t \in late : t # NoToken /\ t # row.new
    BY ApiKeysAssumption DEF KeysInv, KeysTypeOK, Unborn
  <2>2. PutsFresh'
    BY <1>1, <2>1 DEF KeysInv, PutsFresh
  <2> QED
    BY <2>2 DEF KeysInv, SecretNeverBehind
<1>5. StaleBounded' /\ DeadRefused' /\ AdmissionCurrent'
  BY DEF KeysInv, StaleBounded, DeadRefused, AdmissionCurrent, Gone
<1> QED
  BY <1>1, <1>3, <1>4, <1>5 DEF KeysInv, KeysTypeOK

\* What the operators' rows are when one of them is done with.
LEMMA OperationEnds ==
    ASSUME KeysInv, NEW o \in Operator, operators' = [operators EXCEPT ![o] = NoOperation]
    PROVE  /\ operators' \in [Operator -> OpRow]
           /\ operators'[o] = NoOperation
           /\ \A p \in Operator \ {o} : operators'[p] = operators[p]
BY ApiKeysAssumption DEF KeysInv, KeysTypeOK, OpRow, NoOperation, Unlimited

\* An operation that is undone leaves the keys and the secret as they were; a put
\* of its token may still be on its way.
LEMMA OperationUndone ==
    ASSUME KeysInv, NEW o \in Operator, operators' = [operators EXCEPT ![o] = NoOperation],
           UNCHANGED <<keys, secret, taken, gate, cache>>,
           \/ late' = late
           \/ late' = late \cup {operators[o].new} /\ operators[o].new \in ApiKey
    PROVE  KeysInv'
<1>1. /\ operators' \in [Operator -> OpRow] /\ operators'[o] = NoOperation
      /\ \A p \in Operator \ {o} : operators'[p] = operators[p]
  BY OperationEnds
<1>2. Flushed'
  <2>1. ASSUME NEW p \in Operator
        PROVE  LET op == operators'[p]
               IN  /\ op.at = "idle" => op = NoOperation
                   /\ op.new # NoToken => keys'[op.new].state = "absent"
                   /\ op.old # NoToken => keys'[op.old].state # "absent"
                   /\ op.sync => op.new # NoToken
                   /\ op.at = "synced" => op.sync /\ secret' # op.old
    <3>1. CASE p = o
      BY <1>1, <3>1 DEF NoOperation
    <3>2. CASE p # o
      BY <1>1, <3>2 DEF KeysInv, Flushed
    <3> QED
      BY <3>1, <3>2
  <2>2. ASSUME NEW p \in Operator, NEW q \in Operator, p # q, operators'[p].new # NoToken
        PROVE  operators'[p].new # operators'[q].new
    BY <1>1, <2>2 DEF KeysInv, Flushed, NoOperation
  <2> QED
    BY <2>1, <2>2 DEF Flushed
<1>3. PutsFresh'
  <2>1. ASSUME NEW t \in late'
        PROVE  keys'[t].state = "absent" /\ \A p \in Operator : operators'[p].new # t
    <3>1. t \in ApiKey /\ t # NoToken
      BY <2>1, ApiKeysAssumption DEF KeysInv, KeysTypeOK
    <3>2. CASE t \in late
      BY <1>1, <3>1, <3>2 DEF KeysInv, PutsFresh, NoOperation
    <3>3. CASE t = operators[o].new
      BY <1>1, <3>1, <3>3 DEF KeysInv, Flushed, NoOperation
    <3> QED
      BY <2>1, <3>2, <3>3
  <2> QED
    BY <2>1 DEF KeysInv, PutsFresh
<1>4. SecretNeverBehind' /\ StaleBounded' /\ DeadRefused' /\ AdmissionCurrent'
  BY DEF KeysInv, SecretNeverBehind, StaleBounded, DeadRefused, AdmissionCurrent, Gone
<1> QED
  BY <1>1, <1>2, <1>3, <1>4 DEF KeysInv, KeysTypeOK

\* A put of a token that no key has, and no key that is taken has.
LEMMA PutAhead ==
    ASSUME KeysInv, NEW t \in ApiKey, keys[t].state = "absent", secret' = t,
           UNCHANGED <<keys, taken>>
    PROVE  SecretNeverBehind'
BY DEF KeysInv, PutsFresh, SecretNeverBehind

\* The steps of operators preserve the invariant.
LEMMA OperatorStep ==
    ASSUME KeysInv, NEW o \in Operator,
           \/ \E k \in ApiKey, sync \in BOOLEAN :
                 \/ CreateKey(o, k, sync)
                 \/ \E old \in ApiKey : RotateKey(o, old, k, sync)
           \/ \E old \in ApiKey : RevokeKey(o, old)
           \/ SyncSecret(o) \/ SyncFails(o) \/ AbandonOperation(o) \/ CommitOperation(o)
    PROVE  KeysInv'
<1>0. /\ keys \in [ApiKey -> KeyRow] /\ operators[o] \in OpRow /\ secret \in Token
      /\ operators \in [Operator -> OpRow]
      /\ NoToken \notin ApiKey /\ BootToken \notin ApiKey /\ Unlimited \in 0..Unlimited
      /\ Lifetime \in 0..Unlimited
  BY ApiKeysAssumption DEF KeysInv, KeysTypeOK, Unlimited
<1>1. ASSUME NEW k \in ApiKey, NEW sync \in BOOLEAN, CreateKey(o, k, sync)
      PROVE  KeysInv'
  <2>1. PICK l \in LifeGiven :
           operators' = [operators EXCEPT ![o] =
               [at |-> "flushed", old |-> NoToken, new |-> k, sync |-> sync, left |-> l]]
    BY <1>1 DEF CreateKey
  <2> DEFINE row == [at |-> "flushed", old |-> NoToken, new |-> k, sync |-> sync, left |-> l]
  <2>2. row \in OpRow /\ row.at = "flushed" /\ row.new = k /\ row.old = NoToken
    BY <1>0 DEF OpRow, LifeGiven
  <2> HIDE DEF row
  <2>3. operators' = [operators EXCEPT ![o] = row]
    BY <2>1 DEF row
  <2> QED
    BY <1>0, <1>1, <2>2, <2>3, OperationBegins DEF CreateKey
<1>2. ASSUME NEW k \in ApiKey, NEW sync \in BOOLEAN, NEW old \in ApiKey, RotateKey(o, old, k, sync)
      PROVE  KeysInv'
  <2>1. PICK l \in LifeGiven :
           operators' = [operators EXCEPT ![o] =
               [at |-> "flushed", old |-> old, new |-> k, sync |-> sync, left |-> l]]
    BY <1>2 DEF RotateKey
  <2> DEFINE row == [at |-> "flushed", old |-> old, new |-> k, sync |-> sync, left |-> l]
  <2>2. row \in OpRow /\ row.at = "flushed" /\ row.new = k /\ row.old = old
    BY <1>0 DEF OpRow, LifeGiven
  <2> HIDE DEF row
  <2>3. operators' = [operators EXCEPT ![o] = row]
    BY <2>1 DEF row
  <2> QED
    BY <1>0, <1>2, <2>2, <2>3, OperationBegins DEF RotateKey
<1>3. ASSUME NEW old \in ApiKey, RevokeKey(o, old)
      PROVE  KeysInv'
  <2> DEFINE row == [at |-> "flushed", old |-> old, new |-> NoToken, sync |-> FALSE, left |-> Unlimited]
  <2>1. row \in OpRow /\ row.at = "flushed" /\ row.new = NoToken /\ row.old = old /\ row.sync = FALSE
    BY <1>0 DEF OpRow
  <2> HIDE DEF row
  <2>2. operators' = [operators EXCEPT ![o] = row]
    BY <1>3 DEF RevokeKey, row
  <2> QED
    BY <1>0, <1>3, <2>1, <2>2, OperationBegins DEF RevokeKey
<1>4. ASSUME SyncSecret(o)
      PROVE  KeysInv'
  <2>1. operators[o].new \in ApiKey /\ keys[operators[o].new].state = "absent"
    BY <1>0, <1>4 DEF SyncSecret, KeysInv, Flushed, OpRow
  <2> DEFINE row == [operators[o] EXCEPT !.at = "synced"]
  <2>2. row \in OpRow /\ row.at = "synced" /\ row.old = operators[o].old /\ row.new = operators[o].new /\ row.sync
    BY <1>0, <1>4 DEF SyncSecret, OpRow
  <2>3. operators' = [operators EXCEPT ![o] = row]
    BY <1>0, <1>4 DEF SyncSecret, OpRow
  <2> HIDE DEF row
  <2>4. /\ operators' \in [Operator -> OpRow] /\ operators'[o] = row
        /\ \A p \in Operator \ {o} : operators'[p] = operators[p]
    BY <1>0, <2>2, <2>3
  <2>5. \A k \in ApiKey : Gone(k) => Gone(k)'
    BY <1>4 DEF SyncSecret, Gone
  <2>6. /\ secret' = operators[o].new /\ gate' \in GateRow /\ cache' \in CacheRow
        /\ StaleBounded' /\ DeadRefused' /\ AdmissionCurrent'
    BY <1>4, <2>1, <2>5, PutFreshens DEF SyncSecret
  <2>7. Flushed'
    <3>1. ASSUME NEW p \in Operator
          PROVE  LET op == operators'[p]
                 IN  /\ op.at = "idle" => op = NoOperation
                     /\ op.new # NoToken => keys'[op.new].state = "absent"
                     /\ op.old # NoToken => keys'[op.old].state # "absent"
                     /\ op.sync => op.new # NoToken
                     /\ op.at = "synced" => op.sync /\ secret' # op.old
      <4>1. keys' = keys
        BY <1>4 DEF SyncSecret
      <4>2. \A q \in Operator : operators[q].old # NoToken => operators[q].old # operators[o].new
        BY <2>1 DEF KeysInv, Flushed
      <4>3. CASE p = o
        BY <1>0, <2>1, <2>2, <2>4, <2>6, <4>1, <4>2, <4>3 DEF KeysInv, Flushed
      <4>4. CASE p # o
        BY <1>0, <2>1, <2>4, <2>6, <4>1, <4>2, <4>4 DEF KeysInv, Flushed
      <4> QED
        BY <4>3, <4>4
    <3>2. ASSUME NEW p \in Operator, NEW q \in Operator, p # q, operators'[p].new # NoToken
          PROVE  operators'[p].new # operators'[q].new
      BY <2>2, <2>4, <3>2 DEF KeysInv, Flushed
    <3> QED
      BY <3>1, <3>2 DEF Flushed
  <2>8. SecretNeverBehind'
    BY <1>4, <2>1, <2>6, PutAhead DEF SyncSecret
  <2>9. PutsFresh'
    BY <1>4, <2>2, <2>4 DEF KeysInv, PutsFresh, SyncSecret
  <2> QED
    BY <1>4, <2>1, <2>4, <2>6, <2>7, <2>8, <2>9 DEF KeysInv, KeysTypeOK, SyncSecret, Token
<1>5. ASSUME SyncFails(o)
      PROVE  KeysInv'
  <2>1. operators[o].new \in ApiKey
    BY <1>0, <1>5 DEF SyncFails, KeysInv, Flushed, OpRow
  <2>2. /\ operators' = [operators EXCEPT ![o] = NoOperation]
        /\ UNCHANGED <<keys, secret, taken, gate, cache>>
        /\ late' \in {late, late \cup {operators[o].new}}
    BY <1>5 DEF SyncFails, Undone
  <2> QED
    BY <2>1, <2>2, OperationUndone
<1>6. ASSUME AbandonOperation(o)
      PROVE  KeysInv'
  BY <1>6, OperationUndone DEF AbandonOperation, Undone
<1>7. ASSUME CommitOperation(o)
      PROVE  KeysInv'
  <2> DEFINE op == operators[o]
  <2>1. /\ keys' = [k \in ApiKey |->
               CASE k = op.new -> [state |-> "active", left |-> op.left]
                 [] k = op.old -> Revoked
                 [] OTHER      -> keys[k]]
        /\ operators' = [operators EXCEPT ![o] = NoOperation]
        /\ op.at = IF op.sync THEN "synced" ELSE "flushed"
        /\ taken' = [k \in ApiKey |->
               CASE k = op.old /\ op.sync                  -> "replaced"
                 [] k = op.old /\ taken[k] # "replaced"    -> "alone"
                 [] OTHER                                  -> taken[k]]
        /\ UNCHANGED <<secret, late, gate, cache>>
    BY <1>7 DEF CommitOperation, Ready
  <2>2. /\ operators' \in [Operator -> OpRow] /\ operators'[o] = NoOperation
        /\ \A p \in Operator \ {o} : operators'[p] = operators[p]
    BY <2>1, OperationEnds
  <2>3. keys' \in [ApiKey -> KeyRow]
    <3>1. \A k \in ApiKey : keys'[k] \in KeyRow
      BY <1>0, <2>1 DEF KeyRow, OpRow, Revoked, Unlimited
    <3> QED
      BY <2>1, <3>1
  <2>4. /\ \A k \in ApiKey : keys[k].state # "absent" => keys'[k].state # "absent"
        /\ \A k \in ApiKey : keys[k].state = "absent" /\ k # op.new => keys'[k].state = "absent"
        /\ \A k \in ApiKey : keys[k].state = "active" /\ k # op.old => keys'[k].state = "active"
        /\ op.new # NoToken => keys'[op.new].state = "active"
        /\ \A k \in ApiKey : Gone(k) => Gone(k)'
    <3>1. op.new # NoToken => keys[op.new].state = "absent" /\ op.new \in ApiKey
      BY <1>0 DEF KeysInv, Flushed, OpRow
    <3>2. op.old # NoToken => keys[op.old].state # "absent" /\ op.old \in ApiKey
      BY <1>0 DEF KeysInv, Flushed, OpRow
    <3> QED
      BY <1>0, <2>1, <3>1, <3>2 DEF Revoked, Gone
  <2>5. Flushed'
    <3>1. ASSUME NEW p \in Operator
          PROVE  LET row == operators'[p]
                 IN  /\ row.at = "idle" => row = NoOperation
                     /\ row.new # NoToken => keys'[row.new].state = "absent"
                     /\ row.old # NoToken => keys'[row.old].state # "absent"
                     /\ row.sync => row.new # NoToken
                     /\ row.at = "synced" => row.sync /\ secret' # row.old
      <4>1. CASE p = o
        BY <1>0, <2>2, <4>1 DEF NoOperation
      <4>2. CASE p # o
        <5>1. operators'[p] = operators[p] /\ operators[p].new \in ApiKey \cup {NoToken}
              /\ operators[p].old \in ApiKey \cup {NoToken}
          BY <1>0, <2>2, <4>2 DEF OpRow
        <5>2. operators[p].new # NoToken => operators[p].new # op.new
          BY <4>2 DEF KeysInv, Flushed
        <5> QED
          BY <2>1, <2>4, <5>1, <5>2 DEF KeysInv, Flushed
      <4> QED
        BY <4>1, <4>2
    <3>2. ASSUME NEW p \in Operator, NEW q \in Operator, p # q, operators'[p].new # NoToken
          PROVE  operators'[p].new # operators'[q].new
      BY <2>2, <3>2 DEF KeysInv, Flushed, NoOperation
    <3> QED
      BY <3>1, <3>2 DEF Flushed
  <2>6. PutsFresh' /\ SecretNeverBehind' /\ taken' \in [ApiKey -> {"no", "alone", "replaced"}]
    <3>1. /\ op.new # NoToken => keys[op.new].state = "absent" /\ op.new \in ApiKey
          /\ op.old # NoToken => keys[op.old].state # "absent" /\ op.old \in ApiKey
          /\ op.at = "synced" => secret # op.old
          /\ op.new # op.old \/ op.old = NoToken
      BY <1>0 DEF KeysInv, Flushed, OpRow
    <3>2. ASSUME NEW k \in ApiKey
          PROVE  /\ taken'[k] \in {"no", "alone", "replaced"}
                 /\ k # op.old => taken'[k] = taken[k]
                 /\ k = op.old => taken'[k] # "no"
                 /\ taken'[k] = "replaced" => taken[k] = "replaced" \/ (k = op.old /\ op.sync)
      BY <1>0, <2>1 DEF KeysInv, KeysTypeOK
    <3>3. ASSUME NEW k \in ApiKey
          PROVE  /\ k = op.old => keys'[k].state = "revoked"
                 /\ k # op.old /\ k # op.new => keys'[k] = keys[k]
      BY <1>0, <2>1, <3>1 DEF Revoked
    <3>4. PutsFresh'
      <4>1. ASSUME NEW t \in late'
            PROVE  keys'[t].state = "absent" /\ \A p \in Operator : operators'[p].new # t
        <5>1. t \in ApiKey /\ t # NoToken /\ t # op.new /\ keys[t].state = "absent"
              /\ \A p \in Operator : operators[p].new # t
          BY <1>0, <2>1, <4>1 DEF KeysInv, KeysTypeOK, PutsFresh
        <5> QED
          BY <2>2, <2>4, <5>1 DEF NoOperation
      <4>2. ASSUME NEW k \in ApiKey, taken'[k] # "no"
            PROVE  keys'[k].state = "revoked"
        <5>1. CASE k = op.old
          BY <3>3, <5>1
        <5>2. CASE k # op.old
          <6>1. taken[k] # "no" /\ keys[k].state = "revoked"
            BY <3>2, <4>2, <5>2 DEF KeysInv, PutsFresh
          <6>2. k # op.new
            BY <1>0, <3>1, <6>1
          <6> QED
            BY <3>3, <5>2, <6>1, <6>2
        <5> QED
          BY <5>1, <5>2
      <4> QED
        BY <4>1, <4>2 DEF PutsFresh
    <3>5. secret \in ApiKey => taken'[secret] # "replaced"
      BY <2>1, <3>1, <3>2 DEF KeysInv, SecretNeverBehind
    <3>6. ASSUME NEW k \in ApiKey, keys'[k].state = "revoked"
          PROVE  taken'[k] # "no"
      <4>1. k # op.new
        BY <2>4, <3>6, <1>0
      <4> QED
        BY <3>2, <3>3, <3>6, <4>1 DEF KeysInv, SecretNeverBehind
    <3>7. taken' \in [ApiKey -> {"no", "alone", "replaced"}]
      BY <2>1, <3>2
    <3> QED
      BY <2>1, <3>4, <3>5, <3>6, <3>7 DEF SecretNeverBehind
  <2>7. StaleBounded' /\ AdmissionCurrent'
    BY <2>1 DEF KeysInv, StaleBounded, AdmissionCurrent
  <2>8. DeadRefused'
    BY <2>1, <2>4 DEF KeysInv, DeadRefused
  <2> QED
    BY <2>1, <2>2, <2>3, <2>5, <2>6, <2>7, <2>8 DEF KeysInv, KeysTypeOK
<1> QED
  BY <1>1, <1>2, <1>3, <1>4, <1>5, <1>6, <1>7

\* A put that comes late preserves the invariant.
LEMMA LateStep ==
    ASSUME KeysInv, NEW t \in late, LandPut(t)
    PROVE  KeysInv'
<1>1. t \in ApiKey /\ keys[t].state = "absent" /\ UNCHANGED <<keys, operators, late, taken>>
  BY DEF LandPut, KeysInv, KeysTypeOK, PutsFresh
<1>2. \A k \in ApiKey : Gone(k) => Gone(k)'
  BY <1>1 DEF Gone
<1>3. /\ secret' = t /\ gate' \in GateRow /\ cache' \in CacheRow
      /\ StaleBounded' /\ DeadRefused' /\ AdmissionCurrent'
  BY <1>1, <1>2, PutFreshens DEF LandPut
<1>4. Flushed' /\ PutsFresh'
  BY <1>1, <1>3, ApiKeysAssumption DEF KeysInv, KeysTypeOK, OpRow, Flushed, PutsFresh
<1>5. SecretNeverBehind'
  BY <1>1, <1>3, PutAhead
<1> QED
  BY <1>1, <1>3, <1>4, <1>5 DEF KeysInv, KeysTypeOK, Token

\* A comparison leaves no request, or one let in by the bootstrap token.
LEMMA ComparedTyped ==
    ASSUME KeysInv, NEW t
    PROVE  /\ Compared(t) \in GateRow
           /\ Compared(t).stale = 0 /\ Compared(t).waited = 0 /\ Compared(t).fetched = NoToken
           /\ Compared(t).at \in {"idle", "limit"}
           /\ Compared(t).by \in {"none", "bootstrap"}
           /\ Compared(t).at = "idle" => Compared(t).by = "none"
           /\ Compared(t).dead => gate.dead /\ Compared(t).token = gate.token
<1>1. gate \in GateRow
  BY DEF KeysInv, KeysTypeOK
<1>2. CacheTtl \in Nat \ {0} /\ FetchTicks \in Nat /\ StaleCap \in Nat
  BY ApiKeysAssumption DEF StaleCap
<1>3. CASE t = gate.token
  <2>1. Compared(t) = [gate EXCEPT !.at = "limit", !.by = "bootstrap", !.fetched = NoToken,
                                   !.waited = 0, !.stale = 0]
    BY <1>3 DEF Compared
  <2>2. /\ Compared(t) \in GateRow /\ Compared(t).stale = 0 /\ Compared(t).waited = 0
        /\ Compared(t).fetched = NoToken /\ Compared(t).at = "limit"
        /\ Compared(t).by = "bootstrap" /\ Compared(t).token = gate.token
    BY <1>1, <1>2, <2>1, 0 \in 0..StaleCap, 0 \in 0..FetchTicks DEF GateRow
  <2>3. Compared(t).dead = gate.dead
    BY <1>1, <2>1 DEF GateRow
  <2> QED
    BY <2>2, <2>3
<1>4. CASE t # gate.token
  BY <1>2, <1>4 DEF Compared, NoRequest, GateRow
<1> QED
  BY <1>3, <1>4

\* The steps of the gate, a restart and the passing of time preserve the invariant.
LEMMA GateStep ==
    ASSUME KeysInv,
           \/ \E t \in Token : ReceiveRequest(t)
           \/ VerifyToken \/ MarkUsed \/ BootstrapCached \/ FetchSecret \/ StoreSecret
           \/ AnswerRequest \/ RestartApi \/ PassTime
    PROVE  KeysInv'
<1>0. /\ keys \in [ApiKey -> KeyRow] /\ gate \in GateRow /\ cache \in CacheRow /\ secret \in Token
      /\ CacheTtl \in Nat \ {0} /\ FetchTicks \in Nat /\ Lifetime \in Nat \ {0}
      /\ StaleCap = CacheTtl + FetchTicks + 1
      /\ gate.stale \in 0..StaleCap /\ cache.stale \in 0..StaleCap
      /\ gate.waited \in 0..FetchTicks /\ cache.left \in 0..CacheTtl
      /\ gate.token \in Token \cup {NoToken} /\ NoToken \notin Token
  BY ApiKeysAssumption DEF KeysInv, KeysTypeOK, GateRow, CacheRow, StaleCap, Token
<1>r. /\ NoRequest \in GateRow /\ NoRequest.at = "idle" /\ NoRequest.fetched = NoToken
      /\ NoRequest.waited = 0 /\ NoRequest.stale = 0 /\ ~NoRequest.dead /\ NoRequest.by = "none"
  BY <1>0 DEF NoRequest, GateRow
<1>c. /\ NothingCached \in CacheRow /\ NothingCached.left = 0 /\ NothingCached.stale = 0
  BY <1>0 DEF NothingCached, CacheRow
<1>b. /\ gate.stale <= gate.waited
      /\ gate.at # "fetched" => gate.fetched = NoToken /\ gate.waited = 0 /\ gate.stale = 0
      /\ cache.stale + cache.left <= CacheTtl + FetchTicks
  BY <1>0 DEF KeysInv, StaleBounded
<1>1. ASSUME NEW t \in Token, ReceiveRequest(t)
      PROVE  KeysInv'
  <2> DEFINE dead == t \in ApiKey /\ Gone(t)
  <2>d. dead \in BOOLEAN
    BY DEF Gone
  <2>g. gate' = [NoRequest EXCEPT !.at = "verify", !.token = t, !.dead = dead]
    BY <1>1 DEF ReceiveRequest
  <2> HIDE DEF dead
  <2>1. /\ gate' \in GateRow /\ gate'.at = "verify" /\ gate'.token = t
        /\ gate'.dead = dead /\ gate'.fetched = NoToken
        /\ gate'.waited = 0 /\ gate'.stale = 0 /\ gate'.by = "none"
    <3>1. NoRequest \in GateRow
      BY <1>r
    <3>2. t \in Token \cup {NoToken}
      OBVIOUS
    <3> QED
      BY <1>r, <2>d, <2>g, <3>1, <3>2 DEF GateRow
  <2>2. UNCHANGED <<keys, secret, operators, late, taken, cache>>
    BY <1>1 DEF ReceiveRequest
  <2>3. StaleBounded' /\ AdmissionCurrent'
    BY <1>b, <2>1, <2>2 DEF StaleBounded, AdmissionCurrent
  <2>4. DeadRefused'
    BY <2>1, <2>2 DEF DeadRefused, Gone, dead
  <2> QED
    BY <1>0, <2>1, <2>2, <2>3, <2>4, GateMoves
<1>2. CASE VerifyToken
  <2> DEFINE passed == gate.token \in ApiKey /\ Verified(gate.token)
  <2>1. /\ gate' \in GateRow /\ gate'.at = (IF passed THEN "use" ELSE "bootstrap")
        /\ gate'.token = gate.token /\ gate'.dead = gate.dead /\ gate'.fetched = gate.fetched
        /\ gate'.waited = gate.waited /\ gate'.stale = gate.stale /\ gate'.by = gate.by
        /\ gate.at = "verify"
    BY <1>2 DEF VerifyToken, KeysInv, KeysTypeOK, GateRow
  <2>2. UNCHANGED <<keys, secret, operators, late, taken, cache>>
    BY <1>2 DEF VerifyToken
  <2>3. StaleBounded' /\ AdmissionCurrent'
    BY <1>b, <2>1, <2>2 DEF KeysInv, StaleBounded, AdmissionCurrent, DeadRefused
  <2>4. passed => ~gate.dead
    BY <1>0 DEF Verified, Gone, KeysInv, DeadRefused, KeyRow
  <2>5. DeadRefused'
    BY <2>1, <2>2, <2>4 DEF KeysInv, DeadRefused, Gone
  <2> QED
    BY <1>0, <2>1, <2>2, <2>3, <2>5, GateMoves
<1>3. CASE MarkUsed
  <2>1. /\ gate' \in GateRow /\ gate'.at = "limit" /\ gate'.by = "key"
        /\ gate'.token = gate.token /\ gate'.dead = gate.dead /\ gate'.fetched = gate.fetched
        /\ gate'.waited = gate.waited /\ gate'.stale = gate.stale /\ gate.at = "use"
    BY <1>0, <1>3 DEF MarkUsed, GateRow
  <2>2. UNCHANGED <<keys, secret, operators, late, taken, cache>>
    BY <1>3 DEF MarkUsed
  <2>3. ~gate.dead
    BY <2>1 DEF KeysInv, DeadRefused
  <2>4. StaleBounded' /\ AdmissionCurrent' /\ DeadRefused'
    BY <1>b, <2>1, <2>2, <2>3 DEF StaleBounded, AdmissionCurrent, DeadRefused
  <2> QED
    BY <1>0, <2>1, <2>2, <2>4, GateMoves
<1>4. CASE BootstrapCached
  <2>1. /\ gate' = Compared(cache.token) /\ cache' = cache /\ cache.left > 0
        /\ UNCHANGED <<keys, secret, operators, late, taken>>
    BY <1>4 DEF BootstrapCached, CacheHit
  <2> DEFINE new == Compared(cache.token)
  <2>2. /\ new \in GateRow /\ new.stale = 0 /\ new.waited = 0 /\ new.fetched = NoToken
        /\ new.at \in {"idle", "limit"} /\ new.by \in {"none", "bootstrap"}
        /\ new.at = "idle" => new.by = "none"
        /\ new.dead => gate.dead /\ new.token = gate.token
    BY ComparedTyped
  <2> HIDE DEF new
  <2>3. gate' = new
    BY <2>1 DEF new
  <2>4. StaleBounded' /\ AdmissionCurrent'
    BY <1>0, <1>b, <2>1, <2>2, <2>3 DEF StaleBounded, AdmissionCurrent
  <2>5. DeadRefused'
    BY <2>1, <2>2, <2>3, ComparedTyped DEF KeysInv, DeadRefused, Gone, new
  <2> QED
    BY <1>0, <2>1, <2>2, <2>3, <2>4, <2>5, GateMoves
<1>5. CASE FetchSecret
  <2>1. PICK t \in {secret, NoToken} : gate' = [gate EXCEPT !.at = "fetched", !.fetched = t, !.waited = 0]
    BY <1>5 DEF FetchSecret
  <2>2. gate.at = "bootstrap" /\ UNCHANGED <<keys, secret, operators, late, taken, cache>>
    BY <1>5 DEF FetchSecret
  <2>3. /\ gate' \in GateRow /\ gate'.at = "fetched" /\ gate'.by = gate.by
        /\ gate'.token = gate.token /\ gate'.dead = gate.dead
        /\ gate'.waited = 0 /\ gate'.stale = gate.stale
    BY <1>0, <2>1, 0 \in 0..FetchTicks DEF GateRow
  <2>4. StaleBounded' /\ AdmissionCurrent' /\ DeadRefused'
    BY <1>b, <2>2, <2>3 DEF KeysInv, StaleBounded, AdmissionCurrent, DeadRefused, Gone
  <2> QED
    BY <1>0, <2>2, <2>3, <2>4, GateMoves
<1>6. CASE StoreSecret
  <2>1. /\ gate' = Compared(gate.fetched) /\ UNCHANGED <<keys, secret, operators, late, taken>>
        /\ cache' = [token |-> gate.fetched, left |-> CacheTtl, stale |-> gate.stale]
    BY <1>6 DEF StoreSecret
  <2>2. cache' \in CacheRow /\ cache'.left = CacheTtl /\ cache'.stale = gate.stale
    BY <1>0, <2>1 DEF CacheRow, GateRow
  <2> DEFINE new == Compared(gate.fetched)
  <2>3. /\ new \in GateRow /\ new.stale = 0 /\ new.waited = 0 /\ new.fetched = NoToken
        /\ new.at \in {"idle", "limit"} /\ new.by \in {"none", "bootstrap"}
        /\ new.at = "idle" => new.by = "none"
    BY ComparedTyped
  <2>4. new.dead => gate.dead /\ new.token = gate.token
    BY ComparedTyped
  <2> HIDE DEF new
  <2>5. gate' = new
    BY <2>1 DEF new
  <2>6. StaleBounded' /\ AdmissionCurrent'
    BY <1>0, <1>b, <2>2, <2>3, <2>5 DEF StaleBounded, AdmissionCurrent
  <2>7. DeadRefused'
    BY <2>1, <2>3, <2>4, <2>5 DEF KeysInv, DeadRefused, Gone
  <2> QED
    BY <1>0, <2>1, <2>2, <2>3, <2>5, <2>6, <2>7, GateMoves
<1>7. CASE AnswerRequest
  <2>1. gate' = NoRequest /\ UNCHANGED <<keys, secret, operators, late, taken, cache>>
    BY <1>7 DEF AnswerRequest
  <2>2. StaleBounded' /\ AdmissionCurrent' /\ DeadRefused'
    BY <1>b, <1>r, <2>1 DEF StaleBounded, AdmissionCurrent, DeadRefused
  <2> QED
    BY <1>0, <1>r, <2>1, <2>2, GateMoves
<1>8. CASE RestartApi
  <2>1. gate' = NoRequest /\ cache' = NothingCached /\ UNCHANGED <<keys, secret, operators, late, taken>>
    BY <1>8 DEF RestartApi
  <2>2. StaleBounded' /\ AdmissionCurrent' /\ DeadRefused'
    BY <1>0, <1>r, <1>c, <2>1 DEF StaleBounded, AdmissionCurrent, DeadRefused
  <2> QED
    BY <1>r, <1>c, <2>1, <2>2, GateMoves
<1>9. CASE PassTime
  <2>1. /\ gate.at \in {"idle", "use"} \/ (gate.at = "fetched" /\ gate.waited < FetchTicks)
        /\ keys' = [k \in ApiKey |->
              IF keys[k].state = "active" /\ keys[k].left \in 1..Lifetime
              THEN [keys[k] EXCEPT !.left = @ - 1] ELSE keys[k]]
        /\ cache' = IF cache.left <= 1 THEN NothingCached
                    ELSE [cache EXCEPT !.left = @ - 1, !.stale = Older(@, cache.token)]
        /\ gate' = [gate EXCEPT !.waited = IF gate.at = "fetched" THEN @ + 1 ELSE @,
                                !.stale = Older(@, gate.fetched)]
        /\ UNCHANGED <<secret, operators, late, taken>>
    BY <1>9 DEF PassTime
  <2>2. ASSUME NEW stale \in 0..StaleCap, NEW t
        PROVE  Older(stale, t) \in 0..StaleCap /\ Older(stale, t) <= stale + 1
    BY <1>0 DEF Older
  <2>3. Older(0, NoToken) = 0
    BY DEF Older
  <2>4. /\ gate' \in GateRow /\ gate'.at = gate.at /\ gate'.token = gate.token
        /\ gate'.dead = gate.dead /\ gate'.by = gate.by /\ gate'.fetched = gate.fetched
        /\ gate'.waited = (IF gate.at = "fetched" THEN gate.waited + 1 ELSE gate.waited)
        /\ gate'.stale = Older(gate.stale, gate.fetched)
    <3> DEFINE waited == IF gate.at = "fetched" THEN gate.waited + 1 ELSE gate.waited
               stale  == Older(gate.stale, gate.fetched)
    <3>1. waited \in 0..FetchTicks /\ stale \in 0..StaleCap
      BY <1>0, <2>1, <2>2
    <3>2. gate' = [gate EXCEPT !.waited = waited, !.stale = stale]
      BY <1>0, <2>1 DEF GateRow
    <3> HIDE DEF waited, stale
    <3>3. /\ gate' \in GateRow /\ gate'.at = gate.at /\ gate'.token = gate.token
          /\ gate'.dead = gate.dead /\ gate'.by = gate.by /\ gate'.fetched = gate.fetched
          /\ gate'.waited = waited /\ gate'.stale = stale
      BY <1>0, <3>1, <3>2 DEF GateRow
    <3> QED
      BY <3>3 DEF waited, stale
  <2>5. cache' \in CacheRow /\ cache'.stale + cache'.left <= CacheTtl + FetchTicks
    <3>1. CASE cache.left <= 1
      BY <1>0, <1>c, <2>1, <3>1
    <3>2. CASE ~(cache.left <= 1)
      <4>1. cache' = [cache EXCEPT !.left = @ - 1, !.stale = Older(@, cache.token)]
        BY <2>1, <3>2
      <4>2. Older(cache.stale, cache.token) \in 0..StaleCap
            /\ Older(cache.stale, cache.token) <= cache.stale + 1
        BY <1>0, <2>2
      <4>3. cache' \in CacheRow /\ cache'.left = cache.left - 1
            /\ cache'.stale = Older(cache.stale, cache.token)
        <5> DEFINE left == cache.left - 1  stale == Older(cache.stale, cache.token)
        <5>1. left \in 0..CacheTtl /\ stale \in 0..StaleCap
          BY <1>0, <3>2, <4>2
        <5>2. cache' = [cache EXCEPT !.left = left, !.stale = stale]
          BY <1>0, <4>1 DEF CacheRow
        <5> HIDE DEF left, stale
        <5>3. cache' \in CacheRow /\ cache'.left = left /\ cache'.stale = stale
          BY <1>0, <5>1, <5>2 DEF CacheRow
        <5> QED
          BY <5>3 DEF left, stale
      <4> QED
        BY <1>0, <1>b, <4>2, <4>3
    <3> QED
      BY <3>1, <3>2
  <2>6. StaleBounded' /\ AdmissionCurrent'
    <3>1. gate.by = "none"
      BY <2>1, <1>0 DEF KeysInv, DeadRefused, GateRow
    <3>2. gate'.stale <= gate'.waited
      <4>1. Older(gate.stale, gate.fetched) \in 0..StaleCap
            /\ Older(gate.stale, gate.fetched) <= gate.stale + 1
        BY <1>0, <2>2
      <4> QED
        BY <1>0, <1>b, <2>3, <2>4, <4>1
    <3> QED
      BY <1>b, <2>4, <2>5, <3>1, <3>2 DEF StaleBounded, AdmissionCurrent
  <2>7. /\ \A k \in ApiKey : keys'[k] \in KeyRow /\ keys'[k].state = keys[k].state
        /\ \A k \in ApiKey : Gone(k) => Gone(k)'
    BY <1>0, <2>1 DEF KeyRow, Gone, Unlimited
  <2>8. DeadRefused'
    BY <2>4, <2>7 DEF KeysInv, DeadRefused
  <2>9. Flushed'
    <3>1. \A o \in Operator : operators[o].new \in ApiKey \cup {NoToken} /\ operators[o].old \in ApiKey \cup {NoToken}
      BY DEF KeysInv, KeysTypeOK, OpRow
    <3> QED
      BY <2>1, <2>7, <3>1 DEF KeysInv, Flushed
  <2>10. PutsFresh' /\ SecretNeverBehind'
    <3>1. late \subseteq ApiKey /\ UNCHANGED <<secret, operators, late, taken>>
      BY <2>1 DEF KeysInv, KeysTypeOK
    <3> QED
      BY <2>7, <3>1 DEF KeysInv, PutsFresh, SecretNeverBehind
  <2>11. keys' \in [ApiKey -> KeyRow]
    BY <2>1, <2>7
  <2> QED
    BY <2>1, <2>4, <2>5, <2>6, <2>8, <2>9, <2>10, <2>11 DEF KeysInv, KeysTypeOK
<1> QED
  BY <1>1, <1>2, <1>3, <1>4, <1>5, <1>6, <1>7, <1>8, <1>9

LEMMA KeysStep == KeysInv /\ [KeysNext]_keyVars => KeysInv'
<1>1. ASSUME KeysInv, UNCHANGED keyVars
      PROVE  KeysInv'
  BY <1>1 DEF keyVars, KeysInv, KeysTypeOK, Flushed, PutsFresh, SecretNeverBehind, StaleBounded,
              DeadRefused, AdmissionCurrent, Gone
<1>2. ASSUME KeysInv, KeysNext
      PROVE  KeysInv'
  <2>1. CASE \E o \in Operator :
                \/ \E k \in ApiKey, sync \in BOOLEAN :
                      \/ CreateKey(o, k, sync)
                      \/ \E old \in ApiKey : RotateKey(o, old, k, sync)
                \/ \E old \in ApiKey : RevokeKey(o, old)
                \/ SyncSecret(o) \/ SyncFails(o) \/ AbandonOperation(o) \/ CommitOperation(o)
    BY <1>2, <2>1, OperatorStep
  <2>2. CASE \/ \E t \in Token : ReceiveRequest(t)
             \/ VerifyToken \/ MarkUsed \/ BootstrapCached \/ FetchSecret \/ StoreSecret
             \/ AnswerRequest \/ RestartApi \/ PassTime
    BY <1>2, <2>2, GateStep
  <2>3. CASE \E t \in late : LandPut(t)
    BY <1>2, <2>3, LateStep
  <2> QED
    BY <1>2, <2>1, <2>2, <2>3 DEF KeysNext
<1> QED
  BY <1>1, <1>2

\* However many operators create, rotate and revoke at a time, wherever a put
\* fails or a process dies, and whenever a put that timed out comes late: the
\* secret never holds a key that a rotation replaced, and a rotation that came to
\* nothing took nobody's key.
THEOREM NeverBehind == KeysSpec => []SecretNeverBehind
<1>1. KeysInv => SecretNeverBehind
  BY DEF KeysInv
<1> QED
  BY KeysInitially, KeysStep, <1>1, PTL DEF KeysSpec

\* For every time to live of the cache and every timeout of a fetch: who is let
\* in as the bootstrap administrator holds a token that was in the secret less
\* than both together ago, and a key that was gone lets nobody in.
THEOREM AdmissionIsCurrent == KeysSpec => []AdmissionCurrent
<1>1. KeysInv => AdmissionCurrent
  BY DEF KeysInv
<1> QED
  BY KeysInitially, KeysStep, <1>1, PTL DEF KeysSpec

=============================================================================
