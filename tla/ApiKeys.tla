------------------------------ MODULE ApiKeys ------------------------------
(***************************************************************************)
(* API keys and the gate in front of the fund's routes: fund_api_keys, the *)
(* operators who create, rotate and revoke keys (routers/admin_api_keys.py *)
(* and the commands of cli.py), the secret manager that holds the token of *)
(* the bootstrap administrator, and FundSecurityMiddleware of one process. *)
(*                                                                         *)
(* A key and its token are one value.  All secrets that are written go to  *)
(* the bootstrap administrator's secret_ref: any other is not read back.   *)
(***************************************************************************)
EXTENDS Integers

CONSTANTS
    ApiKey,          \* keys that may come to be
    FirstKey,        \* the one that is there
    Operator,        \* admin requests and commands in progress
    BootToken,       \* what the secret holds at first: no key of the database
    NoToken,
    CacheTtl,        \* COHERENCE_FUND_BOOTSTRAP_ADMIN_CACHE_SECONDS
    FetchTicks,      \* how long a get_secret takes at most: the clients' own limits
                     \* and retries, not a setting of the fund (see README)
    Lifetime         \* the one expires_in_days; without it a key has Unlimited

ASSUME ApiKeysAssumption ==
    /\ FirstKey \in ApiKey
    /\ BootToken \notin ApiKey /\ NoToken \notin ApiKey \cup {BootToken}
    /\ CacheTtl \in Nat \ {0} /\ FetchTicks \in Nat /\ Lifetime \in Nat \ {0}

\* Times are what is left of them or what has passed, in ticks.
VARIABLES
    keys,       \* rows of fund_api_keys: state and life left
    secret,     \* the value at the secret_ref
    operators,  \* what each operator does, uncommitted
    late,       \* tokens of puts that timed out and were rolled back: they may
                \* reach the secret at any time, and more than once
    taken,      \* for the properties: how a committed operation took a key away,
                \* "replaced" when it wrote another token to the secret
    gate,       \* the request FundSecurityMiddleware has before it
    cache       \* BOOTSTRAP_TOKEN_CACHE

keyVars  == <<keys, secret, operators, late, taken, gate, cache>>

Token     == ApiKey \cup {BootToken}
Unlimited == Lifetime + 1

KeyRow == [state : {"absent", "active", "revoked"}, left : 0..Unlimited]
OpRow  == [at : {"idle", "flushed", "synced"}, old : ApiKey \cup {NoToken},
           new : ApiKey \cup {NoToken}, sync : BOOLEAN, left : 0..Unlimited]

\* stale: how long ago the secret last held the token (for the properties,
\* counted to StaleCap).  dead: the key was gone when the request came in.
StaleCap == CacheTtl + FetchTicks + 1
GateRow  == [at : {"idle", "verify", "use", "bootstrap", "fetched", "limit"}, token : Token \cup {NoToken},
             dead : BOOLEAN, fetched : Token \cup {NoToken}, waited : 0..FetchTicks,
             stale : 0..StaleCap, by : {"none", "key", "bootstrap"}]
CacheRow == [token : Token \cup {NoToken}, left : 0..CacheTtl, stale : 0..StaleCap]

NoOperation == [at |-> "idle", old |-> NoToken, new |-> NoToken, sync |-> FALSE, left |-> Unlimited]
NoRequest   == [at |-> "idle", token |-> NoToken, dead |-> FALSE, fetched |-> NoToken,
                waited |-> 0, stale |-> 0, by |-> "none"]
NothingCached == [token |-> NoToken, left |-> 0, stale |-> 0]

KeysInit ==
    /\ keys = [k \in ApiKey |-> [state |-> IF k = FirstKey THEN "active" ELSE "absent",
                                 left  |-> Unlimited]]
    /\ secret \in {BootToken, FirstKey}
    /\ operators = [o \in Operator |-> NoOperation]
    /\ late = {}
    /\ taken = [k \in ApiKey |-> "no"]
    /\ gate = NoRequest /\ cache = NothingCached

\* The row of a key that is inactive; when it would have expired is of no matter.
Revoked == [state |-> "revoked", left |-> 0]

\* For the properties: the key was revoked or rotated away, or has expired.
Gone(k) == keys[k].state = "revoked" \/ (keys[k].state = "active" /\ keys[k].left = 0)

-----------------------------------------------------------------------------
(* Operators.                                                               *)

\* A flushed UPDATE locks the key's row until its transaction ends.
KeyLocked(k) == \E o \in Operator : operators[o].at # "idle" /\ operators[o].old = k

\* Tokens are random: none is made twice, nor one that is still on its way.
Unborn == {k \in ApiKey \ late : keys[k].state = "absent" /\ \A o \in Operator : operators[o].new # k}

LifeGiven == {Unlimited, Lifetime}

\* create_key: the row is flushed, the token exists nowhere else.
CreateKey(o, k, sync) ==
    /\ operators[o].at = "idle"
    /\ k \in Unborn
    /\ \E l \in LifeGiven :
           operators' = [operators EXCEPT ![o] =
               [at |-> "flushed", old |-> NoToken, new |-> k, sync |-> sync, left |-> l]]
    /\ UNCHANGED <<keys, secret, late, taken, gate, cache>>

\* rotate_key: the old key is revoked whatever its state, the new one created.
RotateKey(o, old, k, sync) ==
    /\ operators[o].at = "idle"
    /\ keys[old].state # "absent" /\ ~KeyLocked(old)
    /\ k \in Unborn
    /\ \E l \in LifeGiven :
           operators' = [operators EXCEPT ![o] =
               [at |-> "flushed", old |-> old, new |-> k, sync |-> sync, left |-> l]]
    /\ UNCHANGED <<keys, secret, late, taken, gate, cache>>

RevokeKey(o, old) ==
    /\ operators[o].at = "idle"
    /\ keys[old].state # "absent" /\ ~KeyLocked(old)
    /\ operators' = [operators EXCEPT ![o] =
           [at |-> "flushed", old |-> old, new |-> NoToken, sync |-> FALSE, left |-> Unlimited]]
    /\ UNCHANGED <<keys, secret, late, taken, gate, cache>>

\* put_secret reaches the secret; a token that comes back is not stale.
PutSecret(t) ==
    /\ secret' = t
    /\ cache' = IF cache.token = t THEN [cache EXCEPT !.stale = 0] ELSE cache
    /\ gate'  = IF gate.fetched = t THEN [gate EXCEPT !.stale = 0] ELSE gate

\* _sync_token_to_secret_manager, before the commit.
SyncSecret(o) ==
    /\ operators[o].at = "flushed" /\ operators[o].sync
    /\ PutSecret(operators[o].new)
    /\ operators' = [operators EXCEPT ![o].at = "synced"]
    /\ UNCHANGED <<keys, late, taken>>

\* A put that timed out reaches the secret after all.
LandPut(t) ==
    /\ PutSecret(t)
    /\ UNCHANGED <<keys, operators, late, taken>>

\* Mutant: revoke_key commits by itself, and is not undone with the rotation.
Undone_Partly(o) ==
    [k \in ApiKey |-> IF k = operators[o].old THEN Revoked ELSE keys[k]]

\* What the transaction leaves when it is not committed.
Undone(o) == keys

\* put_secret raises and the transaction is rolled back.
SyncFails(o) ==
    /\ operators[o].at = "flushed" /\ operators[o].sync
    /\ keys' = Undone(o)
    /\ operators' = [operators EXCEPT ![o] = NoOperation]
    /\ late' \in {late, late \cup {operators[o].new}}
    /\ UNCHANGED <<secret, taken, gate, cache>>

\* No secret_ref (422), no such provider, or the process dies; the secret keeps
\* what was put.
AbandonOperation(o) ==
    /\ operators[o].at # "idle"
    /\ keys' = Undone(o)
    /\ operators' = [operators EXCEPT ![o] = NoOperation]
    /\ UNCHANGED <<secret, late, taken, gate, cache>>

\* Mutant: the commit does not wait for the put, which follows it.
Ready_BeforePut(op) == op.at # "idle"

Ready(op) == op.at = IF op.sync THEN "synced" ELSE "flushed"

\* The audit events and the one commit.
CommitOperation(o) ==
    LET op == operators[o]
    IN  /\ Ready(op)
        /\ keys' = [k \in ApiKey |->
               CASE k = op.new -> [state |-> "active", left |-> op.left]
                 [] k = op.old -> Revoked
                 [] OTHER      -> keys[k]]
        /\ taken' = [k \in ApiKey |->
               CASE k = op.old /\ op.sync                  -> "replaced"
                 [] k = op.old /\ taken[k] # "replaced"    -> "alone"
                 [] OTHER                                  -> taken[k]]
        /\ operators' = [operators EXCEPT ![o] = NoOperation]
        /\ UNCHANGED <<secret, late, gate, cache>>

-----------------------------------------------------------------------------
(* The gate: dispatch holds the event loop from the request to its answer, *)
(* but the database and the secret manager do not wait for it.             *)

ReceiveRequest(t) ==
    /\ gate.at = "idle"
    /\ gate' = [NoRequest EXCEPT !.at = "verify", !.token = t, !.dead = t \in ApiKey /\ Gone(t)]
    /\ UNCHANGED <<keys, secret, operators, late, taken, cache>>

\* Mutant: a key without a time zone never expires.
Verified_Forever(k) == keys[k].state = "active"

\* verify_token on the row it selects, the time zone of expires_at restored.
Verified(k) == keys[k].state = "active" /\ keys[k].left > 0

\* Unknown, inactive and expired keys fall through to the bootstrap
\* administrator's token.
VerifyToken ==
    /\ gate.at = "verify"
    /\ gate' = [gate EXCEPT !.at = IF gate.token \in ApiKey /\ Verified(gate.token)
                                   THEN "use" ELSE "bootstrap"]
    /\ UNCHANGED <<keys, secret, operators, late, taken, cache>>

\* mark_used waits for the row, updates its own columns and commits.
MarkUsed ==
    /\ gate.at = "use"
    /\ ~KeyLocked(gate.token)
    /\ gate' = [gate EXCEPT !.at = "limit", !.by = "key"]
    /\ UNCHANGED <<keys, secret, operators, late, taken, cache>>

\* compare_digest.
Compared(t) ==
    IF t = gate.token THEN [gate EXCEPT !.at = "limit", !.by = "bootstrap",
                                        !.fetched = NoToken, !.waited = 0, !.stale = 0]
    ELSE NoRequest

\* Mutant: a hit prolongs the entry.
CacheHit_Sliding == [cache EXCEPT !.left = CacheTtl]

\* What BOOTSTRAP_TOKEN_CACHE.get leaves behind when it has a token.
CacheHit == cache

BootstrapCached ==
    /\ gate.at = "bootstrap"
    /\ cache.left > 0 /\ cache.token # NoToken
    /\ gate' = Compared(cache.token)
    /\ cache' = CacheHit
    /\ UNCHANGED <<keys, secret, operators, late, taken>>

\* No token cached, or none any longer: ask the secret manager, which may fail.
FetchSecret ==
    /\ gate.at = "bootstrap"
    /\ cache.left = 0 \/ cache.token = NoToken
    /\ \E t \in {secret, NoToken} :
           gate' = [gate EXCEPT !.at = "fetched", !.fetched = t, !.waited = 0]
    /\ UNCHANGED <<keys, secret, operators, late, taken, cache>>

StoreSecret ==
    /\ gate.at = "fetched"
    /\ cache' = [token |-> gate.fetched, left |-> CacheTtl, stale |-> gate.stale]
    /\ gate' = Compared(gate.fetched)
    /\ UNCHANGED <<keys, secret, operators, late, taken>>

\* RATE_LIMITER refuses the request or lets it through to its handler; its
\* sliding windows are not kept here.
AnswerRequest ==
    /\ gate.at = "limit"
    /\ gate' = NoRequest
    /\ UNCHANGED <<keys, secret, operators, late, taken, cache>>

\* The process starts anew, its probe having read the secret.
RestartApi ==
    /\ gate' = NoRequest /\ cache' = NothingCached
    /\ UNCHANGED <<keys, secret, operators, late, taken>>

Older(stale, t) ==
    IF t \in {secret, NoToken} THEN 0 ELSE IF stale < StaleCap THEN stale + 1 ELSE stale

\* A fetch takes FetchTicks at most and a row may be locked for long; the rest of
\* dispatch takes no time.
PassTime ==
    /\ gate.at \in {"idle", "use"} \/ (gate.at = "fetched" /\ gate.waited < FetchTicks)
    /\ keys' = [k \in ApiKey |->
           IF keys[k].state = "active" /\ keys[k].left \in 1..Lifetime
           THEN [keys[k] EXCEPT !.left = @ - 1] ELSE keys[k]]
    /\ cache' = IF cache.left <= 1 THEN NothingCached
                ELSE [cache EXCEPT !.left = @ - 1, !.stale = Older(@, cache.token)]
    /\ gate' = [gate EXCEPT !.waited = IF gate.at = "fetched" THEN @ + 1 ELSE @,
                            !.stale = Older(@, gate.fetched)]
    /\ UNCHANGED <<secret, operators, late, taken>>

KeysNext ==
    \/ \E o \in Operator :
        \/ \E k \in ApiKey, sync \in BOOLEAN :
            \/ CreateKey(o, k, sync)
            \/ \E old \in ApiKey : RotateKey(o, old, k, sync)
        \/ \E old \in ApiKey : RevokeKey(o, old)
        \/ SyncSecret(o) \/ SyncFails(o) \/ AbandonOperation(o) \/ CommitOperation(o)
    \/ \E t \in late : LandPut(t)
    \/ \E t \in Token : ReceiveRequest(t)
    \/ VerifyToken \/ MarkUsed \/ BootstrapCached \/ FetchSecret \/ StoreSecret
    \/ AnswerRequest \/ RestartApi \/ PassTime

KeysSpec == KeysInit /\ [][KeysNext]_keyVars

-----------------------------------------------------------------------------
(* Properties.                                                              *)

\* The secret is never behind the database.  A rotation that writes the secret
\* takes the old key away only when that token is out of the secret, for good;
\* and one that fails after its put, or dies, has taken no key away.  (It may be
\* ahead: its token is then one the database never had, and nothing here denies it.)
SecretNeverBehind ==
    /\ secret \in ApiKey => taken[secret] # "replaced"
    /\ \A k \in ApiKey : keys[k].state = "revoked" => taken[k] # "no"

\* Who is let in holds what is current.  A token that is no longer in the secret
\* is no administrator's for longer than an entry of the cache lives and its
\* fetch may take; a key that was revoked, rotated away or expired when a request
\* came in does not admit it, whatever the operators do meanwhile.
AdmissionCurrent ==
    /\ gate.by = "bootstrap" => cache.stale < CacheTtl + FetchTicks
    /\ gate.by = "key" => ~gate.dead

=============================================================================
