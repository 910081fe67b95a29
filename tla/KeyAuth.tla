------------------------------ MODULE KeyAuth -------------------------------
(***************************************************************************)
(* Authentication of a customer key in dynamic mode: auth in               *)
(* gateway/main.go, Lookup in gateway/keylookup.go, the verified-key LRU   *)
(* in gateway/cache.go.                                                    *)
(*                                                                         *)
(* A request presents a key.  The LRU, keyed by the whole key, is asked    *)
(* first.  On a miss the key's slot (its last four characters; the prefix  *)
(* is a constant) selects a row: from Redis if it answers with one, else   *)
(* from the cloud by RPC, both under one three-second deadline.  The key   *)
(* is verified against the hash in that row, and the row is remembered.    *)
(*                                                                         *)
(* A row is named by the key it was minted for: argon2id accepts a key     *)
(* exactly against its own row.  The cloud service mints and revokes keys  *)
(* and fills Redis; it is outside this repository and is modelled by what  *)
(* the gateway relies on.                                                  *)
(***************************************************************************)
EXTENDS Integers, Sequences, FiniteSets, Functions, SequencesExt

CONSTANTS
    Keys,           \* well-formed keys
    Malformed,      \* presented strings that parseAPIKey rejects
    Slots,          \* values of last4
    Slot,           \* last4 of each well-formed key
    Damaged,        \* a row whose hash argonVerify reports an error for
    Requests,       \* request goroutines inside auth
    CacheSize,      \* verifiedCacheSize
    VerifiedTTL,    \* verifiedCacheTTL
    LookupTimeout,  \* longest lookup: lookupCtx, and a Redis read it does not end
    RedisTTL,       \* how long a row written by the cloud lives in Redis
    VerifyMax,      \* longest time from a read row to the end of its verify
    CloudFaults,    \* whether the lookup RPC may be slow, fail or send bad rows
    MaxTime,        \* bound on the clock
    None            \* no row

Presented == Keys \cup Malformed

Rows == Keys \cup {Damaged}

ASSUME KeysAssumption ==
    Keys \cap Malformed = {} /\ None \notin Presented \cup {Damaged} /\ Damaged \notin Presented
ASSUME SlotAssumption == Slot \in [Keys -> Slots]
ASSUME SizeAssumption == CacheSize \in Nat \ {0}
ASSUME TimeAssumption ==
    /\ VerifiedTTL \in Nat /\ LookupTimeout \in Nat /\ RedisTTL \in Nat
    /\ VerifyMax \in Nat /\ MaxTime \in Nat
ASSUME FaultsAssumption == CloudFaults \in BOOLEAN

VARIABLES
    now,        \* the clock
    active,     \* keys with an active row in the cloud
    revokedAt,  \* when each revoked key was revoked
    redis,      \* the row in each Redis slot, and when it expires
    cache,      \* the verified-key LRU: [row, expires] by key
    recency,    \* its keys, the most recently used first
    pc,         \* where each request is in auth
    key,        \* the key it presents
    row,        \* the row Resolve gave it
    deadline    \* of its lookupCtx

cloudVars == <<active, revokedAt>>
cacheVars == <<cache, recency>>
reqVars   == <<pc, key, row, deadline>>
vars == <<now, cloudVars, redis, cacheVars, reqVars>>

Answers == {"accepted", "unauthorized", "unavailable", "error"}

NoRow == [row |-> None, expires |-> 0]

Init ==
    /\ now = 0
    /\ active = {}
    /\ revokedAt = <<>>
    /\ redis = [s \in Slots |-> NoRow]
    /\ cache = <<>>
    /\ recency = <<>>
    /\ pc = [r \in Requests |-> "idle"]
    /\ key = [r \in Requests |-> None]
    /\ row = [r \in Requests |-> None]
    /\ deadline = [r \in Requests |-> 0]

-----------------------------------------------------------------------------
(* The verified-key LRU (golang-lru's expirable.LRU).                       *)

CacheHit(k) == k \in DOMAIN cache /\ now <= cache[k].expires

(* The order without a key.                                                 *)
Without(k) ==
    IF k \in ToSet(recency) THEN RemoveAt(recency, CHOOSE i \in DOMAIN recency : recency[i] = k)
    ELSE recency

(* Variant of Touch: a hit extends the entry's life.                        *)
TouchRefreshing(k) ==
    /\ recency' = <<k>> \o Without(k)
    /\ cache' = [cache EXCEPT ![k].expires = now + VerifiedTTL]

(* A hit moves the key to the front and leaves its expiry alone.            *)
Touch(k) ==
    /\ recency' = <<k>> \o Without(k)
    /\ UNCHANGED cache

(* Variant of Kept: nothing is ever evicted.                                *)
KeptUnbounded(k) == <<k>> \o Without(k)

(* The keys an Add leaves, in order: the oldest goes when there are too     *)
(* many.                                                                    *)
Kept(k) ==
    LET s == <<k>> \o Without(k)
    IN  IF Len(s) > CacheSize THEN SubSeq(s, 1, CacheSize) ELSE s

(* Put: insert or replace, with a fresh expiry, and evict on overflow.      *)
Put(k, e) ==
    /\ recency' = Kept(k)
    /\ cache' = [x \in ToSet(Kept(k)) |->
                    IF x = k THEN [row |-> e, expires |-> now + VerifiedTTL] ELSE cache[x]]

(* The library's own goroutine deletes entries that have expired.           *)
Expire(k) ==
    /\ k \in DOMAIN cache /\ ~CacheHit(k)
    /\ cache' = Restrict(cache, DOMAIN cache \ {k})
    /\ recency' = Without(k)
    /\ UNCHANGED <<now, cloudVars, redis, reqVars>>

-----------------------------------------------------------------------------
(* auth.                                                                    *)

(* A request reaches auth.                                                  *)
Arrive(r, k) ==
    /\ pc[r] = "idle"
    /\ pc' = [pc EXCEPT ![r] = "cache"]
    /\ key' = [key EXCEPT ![r] = k]
    /\ UNCHANGED <<now, cloudVars, redis, cacheVars, row, deadline>>

Answer(r, status) ==
    /\ pc' = [pc EXCEPT ![r] = status]
    /\ UNCHANGED <<key, deadline>>

(* Variant of CacheKey: the LRU is keyed by last4.                          *)
CacheKeyByLast4(k) ==
    IF k \in Keys THEN CHOOSE x \in Keys : Slot[x] = Slot[k] ELSE k

(* The LRU is keyed by a hash of the whole key.                             *)
CacheKey(k) == k

(* verified.Get, and parseAPIKey on a miss.                                 *)
Get(r) ==
    /\ pc[r] = "cache"
    /\ LET k == CacheKey(key[r]) IN
       \/ /\ CacheHit(k)
          /\ Touch(k)
          /\ Answer(r, "accepted")
          /\ row' = [row EXCEPT ![r] = cache[k].row]
       \/ /\ ~CacheHit(k)
          /\ key[r] \in Malformed
          /\ Answer(r, "unauthorized")
          /\ UNCHANGED <<row, cacheVars>>
       \/ /\ ~CacheHit(k)
          /\ key[r] \in Keys
          /\ pc' = [pc EXCEPT ![r] = "redis"]
          /\ deadline' = [deadline EXCEPT ![r] = now + LookupTimeout]
          /\ UNCHANGED <<key, row, cacheVars>>
    /\ UNCHANGED <<now, cloudVars, redis>>

Resolved(r, e) ==
    /\ pc' = [pc EXCEPT ![r] = "verify"]
    /\ row' = [row EXCEPT ![r] = e]
    /\ UNCHANGED <<key, deadline>>

(* Redis GET of the slot finds a row.                                       *)
RedisHit(r) ==
    /\ pc[r] = "redis"
    /\ LET s == redis[Slot[key[r]]] IN
       /\ s.row # None
       /\ Resolved(r, s.row)
    /\ UNCHANGED <<now, cloudVars, redis, cacheVars>>

(* Variant of RedisMiss: what Redis does not know is refused.               *)
RedisMissRefuses(r) ==
    /\ pc[r] = "redis"
    /\ Answer(r, "unauthorized")
    /\ UNCHANGED <<now, cloudVars, redis, cacheVars, row>>

(* No row, a payload that does not decode, a transport error, or no answer  *)
(* at all until some timeout fires: all fall through to the RPC.            *)
RedisMiss(r) ==
    /\ pc[r] = "redis"
    /\ pc' = [pc EXCEPT ![r] = "rpc"]
    /\ UNCHANGED <<now, cloudVars, redis, cacheVars, key, row, deadline>>

(* The active rows the cloud can answer with for a slot.                    *)
ActiveRows(s) == {k \in active : Slot[k] = s}

(* What the cloud may store or send for a slot: an active row, whose hash   *)
(* is perhaps malformed or below the parameter floor.                       *)
SentRows(s) ==
    ActiveRows(s) \cup (IF CloudFaults /\ ActiveRows(s) # {} THEN {Damaged} ELSE {})

(* The lookup RPC: an active row of the slot, or 404.                       *)
RpcAnswers(r) ==
    /\ pc[r] = "rpc"
    /\ now < deadline[r]
    /\ LET rows == SentRows(Slot[key[r]]) IN
       \/ \E e \in rows : Resolved(r, e)
       \/ /\ rows = {}
          /\ Answer(r, "unauthorized")
          /\ UNCHANGED row
    /\ UNCHANGED <<now, cloudVars, redis, cacheVars>>

(* The RPC fails (transport, status, decoding), or the deadline it shares   *)
(* with the Redis GET is over.                                              *)
RpcFails(r) ==
    /\ pc[r] = "rpc"
    /\ CloudFaults \/ now >= deadline[r]
    /\ Answer(r, "unavailable")
    /\ UNCHANGED <<now, cloudVars, redis, cacheVars, row>>

(* Variant of ArgonVerify: a hash that cannot be checked counts as one that *)
(* does not match.                                                          *)
ArgonVerifySilent(k, e) == IF e = k THEN "match" ELSE "mismatch"

(* argonVerify of a presented key against a row's hash.                     *)
ArgonVerify(k, e) ==
    IF e = Damaged THEN "error" ELSE IF e = k THEN "match" ELSE "mismatch"

(* Verification, and the Put that follows a match.                          *)
Verify(r) ==
    /\ pc[r] = "verify"
    /\ LET v == ArgonVerify(key[r], row[r]) IN
       \/ /\ v = "error"
          /\ Answer(r, "error")
          /\ UNCHANGED cacheVars
       \/ /\ v = "mismatch"
          /\ Answer(r, "unauthorized")
          /\ UNCHANGED cacheVars
       \/ /\ v = "match"
          /\ Put(CacheKey(key[r]), row[r])
          /\ Answer(r, "accepted")
    /\ UNCHANGED <<now, cloudVars, redis, row>>

(* The request is over; the goroutine's slot serves another.                *)
Leave(r) ==
    /\ pc[r] \in Answers
    /\ pc' = [pc EXCEPT ![r] = "idle"]
    /\ key' = [key EXCEPT ![r] = None]
    /\ row' = [row EXCEPT ![r] = None]
    /\ deadline' = [deadline EXCEPT ![r] = 0]
    /\ UNCHANGED <<now, cloudVars, redis, cacheVars>>

-----------------------------------------------------------------------------
(* The cloud service and the clock.                                         *)

(* A key is minted; a revoked key never comes back.                         *)
Mint(k) ==
    /\ k \notin active /\ k \notin DOMAIN revokedAt
    /\ active' = active \cup {k}
    /\ UNCHANGED <<now, revokedAt, redis, cacheVars, reqVars>>

Revoke(k) ==
    /\ k \in active
    /\ active' = active \ {k}
    /\ revokedAt' = [x \in DOMAIN revokedAt \cup {k} |-> IF x = k THEN now ELSE revokedAt[x]]
    /\ UNCHANGED <<now, redis, cacheVars, reqVars>>

(* The cloud writes a row into its slot; it may also delete it.             *)
Warm(s, e) ==
    /\ e \in SentRows(s)
    /\ redis' = [redis EXCEPT ![s] = [row |-> e, expires |-> now + RedisTTL]]
    /\ UNCHANGED <<now, cloudVars, cacheVars, reqVars>>

Unwarm(s) ==
    /\ redis[s].row # None
    /\ redis' = [redis EXCEPT ![s] = NoRow]
    /\ UNCHANGED <<now, cloudVars, cacheVars, reqVars>>

(* Time may pass while a request waits for Redis or the cloud, but not      *)
(* beyond its deadline, and while it verifies, but not beyond VerifyMax.    *)
(* Redis forgets rows as they expire.                                       *)
MayWait(r) ==
    /\ pc[r] \in {"redis", "rpc"} => now < deadline[r]
    /\ pc[r] = "rpc" => CloudFaults
    /\ pc[r] = "verify" => now < deadline[r] + VerifyMax
    /\ pc[r] \notin {"cache"} \cup Answers

Tick ==
    /\ now < MaxTime
    /\ \A r \in Requests : MayWait(r)
    /\ now' = now + 1
    /\ redis' = [s \in Slots |-> IF redis[s].expires < now + 1 THEN NoRow ELSE redis[s]]
    /\ UNCHANGED <<cloudVars, cacheVars, reqVars>>

-----------------------------------------------------------------------------

Auth(r) ==
    \/ \E k \in Presented : Arrive(r, k)
    \/ Get(r) \/ RedisHit(r) \/ RedisMiss(r) \/ RpcAnswers(r) \/ RpcFails(r)
    \/ Verify(r) \/ Leave(r)

Cloud ==
    \/ \E k \in Keys : Mint(k) \/ Revoke(k)
    \/ \E s \in Slots : Unwarm(s) \/ \E e \in Rows : Warm(s, e)

Next ==
    \/ \E r \in Requests : Auth(r)
    \/ \E k \in Keys : Expire(k)
    \/ Cloud
    \/ Tick

Spec == Init /\ [][Next]_vars

-----------------------------------------------------------------------------
(* Properties.                                                              *)

Minted == active \cup DOMAIN revokedAt

(* Shapes of the state.  The LRU never holds more than its capacity, and    *)
(* its order and its entries agree.                                         *)
TypeOK ==
    /\ now \in 0..MaxTime
    /\ active \subseteq Keys
    /\ DOMAIN revokedAt \subseteq Keys /\ DOMAIN revokedAt \cap active = {}
    /\ \A k \in DOMAIN revokedAt : revokedAt[k] \in 0..now
    /\ \A s \in Slots : redis[s].row \in Rows \cup {None} /\ redis[s].expires \in Nat
    /\ ToSet(recency) = DOMAIN cache /\ Len(recency) = Cardinality(DOMAIN cache)
    /\ Len(recency) <= CacheSize
    /\ \A k \in DOMAIN cache : cache[k].expires \in 0..(now + VerifiedTTL)
    /\ pc \in [Requests -> {"idle", "cache", "redis", "rpc", "verify"} \cup Answers]
    /\ key \in [Requests -> Presented \cup {None}]
    /\ row \in [Requests -> Rows \cup {None}]
    /\ deadline \in [Requests -> Nat]

(* A request that is let through carries the row minted for the very key it *)
(* presented, verified against a sound hash, even when two customers' keys  *)
(* share their last four characters and whichever request filled the LRU.   *)
NoCrossTenant ==
    \A r \in Requests :
        pc[r] = "accepted" => row[r] = key[r] /\ key[r] \in Minted

(* How long a revoked key may still be let through: its row lingers in      *)
(* Redis, is read at the end of a lookup, verified slowly and then cached.  *)
RevocationLag == RedisTTL + LookupTimeout + VerifyMax + VerifiedTTL

(* A key is let through only if it is active or was revoked within the lag: *)
(* traffic on a key, however steady, cannot keep it alive after its         *)
(* revocation.                                                              *)
RevocationTakesEffect ==
    \A r \in Requests :
        pc[r] = "accepted" =>
            key[r] \in active \/ now <= revokedAt[key[r]] + RevocationLag

(* 401 is given only to a key that has no active row, or shares its last    *)
(* four characters with another minted key: an unreachable or empty Redis   *)
(* never refuses a customer.                                                *)
RefusalJustified ==
    [][\A r \in Requests :
         pc'[r] = "unauthorized" /\ pc[r] # "unauthorized" =>
            \/ key[r] \notin active
            \/ \E k \in Minted \ {key[r]} : Slot[k] = Slot[key[r]]]_vars

InAuth == {"cache", "redis", "rpc", "verify"}

(* The answer a request has so far, and the customer it is let through as.  *)
AnswerSoFar == [r \in Requests |-> IF pc[r] \in InAuth THEN "asked" ELSE pc[r]]
ServedAs == [r \in Requests |-> IF pc[r] = "accepted" THEN row[r] ELSE None]

Gate == INSTANCE KeyGate WITH
    Lag <- RevocationLag, answer <- AnswerSoFar, servedAs <- ServedAs

(* auth with its LRU, Redis and the RPC answers as a gate without them      *)
(* would: one final answer per request, let through as the presented key's  *)
(* own customer and no later than the lag after its revocation, refused     *)
(* with a reason, and an error (503 or 500) only for a key of the right     *)
(* shape.                                                                   *)
KeepsGate == Gate!Spec

(* "Redis transport errors fall through to RPC so a Redis blip can't lock   *)
(* customers out" (keylookup.go): while the cloud answers every RPC, and at *)
(* once, no request gets 503.  The code does not guarantee this: a GET that *)
(* stalls uses up the deadline the RPC shares.                              *)
RedisBlipNoLockout ==
    ~CloudFaults => \A r \in Requests : pc[r] # "unavailable"
=============================================================================
