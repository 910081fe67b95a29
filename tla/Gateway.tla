------------------------------ MODULE Gateway -------------------------------
(***************************************************************************)
(* A request's way through the gateway: rateLimit, auth, orgRateLimit and  *)
(* handleCheck composed as main's route composes them, in a process that   *)
(* Boot has started, under the ten-second context of the Timeout           *)
(* middleware and with clients that may hang up at any time.               *)
(*                                                                         *)
(* Each part is reduced to what its own module shows of it: rateLimit      *)
(* admits or refuses (IPLimiter), a lookup finds the key's own row or      *)
(* fails (KeyAuth), INCR counts and may err (OrgRateLimit; EXPIRE does not *)
(* bear on the decision), the handler answers with one event               *)
(* (CheckVerdict), and Emit never blocks (Metering).                       *)
(*                                                                         *)
(* Time passes only where a request waits for somebody else.  The call to  *)
(* the classifier ends with its context.  A Redis call does not: redis's   *)
(* client looks at the context before it sends a command, and before each  *)
(* of its retries, and then reads the reply under a timeout of its own.    *)
(* The body is read without any deadline.  The server (net/http) notices   *)
(* that a client has hung up only when it has no more of the request's     *)
(* body to read.                                                           *)
(***************************************************************************)
EXTENDS Boot, FiniteSets

CONSTANTS
    Requests,        \* requests that may arrive
    Malformed,       \* a presented key that parseAPIKey rejects
    Rows,            \* dynamic mode: organisation and tier of each minted key
    RequestTimeout,  \* the Timeout middleware, in ticks
    LookupTimeout,   \* auth's lookupCtx
    OpTimeout,       \* rateLimitOpTimeout
    RedisTimeout,    \* how long a Redis call may outlast its context
    Attempts,        \* how often the Redis client may send one command
    InferTimeout,    \* the context of detectInjection
    Injections       \* how often a request may ask for injection

NoEntry == [org |-> "", tier |-> ""]

ASSUME RequestsAssumption == IsFiniteSet(Requests) /\ Injections \subseteq Nat
ASSUME KeysAssumption == Malformed \notin Keys /\ DOMAIN Rows \subseteq Keys
ASSUME AttemptsAssumption == Attempts \in Nat \ {0}
ASSUME TimesAssumption ==
    /\ {RequestTimeout, LookupTimeout, OpTimeout, RedisTimeout, InferTimeout} \subseteq Nat
    /\ (LookupTimeout + RedisTimeout) + (OpTimeout + RedisTimeout) < RequestTimeout

VARIABLES
    req,     \* the state of each request
    counter  \* the Redis counter of each organisation

vars == <<bootVars, req, counter>>

Orgs == {e.org : e \in Items} \cup {Rows[k].org : k \in DOMAIN Rows}

(* stage: where the request is; empty: it has no body; gone: its client     *)
(* has hung up, and the server knows; age: ticks since it arrived, until    *)
(* its context has ended; wait: ticks in the current call; cut: its context *)
(* had ended when that call began; left: classifier calls to make;          *)
(* uncounted: why INCR gave an error, if it did; admitted: handleCheck was  *)
(* reached.                                                                 *)
Fresh == [stage |-> "idle", key |-> Malformed, empty |-> FALSE, gone |-> FALSE,
          age |-> 0, wait |-> 0, cut |-> FALSE, entry |-> NoEntry, left |-> 0,
          uncounted |-> "no", admitted |-> FALSE, status |-> 0, events |-> <<>>]

Init ==
    /\ BootInit
    /\ req = [r \in Requests |-> Fresh]
    /\ counter = [o \in Orgs |-> 0]

-----------------------------------------------------------------------------

At(r, stage) == req[r].stage = stage

(* The request's context has ended.                                         *)
Dead(r) == req[r].gone \/ req[r].age >= RequestTimeout

(* The request's state becomes q; nothing else changes.                     *)
Becomes(r, q) ==
    /\ req' = [req EXCEPT ![r] = q]
    /\ UNCHANGED <<bootVars, counter>>

(* The answer is written, and the request's clocks stop.                    *)
Answered(q, status) ==
    [q EXCEPT !.stage = "done", !.status = status,
              !.gone = FALSE, !.age = 0, !.wait = 0, !.cut = FALSE]

(* Emit: without metering, nothing.                                         *)
Metered(q, status) ==
    IF metering
    THEN [q EXCEPT !.events = Append(@, [org |-> q.entry.org, status |-> status])]
    ELSE q

(* A request arrives, with a key or something else and with a body or none, *)
(* and rateLimit sends it on or turns it away.                              *)
RateLimit(r) ==
    /\ boot = "serving"
    /\ At(r, "idle")
    /\ \E k \in Keys \cup {Malformed}, none \in BOOLEAN :
          LET q == [req[r] EXCEPT !.key = k, !.empty = none]
          IN  Becomes(r, [q EXCEPT !.stage = "auth"]) \/ Becomes(r, Answered(q, 429))

-----------------------------------------------------------------------------
(* auth.                                                                    *)

Authenticated(r, entry) ==
    Becomes(r, [req[r] EXCEPT !.stage = "count", !.entry = entry, !.wait = 0, !.cut = Dead(r)])

AuthStatic(r) ==
    /\ At(r, "auth") /\ StaticMode
    /\ \/ /\ req[r].key \in DOMAIN table
          /\ Authenticated(r, table[req[r].key])
       \/ /\ req[r].key \notin DOMAIN table
          /\ Becomes(r, Answered(req[r], 401))

(* A hit in the verified-key LRU: some request has put the key there.       *)
AuthCached(r) ==
    /\ At(r, "auth") /\ ~StaticMode
    /\ \E q \in Requests : req[q].key = req[r].key /\ req[q].entry # NoEntry
    /\ Authenticated(r, Rows[req[r].key])

(* A miss: parse the key and look it up.                                    *)
AuthMiss(r) ==
    /\ At(r, "auth") /\ ~StaticMode
    /\ \/ /\ req[r].key \in Keys
          /\ Becomes(r, [req[r] EXCEPT !.stage = "lookup", !.wait = 0, !.cut = Dead(r)])
       \/ /\ req[r].key \notin Keys
          /\ Becomes(r, Answered(req[r], 401))

(* Resolve and argonVerify answer: the key's own row, or no row that fits   *)
(* it (none, or that of a key with the same last four characters), or a row *)
(* that cannot be verified.                                                 *)
LookupAnswers(r) ==
    /\ At(r, "lookup") /\ ~req[r].cut
    /\ \/ req[r].key \in DOMAIN Rows /\ Authenticated(r, Rows[req[r].key])
       \/ \E status \in {401, 500} : Becomes(r, Answered(req[r], status))

(* Resolve fails, or lookupCtx ends.                                        *)
LookupFails(r) == At(r, "lookup") /\ Becomes(r, Answered(req[r], 503))

-----------------------------------------------------------------------------
(* orgRateLimit.                                                            *)

Enters(q) == [q EXCEPT !.stage = "body", !.admitted = TRUE, !.wait = 0, !.cut = FALSE]

(* How often INCR was applied, and whether the last reply arrived.  Under   *)
(* an ended context it is not sent.                                         *)
IncrOutcomes(r) ==
    IF req[r].cut THEN {[applied |-> 0, ok |-> FALSE]}
    ELSE {o \in [applied : 0..Attempts, ok : BOOLEAN] : o.ok => o.applied > 0}

(* Variant of OverLimit: the count before this request is what matters.     *)
OverLimitBefore(tier, n) == LimitForTier(tier) > 0 /\ n - 1 > LimitForTier(tier)

OverLimit(tier, n) == LimitForTier(tier) > 0 /\ n > LimitForTier(tier)

CountOff(r) ==
    /\ At(r, "count") /\ ~orgRL
    /\ Becomes(r, Enters(req[r]))

(* CheckAndIncrement: on any error the request goes on, uncounted.          *)
Count(r) ==
    /\ At(r, "count") /\ orgRL
    /\ \E o \in IncrOutcomes(r) :
         LET org == req[r].entry.org
             n   == counter[org] + o.applied
         IN
         /\ counter' = [counter EXCEPT ![org] = n]
         /\ req' = [req EXCEPT ![r] =
                CASE ~o.ok -> [Enters(@) EXCEPT !.uncounted =
                                  IF req[r].cut \/ req[r].gone THEN "context" ELSE "redis"]
                  [] o.ok /\ OverLimit(req[r].entry.tier, n) -> Answered(@, 429)
                  [] OTHER -> Enters(@)]
    /\ UNCHANGED bootVars

-----------------------------------------------------------------------------
(* handleCheck.                                                             *)

(* Variant of BodyFails: the error is answered, and not metered.            *)
BodyFailsUnmetered(r) == At(r, "body") /\ Becomes(r, Answered(req[r], 400))

(* Variant of BodyFails: the return after the error is missing.             *)
BodyFailsGoesOn(r) ==
    /\ At(r, "body")
    /\ Becomes(r, [Metered(req[r], 400) EXCEPT !.stage = "scan"])

(* The body cannot be read or decoded, or has no text.                      *)
BodyFails(r) == At(r, "body") /\ Becomes(r, Answered(Metered(req[r], 400), 400))

(* The body is read; it asks for injection n times.                         *)
BodyRead(r) ==
    /\ At(r, "body") /\ ~req[r].empty
    /\ \E n \in Injections :
          Becomes(r, [req[r] EXCEPT !.stage = "scan", !.left = n])

(* detectInjection answers, or fails and the request goes on.               *)
Infer(r) ==
    /\ At(r, "scan") /\ req[r].left > 0
    /\ Becomes(r, [req[r] EXCEPT !.left = @ - 1, !.wait = 0])

(* The verdict is encoded, written and metered.                             *)
Respond(r) ==
    /\ At(r, "scan") /\ req[r].left = 0
    /\ \E status \in {200, 500} : Becomes(r, Answered(Metered(req[r], status), status))

-----------------------------------------------------------------------------
(* The environment.                                                         *)

(* The client hangs up and the server notices, which ends the request's     *)
(* context.                                                                 *)
HangUp(r) ==
    /\ req[r].stage \notin {"idle", "done"} /\ ~req[r].gone
    /\ At(r, "scan") \/ req[r].empty
    /\ Becomes(r, [req[r] EXCEPT !.gone = TRUE])

(* Variant of CallTimeout: INCR and EXPIRE have a context each.             *)
CallTimeoutEach(stage) ==
    CASE stage = "lookup" -> LookupTimeout + RedisTimeout
      [] stage = "count"  -> 2 * (OpTimeout + RedisTimeout)
      [] stage = "scan"   -> InferTimeout
      [] OTHER            -> 0

(* How long the call a request is in may last.                              *)
CallTimeout(stage) ==
    CASE stage = "lookup" -> LookupTimeout + RedisTimeout
      [] stage = "count"  -> OpTimeout + RedisTimeout
      [] stage = "scan"   -> InferTimeout
      [] OTHER            -> 0

(* Whether a request may wait for another tick.                             *)
MayWait(r) ==
    \/ req[r].stage \in {"idle", "done", "body"}
    \/ /\ \/ At(r, "lookup") /\ ~req[r].cut
          \/ At(r, "count") /\ orgRL /\ ~req[r].cut
          \/ At(r, "scan") /\ req[r].left > 0 /\ ~Dead(r)
       /\ req[r].wait < CallTimeout(req[r].stage)

Older(q) ==
    IF q.stage \in {"idle", "done"} THEN q
    ELSE [q EXCEPT !.age = IF @ < RequestTimeout THEN @ + 1 ELSE @,
                   !.wait = IF q.stage = "body" THEN 0 ELSE @ + 1]

Tick ==
    /\ boot = "serving"
    /\ \A r \in Requests : MayWait(r)
    /\ req' = [r \in Requests |-> Older(req[r])]
    /\ UNCHANGED <<bootVars, counter>>

Exited == boot = "exited" /\ UNCHANGED vars

-----------------------------------------------------------------------------

Auth(r) == AuthStatic(r) \/ AuthCached(r) \/ AuthMiss(r) \/ LookupAnswers(r) \/ LookupFails(r)

OrgRateLimit(r) == CountOff(r) \/ Count(r)

HandleCheck(r) == BodyFails(r) \/ BodyRead(r) \/ Infer(r) \/ Respond(r)

Handle(r) == RateLimit(r) \/ Auth(r) \/ OrgRateLimit(r) \/ HandleCheck(r)

Next ==
    \/ BootStep /\ UNCHANGED <<req, counter>>
    \/ \E r \in Requests : Handle(r) \/ HangUp(r)
    \/ Tick
    \/ Exited

Spec == Init /\ [][Next]_vars

-----------------------------------------------------------------------------
(* Properties.                                                              *)

(* Shapes of the state.  A request hands over at most one event.            *)
TypeOK ==
    /\ BootTypeOK
    /\ counter \in [Orgs -> Nat]
    /\ \A r \in Requests :
          LET q == req[r] IN
          /\ q.stage \in {"idle", "auth", "lookup", "count", "body", "scan", "done"}
          /\ q.key \in Keys \cup {Malformed}
          /\ q.entry = NoEntry \/ q.entry.org \in Orgs
          /\ q.age \in 0..RequestTimeout
          /\ q.status \in {0, 200, 400, 401, 429, 500, 503}
          /\ q.status # 0 <=> q.stage = "done"
          /\ Len(q.events) <= 1

(* "a malformed VETO_STATIC_KEYS would silently lock out the operator if we *)
(* ignored the bad entries" (staticauth.go): once the gateway serves, every *)
(* key that was written, wherever in the list and beside whatever else, is  *)
(* let through auth, as the organisation and tier written next to it.       *)
OperatorNotLockedOut ==
    boot = "serving" =>
        \A e \in Written, r \in Requests :
            req[r].key = e.key =>
                /\ req[r].status \notin {401, 503}
                /\ req[r].entry \in {NoEntry, [org |-> e.org, tier |-> e.tier]}

(* A request has an event exactly if all three gates let it through to      *)
(* handleCheck and it was answered, by whichever path and whether or not    *)
(* its client was still there: one event, with the answer's status, for the *)
(* organisation of the key presented.  A request that was turned away       *)
(* leaves no event, and no count unless its key was good.                   *)
EventsMatchGates ==
    /\ \A r \in Requests :
          LET q == req[r]
              owner == IF StaticMode THEN table[q.key].org ELSE Rows[q.key].org
          IN  q.events = IF metering /\ q.admitted /\ q.stage = "done"
                         THEN <<[org |-> owner, status |-> q.status]>> ELSE <<>>
    /\ \A o \in Orgs :
          counter[o] <= Attempts * Cardinality({r \in Requests : req[r].entry.org = o})

Billed(o) == {r \in Requests : \E i \in DOMAIN req[r].events :
                                  req[r].events[i] = [org |-> o, status |-> 200]}

(* Billing and the cap agree, but for requests that went uncounted because  *)
(* Redis failed them: an organisation has no more billed events than were   *)
(* counted, and no more of a capped tier than the cap, even if its keys     *)
(* have different tiers.  In particular nobody gets a check past the cap by *)
(* hanging up, or by being slow, so that the INCR fails for want of a       *)
(* context.                                                                 *)
BilledWasCounted ==
    orgRL => \A o \in Orgs :
        LET counted == {r \in Billed(o) : req[r].uncounted # "redis"} IN
        /\ Cardinality(counted) <= counter[o]
        /\ \A t \in DOMAIN Tiers : LimitForTier(t) > 0 =>
              Cardinality({r \in counted : req[r].entry.tier = t}) <= LimitForTier(t)

(* The gates leave time for the check: however slow Redis and the cloud are *)
(* behind auth and behind orgRateLimit, one after the other, and although   *)
(* neither's context ends a call to Redis, the ten seconds of the Timeout   *)
(* middleware are not over when handleCheck begins.  So it is not for the   *)
(* gates that INCR is not sent or that the classifier is skipped.           *)
GatesLeaveTime ==
    \A r \in Requests :
        req[r].stage \in {"auth", "lookup", "count"} => req[r].age < RequestTimeout
=============================================================================
