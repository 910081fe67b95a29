---------------------------- MODULE OrgRateLimit ----------------------------
(***************************************************************************)
(* The monthly cap per organisation: CheckAndIncrement and the             *)
(* orgRateLimit middleware of gateway/orgratelimit.go, with the period     *)
(* that parseStaticKeys (gateway/staticauth.go) or the cached Entry gives  *)
(* a request.                                                              *)
(*                                                                         *)
(* A counter in Redis per organisation and billing period is incremented   *)
(* by every request; the increment that creates it is followed by an       *)
(* EXPIRE.  Only requests of a tier with a limit are refused.  Any Redis   *)
(* error lets the request through.                                         *)
(***************************************************************************)
EXTENDS Integers, FiniteSets, Functions

CONSTANTS
    Orgs,             \* organisations
    Requests,         \* request goroutines inside the middleware
    Tiers,            \* tier names an Entry may carry
    Limits,           \* monthly_requests_limit of each tier, 0 for none
    PeriodLength,     \* ticks in a billing period
    CounterTTL,       \* the 35 days of EXPIRE, in ticks
    EntryLag,         \* how old the Entry of a request may be, in ticks
    Static,           \* static-key mode: the period is computed once, at boot
    RedisOutcomes,    \* what may happen to an INCR or an EXPIRE
    MayCrash,         \* whether the gateway may be restarted
    MaxTime,          \* bound on the clock
    MaxArrivals,      \* bound on the requests
    NoEntry           \* no Entry: the goroutine serves no request

(* "ok"; "lost": not executed, error; "unacked": executed, error; "twice":  *)
(* executed again by a retry of the client library, which succeeds.         *)
Outcomes == {"ok", "lost", "unacked", "twice"}

ASSUME TiersAssumption == Limits \in [Tiers -> Nat]
ASSUME PeriodAssumption ==
    /\ PeriodLength \in Nat \ {0} /\ EntryLag \in 0..(PeriodLength - 1)
    /\ CounterTTL \in Nat /\ CounterTTL > PeriodLength + EntryLag
ASSUME OutcomesAssumption == RedisOutcomes \subseteq Outcomes
ASSUME FlagsAssumption == Static \in BOOLEAN /\ MayCrash \in BOOLEAN
ASSUME BoundsAssumption == MaxTime \in Nat /\ MaxArrivals \in Nat

Period(t) == t \div PeriodLength

Periods == 0..Period(MaxTime)

RateKeys == Orgs \X Periods

Entries == [org : Orgs, tier : Tiers, period : Periods]

NoTTL == -1

ASSUME EntryAssumption == NoEntry \notin Entries

VARIABLES
    now,       \* the clock
    count,     \* value of each counter key in Redis, 0 if there is no key
    expires,   \* when the key expires, NoTTL if never
    pc,        \* where each request is in CheckAndIncrement
    entry,     \* its Entry: org, tier and period
    seen,      \* what its INCR returned
    since,     \* when it arrived
    arrivals,  \* requests so far
    incrs,     \* INCRs Redis has executed, by organisation and actual period
    admitted,  \* requests of limited tiers let through below the limit, by
               \* organisation and period of their Entry
    faulty     \* keys for which a Redis command went wrong or was cut short

redisVars == <<count, expires>>
reqVars   == <<pc, entry, seen, since>>
histVars  == <<incrs, admitted, faulty>>
vars == <<now, redisVars, reqVars, arrivals, histVars>>

Init ==
    /\ now = 0
    /\ count = [c \in RateKeys |-> 0]
    /\ expires = [c \in RateKeys |-> NoTTL]
    /\ pc = [r \in Requests |-> "idle"]
    /\ entry = [r \in Requests |-> NoEntry]
    /\ seen = [r \in Requests |-> 0]
    /\ since = [r \in Requests |-> 0]
    /\ arrivals = 0
    /\ incrs = [c \in RateKeys |-> 0]
    /\ admitted = [c \in RateKeys |-> 0]
    /\ faulty = {}

-----------------------------------------------------------------------------
(* The request's Entry.                                                     *)

(* Periods the Entry of a request arriving now may carry: in static mode    *)
(* the month the gateway booted in, else the period that was current when   *)
(* the Entry was cached.                                                    *)
EntryPeriods ==
    IF Static THEN {Period(0)} ELSE {Period(s) : s \in {x \in 0..now : now - x <= EntryLag}}

(* Variant of RateKey: one counter per organisation.                        *)
RateKeyNoPeriod(o, p) == <<o, 0>>

(* rateKey.                                                                 *)
RateKey(o, p) == <<o, p>>

KeyOf(r) == RateKey(entry[r].org, entry[r].period)

(* A request leaves auth with an Entry.                                     *)
Arrive(r, e) ==
    /\ pc[r] = "idle" /\ arrivals < MaxArrivals
    /\ e.period \in EntryPeriods
    /\ pc' = [pc EXCEPT ![r] = "incr"]
    /\ entry' = [entry EXCEPT ![r] = e]
    /\ since' = [since EXCEPT ![r] = now]
    /\ arrivals' = arrivals + 1
    /\ UNCHANGED <<now, redisVars, seen, histVars>>

-----------------------------------------------------------------------------
(* CheckAndIncrement.                                                       *)

Executions(o) == CASE o = "lost" -> 0 [] o \in {"ok", "unacked"} -> 1 [] o = "twice" -> 2

Failed(o) == o \in {"lost", "unacked"}

(* Variant of OnRedisError: the error is passed on.                         *)
OnRedisErrorFail == "failed"

(* Redis errors fail open.                                                  *)
OnRedisError == "allowed"

(* Variants of Creates: EXPIRE after every INCR; EXPIRE before the first.   *)
CreatesAlways(n) == TRUE

CreatesBefore(n) == n = 0

(* The INCR that returned n made the key.                                   *)
Creates(n) == n = 1

(* The enforcement test: only tiers with a limit, only above it.            *)
OverLimit(t, n) == Limits[t] > 0 /\ n > Limits[t]

(* The outcome of a request whose INCR returned n.                          *)
Decide(r, n) ==
    LET e == entry[r] IN
    \/ /\ OverLimit(e.tier, n)
       /\ pc' = [pc EXCEPT ![r] = "refused"]
       /\ UNCHANGED admitted
    \/ /\ ~OverLimit(e.tier, n)
       /\ pc' = [pc EXCEPT ![r] = "allowed"]
       /\ admitted' = [admitted EXCEPT ![<<e.org, e.period>>] =
                          IF Limits[e.tier] > 0 THEN @ + 1 ELSE @]

(* INCR.  An error fails open; a first increment goes on to EXPIRE.         *)
Incr(r, o) ==
    LET c == KeyOf(r)
        n == count[c] + Executions(o)
    IN
    /\ pc[r] = "incr"
    /\ count' = [count EXCEPT ![c] = n]
    /\ incrs' = [incrs EXCEPT ![<<entry[r].org, Period(now)>>] = @ + Executions(o)]
    /\ faulty' = IF o = "ok" THEN faulty ELSE faulty \cup {c}
    /\ \/ /\ Failed(o)
          /\ pc' = [pc EXCEPT ![r] = OnRedisError]
          /\ UNCHANGED <<seen, admitted>>
       \/ /\ ~Failed(o) /\ Creates(n)
          /\ pc' = [pc EXCEPT ![r] = "expire"]
          /\ seen' = [seen EXCEPT ![r] = n]
          /\ UNCHANGED admitted
       \/ /\ ~Failed(o) /\ ~Creates(n)
          /\ seen' = [seen EXCEPT ![r] = n]
          /\ Decide(r, n)
    /\ UNCHANGED <<now, expires, entry, since, arrivals>>

(* Variant of TTL: the duration is given in the wrong unit.                 *)
TTLShort == 1

(* The duration given to EXPIRE.                                            *)
TTL == CounterTTL

(* EXPIRE, whose error is ignored, and the decision.                        *)
Expire(r, o) ==
    LET c == KeyOf(r) IN
    /\ pc[r] = "expire"
    /\ expires' = [expires EXCEPT ![c] =
                      IF Executions(o) > 0 /\ count[c] > 0 THEN now + TTL ELSE @]
    /\ faulty' = IF o = "lost" THEN faulty \cup {c} ELSE faulty
    /\ Decide(r, seen[r])
    /\ UNCHANGED <<now, count, entry, seen, since, arrivals, incrs>>

(* The middleware answers 429 or calls the next handler.                    *)
Leave(r) ==
    /\ pc[r] \in {"allowed", "refused"}
    /\ pc' = [pc EXCEPT ![r] = "idle"]
    /\ entry' = [entry EXCEPT ![r] = NoEntry]
    /\ seen' = [seen EXCEPT ![r] = 0]
    /\ since' = [since EXCEPT ![r] = 0]
    /\ UNCHANGED <<now, redisVars, arrivals, histVars>>

-----------------------------------------------------------------------------
(* The gateway is restarted; requests between two Redis commands are cut    *)
(* short.  (A restart of a static-key gateway would recompute its period.)  *)
Crash ==
    /\ MayCrash
    /\ \E r \in Requests : pc[r] \in {"incr", "expire"}
    /\ pc' = [r \in Requests |-> "idle"]
    /\ entry' = [r \in Requests |-> NoEntry]
    /\ seen' = [r \in Requests |-> 0]
    /\ since' = [r \in Requests |-> 0]
    /\ faulty' = faulty \cup {KeyOf(r) : r \in {q \in Requests : pc[q] = "expire"}}
    /\ UNCHANGED <<now, redisVars, arrivals, incrs, admitted>>

(* Redis deletes a key when its time has come.  A request has half a second *)
(* for its commands, far less than a tick: it sees at most one pass.        *)
Gone(c, t) == expires[c] # NoTTL /\ expires[c] <= t

Tick ==
    /\ now < MaxTime
    /\ \A r \in Requests : pc[r] # "idle" => since[r] = now
    /\ now' = now + 1
    /\ count' = [c \in RateKeys |-> IF Gone(c, now + 1) THEN 0 ELSE count[c]]
    /\ expires' = [c \in RateKeys |-> IF Gone(c, now + 1) THEN NoTTL ELSE expires[c]]
    /\ UNCHANGED <<reqVars, arrivals, histVars>>

-----------------------------------------------------------------------------

CheckAndIncrement(r) == \E o \in RedisOutcomes : Incr(r, o) \/ Expire(r, o)

Next ==
    \/ \E r \in Requests, e \in Entries : Arrive(r, e)
    \/ \E r \in Requests : CheckAndIncrement(r) \/ Leave(r)
    \/ Crash
    \/ Tick

Spec == Init /\ [][Next]_vars

-----------------------------------------------------------------------------
(* Properties.                                                              *)

(* Shapes of the state; a key that does not exist has no expiry.            *)
TypeOK ==
    /\ now \in 0..MaxTime
    /\ count \in [RateKeys -> Nat]
    /\ expires \in [RateKeys -> Nat \cup {NoTTL}]
    /\ \A c \in RateKeys : count[c] = 0 => expires[c] = NoTTL
    /\ pc \in [Requests -> {"idle", "incr", "expire", "allowed", "refused"}]
    /\ entry \in [Requests -> Entries \cup {NoEntry}]
    /\ seen \in [Requests -> Nat]
    /\ since \in [Requests -> 0..now]
    /\ arrivals \in 0..MaxArrivals
    /\ incrs \in [RateKeys -> Nat]
    /\ admitted \in [RateKeys -> Nat]
    /\ faulty \subseteq RateKeys

(* In a billing period an organisation gets at most as many requests of a   *)
(* limited tier through as the limit of that tier allows, not counting      *)
(* those that failed open; concurrent requests, a mix of tiers, stale       *)
(* entries and restarts do not change that, nor does the key's expiry.      *)
CapHolds ==
    ~Static => \A c \in RateKeys :
                  admitted[c] > 0 => \E t \in Tiers : admitted[c] <= Limits[t]

(* A request is refused only if its own organisation went over the limit    *)
(* while its own billing period was current (or, for stale entries, just    *)
(* over): no other organisation's and no earlier period's traffic.  (Static *)
(* mode, whose period never changes, is the subject of CapIsMonthly.)       *)
Used(o, p) == incrs[<<o, p>>] + (IF p + 1 \in Periods THEN incrs[<<o, p + 1>>] ELSE 0)

RefusalEarned ==
    ~Static => \A r \in Requests :
        pc[r] = "refused" =>
            Used(entry[r].org, entry[r].period) > Limits[entry[r].tier]

(* The expiry of a counter is set once: steady traffic does not push it     *)
(* into the future.                                                         *)
ExpirySetOnce ==
    [][\A c \in RateKeys :
         expires[c] # NoTTL /\ count'[c] > 0 => expires'[c] = expires[c]]_vars

(* A counter without an expiry is about to get one, unless one of its       *)
(* commands failed or its request was cut short.                            *)
ExpiryUnlessFault ==
    \A c \in RateKeys :
        count[c] > 0 /\ expires[c] = NoTTL =>
            \/ c \in faulty
            \/ \E r \in Requests : pc[r] = "expire" /\ KeyOf(r) = c

(* "hard cap (10k/mo ...)" of the free tier in static-key mode              *)
(* (staticauth.go): a request is refused only if its organisation used up   *)
(* the limit in the current month.  The code does not guarantee this: the   *)
(* month is computed once, at boot.                                         *)
CapIsMonthly ==
    \A r \in Requests :
        pc[r] = "refused" /\ Period(since[r]) = Period(now) =>
            incrs[<<entry[r].org, Period(now)>>] > Limits[entry[r].tier]
=============================================================================
