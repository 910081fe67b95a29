# Verification of veto-core

TLA+ models of the veto gateway (`gateway/`, with the shared tables in
`config/`), TLC runs that check them on small instances, and TLAPS proofs of
the results that should hold for every instance.

Contents: [the system](#the-system), [modules](#modules-and-the-code),
[runs](#runs), [disagreements with the repository's
comments](#disagreements-with-the-repositorys-comments),
[proofs](#proofs), [what is not modelled](#what-is-not-modelled),
[plan](#plan).  `PROJECT.json` has the same information in a form tools can
read: the source lines behind every definition, the hazards and the properties
aimed at them, and for each property a plausible bug that breaks it.

## The system

The gateway answers `POST /v1/check`.  A request passes, in this order,

1. `rateLimit` - a token bucket per client address, in memory;
2. `auth` - resolves the API key to an `Entry` (organisation, tier, period),
   from a static table or from an LRU of verified keys, Redis, and the cloud;
3. `orgRateLimit` - counts the request in Redis and enforces the monthly cap;
4. `handleCheck` - scans the text, asks the classifier, decides, answers, and
   hands a usage event to the metering pipeline.

Beside the request goroutines run the metering worker, the drop reporter
(`statsLoop`), the bucket collector (`gcLoop`), the LRU's own expiry, and
`main`, which waits for a signal and shuts everything down.

| Component | State | Operations | Hard behaviour |
|---|---|---|---|
| Metering (`metering.go`) | bounded channel, two drop counters, the Redis stream | `Emit`, `Run`, `publish`, `drain`, `statsLoop`, `Close` | full channel; random `select` after cancellation; half-acknowledged XADDs; the order in which worker, handlers and main end |
| Shutdown (`main.go`) | context, listener | signal, listener failure, `Shutdown`, deferred closes, exit | a handler that never returns; goroutines nobody waits for |
| Key authentication (`main.go` `auth`, `keylookup.go`, `cache.go`) | LRU with expiry, Redis slots, one deadline per lookup | `Get`, `Resolve`, `rpcLookup`, `argonVerify`, `Put` | keys that share their last four characters; revocation against three stale copies; Redis failing in the middle |
| Organisation limit (`orgratelimit.go`) | one Redis counter per organisation and period | `CheckAndIncrement` (INCR, EXPIRE, decision) | concurrent requests at the limit; period rollover; a restart between INCR and EXPIRE; retried commands |
| Boot (`main.go`, `staticauth.go`) | the mode, the static table, three Redis clients | `parseStaticKeys`, `newLookup`, `newMetering`, `newOrgRateLimiter` | bad entries anywhere in the list; one of three pings failing; in static mode, a period that never rolls over |
| Request pipeline (`main.go`) | per request: its context, its entry, its stage | the route's four layers | one ten-second budget for all calls; clients that hang up; a body without a deadline |
| Check handler (`main.go` `handleCheck`, `rules.go`, `inference.go`, `config/rules.go`) | redacted text, findings, degraded list | decode, category loop, `scanCategory`, `detectInjection`, verdict, event | rules and categories that redact each other's matches; classifier failures; error paths |
| Per-IP limit (`ratelimit.go`) | a bucket per address | `allow`, `gcLoop` | clock readings that reach the mutex out of order; eviction between two requests |
| Latency histogram (`config/latency.go`) | none (rows kept by the cloud) | `BucketForLatency`, `PercentileFromBuckets` | bucket bounds, empty and missing rows, the infinity bucket |
| Tiers, analytics types (`config/`) | none | tables | - |
| Inference service (`inference/app.py`) | none | one endpoint around a model | - |

What makes each of them correct: metering neither loses an event without a
trace nor bills it twice, and its counters tell the truth; shutdown ends;
authentication lets nobody through as somebody else, forgets revoked keys in
bounded time and refuses no customer because a cache is down; the cap holds and
is enforced only for an organisation's own traffic of its own period; the
verdict depends on what is in the text and not on the order of the scan;
the per-IP limiter keeps its rate and never starves a patient client; a gateway
that serves lacks no part in silence; events, counters and answers of a request
agree; a percentile lies where the requests' own percentile does.

The components share no memory except through the request: `auth` puts an
`Entry` in the request's context, which `orgRateLimit` and `handleCheck` read;
`handleCheck` sends to the metering channel; all watch the context that `main`
cancels.  Hence each is modelled on its own, with its neighbours reduced to
what they hand over, and `Gateway` composes them, each reduced to what its own
module shows of it.

## Modules and the code

`MC*` modules only give TLC its constants and symmetry.  Definitions whose
comment begins "Variant of" are not part of any specification: they are the
plausible bugs that `PROJECT.json` lists, one per property.

**UsageLedger** - what metering promises, in three sets: an event is recorded
once, as pending or as dropped, and a pending event is settled once, as billed,
dropped or (an unacknowledged XADD) both.  Metering implements it: `KeepsLedger`
maps the channel and the worker's hand to *pending*, the stream to *billed*, the
two kinds of log line to *dropped*.

**Metering** - variables for the channel (`queue`), the worker (`worker`,
`inHand`), the Redis stream, the two counters, the log lines (`refused`,
`failed`), `statsLoop` (`stats`, `prev`, `alerted`) and `main`. Each blocking
point of the Go code separates two actions: a receive (`RunDequeue`,
`DrainDequeue`) and the XADD after it (`RunPublish`, `DrainPublish`) are two
steps, the two halves of a `statsLoop` tick (`StatsQueue`, `StatsXadd`) are two
steps. `Emit` is one step: the non-blocking send and the count of a refusal.
(The refusal's counter is an atomic add; nothing reads it between the failed
send and the add in a way the properties can tell.)  An XADD may be applied and
acknowledged, lost, applied and not acknowledged, or applied twice by
go-redis's retry (here and in OrgRateLimit, further retries are left out). When
the context is cancelled, `Run` may still take an event and publish it under
the dead context, and `main` may close the client under the worker's feet.

**KeyAuth** - `auth` in dynamic mode.  A row is named by the key it was minted
for, and `ArgonVerify` accepts a key against its own row only; a `Damaged` row
is one that `argonVerify` rejects with an error.  `Get`, `RedisHit`/`RedisMiss`,
`RpcAnswers`/`RpcFails` and `Verify` are separate steps, so that other
requests, revocations and expiries fall between them.  `Mint`, `Revoke`,
`Warm` and `Unwarm` are the cloud's, which is not in this repository: it is
modelled by what the gateway relies on.  The LRU keeps order and expiry, as
golang-lru's `expirable.LRU` does.  `LookupTimeout` is the longest a lookup may
last: `lookupCtx`, plus a Redis read that it does not interrupt (see Gateway).

**KeyGate** - what authentication promises, with neither caches nor lookups: a
request asks, gets one answer and leaves. `Accept` needs the key to be active
or revoked no longer ago than `Lag`, and serves it as itself; `Refuse` needs a
reason; `Fail` (503, 500) needs a key of the right shape. KeyAuth implements
it: `KeepsGate` takes a request that is anywhere inside `auth` as *asked*, its
final `pc` as the answer, the row it was let through with as the customer, and
the sum of the four times (`RevocationLag`) as the lag.

**OrgRateLimit** - INCR and EXPIRE are separate steps with the same four Redis
outcomes; `Crash` may fall between them.  `EntryPeriods` gives the periods a
request's `Entry` may carry: the period at boot in static mode, otherwise the
current one or, for an `Entry` cached before a rollover, the previous one.
`incrs`, `admitted` and `faulty` are history variables.  An `Entry` is assumed
to be younger than a period (minutes against a month), and the counter's 35 days
to be longer than a period and an `Entry`'s age.

**CheckVerdict** - one request from decoding to the event.  A text is the set
of *places* where some pattern matches; places may overlap, lie inside each
other, and depend on their neighbours.  The patterns give four ways in which a
replacement affects other places.  A place inside a replaced one is gone.  One
that merely overlaps it may survive in part or not, at random.  One may come to
match (`Uncovers`): `phone_intl` has no closing word boundary, so what follows
it may start a word only once the number is a placeholder.  And one may cease to
match although it shares no character (`Unmatches`): placeholders begin and end
with a bracket, so only a `\b` next to a character that is not of a word can
fail for that, and the one such `\b` is that of `phone_fr` before `+33`; in
`bob@a.com+33612345678` the number is no `phone_fr` match once the address is
replaced.  `phone_intl` has no `\b`, matches on the characters of every `+33`
number from the plus sign on, which can occur nowhere else in a match of it, and
so is there until a character of that number is replaced (`Backs`, `NumberHit`).
These facts about the regular expressions are `PhonesAssumption` and the
definitions of `Remainders`; that they suffice is what the property shows.
`ScanRule` reports all matches of the next rule that has any and replaces them.
Severities and categories are those of
`config.Rules`, in its order.  The verdict loop (`Judge`, which ends when
`Judged`: the `break` or the end) and the loops that list the findings for the
event (`ListFinding`) take one step per finding, so that what they compute can
be proved by an invariant for any number of findings.

**IPLimiter** - time in ticks, tokens in the units a bucket regains per tick, so
that the arithmetic is exact where the code's is floating point.  `Arrive`
reads the clock, `AllowNew`/`Allow` run under the mutex later, within `MaxSkew`
ticks; `GcTick` computes the cutoff, `GcSweep` takes the mutex later.  `mark`
and `spent` count admissions in a window that may start at any time, `peak`
is the latest time a bucket has seen.

**Boot** - `main` up to the listener.  The environment is chosen at random: a
list of entries for `VETO_STATIC_KEYS`, each a number of fields and three
fields; a Redis URL unset, malformed or set; the cloud configured or not.
`ParseEntry` is one turn of `parseStaticKeys`' loop; `NewLookup`, `NewMetering`
and `NewOrgRateLimiter` each connect or end the process.  `main`'s own check
that Redis is set in dynamic mode cannot fire, since `newLookup` makes it first.

**Gateway** - extends Boot.  A request is a record: its stage (`auth`,
`lookup`, `count`, `body`, `scan`, `done`), its clocks, its entry, its events.
Time passes only where the code waits for somebody else.  A call to the
classifier ends at its own timeout or when the request's context does.  A call
to Redis need not: clients made from `redis.ParseURL` (go-redis 9.7.0, not in
this repository) leave `ContextTimeoutEnabled` unset, look at the context when
they take a connection and before each of up to three retries, and read a reply
under a `ReadTimeout` of their own, three seconds by default.  So `cut` says
whether the context had ended when a call began, `RedisTimeout` by how much a
call may outlast its context, and an INCR is applied up to `Attempts` times.
`TimesAssumption` says what the code's values must satisfy: 3 s + 0.5 s + 2 *
`RedisTimeout` < 10 s, so a `RedisTimeout` below 3.25 s, as a read on an
established connection has.  A new connection, each of whose handshake replies
is seconds late, is beyond it.  The body is read without any deadline.  The
context ends with the middleware's timeout or when the server notices that the
client has hung up, which net/http does only once it has nothing of the body
left to read.
`Timeout`'s own late 504 is left out: each path has
written its answer by then.

**Latency** - batches of requests are added to the bucket `BucketForLatency`
names; `atMost` and `requests` are history variables: how many requests took no
longer than each latency, and how many there were.  The rows a query returns
are a function from the buckets that have a row to their counts, all buckets or
the non-empty ones; the loops of `PercentileFromBuckets` are the running sum
`Cum`, the first row it reaches the rank in, and the last row before that.  The
result is compared with the nearest-rank percentile of the history.  Targets
are in hundredths.  The code rounds after each of its operations, so the model
has the set of results rounding may give.  A relative error of a few 2^-53
carries a value across a whole number only if the exact value is that number, as
long as the denominators (100 times a count, below 2^28 requests) keep other
values further away.  That leaves two places.  `target * total` may come out
above a whole rank if the target's float64 is above it (`RoundedUp`: 0.07 * 100
is 7.000000000000001, and with 7 requests up to 10 ms and 93 in (250, 500] the
7th percentile is 250, not 10); then the row that ends at the rank is passed
over (`Excess`, `Walk`).  And a product that is a whole number may be truncated
to the one below (`Interpolate`: the 95th percentile of one request in
(500, 1000] is 975, of three 974).

**MeteringProofs**, **KeyAuthProofs**, **OrgRateLimitProofs**,
**CheckVerdictProofs**, **IPLimiterProofs**, **GatewayProofs**,
**LatencyProofs** - the proofs about the module each is named after;
GatewayProofs covers Boot as well.

## Runs

| Run | Checks | Shows |
|---|---|---|
| `metering` | `TypeOK`, `AccountedFor`, `SentAtMostOnce`, `AlertsExact`, `KeepsLedger`, `ShutdownCompletes`, `QueueDrains`, `DropsSurface` | three requests, two slots, all Redis outcomes, shutdown at any point: every event is in exactly one place and settled for good, drops are counted exactly, alerts add up; the process ends after a signal, queued events leave the channel, drops are reported |
| `keyauth` | `TypeOK`, `NoCrossTenant`, `RevocationTakesEffect`, `RefusalJustified`, `KeepsGate` | two keys in one slot, two requests, a one-entry LRU, faulty Redis and cloud; `auth` implements KeyGate |
| `orgratelimit` | `TypeOK`, `CapHolds`, `RefusalEarned`, `ExpiryUnlessFault`, `ExpirySetOnce` | two organisations, a limited and an unlimited tier, a rollover, faults, restarts |
| `check_verdict` | `TypeOK`, `NoMatchOverlooked`, `RedactionComplete`, `VerdictIsWorst`, `FailOpenIsVisible`, `EventMatchesResponse` | all texts over eleven places, all lists of up to three categories, every error path |
| `iplimiter` | `TypeOK`, `RateBound`, `PatientClientAdmitted` | two concurrent requests of one address, skewed times, eviction |
| `gateway` | `TypeOK`, `NothingMissingInSilence`, `OperatorNotLockedOut`, `EventsMatchGates`, `BilledWasCounted`, `GatesLeaveTime` | every start with up to two static entries, then two concurrent requests through all layers |
| `latency` | `TypeOK`, `InRightBucket`, `PercentilesOrdered`, `SlowerHardlyLowers` | all histograms of up to three batches around bucket bounds, with all results of rounding |

The runs named `metering_shutdown`, `keyauth_blip`, `orgratelimit_static`,
`check_order` and `check_unknown` are expected to fail; see the next section.

**Bounds.**  *Metering*: with two slots and three requests, full, partly full
and empty channel all occur, the worker holds an event while others wait behind
it, and a third event is refused when both slots are taken. No symmetry, since
the run checks liveness. *KeyAuth*: the hazards need two keys with one slot,
two requests and an LRU that overflows on the second key; every time-to-live is
one tick and the clock runs to 4, beyond their sum, so a revoked key outlives
none of its copies unseen. While the other key is not minted, nothing but its
own absence excuses a refusal. Requests, and keys of the one slot, are
interchangeable, hence the symmetry. *OrgRateLimit*: the limit is 2 and three
requests may arrive, so the third is over; two periods of two ticks, a counter
that expires within the clock's range. The clock and the number of arrivals are
bounded, so the run may stop: deadlock is not checked there. *CheckVerdict*:
three categories allow a repeated one and every order of the known ones; the
places are chosen so that both passes meet overlapping, nested, uncovered and
undone matches: a `+33` number right after an e-mail address, and a card number
whose first digits the `phone_intl` match of that number takes in. *IPLimiter*:
one address, since buckets of different addresses do not interact (the proof
covers any number); burst of two requests; the clock runs long enough for an
eviction and a fresh burst after it. *Gateway*: two entries suffice for a
repeated key, a blank beside a good entry, and two tiers or two organisations;
the free limit is 1, so two requests meet it. A tick is two and a half seconds:
the request's context lasts four, a classifier call two, a lookup one, a Redis
call up to one more than its context; the counter's half second is less than a
tick. Two slow gates then take three of the four ticks, and two injection calls
outlast the rest. A command is sent up to four times, as with go-redis's
default of three retries. *Latency*: latencies on both sides of the first, a
middle and the last finite bound; batches of 1, 7 and 18, so that the rank of
28 hundredths of 25 requests, a target float64 rounds up, falls on the end of a
bucket, as does that of 50 hundredths of two; three batches fill up to three
buckets with empty ones between. `InfBucket` is 100000, as TLC's integers would
overflow with the code's 999999999; the properties need only that it exceeds
25000.

**Fairness** (only in `FairSpec` of Metering).  Weak fairness of the worker: a
goroutine that can run is scheduled, and an XADD ends within `xaddTimeout` or
the timeouts of go-redis.  Weak fairness of `StatsQueue` and
`StatsXadd`: the ticker ticks.  Weak fairness of main: `srv.Shutdown` returns
at the latest when its ten-second context ends.  Nothing is assumed of clients,
signals, or handlers, which may hang for ever.

## Disagreements with the repository's comments

Each of these runs checks one sentence of the repository, and TLC shows a
behaviour of the code that contradicts it.

- `metering_shutdown`: "a graceful shutdown doesn't lose the last few events"
  (`gateway/metering.go:147`).  `main` does not wait for the worker.
- `keyauth_blip`: "a Redis blip can't lock customers out"
  (`gateway/keylookup.go:93`).  A GET that stalls, rather than fails, uses up
  the deadline it shares with the RPC.
- `orgratelimit_static`: the free tier's cap is "10k/mo"
  (`gateway/staticauth.go:24`), but the month is the one of the boot.
- `check_order`: "we want sk-/ghp- patterns redacted before the PII pass
  starts" (`config/rules.go:15`).  Passes follow the request's categories, and
  the default puts `pii` first.
- `check_unknown`: an empty `degraded` "means every requested category ran
  successfully" (`gateway/main.go:44`).  Unknown names are skipped.

Without a run: the table of `gateway/README.md:129` gives status 413 for a body
over 64 KB; `handleCheck` answers every failed read with 400 (`BodyFails` in
Gateway, `DecodeFails` in CheckVerdict).  And `gateway/orgratelimit.go:28`
speaks of half a second as a "cap so a stalled Redis can't pin a request
handler": with the client's defaults a read that has begun goes on for up to
three seconds (`RedisTimeout` in Gateway).

## Proofs

All hold for every value of the constants that satisfies the named assumptions.

**MeteringProofs** (any finite set of requests, any capacity, any subset of the
four Redis outcomes): `TypeCorrect`, `NothingMissing` (`AccountedFor`),
`NothingTwice` (`SentAtMostOnce`), `AlertsAreExact` (`AlertsExact`),
`LedgerImplemented` (`KeepsLedger`, the refinement of UsageLedger).
`AccountedFor` is not inductive: that a publish turns the event in hand into
exactly one new drop needs that the event was not among the failed before, and
that a receive removes the event from the channel needs that it is there once.
Both are what `SentAtMostOnce` says, and `SentAtMostOnce` in turn needs
`AccountedFor` for `Emit`: a request that has not been metered yet is in no
place.  Their conjunction `Ledger`, with `TypeOK`, is inductive.
`AlertsExact` is inductive with `TypeOK`, as the counters only grow.  The
refinement uses the same invariant: `Emit` records because its event is in no
place yet (`AccountedFor`), a receive is invisible, and a publish settles
because the event in hand is not in the channel as well (`SentAtMostOnce`);
every other action leaves the three sets alone.

**IPLimiterProofs** (any addresses and requests; `Burst >= One`; `IdleTTL >=
Burst + 2 * MaxSkew`, that is, a bucket idle for `idleTTL` would be full again:
with the defaults, 600 s against 20 s): `TypeCorrect`, `RateIsBounded`
(`RateBound`), `PatienceIsRewarded` (`PatientClientAdmitted`, an action
property).  `RateBound` says nothing about what a bucket still holds, and so is
not inductive.  `Inv` adds that waiting requests are no older than the skew
(`StampsFresh`), that a sweep's cutoff is `IdleTTL` old (`CutoffOld`), that a
bucket set back by an out-of-order time is in debt by no more than it was set
back (`DebtBounded`), and the balance: what was spent in the window plus what
is left was paid for by burst and time, or by time alone once the bucket has
been evicted (`SpentPaid`).  The assumption on `IdleTTL` is used in one place,
the sweep.

**KeyAuthProofs** (any keys, slots, requests, size of the LRU, times to live and
timeouts, with and without faults of the cloud): `TypeCorrect`, `OwnRowOnly`
(`NoCrossTenant`), `RevocationBounded` (`RevocationTakesEffect`),
`RefusalsJustified` (`RefusalJustified`, an action property), `GateImplemented`
(`KeepsGate`, the refinement of KeyGate).  None of them is
inductive: a request that is let through takes its row from the LRU or from
Redis, so `Inv` says of every copy on the way whose it is and how old it can
be.  An LRU entry is the key's own row and expires within the lag after its
revocation (`LruSound`); a row in Redis is that of a minted key of its slot -
not necessarily the one asked for - and is gone `RedisTTL` after its revocation
(`RedisSound`); a request about to verify holds a row of its own slot, read
before its deadline (`RequestsSound`).  The four times add up along that path:
Redis, lookup, verification, LRU.  That `argonVerify` accepts a key's own row
only is what turns "of the same slot" into "its own".  `LruSound` also says
that the recency list has no repeats, which `TypeOK`'s bound on the LRU needs.
The refinement goes by what a step shows: moves between two places inside
`auth` show nothing (`MoveUnseen`); a step that lets a request through is an
`Accept` because the state after it satisfies `Inv` (`AcceptSeen`); one that
answers 401 is a `Refuse` by the lemma behind `RefusalsJustified`
(`RefuseSeen`); writes to Redis and evictions are invisible.

**OrgRateLimitProofs** (any organisations, tiers, limits, period length, subset
of the Redis outcomes, with and without restarts): `TypeCorrect`, `CapKept`
(`CapHolds`), `RefusalsEarned` (`RefusalEarned`), `ExpiryGiven`
(`ExpiryUnlessFault`), `ExpiryStable` (`ExpirySetOnce`, an action property).
The cap holds because a counter that can still be used is never reset:
`ExpiryLate` says that it expires only after the last moment a request can
carry an `Entry` of its period (`Horizon`), which is where the assumption on
`CounterTTL` is used, and `InFlight` that requests are not older than that.  On
that ground `Capped` relates admissions to the counter, with the admission that
the creator of the counter, between INCR and EXPIRE, still owes (`Owed`);
`Creators` says there is one such request at most, and that its counter has no
expiry yet, which also gives `ExpirySetOnce`.  `Counted` bounds the counter by
the INCRs of the organisation in that period and the next.  `CapHolds` and
`RefusalEarned` are about dynamic mode: in static mode the period never
changes, see `orgratelimit_static`.

**CheckVerdictProofs** (any finite set of places, any overlaps, nesting,
uncovering and, subject to `PhonesAssumption`, un-matching between them,
category lists of any length): `TypeCorrect`, `NothingOverlooked`
(`NoMatchOverlooked`), `RedactionIsComplete` (`RedactionComplete`),
`VerdictWorst` (`VerdictIsWorst`), `FailOpenVisible` (`FailOpenIsVisible`),
`EventMatches` (`EventMatchesResponse`). `Inv` carries each of them through the
loops: a place of the original text is still there, or reported, or overlapped
by one that is, or is a number a neighbour may undo, and of such a number the
`phone_intl` place is still there until the number or a part of it is reported
(`Covered`, with the lemma `BackLost`; at the end that place cannot be left, as
the category has been scanned); what was replaced does not return (`Replaced`);
a place still there is not one the finished categories, or the finished rules
of the current one, look for (`Scanned`); the classifier's turns so far are
answers or degraded (`Accounted`); the verdict and the lists so far are those
of the findings so far (`Weighed`, `Listed`).

**GatewayProofs** (any keys, entries, rows, number of attempts, timeouts with
`(LookupTimeout + RedisTimeout) + (OpTimeout + RedisTimeout) < RequestTimeout`,
and any finite number of concurrent requests): `TypeCorrect`, `LoudAtBoot`
(`NothingMissingInSilence`), `OperatorLetIn` (`OperatorNotLockedOut`),
`EventsMatch` (`EventsMatchGates`), `BilledCounted` (`BilledWasCounted`),
`TimeLeft` (`GatesLeaveTime`).  For the start, `Parsed` says
that the table holds what has been parsed so far, and `Connected` what is
connected at each point.  For a request, `Placed` says what each stage has
established (above all that an entry is the one of the key presented, `Owned`),
`Timed` how old it can be there, `Hung` that a context that ends before the
body is read belongs to a request without a body, `Emitted` which event it has.
`GatesLeaveTime` is the sum of `Timed`'s bounds: the lookup's call and then the
counter's, each with what Redis may add.  `BilledWasCounted` rests on the last
three: by `Timed` a request at the counter is too young for its context to have
timed out, so an INCR that fails for want
of a context is one whose client hung up; by `Hung` that request has no body
and never gets a verdict, so it is not billed.  `Counted` bounds, per
organisation, the requests the counter let through by the counter, and those of
a capped tier by the cap.

**LatencyProofs** (any latencies, batch sizes, targets - also outside 0 to 100
- any of them rounded up, and infinity bound above 25000): `TypeCorrect`,
`RightBucket` (`InRightBucket`), `Ordered` (`PercentilesOrdered`),
`SlowerIsNotFaster` (`SlowerHardlyLowers`, an action property). The invariant
(`Inv`) links the histogram to the history (`Linked`): the requests no slower
than a latency are among those of the buckets up to the latency's own, and the
requests of the buckets up to one are exactly those no slower than some latency
that belongs in them, the slowest recorded there. The rest is about the
operators, for any rows. What a loop over the buckets computes is shown by
induction in the form of `LeastNatural` and `Upwards`: the buckets of which a
statement is true are a set that contains 0 and, with each bucket, the next. So
the running sum exists (`SumsExist`), grows with the buckets and with the
counts (`CumMonotone`, `CumAdds`), and reaches each rank in some row
(`SomeRowHit`); a result stays within its row (`WithinRow`); two targets that
end in one row, or in two, are in order (`SameRow`, `EarlierRow`): within a
row, a result that truncation may lower was strictly above that of the lower
target (`PartsApart`). A rank that is rounded up stays within the total
(`ExcessFits`). For `SlowerHardlyLowers`, `SlowerRows` and `LastRowGrows` show
that a rank that stays in the last row moves up within it: with c requests
before the row, d in it, n new ones and t hundredths, (t(c+d) - 100c) / d <=
(t(c+d+n) - 100c) / (d+n) whenever t <= 100; truncation takes off one
millisecond at most. The products and the division are in lemmas of their own
(`PartOfWidth`, `PartsOrdered`).

All invariants were checked with TLC on the runs' instances before they were
proved.

**Only model-checked**: liveness (`ShutdownCompletes`, `QueueDrains`,
`DropsSurface`), which the prover's temporal backend cannot do under fairness.
Every invariant, action property and refinement of a passing run is proved.

## What is not modelled

- The inference service (a stateless wrapper around a model) and the HTTP
  client in front of it: `detectInjection` is its outcomes.
- The regular expressions, beyond what CheckVerdict says of how their matches
  affect each other, and the offsets of findings.  Offsets refer to the
  text as redacted so far, not to the request's; no property is about them.
- Floating point in `allow`; tokens are exact units here.
- Argon2id (a key matches its own row only), SHA-256 of LRU keys (injective).
- The consumers and the approximate trimming of the Redis stream.
- `handleCheck` without an `Entry` in its context, which the route excludes.
- `envFloat`: any positive number is accepted, and NaN and infinity too.
  IPLimiter's assumptions exclude the settings under which the limiter does not
  work (a burst below one request, a rate too low for the idle time).
- Panics, which `Recoverer` turns into a 500, and the request log.
- Histograms of 2^28 requests and more, where float64 could round a percentile
  otherwise than Latency allows; the tables of rollups belong to the cloud.
- The tier accessors other than `LimitForTier`, which the gateway does not call.
- Analytics types have no behaviour.

## Plan

Done, in this order: Metering and shutdown with proofs; KeyAuth; OrgRateLimit;
CheckVerdict; IPLimiter with proofs; UsageLedger and its refinement, proved;
Boot and Gateway; Latency; proofs about KeyAuth, OrgRateLimit, CheckVerdict,
Boot and Gateway; proofs about Latency; KeyGate and its refinement, proved.

Left, in order of importance:

1. Gateway reduces each layer to what its own module shows of it.  Those
   reductions are argued in comments; stating them as refinements (Gateway's
   `lookup` stage against KeyGate, its counter against OrgRateLimit) would check
   them.
2. Action properties of Gateway: the verdict, the entry and the event of an
   answered request are final.
