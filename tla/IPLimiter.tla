------------------------------ MODULE IPLimiter -----------------------------
(***************************************************************************)
(* The per-IP token bucket in front of /v1/check (gateway/ratelimit.go):   *)
(* allow, the rateLimit middleware that calls it, and gcLoop.              *)
(*                                                                         *)
(* Time is measured in ticks and tokens in units, one unit being what a    *)
(* bucket regains in a tick: a request costs One units, which is the       *)
(* number of ticks in 1/rps seconds.                                       *)
(*                                                                         *)
(* The middleware reads the clock before it waits for the mutex, so calls  *)
(* of allow may see their times out of order.                              *)
(***************************************************************************)
EXTENDS Integers, Functions

CONSTANTS
    IPs,        \* client addresses
    Requests,   \* request goroutines inside the middleware
    One,        \* units of a token: ticks in 1/rps
    Burst,      \* burst, in units
    IdleTTL,    \* idleTTL, in ticks
    MaxSkew,    \* longest wait for the mutex, in ticks
    MaxTime     \* bound on the clock

ASSUME AddressAssumption == IPs # {}
ASSUME UnitsAssumption == One \in Nat \ {0} /\ Burst \in Nat /\ Burst >= One
ASSUME ClockAssumption == MaxSkew \in Nat /\ IdleTTL \in Nat /\ MaxTime \in Nat

(* A bucket idle for idleTTL would be full again.                           *)
ASSUME IdleAssumption == IdleTTL >= Burst + 2 * MaxSkew

VARIABLES
    now,      \* the clock
    tokens,   \* l.buckets: the tokens of each bucket
    last,     \* l.buckets: the last time of each bucket
    pc,       \* where each request is in the middleware
    ip,       \* its client address
    stamp,    \* its time.Now()
    cutoff,   \* gcLoop's cutoff while it waits for the mutex, else NoSweep
    peak,     \* the latest time that each bucket has seen
    mark,     \* start of a window of time, for counting
    spent     \* units admitted per address since then

bucketVars == <<tokens, last, peak>>
reqVars    == <<pc, ip, stamp>>
countVars  == <<mark, spent>>
vars == <<now, bucketVars, reqVars, cutoff, countVars>>

NoSweep == -1

Buckets == DOMAIN tokens

Init ==
    /\ now = 0
    /\ tokens = [a \in {} |-> 0]
    /\ last = [a \in {} |-> 0]
    /\ peak = [a \in {} |-> 0]
    /\ pc = [r \in Requests |-> "idle"]
    /\ ip = [r \in Requests |-> CHOOSE a \in IPs : TRUE]
    /\ stamp = [r \in Requests |-> 0]
    /\ cutoff = NoSweep
    /\ mark = 0
    /\ spent = [a \in IPs |-> 0]

-----------------------------------------------------------------------------
(* The middleware.                                                          *)

(* rateLimit reads the clock and calls allow.                               *)
Arrive(r, a) ==
    /\ pc[r] = "idle"
    /\ pc' = [pc EXCEPT ![r] = "waiting"]
    /\ ip' = [ip EXCEPT ![r] = a]
    /\ stamp' = [stamp EXCEPT ![r] = now]
    /\ UNCHANGED <<now, bucketVars, cutoff, countVars>>

Larger(x, y) == IF x > y THEN x ELSE y

(* The bucket of address a now holds n units, at time t.                    *)
Store(a, n, t) ==
    /\ tokens' = [x \in Buckets \cup {a} |-> IF x = a THEN n ELSE tokens[x]]
    /\ last' = [x \in Buckets \cup {a} |-> IF x = a THEN t ELSE last[x]]
    /\ peak' = [x \in Buckets \cup {a} |->
                  IF x = a THEN IF a \in Buckets THEN Larger(peak[a], t) ELSE t ELSE peak[x]]

Admit(r) ==
    /\ pc' = [pc EXCEPT ![r] = "admitted"]
    /\ spent' = [spent EXCEPT ![ip[r]] = @ + One]

Refuse(r) ==
    /\ pc' = [pc EXCEPT ![r] = "refused"]
    /\ UNCHANGED spent

(* Variant of Refill: an idle bucket goes on filling.                       *)
RefillUncapped(a, t) == tokens[a] + (t - last[a])

(* The tokens of a bucket at time t: refilled, up to the burst.  A time     *)
(* before the bucket's last one takes tokens back.                          *)
Refill(a, t) ==
    LET n == tokens[a] + (t - last[a]) IN IF n > Burst THEN Burst ELSE n

(* allow, for an address without a bucket.                                  *)
AllowNew(r) ==
    /\ pc[r] = "waiting"
    /\ ip[r] \notin Buckets
    /\ Store(ip[r], Burst - One, stamp[r])
    /\ Admit(r)
    /\ UNCHANGED <<now, ip, stamp, cutoff, mark>>

(* Variant of Charge: a refused request pays as well.                       *)
ChargeRefused(n) == n - One

(* What a request with n tokens in its bucket leaves there.                 *)
Charge(n) == IF n < One THEN n ELSE n - One

(* allow, for an address with a bucket.                                     *)
Allow(r) ==
    LET n == Refill(ip[r], stamp[r]) IN
    /\ pc[r] = "waiting"
    /\ ip[r] \in Buckets
    /\ Store(ip[r], Charge(n), stamp[r])
    /\ \/ n < One /\ Refuse(r)
       \/ n >= One /\ Admit(r)
    /\ UNCHANGED <<now, ip, stamp, cutoff, mark>>

Leave(r) ==
    /\ pc[r] \in {"admitted", "refused"}
    /\ pc' = [pc EXCEPT ![r] = "idle"]
    /\ stamp' = [stamp EXCEPT ![r] = 0]
    /\ UNCHANGED <<now, bucketVars, ip, cutoff, countVars>>

-----------------------------------------------------------------------------
(* gcLoop: the cutoff is computed before the mutex is taken.                *)

GcTick ==
    /\ cutoff = NoSweep
    /\ now >= IdleTTL
    /\ cutoff' = now - IdleTTL
    /\ UNCHANGED <<now, bucketVars, reqVars, countVars>>

(* Variant of Stale: buckets used since the cutoff go, the others stay.     *)
StaleReversed(a) == last[a] > cutoff

(* A bucket that the sweep evicts.                                          *)
Stale(a) == last[a] < cutoff

GcSweep ==
    LET kept == {a \in Buckets : ~Stale(a)} IN
    /\ cutoff # NoSweep
    /\ tokens' = Restrict(tokens, kept)
    /\ last' = Restrict(last, kept)
    /\ peak' = Restrict(peak, kept)
    /\ cutoff' = NoSweep
    /\ UNCHANGED <<now, reqVars, countVars>>

-----------------------------------------------------------------------------
(* The clock, and the start of a new window.                                *)

Tick ==
    /\ now < MaxTime
    /\ \A r \in Requests : pc[r] = "waiting" => now - stamp[r] < MaxSkew
    /\ now' = now + 1
    /\ UNCHANGED <<bucketVars, reqVars, cutoff, countVars>>

StartWindow ==
    /\ mark < now
    /\ mark' = now
    /\ spent' = [a \in IPs |-> 0]
    /\ UNCHANGED <<now, bucketVars, reqVars, cutoff>>

Next ==
    \/ \E r \in Requests, a \in IPs : Arrive(r, a)
    \/ \E r \in Requests : AllowNew(r) \/ Allow(r) \/ Leave(r)
    \/ GcTick
    \/ GcSweep
    \/ Tick
    \/ StartWindow

Spec == Init /\ [][Next]_vars

-----------------------------------------------------------------------------
(* Properties.                                                              *)

(* Shapes of the state.  No bucket holds more than the burst.               *)
TypeOK ==
    /\ now \in 0..MaxTime
    /\ Buckets \subseteq IPs
    /\ DOMAIN last = Buckets /\ DOMAIN peak = Buckets
    /\ \A a \in Buckets :
          /\ tokens[a] \in Int /\ tokens[a] <= Burst
          /\ last[a] \in 0..now /\ peak[a] \in 0..now
    /\ pc \in [Requests -> {"idle", "waiting", "admitted", "refused"}]
    /\ ip \in [Requests -> IPs]
    /\ stamp \in [Requests -> 0..now]
    /\ cutoff \in {NoSweep} \cup 0..now
    /\ mark \in 0..now
    /\ spent \in [IPs -> Nat]

(* In any window of time an address gets no more through than the burst     *)
(* plus what the rate grants for the window (and for the skew of clock      *)
(* readings at its start): neither times seen out of order nor the eviction *)
(* of its bucket, and the fresh burst that follows, let it have more.       *)
RateBound ==
    \A a \in IPs : spent[a] <= Burst + (now - mark) + MaxSkew

(* A client that has waited for one token since its last request, and for   *)
(* the skew, is not refused, however often it was refused before.           *)
PatientClientAdmitted ==
    [][\A r \in Requests :
         pc[r] = "waiting" /\ pc'[r] = "refused" =>
            stamp[r] - last[ip[r]] < One + MaxSkew]_vars
=============================================================================
