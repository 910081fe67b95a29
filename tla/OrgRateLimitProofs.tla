------------------------- MODULE OrgRateLimitProofs -------------------------
(***************************************************************************)
(* Proofs about OrgRateLimit, for any sets of organisations, requests and  *)
(* tiers, any limits and period length, any subset of the Redis outcomes,  *)
(* with and without restarts.                                              *)
(***************************************************************************)
EXTENDS OrgRateLimit, TLAPS

-----------------------------------------------------------------------------
(* The inductive invariant: TypeOK, two of the checked properties and the   *)
(* five parts below.                                                        *)

(* When the period of a counter begins, and when no request can carry an    *)
(* Entry of that period any more.                                           *)
Start(c) == c[2] * PeriodLength

Horizon(c) == Start(c) + PeriodLength + EntryLag

(* A request in CheckAndIncrement arrived a moment ago, while its Entry was *)
(* usable.                                                                  *)
InFlight ==
    \A r \in Requests :
        pc[r] # "idle" =>
            /\ entry[r] \in Entries
            /\ now <= since[r] + 1
            /\ ~Static => Start(KeyOf(r)) <= since[r] /\ since[r] < Horizon(KeyOf(r))

(* A request that is about to set the expiry of its counter created it, the *)
(* counter is still there without an expiry, and no other request is about  *)
(* to do the same.                                                          *)
Creators ==
    \A r \in Requests :
        pc[r] = "expire" =>
            /\ seen[r] = 1
            /\ count[KeyOf(r)] > 0
            /\ expires[KeyOf(r)] = NoTTL
            /\ \A q \in Requests : pc[q] = "expire" /\ KeyOf(q) = KeyOf(r) => q = r

(* A counter lives until its period is out of use.                          *)
ExpiryLate ==
    ~Static => \A c \in RateKeys : expires[c] # NoTTL => expires[c] > Horizon(c)

(* A counter shows no more than the INCRs executed for its organisation in  *)
(* its own and the next period.                                             *)
Counted == ~Static => \A c \in RateKeys : count[c] <= Used(c[1], c[2])

(* Admissions yet to come from the request that created the counter.        *)
Owed(c) ==
    IF \E r \in Requests : pc[r] = "expire" /\ KeyOf(r) = c /\ Limits[entry[r].tier] > 0
    THEN 1 ELSE 0

(* Admissions, with the one that is owed, are within what the counter shows *)
(* as long as it can be used, and within the limit of some tier for ever.   *)
Capped ==
    ~Static => \A c \in RateKeys :
        /\ now <= Horizon(c) => admitted[c] + Owed(c) <= count[c]
        /\ admitted[c] + Owed(c) > 0 => \E t \in Tiers : admitted[c] + Owed(c) <= Limits[t]

Inv == /\ TypeOK /\ InFlight /\ Creators /\ ExpiryLate /\ Counted /\ Capped
       /\ RefusalEarned /\ ExpiryUnlessFault

-----------------------------------------------------------------------------

(* The assumptions on the constants, in the form the steps use.             *)
LEMMA Constants ==
    /\ PeriodLength \in Nat /\ PeriodLength >= 1
    /\ EntryLag \in Nat /\ EntryLag < PeriodLength
    /\ CounterTTL \in Nat /\ CounterTTL > PeriodLength + EntryLag
    /\ MaxTime \in Nat /\ MaxArrivals \in Nat
    /\ \A t \in Tiers : Limits[t] \in Nat
  BY PeriodAssumption, TiersAssumption, BoundsAssumption

(* Division, as Period uses it.                                             *)
LEMMA PeriodOf ==
    ASSUME NEW t \in Nat
    PROVE  /\ Period(t) \in Nat
           /\ Period(t) * PeriodLength <= t
           /\ t < Period(t) * PeriodLength + PeriodLength
<1>1. PeriodLength \in Nat /\ PeriodLength >= 1
  BY Constants
<1> QED
  BY <1>1 DEF Period

LEMMA Multiples ==
    ASSUME NEW a \in Nat, NEW b \in Nat, a <= b
    PROVE  a * PeriodLength <= b * PeriodLength /\ a * PeriodLength \in Nat
<1>1. PeriodLength \in Nat /\ PeriodLength >= 1
  BY Constants
<1> QED
  BY <1>1

(* A time in the period p or less than a whole period after it lies in p or *)
(* in p + 1.                                                                *)
LEMMA PeriodBetween ==
    ASSUME NEW p \in Nat, NEW t \in Nat,
           p * PeriodLength <= t, t < p * PeriodLength + 2 * PeriodLength
    PROVE  Period(t) = p \/ Period(t) = p + 1
<1>1. PeriodLength \in Nat /\ PeriodLength >= 1
  BY Constants
<1>2. /\ Period(t) \in Nat /\ Period(t) * PeriodLength <= t
      /\ t < Period(t) * PeriodLength + PeriodLength
  BY PeriodOf
<1>3. ASSUME Period(t) + 1 <= p PROVE FALSE
  <2>1. (Period(t) + 1) * PeriodLength <= p * PeriodLength
    BY <1>2, <1>3, Multiples
  <2>2. (Period(t) + 1) * PeriodLength = Period(t) * PeriodLength + PeriodLength
    BY <1>1, <1>2
  <2> QED
    BY <1>1, <1>2, <2>1, <2>2
<1>4. ASSUME p + 2 <= Period(t) PROVE FALSE
  <2>1. (p + 2) * PeriodLength <= Period(t) * PeriodLength
    BY <1>2, <1>4, Multiples
  <2>2. (p + 2) * PeriodLength = p * PeriodLength + 2 * PeriodLength
    BY <1>1
  <2> QED
    BY <1>1, <1>2, <2>1, <2>2
<1> QED
  BY <1>2, <1>3, <1>4

(* Periods do not go back.                                                  *)
LEMMA PeriodMonotonic ==
    ASSUME NEW s \in Nat, NEW t \in Nat, s <= t
    PROVE  Period(s) <= Period(t)
<1>1. PeriodLength \in Nat /\ PeriodLength >= 1
  BY Constants
<1>2. /\ Period(s) \in Nat /\ Period(s) * PeriodLength <= s
      /\ Period(t) \in Nat /\ t < Period(t) * PeriodLength + PeriodLength
  BY PeriodOf
<1>3. ASSUME Period(t) + 1 <= Period(s) PROVE FALSE
  <2>1. (Period(t) + 1) * PeriodLength <= Period(s) * PeriodLength
    BY <1>2, <1>3, Multiples
  <2>2. (Period(t) + 1) * PeriodLength = Period(t) * PeriodLength + PeriodLength
    BY <1>1, <1>2
  <2> QED
    BY <1>1, <1>2, <2>1, <2>2
<1> QED
  BY <1>2, <1>3

(* The start and the horizon of a counter are times.                        *)
LEMMA Times ==
    ASSUME NEW c \in RateKeys
    PROVE  Start(c) \in Nat /\ Horizon(c) = Start(c) + PeriodLength + EntryLag /\ Horizon(c) \in Nat
<1>1. PeriodLength \in Nat /\ EntryLag \in Nat /\ c[2] \in Nat
  BY Constants, PeriodOf DEF RateKeys, Periods
<1> QED
  BY <1>1, Multiples DEF Start, Horizon

(* The current period has a counter.                                        *)
LEMMA CurrentPeriod == ASSUME TypeOK PROVE Period(now) \in Periods
<1>1. now \in Nat /\ now <= MaxTime /\ MaxTime \in Nat
  BY Constants DEF TypeOK
<1> QED
  BY <1>1, PeriodOf, PeriodMonotonic DEF Periods

(* What is known of a request in CheckAndIncrement.                         *)
LEMMA RequestFacts ==
    ASSUME Inv, NEW r \in Requests, pc[r] # "idle"
    PROVE  /\ entry[r] \in Entries
           /\ entry[r].org \in Orgs /\ entry[r].tier \in Tiers /\ entry[r].period \in Periods
           /\ KeyOf(r) = <<entry[r].org, entry[r].period>>
           /\ KeyOf(r) \in RateKeys
           /\ Limits[entry[r].tier] \in Nat
<1>1. entry[r] \in Entries
  BY DEF Inv, InFlight
<1>2. entry[r].org \in Orgs /\ entry[r].tier \in Tiers /\ entry[r].period \in Periods
  BY <1>1 DEF Entries
<1> QED
  BY <1>1, <1>2, Constants DEF KeyOf, RateKey, RateKeys

(* What is owed is one admission or none.                                   *)
LEMMA OwedType == \A c \in RateKeys : Owed(c) \in {0, 1}
  BY DEF Owed

(* Nothing more or less is owed when no request starts or ends to wait for  *)
(* its EXPIRE.                                                              *)
LEMMA OwedSame ==
    ASSUME \A q \in Requests : pc'[q] = "expire" <=> pc[q] = "expire",
           \A q \in Requests : pc[q] = "expire" => entry'[q] = entry[q],
           NEW c
    PROVE  Owed(c)' = Owed(c)
<1>1. \A q \in Requests : pc[q] = "expire" => KeyOf(q)' = KeyOf(q)
  BY DEF KeyOf
<1> QED
  BY <1>1 DEF Owed

(* INCRs are never taken back.                                              *)
LEMMA UsedGrows ==
    ASSUME TypeOK, incrs' \in [RateKeys -> Nat],
           \A c \in RateKeys : incrs[c] <= incrs'[c],
           NEW o \in Orgs, NEW p \in Periods
    PROVE  Used(o, p) <= Used(o, p)' /\ Used(o, p) \in Nat /\ Used(o, p)' \in Nat
<1>1. <<o, p>> \in RateKeys /\ (p + 1 \in Periods => <<o, p + 1>> \in RateKeys)
  BY DEF RateKeys
<1>2. incrs \in [RateKeys -> Nat]
  BY DEF TypeOK
<1> QED
  BY <1>1, <1>2 DEF Used

(* A counter that can still be used: a request is about to use it.          *)
LEMMA Usable ==
    ASSUME Inv, NEW r \in Requests, pc[r] # "idle", ~Static
    PROVE  now <= Horizon(KeyOf(r)) /\ Start(KeyOf(r)) <= now
<1>1. /\ now \in Nat /\ since[r] \in Nat /\ since[r] <= now
      /\ now <= since[r] + 1 /\ since[r] < Horizon(KeyOf(r)) /\ Start(KeyOf(r)) <= since[r]
  BY Constants DEF Inv, TypeOK, InFlight
<1>2. Horizon(KeyOf(r)) \in Nat /\ Start(KeyOf(r)) \in Nat
  BY RequestFacts, Times
<1> QED
  BY <1>1, <1>2

-----------------------------------------------------------------------------
(* The initial state.                                                       *)

LEMMA InitInv == ASSUME Init PROVE Inv
<1> USE DEF Init
<1>1. TypeOK
  BY Constants DEF TypeOK
<1>2. InFlight /\ Creators
  BY DEF InFlight, Creators
<1>3. ExpiryLate
  BY DEF ExpiryLate
<1>4. Counted
  <2>1. ASSUME NEW c \in RateKeys PROVE Used(c[1], c[2]) >= 0
    <3>1. c[1] \in Orgs /\ c[2] \in Periods /\ c = <<c[1], c[2]>>
      BY DEF RateKeys
    <3>2. c[2] + 1 \in Periods => <<c[1], c[2] + 1>> \in RateKeys
      BY <3>1 DEF RateKeys
    <3> QED
      BY <3>1, <3>2 DEF Used
  <2> QED
    BY <2>1 DEF Counted
<1>5. Capped
  <2>1. \A c \in RateKeys : Owed(c) = 0
    BY DEF Owed
  <2> QED
    BY <2>1 DEF Capped
<1>6. RefusalEarned /\ ExpiryUnlessFault
  BY DEF RefusalEarned, ExpiryUnlessFault
<1> QED
  BY <1>1, <1>2, <1>3, <1>4, <1>5, <1>6 DEF Inv

-----------------------------------------------------------------------------
(* Arrive and Leave change neither Redis nor the histories.                 *)

LEMMA RequestOnly ==
    ASSUME Inv, NEW r \in Requests, UNCHANGED <<now, redisVars, histVars>>,
           pc[r] # "expire", pc'[r] \in {"idle", "incr"},
           pc' \in [Requests -> {"idle", "incr", "expire", "allowed", "refused"}],
           entry' \in [Requests -> Entries \cup {NoEntry}],
           seen' \in [Requests -> Nat],
           since' \in [Requests -> 0..now],
           arrivals' \in 0..MaxArrivals,
           \A q \in Requests \ {r} : /\ pc'[q] = pc[q] /\ entry'[q] = entry[q]
                                     /\ seen'[q] = seen[q] /\ since'[q] = since[q],
           pc'[r] = "incr" =>
              /\ entry'[r] \in Entries
              /\ now <= since'[r] + 1
              /\ ~Static => /\ Start(KeyOf(r)') <= since'[r]
                            /\ since'[r] < Horizon(KeyOf(r)')
    PROVE  Inv'
<1>1. UNCHANGED <<now, count, expires, incrs, admitted, faulty>>
  BY DEF redisVars, histVars
<1>2. \A q \in Requests \ {r} : KeyOf(q)' = KeyOf(q)
  BY DEF KeyOf
<1>3. \A q \in Requests : pc'[q] = "expire" <=> pc[q] = "expire"
  OBVIOUS
<1>4. TypeOK'
  BY <1>1 DEF Inv, TypeOK
<1>5. InFlight'
  <2> SUFFICES ASSUME NEW q \in Requests, pc'[q] # "idle"
               PROVE  /\ entry'[q] \in Entries
                      /\ now <= since'[q] + 1
                      /\ ~Static => Start(KeyOf(q)') <= since'[q] /\ since'[q] < Horizon(KeyOf(q)')
    BY <1>1 DEF InFlight, Start, Horizon
  <2>1. CASE q = r
    BY <2>1
  <2>2. CASE q # r
    BY <2>2, <1>1, <1>2 DEF Inv, InFlight
  <2> QED
    BY <2>1, <2>2
<1>6. Creators'
  BY <1>1, <1>2, <1>3 DEF Inv, Creators
<1>7. ExpiryLate'
  BY <1>1 DEF Inv, ExpiryLate, Start, Horizon
<1>8. Counted' /\ RefusalEarned'
  <2>1. \A o, p : Used(o, p)' = Used(o, p)
    BY <1>1 DEF Used
  <2> QED
    BY <1>1, <2>1 DEF Inv, Counted, RefusalEarned
<1>9. Capped'
  <2>1. \A c \in RateKeys : Owed(c)' = Owed(c)
    BY <1>3, OwedSame
  <2> QED
    BY <1>1, <2>1 DEF Inv, Capped, Start, Horizon
<1>10. ExpiryUnlessFault'
  BY <1>1, <1>2, <1>3 DEF Inv, ExpiryUnlessFault
<1> QED
  BY <1>4, <1>5, <1>6, <1>7, <1>8, <1>9, <1>10 DEF Inv

LEMMA ArriveInv ==
    ASSUME Inv, NEW r \in Requests, NEW e \in Entries, Arrive(r, e)
    PROVE  Inv'
<1>1. /\ pc'[r] = "incr" /\ entry'[r] = e /\ since'[r] = now /\ UNCHANGED seen
      /\ pc' \in [Requests -> {"idle", "incr", "expire", "allowed", "refused"}]
      /\ entry' \in [Requests -> Entries \cup {NoEntry}]
      /\ since' \in [Requests -> 0..now]
      /\ \A q \in Requests \ {r} : /\ pc'[q] = pc[q] /\ entry'[q] = entry[q]
                                   /\ since'[q] = since[q]
  BY DEF Arrive, Inv, TypeOK
<1>2. arrivals' \in 0..MaxArrivals /\ now \in Nat /\ seen \in [Requests -> Nat]
  BY Constants DEF Arrive, Inv, TypeOK
<1>3. ASSUME ~Static PROVE Start(KeyOf(r)') <= now /\ now < Horizon(KeyOf(r)')
  <2>1. PICK s \in 0..now : e.period = Period(s) /\ now - s <= EntryLag
    BY <1>3 DEF Arrive, EntryPeriods
  <2>2. s \in Nat /\ PeriodLength \in Nat /\ EntryLag \in Nat
    BY <1>2, Constants
  <2>3. /\ Period(s) \in Nat /\ Period(s) * PeriodLength <= s
        /\ s < Period(s) * PeriodLength + PeriodLength
    BY <2>2, PeriodOf
  <2>4. Period(s) * PeriodLength \in Nat
    BY <2>3, Multiples
  <2>5. Start(KeyOf(r)') = Period(s) * PeriodLength
    BY <1>1, <2>1 DEF Start, KeyOf, RateKey
  <2> QED
    BY <1>2, <2>1, <2>2, <2>3, <2>4, <2>5 DEF Horizon
<1> QED
  BY <1>1, <1>2, <1>3, RequestOnly DEF Arrive

LEMMA LeaveInv == ASSUME Inv, NEW r \in Requests, Leave(r) PROVE Inv'
<1>1. /\ pc'[r] = "idle" /\ UNCHANGED arrivals
      /\ pc' \in [Requests -> {"idle", "incr", "expire", "allowed", "refused"}]
      /\ entry' \in [Requests -> Entries \cup {NoEntry}]
      /\ seen' \in [Requests -> Nat]
      /\ since' \in [Requests -> 0..now]
      /\ \A q \in Requests \ {r} : /\ pc'[q] = pc[q] /\ entry'[q] = entry[q]
                                   /\ seen'[q] = seen[q] /\ since'[q] = since[q]
  BY Constants DEF Leave, Inv, TypeOK
<1>2. arrivals \in 0..MaxArrivals
  BY DEF Inv, TypeOK
<1> QED
  BY <1>1, <1>2, RequestOnly DEF Leave
-----------------------------------------------------------------------------
(* Tick and Crash.                                                          *)

(* Redis deletes only counters that no request can use any more.            *)
LEMMA TickInv == ASSUME Inv, Tick PROVE Inv'
<1>1. /\ now \in Nat /\ now' = now + 1 /\ now' \in 0..MaxTime
      /\ UNCHANGED <<pc, entry, seen, since, arrivals, incrs, admitted, faulty>>
  BY Constants DEF Tick, Inv, TypeOK, reqVars, histVars
<1>2. /\ count' = [c \in RateKeys |-> IF Gone(c, now + 1) THEN 0 ELSE count[c]]
      /\ expires' = [c \in RateKeys |-> IF Gone(c, now + 1) THEN NoTTL ELSE expires[c]]
  BY DEF Tick
<1>3. /\ count \in [RateKeys -> Nat] /\ expires \in [RateKeys -> Nat \cup {NoTTL}]
      /\ \A c \in RateKeys : count[c] = 0 => expires[c] = NoTTL
      /\ admitted \in [RateKeys -> Nat] /\ incrs \in [RateKeys -> Nat]
      /\ since \in [Requests -> 0..now]
  BY DEF Inv, TypeOK
<1>4. \A q \in Requests : KeyOf(q)' = KeyOf(q)
  BY <1>1 DEF KeyOf
<1>5. TypeOK'
  <2>1. /\ count' \in [RateKeys -> Nat] /\ expires' \in [RateKeys -> Nat \cup {NoTTL}]
        /\ \A c \in RateKeys : count'[c] = 0 => expires'[c] = NoTTL
    BY <1>2, <1>3
  <2>2. since' \in [Requests -> 0..now']
    BY <1>1, <1>3
  <2> QED
    BY <1>1, <2>1, <2>2 DEF Inv, TypeOK
<1>6. InFlight'
  <2>1. \A q \in Requests : pc[q] # "idle" => since[q] = now
    BY DEF Tick
  <2> QED
    BY <1>1, <1>4, <2>1 DEF Inv, InFlight, Start, Horizon
<1>7. Creators'
  <2>1. ASSUME NEW q \in Requests, pc[q] = "expire"
        PROVE  count'[KeyOf(q)] > 0 /\ expires'[KeyOf(q)] = NoTTL
    <3>1. KeyOf(q) \in RateKeys
      BY <2>1, RequestFacts
    <3>2. count[KeyOf(q)] > 0 /\ expires[KeyOf(q)] = NoTTL
      BY <2>1 DEF Inv, Creators
    <3> QED
      BY <1>2, <3>1, <3>2 DEF Gone
  <2> QED
    BY <1>1, <1>4, <2>1 DEF Inv, Creators
<1>8. ExpiryLate'
  BY <1>2 DEF Inv, ExpiryLate, Start, Horizon
<1>9. \A o, p : Used(o, p)' = Used(o, p)
  BY <1>1 DEF Used
<1>10. Counted'
  <2> SUFFICES ASSUME ~Static, NEW c \in RateKeys PROVE count'[c] <= Used(c[1], c[2])
    BY <1>9 DEF Counted
  <2>1. count[c] <= Used(c[1], c[2]) /\ count[c] \in Nat
    BY <1>3 DEF Inv, Counted
  <2>2. Used(c[1], c[2]) \in Nat
    <3>1. c[1] \in Orgs /\ c[2] \in Periods
      BY DEF RateKeys
    <3>2. c[2] + 1 \in Periods => <<c[1], c[2] + 1>> \in RateKeys
      BY <3>1 DEF RateKeys
    <3> QED
      BY <1>3, <3>1, <3>2 DEF Used, RateKeys
  <2> QED
    BY <1>2, <2>1, <2>2
<1>11. Capped'
  <2> SUFFICES ASSUME ~Static, NEW c \in RateKeys
               PROVE  /\ now' <= Horizon(c) => admitted[c] + Owed(c) <= count'[c]
                      /\ admitted[c] + Owed(c) > 0 =>
                            \E t \in Tiers : admitted[c] + Owed(c) <= Limits[t]
    <3>1. \A c \in RateKeys : Owed(c)' = Owed(c)
      BY <1>1, OwedSame
    <3> QED
      BY <1>1, <3>1 DEF Capped, Start, Horizon
  <2>1. /\ now <= Horizon(c) => admitted[c] + Owed(c) <= count[c]
        /\ admitted[c] + Owed(c) > 0 =>
              \E t \in Tiers : admitted[c] + Owed(c) <= Limits[t]
    BY DEF Inv, Capped
  <2>2. ASSUME now' <= Horizon(c) PROVE now <= Horizon(c) /\ count'[c] = count[c]
    <3>1. Horizon(c) \in Nat
      BY Times
    <3>2. expires[c] # NoTTL => expires[c] > Horizon(c)
      BY DEF Inv, ExpiryLate
    <3>3. expires[c] \in Nat \cup {NoTTL}
      BY <1>3
    <3>4. ~Gone(c, now + 1)
      BY <1>1, <2>2, <3>1, <3>2, <3>3 DEF Gone, NoTTL
    <3> QED
      BY <1>1, <1>2, <2>2, <3>1, <3>4
  <2> QED
    BY <2>1, <2>2
<1>12. RefusalEarned'
  BY <1>1, <1>9 DEF Inv, RefusalEarned
<1>13. ExpiryUnlessFault'
  <2> SUFFICES ASSUME NEW c \in RateKeys, count'[c] > 0, expires'[c] = NoTTL
               PROVE  \/ c \in faulty
                      \/ \E r \in Requests : pc[r] = "expire" /\ KeyOf(r) = c
    BY <1>1, <1>4 DEF ExpiryUnlessFault
  <2>1. count'[c] = count[c] /\ expires'[c] = expires[c]
    BY <1>2
  <2> QED
    BY <2>1 DEF Inv, ExpiryUnlessFault
<1> QED
  BY <1>5, <1>6, <1>7, <1>8, <1>10, <1>11, <1>12, <1>13 DEF Inv

(* A restart forgets the requests; what their counters lack is a fault.     *)
LEMMA CrashInv == ASSUME Inv, Crash PROVE Inv'
<1>1. /\ pc' = [r \in Requests |-> "idle"] /\ entry' = [r \in Requests |-> NoEntry]
      /\ seen' = [r \in Requests |-> 0] /\ since' = [r \in Requests |-> 0]
      /\ UNCHANGED <<now, count, expires, arrivals, incrs, admitted>>
  BY DEF Crash, redisVars
<1>2. faulty' = faulty \cup {KeyOf(r) : r \in {q \in Requests : pc[q] = "expire"}}
  BY DEF Crash
<1>3. TypeOK'
  <2>1. faulty' \subseteq RateKeys
    <3>1. faulty \subseteq RateKeys
      BY DEF Inv, TypeOK
    <3> QED
      BY <1>2, <3>1, RequestFacts
  <2>2. since' \in [Requests -> 0..now]
    BY <1>1, Constants DEF Inv, TypeOK
  <2> QED
    BY <1>1, <2>1, <2>2 DEF Inv, TypeOK
<1>4. InFlight' /\ Creators' /\ RefusalEarned'
  BY <1>1 DEF InFlight, Creators, RefusalEarned
<1>5. ExpiryLate'
  BY <1>1 DEF Inv, ExpiryLate, Start, Horizon
<1>6. Counted'
  <2>1. \A o, p : Used(o, p)' = Used(o, p)
    BY <1>1 DEF Used
  <2> QED
    BY <1>1, <2>1 DEF Inv, Counted
<1>7. Capped'
  <2> SUFFICES ASSUME ~Static, NEW c \in RateKeys
               PROVE  /\ now <= Horizon(c) => admitted[c] <= count[c]
                      /\ admitted[c] > 0 => \E t \in Tiers : admitted[c] <= Limits[t]
    <3>1. \A c \in RateKeys : Owed(c)' = 0
      BY <1>1 DEF Owed
    <3>2. \A c \in RateKeys : admitted[c] + 0 = admitted[c]
      BY DEF Inv, TypeOK
    <3> QED
      BY <1>1, <3>1, <3>2 DEF Capped, Start, Horizon
  <2>1. /\ now <= Horizon(c) => admitted[c] + Owed(c) <= count[c]
        /\ admitted[c] + Owed(c) > 0 =>
              \E t \in Tiers : admitted[c] + Owed(c) <= Limits[t]
    BY DEF Inv, Capped
  <2>2. Owed(c) \in {0, 1} /\ admitted[c] \in Nat /\ count[c] \in Nat
    BY OwedType DEF Inv, TypeOK
  <2> QED
    BY <2>1, <2>2, Constants
<1>8. ExpiryUnlessFault'
  <2> SUFFICES ASSUME NEW c \in RateKeys, count[c] > 0, expires[c] = NoTTL
               PROVE  c \in faulty'
    BY <1>1 DEF ExpiryUnlessFault
  <2>1. \/ c \in faulty
        \/ \E r \in Requests : pc[r] = "expire" /\ KeyOf(r) = c
    BY DEF Inv, ExpiryUnlessFault
  <2> QED
    BY <1>2, <2>1
<1> QED
  BY <1>3, <1>4, <1>5, <1>6, <1>7, <1>8 DEF Inv

-----------------------------------------------------------------------------
(* CheckAndIncrement.                                                       *)

(* What the outcomes execute.                                               *)
LEMMA ExecutionsOf ==
    ASSUME NEW o \in RedisOutcomes
    PROVE  /\ Executions(o) \in {0, 1, 2}
           /\ ~Failed(o) => Executions(o) >= 1
           /\ o = "ok" => Executions(o) = 1 /\ ~Failed(o)
           /\ Executions(o) = 0 => o = "lost"
<1>1. o \in {"ok", "lost", "unacked", "twice"}
  BY OutcomesAssumption DEF Outcomes
<1>2. CASE o = "ok"
  BY <1>2 DEF Executions, Failed
<1>3. CASE o = "lost"
  BY <1>3 DEF Executions, Failed
<1>4. CASE o = "unacked"
  BY <1>4 DEF Executions, Failed
<1>5. CASE o = "twice"
  BY <1>5 DEF Executions, Failed
<1> QED
  BY <1>1, <1>2, <1>3, <1>4, <1>5

(* What an INCR does to the request and to the admissions of its counter.   *)
LEMMA IncrOutcome ==
    ASSUME Inv, NEW r \in Requests, NEW o \in RedisOutcomes, Incr(r, o)
    PROVE  LET c == KeyOf(r)
               n == count[c] + Executions(o)
               l == Limits[entry[r].tier]
           IN
           /\ pc' \in [Requests -> {"idle", "incr", "expire", "allowed", "refused"}]
           /\ pc'[r] \in {"expire", "allowed", "refused"}
           /\ seen' \in [Requests -> Nat]
           /\ \A q \in Requests \ {r} : pc'[q] = pc[q] /\ seen'[q] = seen[q]
           /\ pc'[r] = "expire" => seen'[r] = 1 /\ n = 1 /\ count[c] = 0 /\ admitted' = admitted
           /\ pc'[r] = "refused" => n > l
           /\ o = "ok" /\ count[c] = 0 => pc'[r] = "expire"
           /\ \/ admitted' = admitted
              \/ /\ admitted' = [admitted EXCEPT ![c] = @ + 1]
                 /\ n <= l /\ Executions(o) >= 1
<1> DEFINE c == KeyOf(r)
           n == count[c] + Executions(o)
           l == Limits[entry[r].tier]
<1>1. /\ c \in RateKeys /\ c = <<entry[r].org, entry[r].period>> /\ l \in Nat
  BY RequestFacts DEF Incr
<1>2. /\ Executions(o) \in {0, 1, 2}
      /\ ~Failed(o) => Executions(o) >= 1
      /\ o = "ok" => Executions(o) = 1 /\ ~Failed(o)
  BY ExecutionsOf
<1>3. /\ count[c] \in Nat /\ n \in Nat /\ seen \in [Requests -> Nat]
      /\ pc \in [Requests -> {"idle", "incr", "expire", "allowed", "refused"}]
      /\ admitted \in [RateKeys -> Nat]
  BY <1>1, <1>2 DEF Inv, TypeOK
<1>4. CASE Failed(o) /\ pc' = [pc EXCEPT ![r] = OnRedisError] /\ UNCHANGED <<seen, admitted>>
  BY <1>2, <1>3, <1>4 DEF OnRedisError
<1>5. CASE /\ ~Failed(o) /\ Creates(n)
           /\ pc' = [pc EXCEPT ![r] = "expire"]
           /\ seen' = [seen EXCEPT ![r] = n] /\ UNCHANGED admitted
  <2>1. n = 1 /\ count[c] = 0
    BY <1>2, <1>3, <1>5 DEF Creates
  <2> QED
    BY <1>3, <1>5, <2>1
<1>6. CASE ~Failed(o) /\ ~Creates(n) /\ seen' = [seen EXCEPT ![r] = n] /\ Decide(r, n)
  <2>1. /\ seen' \in [Requests -> Nat] /\ \A q \in Requests \ {r} : seen'[q] = seen[q]
        /\ Executions(o) >= 1
        /\ ~(o = "ok" /\ count[c] = 0)
    BY <1>2, <1>3, <1>6 DEF Creates
  <2>2. CASE /\ OverLimit(entry[r].tier, n)
             /\ pc' = [pc EXCEPT ![r] = "refused"] /\ UNCHANGED admitted
    BY <1>1, <1>3, <2>1, <2>2 DEF OverLimit
  <2>3. CASE /\ ~OverLimit(entry[r].tier, n)
             /\ pc' = [pc EXCEPT ![r] = "allowed"]
             /\ admitted' = [admitted EXCEPT ![<<entry[r].org, entry[r].period>>] =
                                IF l > 0 THEN @ + 1 ELSE @]
    <3>1. CASE l > 0
      <4>1. admitted' = [admitted EXCEPT ![c] = @ + 1]
        BY <1>1, <2>3, <3>1
      <4>2. n <= l
        BY <1>1, <1>3, <2>3, <3>1 DEF OverLimit
      <4> QED
        BY <1>3, <2>1, <2>3, <4>1, <4>2
    <3>2. CASE ~(l > 0)
      <4>1. admitted' = admitted
        BY <1>1, <1>3, <2>3, <3>2
      <4> QED
        BY <1>3, <2>1, <2>3, <4>1
    <3> QED
      BY <3>1, <3>2
  <2> QED
    BY <1>6, <2>2, <2>3 DEF Decide
<1> QED
  BY <1>4, <1>5, <1>6 DEF Incr

(* The counter shows the INCR, and so does the organisation's usage: the    *)
(* current period is the Entry's or the one after it.                       *)
LEMMA IncrUsage ==
    ASSUME Inv, NEW r \in Requests, NEW o \in RedisOutcomes, Incr(r, o),
           NEW g, NEW p, g = entry[r].org, p = entry[r].period
    PROVE  /\ incrs' \in [RateKeys -> Nat]
           /\ \A c \in RateKeys : incrs[c] <= incrs'[c]
           /\ ~Static => Used(g, p)' = Used(g, p) + Executions(o)
<1> DEFINE k == Executions(o)
<1>1. g \in Orgs /\ p \in Periods /\ KeyOf(r) = <<g, p>> /\ KeyOf(r) \in RateKeys
  BY RequestFacts DEF Incr
<1>2. Period(now) \in Periods /\ <<g, Period(now)>> \in RateKeys
  BY <1>1, CurrentPeriod DEF Inv, RateKeys
<1>3. k \in {0, 1, 2}
  BY ExecutionsOf
<1>4. incrs \in [RateKeys -> Nat] /\ incrs' = [incrs EXCEPT ![<<g, Period(now)>>] = @ + k]
  BY DEF Incr, Inv, TypeOK
<1>5. incrs' \in [RateKeys -> Nat] /\ \A c \in RateKeys : incrs[c] <= incrs'[c]
  BY <1>2, <1>3, <1>4
<1>6. ASSUME ~Static PROVE Used(g, p)' = Used(g, p) + k
  <2>1. /\ p \in Nat /\ PeriodLength \in Nat /\ EntryLag \in Nat /\ EntryLag < PeriodLength
        /\ now \in Nat
    BY <1>1, Constants, PeriodOf DEF Periods, Inv, TypeOK
  <2>2. now <= Horizon(KeyOf(r)) /\ Start(KeyOf(r)) <= now
    BY <1>6, Usable DEF Incr
  <2>3. Start(KeyOf(r)) = p * PeriodLength /\ p * PeriodLength \in Nat
    BY <1>1, <2>1, Multiples DEF Start
  <2>4. p * PeriodLength <= now /\ now < p * PeriodLength + 2 * PeriodLength
    BY <2>1, <2>2, <2>3 DEF Horizon
  <2>5. Period(now) = p \/ Period(now) = p + 1
    BY <2>1, <2>4, PeriodBetween
  <2>6. <<g, p>> \in RateKeys /\ (p + 1 \in Periods => <<g, p + 1>> \in RateKeys)
    BY <1>1 DEF RateKeys
  <2>7. <<g, p>> # <<g, p + 1>>
    BY <2>1
  <2>8. CASE Period(now) = p
    BY <1>3, <1>4, <2>6, <2>7, <2>8 DEF Used
  <2>9. CASE Period(now) = p + 1
    BY <1>2, <1>3, <1>4, <2>6, <2>7, <2>9 DEF Used
  <2> QED
    BY <2>5, <2>8, <2>9
<1> QED
  BY <1>5, <1>6

LEMMA IncrInv ==
    ASSUME Inv, NEW r \in Requests, NEW o \in RedisOutcomes, Incr(r, o)
    PROVE  Inv'
<1> DEFINE c == KeyOf(r)
           k == Executions(o)
           n == count[c] + k
           l == Limits[entry[r].tier]
<1>1. /\ c \in RateKeys /\ c = <<entry[r].org, entry[r].period>> /\ l \in Nat
      /\ entry[r].org \in Orgs /\ entry[r].period \in Periods /\ entry[r].tier \in Tiers
      /\ pc[r] = "incr"
  BY RequestFacts DEF Incr
<1> PICK g \in Orgs, p \in Periods : g = entry[r].org /\ p = entry[r].period
  BY <1>1
<1>2. k \in {0, 1, 2} /\ (o = "ok" => k = 1)
  BY ExecutionsOf
<1>3. /\ count \in [RateKeys -> Nat] /\ admitted \in [RateKeys -> Nat]
      /\ \A x \in RateKeys : count[x] = 0 => expires[x] = NoTTL
      /\ now \in Nat /\ faulty \subseteq RateKeys /\ n \in Nat
  BY <1>1, <1>2, Constants DEF Inv, TypeOK
<1>4. /\ count' = [count EXCEPT ![c] = n]
      /\ faulty' = IF o = "ok" THEN faulty ELSE faulty \cup {c}
      /\ UNCHANGED <<now, expires, entry, since, arrivals>>
  BY DEF Incr
<1>5. /\ pc' \in [Requests -> {"idle", "incr", "expire", "allowed", "refused"}]
      /\ pc'[r] \in {"expire", "allowed", "refused"}
      /\ seen' \in [Requests -> Nat]
      /\ \A q \in Requests \ {r} : pc'[q] = pc[q] /\ seen'[q] = seen[q]
  BY IncrOutcome
<1>6. pc'[r] = "expire" => seen'[r] = 1 /\ n = 1 /\ count[c] = 0 /\ admitted' = admitted
  BY IncrOutcome
<1>7. \/ admitted' = admitted
      \/ admitted' = [admitted EXCEPT ![c] = @ + 1] /\ n <= l /\ k >= 1
  BY IncrOutcome
<1>8. \A q \in Requests : KeyOf(q)' = KeyOf(q)
  BY <1>4 DEF KeyOf
<1>9. /\ incrs' \in [RateKeys -> Nat] /\ \A x \in RateKeys : incrs[x] <= incrs'[x]
      /\ ~Static => Used(g, p)' = Used(g, p) + k
  BY IncrUsage
<1>10. count' \in [RateKeys -> Nat] /\ \A x \in RateKeys : count[x] <= count'[x]
  BY <1>1, <1>2, <1>3, <1>4
<1>11. TypeOK'
  <2>1. admitted' \in [RateKeys -> Nat] /\ faulty' \subseteq RateKeys
    BY <1>1, <1>3, <1>4, <1>7
  <2>2. \A x \in RateKeys : count'[x] = 0 => expires[x] = NoTTL
    BY <1>3, <1>10
  <2> QED
    BY <1>4, <1>5, <1>9, <1>10, <2>1, <2>2 DEF Inv, TypeOK
<1>12. InFlight'
  BY <1>1, <1>4, <1>5, <1>8 DEF Inv, InFlight, Start, Horizon
<1>13. Creators'
  <2> SUFFICES ASSUME NEW q \in Requests, pc'[q] = "expire"
               PROVE  /\ seen'[q] = 1 /\ count'[KeyOf(q)] > 0 /\ expires[KeyOf(q)] = NoTTL
                      /\ \A s \in Requests : pc'[s] = "expire" /\ KeyOf(s) = KeyOf(q) => s = q
    BY <1>4, <1>8 DEF Creators
  <2>1. \A s \in Requests \ {r} : pc'[s] = "expire" =>
             /\ seen'[s] = 1 /\ KeyOf(s) \in RateKeys
             /\ count[KeyOf(s)] > 0 /\ expires[KeyOf(s)] = NoTTL
             /\ \A t \in Requests : pc[t] = "expire" /\ KeyOf(t) = KeyOf(s) => t = s
    BY <1>5, RequestFacts DEF Inv, Creators
  <2>2. CASE q = r
    BY <1>1, <1>3, <1>4, <1>6, <2>1, <2>2
  <2>3. CASE q # r
    <3>1. count'[KeyOf(q)] > 0
      BY <1>3, <1>10, <2>1, <2>3
    <3> QED
      BY <1>3, <1>5, <1>6, <2>1, <2>3, <3>1
  <2> QED
    BY <2>2, <2>3
<1>14. ExpiryLate'
  BY <1>4 DEF Inv, ExpiryLate, Start, Horizon
<1>15. \A h \in Orgs, m \in Periods :
          Used(h, m) <= Used(h, m)' /\ Used(h, m) \in Nat /\ Used(h, m)' \in Nat
  BY <1>9, UsedGrows DEF Inv
<1>16. Counted'
  <2> SUFFICES ASSUME ~Static, NEW x \in RateKeys PROVE count'[x] <= Used(x[1], x[2])'
    BY DEF Counted
  <2>1. count[x] <= Used(x[1], x[2])
    BY DEF Inv, Counted
  <2>2. x[1] \in Orgs /\ x[2] \in Periods
    BY DEF RateKeys
  <2>3. CASE x = c
    <3>1. x[1] = g /\ x[2] = p
      BY <1>1, <2>3
    <3> QED
      BY <1>1, <1>2, <1>3, <1>4, <1>9, <1>15, <2>1, <2>3, <3>1
  <2>4. CASE x # c
    BY <1>1, <1>3, <1>4, <1>15, <2>1, <2>2, <2>4
  <2> QED
    BY <2>3, <2>4
<1>17. RefusalEarned'
  <2> SUFFICES ASSUME ~Static, NEW q \in Requests, pc'[q] = "refused"
               PROVE  Used(entry[q].org, entry[q].period)' > Limits[entry[q].tier]
    BY <1>4 DEF RefusalEarned
  <2> PICK h \in Orgs, m \in Periods : h = entry[q].org /\ m = entry[q].period
    BY <1>1, <1>5, RequestFacts
  <2>0. SUFFICES Used(h, m)' > Limits[entry[q].tier]
    BY <1>4
  <2>1. CASE q = r
    <3>1. n > l
      BY <2>1, IncrOutcome
    <3>2. count'[<<h, m>>] <= Used(h, m)'
      BY <1>16 DEF Counted, RateKeys
    <3> QED
      BY <1>1, <1>3, <1>4, <1>15, <2>1, <3>1, <3>2
  <2>2. CASE q # r
    <3>1. pc[q] = "refused"
      BY <1>5, <2>2
    <3>2. Used(h, m) > Limits[entry[q].tier] /\ Limits[entry[q].tier] \in Nat
      BY <3>1, RequestFacts DEF Inv, RefusalEarned
    <3> QED
      BY <1>15, <3>2
  <2> QED
    BY <2>1, <2>2
<1>18. Capped'
  <2> SUFFICES ASSUME ~Static, NEW x \in RateKeys
               PROVE  /\ now <= Horizon(x) => admitted'[x] + Owed(x)' <= count'[x]
                      /\ admitted'[x] + Owed(x)' > 0 =>
                            \E t \in Tiers : admitted'[x] + Owed(x)' <= Limits[t]
    BY <1>4 DEF Capped, Start, Horizon
  <2>1. /\ now <= Horizon(x) => admitted[x] + Owed(x) <= count[x]
        /\ admitted[x] + Owed(x) > 0 =>
              \E t \in Tiers : admitted[x] + Owed(x) <= Limits[t]
    BY DEF Inv, Capped
  <2>2. Owed(x) \in {0, 1} /\ admitted[x] \in Nat /\ count[x] \in Nat
    BY <1>3, OwedType
  <2>3. CASE x # c
    <3>1. Owed(x)' = Owed(x)
      BY <1>1, <1>4, <1>5, <1>8, <2>3 DEF Owed
    <3>2. admitted'[x] = admitted[x] /\ count'[x] = count[x]
      BY <1>1, <1>3, <1>4, <1>7, <2>3
    <3> QED
      BY <2>1, <3>1, <3>2
  <2>4. CASE x = c
    <3>1. admitted[x] + Owed(x) <= count[x] /\ count'[x] = n
      BY <1>1, <1>3, <1>4, <2>1, <2>4, Usable
    <3>2. CASE pc'[r] = "expire"
      <4>1. admitted'[x] = 0 /\ count'[x] = 1
        BY <1>6, <2>2, <2>4, <3>1, <3>2
      <4>2. CASE \E q \in Requests :
                    pc'[q] = "expire" /\ KeyOf(q) = x /\ Limits[entry[q].tier] > 0
        <5>1. PICK q \in Requests :
                 pc'[q] = "expire" /\ KeyOf(q) = x /\ Limits[entry[q].tier] > 0
          BY <4>2
        <5>2. Owed(x)' = 1
          BY <1>4, <1>8, <4>2 DEF Owed
        <5>3. entry[q].tier \in Tiers
          BY <1>1, <1>5, <5>1, RequestFacts
        <5> QED
          BY <4>1, <5>1, <5>2, <5>3, Constants
      <4>3. CASE ~\E q \in Requests :
                     pc'[q] = "expire" /\ KeyOf(q) = x /\ Limits[entry[q].tier] > 0
        <5>1. Owed(x)' = 0
          BY <1>4, <1>8, <4>3 DEF Owed
        <5> QED
          BY <4>1, <5>1
      <4> QED
        BY <4>2, <4>3
    <3>3. CASE pc'[r] # "expire"
      <4>1. Owed(x)' = Owed(x)
        BY <1>1, <1>4, <1>5, <3>3, OwedSame
      <4>2. CASE admitted' = admitted
        BY <1>2, <1>3, <2>1, <2>2, <2>4, <3>1, <4>1, <4>2
      <4>3. CASE admitted' = [admitted EXCEPT ![c] = @ + 1] /\ n <= l /\ k >= 1
        <5>1. admitted'[x] = admitted[x] + 1
          BY <1>1, <1>3, <2>4, <4>3
        <5>2. admitted'[x] + Owed(x)' <= n
          BY <1>1, <1>2, <1>3, <2>2, <2>4, <3>1, <4>1, <4>3, <5>1
        <5> QED
          BY <1>1, <1>3, <2>2, <3>1, <4>1, <4>3, <5>1, <5>2
      <4> QED
        BY <1>7, <4>2, <4>3
    <3> QED
      BY <3>2, <3>3
  <2> QED
    BY <2>3, <2>4
<1>19. ExpiryUnlessFault'
  <2> SUFFICES ASSUME NEW x \in RateKeys, count'[x] > 0, expires[x] = NoTTL, x \notin faulty'
               PROVE  \E q \in Requests : pc'[q] = "expire" /\ KeyOf(q) = x
    BY <1>4, <1>8 DEF ExpiryUnlessFault
  <2>1. x \notin faulty
    BY <1>4
  <2>2. CASE x = c /\ count[c] = 0
    <3>1. o = "ok"
      BY <1>4, <2>2
    <3> QED
      BY <2>2, <3>1, IncrOutcome
  <2>3. CASE ~(x = c /\ count[c] = 0)
    <3>1. count[x] > 0
      BY <1>1, <1>3, <1>4, <2>3
    <3>2. PICK q \in Requests : pc[q] = "expire" /\ KeyOf(q) = x
      BY <2>1, <3>1 DEF Inv, ExpiryUnlessFault
    <3> QED
      BY <1>1, <1>5, <3>2
  <2> QED
    BY <2>2, <2>3
<1> QED
  BY <1>11, <1>12, <1>13, <1>14, <1>16, <1>17, <1>18, <1>19 DEF Inv

(* The request that created the counter gives it its expiry and is let      *)
(* through: its INCR returned 1, which no limit refuses.                    *)
LEMMA ExpireInv ==
    ASSUME Inv, NEW r \in Requests, NEW o \in RedisOutcomes, Expire(r, o)
    PROVE  Inv'
<1> DEFINE c == KeyOf(r)
           l == Limits[entry[r].tier]
<1>1. /\ c \in RateKeys /\ c = <<entry[r].org, entry[r].period>> /\ l \in Nat
      /\ entry[r].tier \in Tiers /\ pc[r] = "expire"
  BY RequestFacts DEF Expire
<1>2. /\ seen[r] = 1 /\ count[c] > 0 /\ expires[c] = NoTTL
      /\ \A q \in Requests \ {r} : pc[q] = "expire" => KeyOf(q) # c
  BY <1>1 DEF Inv, Creators
<1>3. /\ count \in [RateKeys -> Nat] /\ admitted \in [RateKeys -> Nat]
      /\ expires \in [RateKeys -> Nat \cup {NoTTL}]
      /\ now \in Nat /\ faulty \subseteq RateKeys
      /\ pc \in [Requests -> {"idle", "incr", "expire", "allowed", "refused"}]
  BY Constants DEF Inv, TypeOK
<1>4. /\ expires' = [expires EXCEPT ![c] =
                        IF Executions(o) > 0 /\ count[c] > 0 THEN now + TTL ELSE @]
      /\ faulty' = IF o = "lost" THEN faulty \cup {c} ELSE faulty
      /\ UNCHANGED <<now, count, entry, seen, since, arrivals, incrs>>
  BY DEF Expire
<1>5. /\ pc' = [pc EXCEPT ![r] = "allowed"]
      /\ admitted' = [admitted EXCEPT ![c] = IF l > 0 THEN @ + 1 ELSE @]
  <2>1. ~OverLimit(entry[r].tier, seen[r])
    BY <1>1, <1>2 DEF OverLimit
  <2> QED
    BY <1>1, <2>1 DEF Expire, Decide
<1>6. Executions(o) \in {0, 1, 2} /\ (Executions(o) = 0 => o = "lost")
  BY ExecutionsOf
<1>7. now + TTL \in Nat /\ (~Static => now + TTL > Horizon(c))
  <2>1. /\ PeriodLength \in Nat /\ EntryLag \in Nat /\ CounterTTL \in Nat
        /\ CounterTTL > PeriodLength + EntryLag
    BY Constants
  <2>2. Start(c) \in Nat /\ Horizon(c) = Start(c) + PeriodLength + EntryLag
    BY <1>1, Times
  <2>3. ~Static => Start(c) <= now
    BY <1>1, Usable
  <2> QED
    BY <1>3, <2>1, <2>2, <2>3 DEF TTL
<1>8. /\ \A x \in RateKeys \ {c} : expires'[x] = expires[x] /\ admitted'[x] = admitted[x]
      /\ expires'[c] = NoTTL \/ expires'[c] = now + TTL
      /\ expires'[c] = NoTTL => c \in faulty'
      /\ expires' \in [RateKeys -> Nat \cup {NoTTL}]
  BY <1>1, <1>2, <1>3, <1>4, <1>5, <1>6, <1>7 DEF NoTTL
<1>9. \A q \in Requests : KeyOf(q)' = KeyOf(q)
  BY <1>4 DEF KeyOf
<1>10. TypeOK'
  <2>1. /\ admitted' \in [RateKeys -> Nat] /\ faulty' \subseteq RateKeys
        /\ pc' \in [Requests -> {"idle", "incr", "expire", "allowed", "refused"}]
    BY <1>1, <1>3, <1>4, <1>5
  <2>2. \A x \in RateKeys : count'[x] = 0 => expires'[x] = NoTTL
    BY <1>2, <1>4, <1>8 DEF Inv, TypeOK
  <2> QED
    BY <1>4, <1>8, <2>1, <2>2 DEF Inv, TypeOK
<1>11. InFlight'
  BY <1>1, <1>3, <1>4, <1>5, <1>9 DEF Inv, InFlight, Start, Horizon
<1>12. Creators'
  <2>1. \A q \in Requests : pc'[q] = "expire" => q # r /\ pc[q] = "expire"
    BY <1>3, <1>5
  <2>2. \A q \in Requests : pc'[q] = "expire" => expires'[KeyOf(q)] = expires[KeyOf(q)]
    BY <1>2, <1>8, <2>1, RequestFacts
  <2> QED
    BY <1>4, <1>9, <2>1, <2>2 DEF Inv, Creators
<1>13. ExpiryLate'
  <2> SUFFICES ASSUME ~Static, NEW x \in RateKeys, expires'[x] # NoTTL
               PROVE  expires'[x] > Horizon(x)
    BY DEF ExpiryLate, Start, Horizon
  <2>1. CASE x = c
    BY <1>7, <1>8, <2>1
  <2>2. CASE x # c
    BY <1>8, <2>2 DEF Inv, ExpiryLate
  <2> QED
    BY <2>1, <2>2
<1>14. Counted' /\ RefusalEarned'
  <2>1. \A g, p : Used(g, p)' = Used(g, p)
    BY <1>4 DEF Used
  <2>2. \A q \in Requests : pc'[q] = "refused" => pc[q] = "refused"
    BY <1>3, <1>5
  <2> QED
    BY <1>4, <2>1, <2>2 DEF Inv, Counted, RefusalEarned
<1>15. Capped'
  <2>1. ASSUME NEW x \in RateKeys PROVE admitted'[x] + Owed(x)' = admitted[x] + Owed(x)
    <3>1. CASE x # c
      <4>1. Owed(x)' = Owed(x)
        BY <1>1, <1>3, <1>4, <1>5, <1>9, <3>1 DEF Owed
      <4> QED
        BY <1>8, <3>1, <4>1
    <3>2. CASE x = c
      <4>1. Owed(x)' = 0
        BY <1>2, <1>3, <1>5, <1>9, <3>2 DEF Owed
      <4>2. CASE l > 0
        <5>1. Owed(x) = 1
          BY <1>1, <3>2, <4>2 DEF Owed
        <5> QED
          BY <1>1, <1>3, <1>5, <3>2, <4>1, <4>2, <5>1
      <4>3. CASE ~(l > 0)
        <5>1. Owed(x) = 0
          BY <1>1, <1>2, <3>2, <4>3 DEF Owed
        <5> QED
          BY <1>1, <1>3, <1>5, <3>2, <4>1, <4>3, <5>1
      <4> QED
        BY <4>2, <4>3
    <3> QED
      BY <3>1, <3>2
  <2> QED
    BY <1>4, <2>1 DEF Inv, Capped, Start, Horizon
<1>16. ExpiryUnlessFault'
  <2> SUFFICES ASSUME NEW x \in RateKeys, count[x] > 0, expires'[x] = NoTTL, x \notin faulty'
               PROVE  \E q \in Requests : pc'[q] = "expire" /\ KeyOf(q) = x
    BY <1>4, <1>9 DEF ExpiryUnlessFault
  <2>1. x # c /\ expires[x] = NoTTL /\ x \notin faulty
    BY <1>4, <1>8
  <2>2. PICK q \in Requests : pc[q] = "expire" /\ KeyOf(q) = x
    BY <2>1 DEF Inv, ExpiryUnlessFault
  <2> QED
    BY <1>3, <1>5, <2>1, <2>2
<1> QED
  BY <1>10, <1>11, <1>12, <1>13, <1>14, <1>15, <1>16 DEF Inv

-----------------------------------------------------------------------------

LEMMA StutterInv == ASSUME Inv, UNCHANGED vars PROVE Inv'
<1> USE DEF vars, redisVars, reqVars, histVars
<1>1. TypeOK'
  BY DEF Inv, TypeOK
<1>2. \A q \in Requests : KeyOf(q)' = KeyOf(q)
  BY DEF KeyOf
<1>3. InFlight' /\ Creators'
  BY <1>2 DEF Inv, InFlight, Creators, Start, Horizon
<1>4. ExpiryLate'
  BY DEF Inv, ExpiryLate, Start, Horizon
<1>5. Counted' /\ RefusalEarned'
  <2>1. \A g, p : Used(g, p)' = Used(g, p)
    BY DEF Used
  <2> QED
    BY <2>1 DEF Inv, Counted, RefusalEarned
<1>6. Capped'
  <2>1. \A x \in RateKeys : Owed(x)' = Owed(x)
    BY OwedSame
  <2> QED
    BY <2>1 DEF Inv, Capped, Start, Horizon
<1>7. ExpiryUnlessFault'
  BY <1>2 DEF Inv, ExpiryUnlessFault
<1> QED
  BY <1>1, <1>3, <1>4, <1>5, <1>6, <1>7 DEF Inv

LEMMA NextInv == ASSUME Inv, [Next]_vars PROVE Inv'
<1>1. CASE UNCHANGED vars
  BY <1>1, StutterInv
<1>2. CASE \E r \in Requests, e \in Entries : Arrive(r, e)
  BY <1>2, ArriveInv
<1>3. ASSUME NEW r \in Requests, CheckAndIncrement(r) PROVE Inv'
  BY <1>3, IncrInv, ExpireInv DEF CheckAndIncrement
<1>4. ASSUME NEW r \in Requests, Leave(r) PROVE Inv'
  BY <1>4, LeaveInv
<1>5. CASE Crash
  BY <1>5, CrashInv
<1>6. CASE Tick
  BY <1>6, TickInv
<1> QED
  BY <1>1, <1>2, <1>3, <1>4, <1>5, <1>6 DEF Next

(* The inductive invariant holds in every reachable state.                  *)
THEOREM Invariance == Spec => []Inv
<1>1. Init => Inv
  BY InitInv
<1>2. Inv /\ [Next]_vars => Inv'
  BY NextInv
<1> QED
  BY <1>1, <1>2, PTL DEF Spec

-----------------------------------------------------------------------------
(* The checked properties.                                                  *)

(* The state of the middleware and of its counters in Redis is well formed, *)
(* and a key that does not exist has no expiry.                             *)
THEOREM TypeCorrect == Spec => []TypeOK
<1>1. Inv => TypeOK
  BY DEF Inv
<1> QED
  BY <1>1, Invariance, PTL

(* CheckAndIncrement lets no more requests of limited tiers through, for    *)
(* one organisation and billing period, than some tier's limit allows,      *)
(* whatever the interleaving of INCR and EXPIRE, their failures and the     *)
(* restarts (requests that failed open are not counted).                    *)
THEOREM CapKept == Spec => []CapHolds
<1>1. Inv => CapHolds
  <2> SUFFICES ASSUME Inv, ~Static, NEW c \in RateKeys, admitted[c] > 0
               PROVE  \E t \in Tiers : admitted[c] <= Limits[t]
    BY DEF CapHolds
  <2>1. Owed(c) \in {0, 1} /\ admitted[c] \in Nat
    BY OwedType DEF Inv, TypeOK
  <2>2. PICK t \in Tiers : admitted[c] + Owed(c) <= Limits[t]
    BY <2>1 DEF Inv, Capped
  <2> QED
    BY <2>1, <2>2, Constants
<1> QED
  BY <1>1, Invariance, PTL

(* The middleware answers 429 only to a request whose own organisation had  *)
(* more INCRs than the limit in the Entry's billing period and the next.    *)
THEOREM RefusalsEarned == Spec => []RefusalEarned
<1>1. Inv => RefusalEarned
  BY DEF Inv
<1> QED
  BY <1>1, Invariance, PTL

(* A counter stays without an expiry only after a failed command or a       *)
(* restart between INCR and EXPIRE.                                         *)
THEOREM ExpiryGiven == Spec => []ExpiryUnlessFault
<1>1. Inv => ExpiryUnlessFault
  BY DEF Inv
<1> QED
  BY <1>1, Invariance, PTL

(* No step moves the expiry of a counter that goes on existing: EXPIRE is   *)
(* sent only by the request whose INCR created it.                          *)
THEOREM ExpiryStable == Spec => ExpirySetOnce
<1> DEFINE Kept == \A c \in RateKeys :
                      expires[c] # NoTTL /\ count'[c] > 0 => expires'[c] = expires[c]
<1>1. ASSUME Inv, [Next]_vars PROVE [Kept]_vars
  <2>1. CASE UNCHANGED vars
    BY <2>1
  <2>2. ASSUME UNCHANGED expires PROVE Kept
    BY <2>2
  <2>3. ASSUME NEW r \in Requests, NEW o \in RedisOutcomes, Expire(r, o) PROVE Kept
    <3>1. expires[KeyOf(r)] = NoTTL
      BY <1>1, <2>3 DEF Expire, Inv, Creators
    <3>2. expires \in [RateKeys -> Nat \cup {NoTTL}]
      BY <1>1 DEF Inv, TypeOK
    <3>3. \A c \in RateKeys : c # KeyOf(r) => expires'[c] = expires[c]
      BY <2>3, <3>2 DEF Expire
    <3> QED
      BY <3>1, <3>3
  <2>4. CASE Tick
    <3>1. \A c \in RateKeys : Gone(c, now + 1) => count'[c] = 0
      BY <2>4 DEF Tick
    <3>2. \A c \in RateKeys : ~Gone(c, now + 1) => expires'[c] = expires[c]
      BY <2>4 DEF Tick
    <3> QED
      BY <3>1, <3>2
  <2>5. ASSUME NEW r \in Requests, NEW e \in Entries, Arrive(r, e) PROVE UNCHANGED expires
    BY <2>5 DEF Arrive, redisVars
  <2>6. ASSUME NEW r \in Requests, NEW o \in RedisOutcomes, Incr(r, o) PROVE UNCHANGED expires
    BY <2>6 DEF Incr
  <2>7. ASSUME NEW r \in Requests, Leave(r) PROVE UNCHANGED expires
    BY <2>7 DEF Leave, redisVars
  <2>8. ASSUME Crash PROVE UNCHANGED expires
    BY <2>8 DEF Crash, redisVars
  <2> QED
    BY <1>1, <2>1, <2>2, <2>3, <2>4, <2>5, <2>6, <2>7, <2>8 DEF Next, CheckAndIncrement
<1> QED
  BY <1>1, Invariance, PTL DEF Spec, ExpirySetOnce
=============================================================================
