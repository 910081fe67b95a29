-------------------------- MODULE IPLimiterProofs ---------------------------
(***************************************************************************)
(* Proofs about IPLimiter, for any sets of addresses and requests, any     *)
(* rate, burst, skew and idle time that satisfy the module's assumptions.  *)
(***************************************************************************)
EXTENDS IPLimiter, TLAPS

-----------------------------------------------------------------------------
(* The inductive invariant: TypeOK and the four parts below.                *)

(* No request waits for the mutex longer than the skew.                     *)
StampsFresh ==
    \A r \in Requests : pc[r] = "waiting" => now - stamp[r] <= MaxSkew

(* A sweep that waits for the mutex has a cutoff idleTTL in the past.       *)
CutoffOld == cutoff # NoSweep => cutoff <= now - IdleTTL

(* Out-of-order times set a bucket back by the skew at most, and its debt   *)
(* is never more than it was set back.                                      *)
DebtBounded ==
    \A a \in Buckets :
        /\ last[a] <= peak[a]
        /\ peak[a] - last[a] <= MaxSkew
        /\ tokens[a] + (peak[a] - last[a]) >= 0

(* What an address got through in the window and what its bucket still      *)
(* holds were paid for by the burst and the time since the window began;    *)
(* if its bucket was evicted, by that time alone.                           *)
SpentPaid ==
    \A a \in IPs :
        \/ spent[a] = 0
        \/ /\ a \in Buckets
           /\ spent[a] + tokens[a] <= Burst + (last[a] - mark) + MaxSkew
        \/ /\ a \notin Buckets
           /\ spent[a] <= now - mark

Inv == TypeOK /\ StampsFresh /\ CutoffOld /\ DebtBounded /\ SpentPaid
-----------------------------------------------------------------------------

(* The assumptions on the constants, in the form the steps use.             *)
LEMMA Constants ==
    /\ One \in Nat /\ One > 0 /\ Burst \in Nat /\ Burst >= One
    /\ MaxSkew \in Nat /\ IdleTTL \in Nat /\ MaxTime \in Nat
    /\ IdleTTL >= Burst + 2 * MaxSkew
  BY UnitsAssumption, ClockAssumption, IdleAssumption

(* The model starts with no bucket, no request and no sweep.                *)
LEMMA InitInv == ASSUME IPs # {}, Init PROVE Inv
<1> USE DEF Init, Buckets
<1>0. Buckets = {}
  OBVIOUS
<1>1. TypeOK
  <2>1. (CHOOSE a \in IPs : TRUE) \in IPs
    OBVIOUS
  <2> QED
    BY <1>0, <2>1, Constants DEF TypeOK, NoSweep
<1>2. StampsFresh
  BY DEF StampsFresh
<1>3. CutoffOld
  BY DEF CutoffOld
<1>4. DebtBounded
  BY <1>0 DEF DebtBounded
<1>5. SpentPaid
  BY DEF SpentPaid
<1> QED
  BY <1>1, <1>2, <1>3, <1>4, <1>5 DEF Inv

(* The stamp of a request that gets the mutex.                              *)
LEMMA StampType ==
    ASSUME Inv, NEW r \in Requests, pc[r] = "waiting"
    PROVE  /\ stamp[r] \in Int /\ 0 <= stamp[r] /\ stamp[r] <= now
           /\ now - stamp[r] <= MaxSkew
           /\ now \in Nat /\ mark \in Nat /\ mark <= now
           /\ ip[r] \in IPs
           /\ spent[ip[r]] \in Nat
  BY Constants DEF Inv, TypeOK, StampsFresh

(* What Inv says of one bucket.                                             *)
LEMMA BucketType ==
    ASSUME Inv, NEW a \in Buckets
    PROVE  /\ a \in IPs
           /\ tokens[a] \in Int /\ tokens[a] <= Burst
           /\ last[a] \in Int /\ 0 <= last[a] /\ last[a] <= now
           /\ peak[a] \in Int /\ last[a] <= peak[a] /\ peak[a] <= now
           /\ peak[a] - last[a] <= MaxSkew
           /\ tokens[a] + (peak[a] - last[a]) >= 0
           /\ now \in Nat
           /\ spent[a] \in Nat
  BY Constants DEF Inv, TypeOK, DebtBounded

-----------------------------------------------------------------------------
(* Both cases of allow store n units at the request's time.  The conditions *)
(* on n are what the two cases have to establish.                           *)

LEMMA StoreKeeps ==
    ASSUME Inv, NEW r \in Requests, pc[r] = "waiting",
           NEW n \in Int, n <= Burst,
           Store(ip[r], n, stamp[r]),
           pc' \in [Requests -> {"idle", "waiting", "admitted", "refused"}],
           \A q \in Requests : pc'[q] = "waiting" => pc[q] = "waiting",
           spent' \in [IPs -> Nat],
           \A a \in IPs : a # ip[r] => spent'[a] = spent[a],
           UNCHANGED <<now, ip, stamp, cutoff, mark>>,
           ip[r] \in Buckets =>
               n + ((IF peak[ip[r]] > stamp[r] THEN peak[ip[r]] ELSE stamp[r]) - stamp[r]) >= 0,
           ip[r] \notin Buckets => n >= 0,
           \/ spent'[ip[r]] = 0
           \/ spent'[ip[r]] + n <= Burst + (stamp[r] - mark) + MaxSkew
    PROVE  Inv'
<1> DEFINE b == ip[r]
           s == stamp[r]
           p == IF b \in Buckets THEN IF peak[b] > s THEN peak[b] ELSE s ELSE s
<1>1. /\ s \in Int /\ 0 <= s /\ s <= now /\ now - s <= MaxSkew
      /\ now \in Nat /\ mark \in Nat /\ mark <= now /\ b \in IPs
  BY StampType
<1>2. b \in Buckets => peak[b] \in Int /\ peak[b] <= now /\ 0 <= peak[b]
  BY BucketType
<1>3. p \in Int /\ 0 <= p /\ p <= now /\ s <= p /\ p - s <= MaxSkew
  BY <1>1, <1>2, Constants
<1>4. n + (p - s) >= 0
  BY <1>1
<1>5. Buckets' = Buckets \cup {b} /\ DOMAIN last' = Buckets' /\ DOMAIN peak' = Buckets'
  BY DEF Store, Buckets
<1>6. tokens'[b] = n /\ last'[b] = s /\ peak'[b] = p
  BY DEF Store, Larger
<1>7. ASSUME NEW a \in Buckets, a # b
      PROVE  tokens'[a] = tokens[a] /\ last'[a] = last[a] /\ peak'[a] = peak[a]
  BY <1>7 DEF Store
<1>8. TypeOK'
  <2>1. Buckets' \subseteq IPs
    BY <1>1, <1>5 DEF Inv, TypeOK
  <2>2. ASSUME NEW a \in Buckets'
        PROVE  /\ tokens'[a] \in Int /\ tokens'[a] <= Burst
               /\ last'[a] \in 0..now' /\ peak'[a] \in 0..now'
    <3>1. CASE a = b
      BY <3>1, <1>1, <1>3, <1>6
    <3>2. CASE a # b
      <4>1. a \in Buckets
        BY <3>2, <1>5
      <4> QED
        BY <4>1, <3>2, <1>7 DEF Inv, TypeOK
    <3> QED
      BY <3>1, <3>2
  <2> QED
    BY <2>1, <2>2, <1>5 DEF Inv, TypeOK
<1>9. StampsFresh'
  BY DEF Inv, StampsFresh
<1>10. CutoffOld'
  BY DEF Inv, CutoffOld
<1>11. DebtBounded'
  <2>1. SUFFICES ASSUME NEW a \in Buckets'
                 PROVE  /\ last'[a] <= peak'[a]
                        /\ peak'[a] - last'[a] <= MaxSkew
                        /\ tokens'[a] + (peak'[a] - last'[a]) >= 0
    BY DEF DebtBounded
  <2>2. CASE a = b
    BY <2>2, <1>3, <1>4, <1>6
  <2>3. CASE a # b
    <3>1. a \in Buckets
      BY <2>3, <1>5
    <3> QED
      BY <3>1, <2>3, <1>7 DEF Inv, DebtBounded
  <2> QED
    BY <2>2, <2>3
<1>12. SpentPaid'
  <2>1. SUFFICES ASSUME NEW a \in IPs, spent'[a] # 0
                 PROVE  \/ /\ a \in Buckets'
                           /\ spent'[a] + tokens'[a] <= Burst + (last'[a] - mark') + MaxSkew
                        \/ a \notin Buckets' /\ spent'[a] <= now' - mark'
    BY DEF SpentPaid
  <2>2. CASE a = b
    BY <2>1, <2>2, <1>5, <1>6
  <2>3. CASE a # b
    BY <2>1, <2>3, <1>5, <1>7 DEF Inv, SpentPaid
  <2> QED
    BY <2>2, <2>3
<1> QED
  BY <1>8, <1>9, <1>10, <1>11, <1>12 DEF Inv

(* What an admission changes.                                               *)
LEMMA AdmitType ==
    ASSUME Inv, NEW r \in Requests, Admit(r)
    PROVE  /\ pc' \in [Requests -> {"idle", "waiting", "admitted", "refused"}]
           /\ \A q \in Requests : pc'[q] = "waiting" => pc[q] = "waiting"
           /\ pc'[r] = "admitted"
           /\ spent' \in [IPs -> Nat]
           /\ \A a \in IPs : a # ip[r] => spent'[a] = spent[a]
           /\ spent'[ip[r]] = spent[ip[r]] + One
  BY Constants DEF Inv, TypeOK, Admit

(* What a refusal changes.                                                  *)
LEMMA RefuseType ==
    ASSUME Inv, NEW r \in Requests, Refuse(r)
    PROVE  /\ pc' \in [Requests -> {"idle", "waiting", "admitted", "refused"}]
           /\ \A q \in Requests : pc'[q] = "waiting" => pc[q] = "waiting"
           /\ spent' = spent
           /\ spent' \in [IPs -> Nat]
  BY DEF Inv, TypeOK, Refuse

(* The first request of an address starts from a full bucket, which an      *)
(* evicted bucket would have been again.                                    *)
LEMMA AllowNewInv == ASSUME Inv, NEW r \in Requests, AllowNew(r) PROVE Inv'
<1> DEFINE b == ip[r]
           s == stamp[r]
           n == Burst - One
<1>1. /\ s \in Int /\ s <= now /\ now - s <= MaxSkew
      /\ now \in Nat /\ mark \in Nat /\ mark <= now /\ b \in IPs /\ spent[b] \in Nat
  BY StampType DEF AllowNew
<1>2. b \notin Buckets /\ pc[r] = "waiting" /\ Store(b, n, s) /\ Admit(r)
      /\ UNCHANGED <<now, ip, stamp, cutoff, mark>>
  BY DEF AllowNew
<1>3. n \in Int /\ n <= Burst /\ n >= 0
  BY Constants
<1>4. spent[b] <= now - mark
  BY <1>1, <1>2 DEF Inv, SpentPaid
<1>5. spent'[b] = spent[b] + One
  BY <1>2, AdmitType
<1>6. spent'[b] + n <= Burst + (s - mark) + MaxSkew
  BY <1>1, <1>4, <1>5, Constants
<1> HIDE DEF n
<1> QED
  BY <1>2, <1>3, <1>6, AdmitType, StoreKeeps

(* What a refill makes of a bucket.                                         *)
LEMMA RefillType ==
    ASSUME Inv, NEW r \in Requests, pc[r] = "waiting", ip[r] \in Buckets
    PROVE  LET n == Refill(ip[r], stamp[r]) IN
           /\ n \in Int /\ n <= Burst
           /\ n <= tokens[ip[r]] + (stamp[r] - last[ip[r]])
           /\ n < One => n = tokens[ip[r]] + (stamp[r] - last[ip[r]])
  BY StampType, BucketType, Constants DEF Refill

(* Later requests spend what the bucket holds.                              *)
LEMMA AllowInv == ASSUME Inv, NEW r \in Requests, Allow(r) PROVE Inv'
<1> DEFINE b == ip[r]
           s == stamp[r]
           n == Refill(b, s)
           p == IF peak[b] > s THEN peak[b] ELSE s
<1>1. /\ b \in Buckets /\ pc[r] = "waiting" /\ Store(b, Charge(n), s)
      /\ (n < One /\ Refuse(r)) \/ (n >= One /\ Admit(r))
      /\ UNCHANGED <<now, ip, stamp, cutoff, mark>>
  BY DEF Allow
<1>2. /\ s \in Int /\ s <= now /\ now - s <= MaxSkew
      /\ now \in Nat /\ mark \in Nat /\ mark <= now /\ b \in IPs /\ spent[b] \in Nat
  BY <1>1, StampType
<1>3. /\ tokens[b] \in Int /\ last[b] \in Int /\ peak[b] \in Int
      /\ tokens[b] + (peak[b] - last[b]) >= 0
  BY <1>1, BucketType
<1>4. /\ n \in Int /\ n <= Burst
      /\ n <= tokens[b] + (s - last[b])
      /\ n < One => n = tokens[b] + (s - last[b])
  BY <1>1, RefillType
<1>5. spent[b] = 0 \/ spent[b] + tokens[b] <= Burst + (last[b] - mark) + MaxSkew
  BY <1>1, <1>2 DEF Inv, SpentPaid
<1> HIDE DEF n
<1>6. CASE n < One /\ Refuse(r)
  <2>1. Charge(n) = n
    BY <1>6 DEF Charge
  <2>2. spent' = spent
    BY <1>6, RefuseType
  <2>3. n + (p - s) >= 0
    BY <1>2, <1>3, <1>4, <1>6
  <2>4. spent'[b] = 0 \/ spent'[b] + n <= Burst + (s - mark) + MaxSkew
    BY <2>2, <1>2, <1>3, <1>4, <1>5, Constants
  <2> HIDE DEF p
  <2> QED
    BY <1>1, <1>4, <1>6, <2>1, <2>2, <2>3, <2>4, RefuseType, StoreKeeps DEF p
<1>7. CASE n >= One /\ Admit(r)
  <2>1. Charge(n) = n - One /\ n - One \in Int /\ n - One <= Burst /\ n - One >= 0
    BY <1>4, <1>7, Constants DEF Charge
  <2>2. spent'[b] = spent[b] + One
    BY <1>7, AdmitType
  <2>3. (n - One) + (p - s) >= 0
    BY <2>1, <1>2, <1>3, <1>4, Constants
  <2>4. spent'[b] + (n - One) <= Burst + (s - mark) + MaxSkew
    BY <2>2, <1>2, <1>3, <1>4, <1>5, Constants
  <2> DEFINE c == n - One
  <2> HIDE DEF c
  <2>5. /\ Store(b, c, s) /\ c \in Int /\ c <= Burst /\ c + (p - s) >= 0
        /\ spent'[b] + c <= Burst + (s - mark) + MaxSkew
    BY <1>1, <2>1, <2>3, <2>4 DEF c
  <2> QED
    BY <1>1, <1>7, <2>5, AdmitType, StoreKeeps
<1> QED
  BY <1>1, <1>6, <1>7

-----------------------------------------------------------------------------
(* The other actions.                                                       *)

(* A request takes its time as it arrives.                                  *)
LEMMA ArriveInv ==
    ASSUME Inv, NEW r \in Requests, NEW a \in IPs, Arrive(r, a) PROVE Inv'
<1> USE DEF Arrive, bucketVars, countVars, Buckets
<1>1. TypeOK'
  BY DEF Inv, TypeOK
<1>2. StampsFresh'
  BY Constants DEF Inv, TypeOK, StampsFresh
<1>3. CutoffOld' /\ DebtBounded' /\ SpentPaid'
  BY DEF Inv, CutoffOld, DebtBounded, SpentPaid
<1> QED
  BY <1>1, <1>2, <1>3 DEF Inv

(* A request that leaves no longer waits.                                   *)
LEMMA LeaveInv == ASSUME Inv, NEW r \in Requests, Leave(r) PROVE Inv'
<1> USE DEF Leave, bucketVars, countVars, Buckets
<1>1. TypeOK'
  BY DEF Inv, TypeOK
<1>2. StampsFresh'
  BY DEF Inv, TypeOK, StampsFresh
<1>3. CutoffOld' /\ DebtBounded' /\ SpentPaid'
  BY DEF Inv, CutoffOld, DebtBounded, SpentPaid
<1> QED
  BY <1>1, <1>2, <1>3 DEF Inv

(* A sweep's cutoff is idleTTL old when it is computed.                     *)
LEMMA GcTickInv == ASSUME Inv, GcTick PROVE Inv'
<1> USE DEF GcTick, bucketVars, reqVars, countVars, Buckets
<1>1. TypeOK'
  BY Constants DEF Inv, TypeOK
<1>2. CutoffOld'
  BY Constants DEF Inv, TypeOK, CutoffOld
<1>3. StampsFresh' /\ DebtBounded' /\ SpentPaid'
  BY DEF Inv, StampsFresh, DebtBounded, SpentPaid
<1> QED
  BY <1>1, <1>2, <1>3 DEF Inv

(* An evicted bucket has been idle for so long that what its address got    *)
(* through is paid for by time alone.                                       *)
LEMMA GcSweepInv == ASSUME Inv, GcSweep PROVE Inv'
<1> DEFINE kept == {a \in Buckets : ~Stale(a)}
<1>1. /\ cutoff # NoSweep
      /\ tokens' = Restrict(tokens, kept)
      /\ last' = Restrict(last, kept)
      /\ peak' = Restrict(peak, kept)
      /\ cutoff' = NoSweep
      /\ UNCHANGED <<now, reqVars, countVars>>
  BY DEF GcSweep
<1>2. /\ Buckets' = kept /\ DOMAIN last' = kept /\ DOMAIN peak' = kept
      /\ kept \subseteq Buckets
      /\ \A a \in kept : tokens'[a] = tokens[a] /\ last'[a] = last[a] /\ peak'[a] = peak[a]
  BY <1>1 DEF Restrict, Buckets
<1>3. ASSUME NEW a \in Buckets, a \notin kept PROVE last[a] < cutoff
  BY <1>3 DEF Stale
<1> HIDE DEF kept
<1>4. TypeOK'
  <2>1. \A a \in Buckets' : /\ tokens'[a] \in Int /\ tokens'[a] <= Burst
                            /\ last'[a] \in 0..now' /\ peak'[a] \in 0..now'
    BY <1>1, <1>2 DEF Inv, TypeOK
  <2> QED
    BY <1>1, <1>2, <2>1 DEF Inv, TypeOK, reqVars, countVars
<1>5. StampsFresh' /\ CutoffOld'
  BY <1>1 DEF Inv, StampsFresh, CutoffOld, reqVars
<1>6. DebtBounded'
  BY <1>2 DEF Inv, DebtBounded
<1>7. SpentPaid'
  <2>1. SUFFICES ASSUME NEW a \in IPs, spent[a] # 0
                 PROVE  \/ /\ a \in kept
                           /\ spent[a] + tokens'[a] <= Burst + (last'[a] - mark) + MaxSkew
                        \/ a \notin kept /\ spent[a] <= now - mark
    BY <1>1, <1>2 DEF SpentPaid, countVars
  <2>2. CASE a \in kept
    BY <2>1, <2>2, <1>2 DEF Inv, SpentPaid
  <2>3. CASE a \in Buckets /\ a \notin kept
    <3>1. last[a] < cutoff /\ cutoff <= now - IdleTTL /\ cutoff \in Int
      BY <2>3, <1>1, <1>3 DEF Inv, TypeOK, CutoffOld, NoSweep
    <3>2. spent[a] + tokens[a] <= Burst + (last[a] - mark) + MaxSkew
      BY <2>1, <2>3 DEF Inv, SpentPaid
    <3>3. mark \in Int
      BY DEF Inv, TypeOK
    <3> QED
      BY <2>3, <3>1, <3>2, <3>3, BucketType, Constants
  <2>4. CASE a \notin Buckets
    BY <2>1, <2>4, <1>2 DEF Inv, SpentPaid
  <2> QED
    BY <2>2, <2>3, <2>4
<1> QED
  BY <1>4, <1>5, <1>6, <1>7 DEF Inv

(* Time passes only while no waiting request is as old as the skew.         *)
LEMMA TickInv == ASSUME Inv, Tick PROVE Inv'
<1> USE DEF Tick, bucketVars, reqVars, countVars, Buckets
<1>1. now \in Int /\ now' = now + 1 /\ mark \in Int
  BY DEF Inv, TypeOK
<1>2. TypeOK'
  <2>1. now' \in 0..MaxTime
    BY Constants DEF Inv, TypeOK
  <2>2. 0..now \subseteq 0..now'
    BY <1>1
  <2>3. \A a \in Buckets : /\ tokens'[a] \in Int /\ tokens'[a] <= Burst
                           /\ last'[a] \in 0..now' /\ peak'[a] \in 0..now'
    BY <2>2 DEF Inv, TypeOK
  <2>4. stamp' \in [Requests -> 0..now']
    BY <2>2 DEF Inv, TypeOK
  <2> QED
    BY <2>1, <2>2, <2>3, <2>4 DEF Inv, TypeOK
<1>3. StampsFresh'
  BY Constants, <1>1 DEF Inv, TypeOK, StampsFresh
<1>4. CutoffOld'
  BY Constants, <1>1 DEF Inv, TypeOK, CutoffOld, NoSweep
<1>5. DebtBounded'
  BY DEF Inv, DebtBounded
<1>6. SpentPaid'
  <2>1. \A a \in IPs : spent[a] \in Nat
    BY DEF Inv, TypeOK
  <2> QED
    BY <2>1, <1>1 DEF Inv, SpentPaid
<1> QED
  BY <1>2, <1>3, <1>4, <1>5, <1>6 DEF Inv

(* A new window starts with nothing spent.                                  *)
LEMMA StartWindowInv == ASSUME Inv, StartWindow PROVE Inv'
<1> USE DEF StartWindow, bucketVars, reqVars, Buckets
<1>1. TypeOK'
  BY DEF Inv, TypeOK
<1>2. SpentPaid'
  BY DEF SpentPaid
<1>3. StampsFresh' /\ CutoffOld' /\ DebtBounded'
  BY DEF Inv, StampsFresh, CutoffOld, DebtBounded
<1> QED
  BY <1>1, <1>2, <1>3 DEF Inv

(* A stuttering step changes nothing.                                       *)
LEMMA StutterInv == ASSUME Inv, UNCHANGED vars PROVE Inv'
  BY DEF Inv, TypeOK, StampsFresh, CutoffOld, DebtBounded, SpentPaid, Buckets,
         vars, bucketVars, reqVars, countVars

(* Every step keeps the invariant.                                          *)
LEMMA NextInv == ASSUME Inv, [Next]_vars PROVE Inv'
<1>1. ASSUME NEW r \in Requests, NEW a \in IPs, Arrive(r, a) PROVE Inv'
  BY <1>1, ArriveInv
<1>2. ASSUME NEW r \in Requests, AllowNew(r) PROVE Inv'
  BY <1>2, AllowNewInv
<1>3. ASSUME NEW r \in Requests, Allow(r) PROVE Inv'
  BY <1>3, AllowInv
<1>4. ASSUME NEW r \in Requests, Leave(r) PROVE Inv'
  BY <1>4, LeaveInv
<1>5. CASE GcTick
  BY <1>5, GcTickInv
<1>6. CASE GcSweep
  BY <1>6, GcSweepInv
<1>7. CASE Tick
  BY <1>7, TickInv
<1>8. CASE StartWindow
  BY <1>8, StartWindowInv
<1>9. CASE UNCHANGED vars
  BY <1>9, StutterInv
<1> QED
  BY <1>1, <1>2, <1>3, <1>4, <1>5, <1>6, <1>7, <1>8, <1>9 DEF Next

(* Buckets, requests and the sweep keep the shape, the ages and the debts   *)
(* that Inv describes, in every behaviour of allow, the middleware and      *)
(* gcLoop.                                                                  *)
THEOREM Invariance == Spec => []Inv
<1>1. Init => Inv
  BY InitInv, AddressAssumption
<1>2. Inv /\ [Next]_vars => Inv'
  BY NextInv
<1> QED
  BY <1>1, <1>2, PTL DEF Spec

(* The state of the limiter keeps its shape; no refill in allow takes a     *)
(* bucket above the burst.                                                  *)
THEOREM TypeCorrect == Spec => []TypeOK
<1>1. Inv => TypeOK
  BY DEF Inv
<1> QED
  BY <1>1, Invariance, PTL

(* No window of time admits more of an address than the burst, what the     *)
(* rate grants for the window, and the skew, although allow sees times out  *)
(* of order and gcLoop evicts buckets that come back full.                  *)
THEOREM RateIsBounded == Spec => []RateBound
<1>1. Inv => RateBound
  <2>1. SUFFICES ASSUME Inv, NEW a \in IPs
                 PROVE  spent[a] <= Burst + (now - mark) + MaxSkew
    BY DEF RateBound
  <2>2. now \in Int /\ mark \in Int /\ mark <= now /\ spent[a] \in Nat
    BY <2>1, Constants DEF Inv, TypeOK
  <2>3. CASE spent[a] = 0
    BY <2>2, <2>3, Constants
  <2>4. CASE a \in Buckets /\ spent[a] # 0
    <3>1. spent[a] + tokens[a] <= Burst + (last[a] - mark) + MaxSkew
      BY <2>1, <2>4 DEF Inv, SpentPaid
    <3> QED
      BY <2>1, <2>2, <2>4, <3>1, BucketType, Constants
  <2>5. CASE a \notin Buckets /\ spent[a] # 0
    <3>1. spent[a] <= now - mark
      BY <2>1, <2>5 DEF Inv, SpentPaid
    <3> QED
      BY <2>2, <3>1, Constants
  <2> QED
    BY <2>3, <2>4, <2>5
<1> QED
  BY <1>1, Invariance, PTL

(* A refusal by allow means that the client came back before it had waited  *)
(* for one token and the skew, however deep earlier refusals left it.       *)
THEOREM PatienceIsRewarded == Spec => PatientClientAdmitted
<1> DEFINE Patient(r) == pc[r] = "waiting" /\ pc'[r] = "refused" =>
                            stamp[r] - last[ip[r]] < One + MaxSkew
<1>1. ASSUME Inv, Next, NEW r \in Requests, pc[r] = "waiting", pc'[r] = "refused"
      PROVE  stamp[r] - last[ip[r]] < One + MaxSkew
  <2>1. ASSUME NEW q \in Requests, Allow(q) PROVE q = r /\ ip[r] \in Buckets
                                               /\ Refill(ip[r], stamp[r]) < One
    BY <1>1, <2>1 DEF Allow, Admit, Refuse, Inv, TypeOK
  <2>2. ~ \E q \in Requests, a \in IPs : Arrive(q, a)
    BY <1>1 DEF Arrive, Inv, TypeOK
  <2>3. ~ \E q \in Requests : AllowNew(q) \/ Leave(q)
    BY <1>1 DEF AllowNew, Admit, Leave, Inv, TypeOK
  <2>4. ~(GcTick \/ GcSweep \/ Tick \/ StartWindow)
    BY <1>1 DEF GcTick, GcSweep, Tick, StartWindow, reqVars
  <2>5. ip[r] \in Buckets /\ Refill(ip[r], stamp[r]) < One
    BY <1>1, <2>1, <2>2, <2>3, <2>4 DEF Next
  <2>6. tokens[ip[r]] + (stamp[r] - last[ip[r]]) < One
    BY <1>1, <2>5, RefillType
  <2> QED
    BY <1>1, <2>5, <2>6, StampType, BucketType, Constants
<1>2. Inv /\ [Next]_vars => [\A r \in Requests : Patient(r)]_vars
  BY <1>1
<1> QED
  BY <1>2, Invariance, PTL DEF Spec, PatientClientAdmitted
=============================================================================
