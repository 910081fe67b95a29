--------------------------- MODULE KeyAuthProofs ----------------------------
(***************************************************************************)
(* Proofs about KeyAuth, for any sets of keys, slots and requests, any     *)
(* size of the LRU, any times to live and timeouts, with and without       *)
(* faults of the cloud.                                                    *)
(***************************************************************************)
EXTENDS KeyAuth, FiniteSetTheorems, SequenceTheorems, TLAPS

-----------------------------------------------------------------------------
(* The inductive invariant: TypeOK and the three parts below.               *)

NoRepeats(s) == \A i, j \in 1..Len(s) : s[i] = s[j] => i = j

(* The LRU: each key is in its order once; an entry is the key's own row,   *)
(* of a minted key, and is used no longer than the lag after the key's      *)
(* revocation.                                                              *)
LruSound ==
    /\ recency \in Seq(Keys)
    /\ NoRepeats(recency)
    /\ ToSet(recency) = DOMAIN cache
    /\ Len(recency) <= CacheSize
    /\ \A k \in DOMAIN cache :
          /\ cache[k].row = k
          /\ k \in Minted
          /\ cache[k].expires \in 0..(now + VerifiedTTL)
          /\ k \in active \/ cache[k].expires <= revokedAt[k] + RevocationLag

(* Redis: a row is that of a minted key of its slot, and is gone once       *)
(* RedisTTL has passed since the key's revocation.                          *)
RedisSound ==
    /\ redis \in [Slots -> [row : Rows \cup {None}, expires : Nat]]
    /\ \A s \in Slots :
          LET k == redis[s].row IN
          k \in Keys =>
            /\ k \in Minted
            /\ Slot[k] = s
            /\ redis[s].expires \in now..(now + RedisTTL)
            /\ k \in active \/ redis[s].expires <= revokedAt[k] + RedisTTL

(* A request at p that presents k, holds row e and has deadline d: it has   *)
(* not waited longer than d and VerifyMax allow; the row it verifies is     *)
(* that of a minted key of its slot, read in time; if it was let through,   *)
(* that was rightly so.                                                     *)
Holds(p, k, e, d) ==
    /\ p = "cache" => k \in Presented
    /\ p \in {"redis", "rpc", "verify"} => k \in Keys /\ d <= now + LookupTimeout
    /\ p \in {"redis", "rpc"} => now <= d
    /\ p = "verify" =>
          /\ now <= d + VerifyMax
          /\ e \in Rows
          /\ e \in Keys =>
                /\ e \in Minted
                /\ Slot[e] = Slot[k]
                /\ e \in active \/ d <= revokedAt[e] + RedisTTL + LookupTimeout
    /\ p = "accepted" =>
          /\ e = k
          /\ k \in Minted
          /\ k \in active \/ now <= revokedAt[k] + RevocationLag

RequestsSound == \A r \in Requests : Holds(pc[r], key[r], row[r], deadline[r])

Inv == TypeOK /\ LruSound /\ RedisSound /\ RequestsSound

-----------------------------------------------------------------------------
(* The LRU's order.                                                         *)

(* The values of a sequence.                                                *)
LEMMA ToSetSeq ==
    ASSUME NEW S, NEW s \in Seq(S)
    PROVE  /\ ToSet(s) = {s[i] : i \in 1..Len(s)}
           /\ ToSet(s) \subseteq S
           /\ Len(s) \in Nat
  BY LenProperties DEF ToSet

(* A sequence without repeats has as many values as places.                 *)
LEMMA LenCardinality ==
    ASSUME NEW S, NEW s \in Seq(S), NoRepeats(s)
    PROVE  Len(s) = Cardinality(ToSet(s)) /\ IsFiniteSet(ToSet(s))
<1>1. Len(s) \in Nat /\ s \in [1..Len(s) -> S]
  BY LenProperties
<1>2. s \in [1..Len(s) -> ToSet(s)] /\ \A x \in ToSet(s) : \E i \in 1..Len(s) : s[i] = x
  BY <1>1, ToSetSeq
<1>3. s \in Surjection(1..Len(s), ToSet(s))
  BY <1>2 DEF Surjection
<1>4. s \in Injection(1..Len(s), ToSet(s))
  BY <1>2 DEF Injection, IsInjective, NoRepeats
<1>5. IsFiniteSet(1..Len(s)) /\ Cardinality(1..Len(s)) = Len(s)
  BY <1>1, FS_Interval
<1> QED
  BY <1>3, <1>4, <1>5, FS_Surjection

(* What a part of a sequence holds.                                         *)
LEMMA PartOf ==
    ASSUME NEW S, NEW s \in Seq(S), NEW m \in Nat, NEW n \in Nat, 1 <= m, n <= Len(s)
    PROVE  /\ SubSeq(s, m, n) \in Seq(S)
           /\ Len(SubSeq(s, m, n)) = IF m <= n THEN (n - m) + 1 ELSE 0
           /\ \A j \in 1..((n - m) + 1) : SubSeq(s, m, n)[j] = s[(m + j) - 1]
<1>1. \A j \in m..n : s[j] \in S
  BY LenProperties
<1>2. m \in Int /\ n \in Int
  OBVIOUS
<1> QED
  BY <1>1, <1>2, SubSeqProperties

(* Taking a key out of the order.                                           *)
LEMMA WithoutKey ==
    ASSUME LruSound, NEW k
    PROVE  /\ Without(k) \in Seq(Keys)
           /\ NoRepeats(Without(k))
           /\ ToSet(Without(k)) = ToSet(recency) \ {k}
           /\ Len(Without(k)) = IF k \in ToSet(recency) THEN Len(recency) - 1 ELSE Len(recency)
<1>0. /\ recency \in Seq(Keys) /\ NoRepeats(recency)
      /\ Len(recency) \in Nat /\ DOMAIN recency = 1..Len(recency)
      /\ ToSet(recency) = {recency[i] : i \in 1..Len(recency)}
      /\ \A i \in 1..Len(recency) : recency[i] \in Keys
  <2>1. recency \in Seq(Keys) /\ NoRepeats(recency)
    BY DEF LruSound
  <2>2. /\ Len(recency) \in Nat /\ DOMAIN recency = 1..Len(recency)
        /\ \A i \in 1..Len(recency) : recency[i] \in Keys
    BY <2>1, LenProperties
  <2>3. ToSet(recency) = {recency[i] : i \in 1..Len(recency)}
    BY <2>1, ToSetSeq
  <2> QED
    BY <2>1, <2>2, <2>3
<1>1. CASE k \notin ToSet(recency)
  BY <1>0, <1>1 DEF Without
<1>2. CASE k \in ToSet(recency)
  <2> DEFINE n == Len(recency)
             i == CHOOSE j \in DOMAIN recency : recency[j] = k
             a == SubSeq(recency, 1, i - 1)
             b == SubSeq(recency, i + 1, n)
  <2>1. i \in 1..n /\ recency[i] = k
    BY <1>0, <1>2
  <2>2. Without(k) = a \o b
    BY <1>2 DEF Without, RemoveAt
  <2> HIDE DEF i
  <2>3. /\ a \in Seq(Keys) /\ Len(a) = i - 1
        /\ \A j \in 1..(i - 1) : a[j] = recency[j]
    <3>1. i - 1 \in Nat /\ i - 1 <= n
      BY <1>0, <2>1
    <3>2. /\ a \in Seq(Keys)
          /\ Len(a) = IF 1 <= i - 1 THEN ((i - 1) - 1) + 1 ELSE 0
          /\ \A j \in 1..(((i - 1) - 1) + 1) : a[j] = recency[(1 + j) - 1]
      BY <3>1, <1>0, PartOf
    <3> HIDE DEF a
    <3> QED
      BY <2>1, <3>2
  <2>4. /\ b \in Seq(Keys) /\ Len(b) = n - i
        /\ \A j \in 1..(n - i) : b[j] = recency[i + j]
    <3>1. i + 1 \in Nat /\ 1 <= i + 1 /\ n \in Nat
      BY <1>0, <2>1
    <3>2. /\ b \in Seq(Keys)
          /\ Len(b) = IF i + 1 <= n THEN (n - (i + 1)) + 1 ELSE 0
          /\ \A j \in 1..((n - (i + 1)) + 1) : b[j] = recency[((i + 1) + j) - 1]
      BY <3>1, <1>0, PartOf
    <3> HIDE DEF b
    <3>3. ASSUME NEW j \in 1..(n - i) PROVE b[j] = recency[i + j]
      <4>1. j \in 1..((n - (i + 1)) + 1) /\ ((i + 1) + j) - 1 = i + j
        BY <1>0, <2>1
      <4> QED
        BY <4>1, <3>2
    <3>4. Len(b) = n - i
      <4>1. Len(b) = IF i + 1 <= n THEN (n - (i + 1)) + 1 ELSE 0
        BY <3>2
      <4>2. n \in Nat /\ i \in Nat /\ i <= n
        BY <1>0, <2>1
      <4> HIDE DEF n
      <4> QED
        BY <4>1, <4>2
    <3> QED
      BY <3>2, <3>3, <3>4
  <2> HIDE DEF a, b
  <2> DEFINE w == a \o b
  <2>5. /\ w \in Seq(Keys) /\ Len(w) = n - 1
        /\ \A j \in 1..(n - 1) : w[j] = IF j < i THEN recency[j] ELSE recency[j + 1]
    <3>1. /\ w \in Seq(Keys) /\ Len(w) = Len(a) + Len(b)
          /\ \A j \in 1..(Len(a) + Len(b)) : w[j] = IF j <= Len(a) THEN a[j] ELSE b[j - Len(a)]
      BY <2>3, <2>4, ConcatProperties, Zenon
    <3>2. Len(a) + Len(b) = n - 1
      BY <1>0, <2>1, <2>3, <2>4
    <3>3. ASSUME NEW j \in 1..(n - 1)
          PROVE  w[j] = IF j < i THEN recency[j] ELSE recency[j + 1]
      <4>1. CASE j < i
        BY <4>1, <1>0, <2>1, <2>3, <3>1, <3>2
      <4>2. CASE ~(j < i)
        <5>1. w[j] = b[j - (i - 1)] /\ j - (i - 1) \in 1..(n - i)
          BY <4>2, <1>0, <2>1, <2>3, <3>1, <3>2
        <5>2. i + (j - (i - 1)) = j + 1
          BY <1>0, <2>1
        <5> QED
          BY <4>2, <5>1, <5>2, <2>4
      <4> QED
        BY <4>1, <4>2
    <3> QED
      BY <3>1, <3>2, <3>3
  <2> HIDE DEF w
  <2>6. NoRepeats(w)
    <3> SUFFICES ASSUME NEW p \in 1..(n - 1), NEW q \in 1..(n - 1), w[p] = w[q]
                 PROVE  p = q
      BY <2>5 DEF NoRepeats
    <3>1. \A x, y \in 1..n : recency[x] = recency[y] => x = y
      BY <1>0 DEF NoRepeats
    <3> QED
      BY <1>0, <2>1, <2>5, <3>1
  <2>7. ASSUME NEW x PROVE x \in ToSet(w) <=> x \in ToSet(recency) /\ x # k
    <3>0. ToSet(w) = {w[j] : j \in 1..(n - 1)}
      BY <2>5, ToSetSeq
    <3>1. ASSUME x \in ToSet(w) PROVE x \in ToSet(recency) /\ x # k
      <4>1. PICK j \in 1..(n - 1) : x = w[j]
        BY <3>0, <3>1
      <4>2. PICK m \in 1..n : m # i /\ x = recency[m]
        BY <4>1, <2>1, <2>5, <1>0
      <4> QED
        BY <4>2, <1>0, <2>1 DEF NoRepeats
    <3>2. ASSUME x \in ToSet(recency), x # k PROVE x \in ToSet(w)
      <4>1. PICK m \in 1..n : x = recency[m] /\ m # i
        BY <3>2, <1>0, <2>1
      <4>2. CASE m < i
        <5>1. m \in 1..(n - 1) /\ w[m] = x
          BY <4>1, <4>2, <2>1, <2>5, <1>0
        <5> QED
          BY <5>1, <3>0
      <4>3. CASE m > i
        <5>1. m - 1 \in 1..(n - 1) /\ w[m - 1] = x
          <6>1. m - 1 \in 1..(n - 1) /\ ~(m - 1 < i) /\ (m - 1) + 1 = m
            BY <4>1, <4>3, <2>1, <1>0
          <6> QED
            BY <6>1, <4>1, <2>5
        <5> QED
          BY <5>1, <3>0
      <4> QED
        BY <4>1, <4>2, <4>3, <2>1, <1>0
    <3> QED
      BY <3>1, <3>2
  <2> QED
    BY <1>2, <2>2, <2>5, <2>6, <2>7 DEF w
<1> QED
  BY <1>1, <1>2

(* Putting a key at the front.                                              *)
LEMMA ToFront ==
    ASSUME LruSound, NEW k \in Keys
    PROVE  /\ <<k>> \o Without(k) \in Seq(Keys)
           /\ NoRepeats(<<k>> \o Without(k))
           /\ ToSet(<<k>> \o Without(k)) = ToSet(recency) \cup {k}
           /\ Len(<<k>> \o Without(k)) =
                 IF k \in ToSet(recency) THEN Len(recency) ELSE Len(recency) + 1
           /\ (<<k>> \o Without(k))[1] = k
<1> DEFINE w == Without(k)
           n == Len(w)
           s == <<k>> \o w
<1>1. /\ w \in Seq(Keys) /\ NoRepeats(w) /\ ToSet(w) = ToSet(recency) \ {k}
      /\ n = IF k \in ToSet(recency) THEN Len(recency) - 1 ELSE Len(recency)
  BY WithoutKey
<1>2. n \in Nat /\ ToSet(w) = {w[i] : i \in 1..n} /\ Len(recency) \in Nat
  BY <1>1, ToSetSeq, LenProperties DEF LruSound
<1> HIDE DEF w
<1> DEFINE e == <<k>>
<1>3. e \in Seq(Keys) /\ Len(e) = 1 /\ e[1] = k
  OBVIOUS
<1> HIDE DEF e
<1>4. /\ s \in Seq(Keys) /\ Len(s) = n + 1 /\ s[1] = k
      /\ \A i \in 2..(n + 1) : s[i] = w[i - 1]
  <2> DEFINE t == e \o w
  <2>1. /\ t \in Seq(Keys) /\ Len(t) = Len(e) + Len(w)
        /\ \A i \in 1..(Len(e) + Len(w)) :
              t[i] = IF i <= Len(e) THEN e[i] ELSE w[i - Len(e)]
    <3>1. e \in Seq(Keys) /\ w \in Seq(Keys)
      BY <1>1, <1>3
    <3> QED
      BY <3>1, ConcatProperties, Zenon
  <2>2. t = s
    BY DEF e
  <2> HIDE DEF s, t
  <2> QED
    BY <1>2, <1>3, <2>1, <2>2
<1> HIDE DEF s
<1>5. \A i \in 1..n : w[i] # k
  BY <1>1, <1>2
<1>6. NoRepeats(s)
  <2> SUFFICES ASSUME NEW i \in 1..(n + 1), NEW j \in 1..(n + 1), s[i] = s[j]
               PROVE  i = j
    BY <1>4 DEF NoRepeats
  <2>1. CASE i = 1
    <3>1. ASSUME j # 1 PROVE FALSE
      <4>1. j - 1 \in 1..n /\ s[j] = w[j - 1]
        BY <3>1, <1>2, <1>4
      <4> QED
        BY <2>1, <4>1, <1>4, <1>5
    <3> QED
      BY <2>1, <3>1
  <2>2. CASE j = 1
    <3>1. ASSUME i # 1 PROVE FALSE
      <4>1. i - 1 \in 1..n /\ s[i] = w[i - 1]
        BY <3>1, <1>2, <1>4
      <4> QED
        BY <2>2, <4>1, <1>4, <1>5
    <3> QED
      BY <2>2, <3>1
  <2>3. CASE i # 1 /\ j # 1
    <3>1. i - 1 \in 1..n /\ j - 1 \in 1..n /\ w[i - 1] = w[j - 1]
      BY <2>3, <1>2, <1>4
    <3>2. i - 1 = j - 1
      BY <3>1, <1>1 DEF NoRepeats
    <3> QED
      BY <3>2
  <2> QED
    BY <2>1, <2>2, <2>3
<1>7. ToSet(s) = ToSet(w) \cup {k}
  <2>1. ToSet(s) = {s[i] : i \in 1..(n + 1)}
    BY <1>4, ToSetSeq
  <2>2. ASSUME NEW x \in ToSet(s) PROVE x \in ToSet(w) \cup {k}
    <3>1. PICK i \in 1..(n + 1) : x = s[i]
      BY <2>1
    <3>2. CASE i = 1
      BY <3>1, <3>2, <1>4
    <3>3. CASE i # 1
      <4>1. i - 1 \in 1..n /\ s[i] = w[i - 1]
        BY <3>1, <3>3, <1>2, <1>4
      <4> QED
        BY <4>1, <3>1, <1>2
    <3> QED
      BY <3>2, <3>3
  <2>3. ASSUME NEW x \in ToSet(w) PROVE x \in ToSet(s)
    <3>1. PICK i \in 1..n : x = w[i]
      BY <1>2
    <3>2. i + 1 \in 2..(n + 1) /\ i + 1 \in 1..(n + 1) /\ (i + 1) - 1 = i
      BY <1>2
    <3> QED
      BY <3>1, <3>2, <1>4, <2>1
  <2>4. k \in ToSet(s)
    <3>1. 1 \in 1..(n + 1)
      BY <1>2
    <3> QED
      BY <3>1, <1>4, <2>1
  <2> QED
    BY <2>2, <2>3, <2>4
<1>8. ToSet(s) = ToSet(recency) \cup {k}
  BY <1>1, <1>7
<1>9. Len(s) = IF k \in ToSet(recency) THEN Len(recency) ELSE Len(recency) + 1
  BY <1>1, <1>2, <1>4
<1> QED
  BY <1>4, <1>6, <1>8, <1>9 DEF s, w

(* What an Add keeps: the key added, and others that were there.            *)
LEMMA KeptKeys ==
    ASSUME LruSound, NEW k \in Keys, Len(recency) <= CacheSize
    PROVE  /\ Kept(k) \in Seq(Keys)
           /\ NoRepeats(Kept(k))
           /\ k \in ToSet(Kept(k))
           /\ ToSet(Kept(k)) \subseteq ToSet(recency) \cup {k}
           /\ Len(Kept(k)) <= CacheSize
<1> DEFINE s == <<k>> \o Without(k)
           n == Len(s)
           t == SubSeq(s, 1, CacheSize)
<1>1. /\ s \in Seq(Keys) /\ NoRepeats(s) /\ ToSet(s) = ToSet(recency) \cup {k}
      /\ s[1] = k
  BY ToFront
<1>2. Kept(k) = IF n > CacheSize THEN t ELSE s
  BY DEF Kept
<1>3. CacheSize \in Nat /\ CacheSize >= 1
  BY SizeAssumption
<1> HIDE DEF s
<1>4. n \in Nat /\ ToSet(s) = {s[i] : i \in 1..n}
  BY <1>1, ToSetSeq
<1>5. CASE n > CacheSize
  <2>1. /\ t \in Seq(Keys)
        /\ Len(t) = IF 1 <= CacheSize THEN (CacheSize - 1) + 1 ELSE 0
        /\ \A j \in 1..((CacheSize - 1) + 1) : t[j] = s[(1 + j) - 1]
    BY <1>1, <1>3, <1>4, <1>5, PartOf
  <2> HIDE DEF t
  <2>2. Len(t) = CacheSize /\ \A j \in 1..CacheSize : t[j] = s[j]
    BY <1>3, <2>1
  <2>3. ToSet(t) = {t[j] : j \in 1..CacheSize}
    BY <2>1, <2>2, ToSetSeq
  <2>4. NoRepeats(t)
    BY <1>1, <1>3, <1>4, <1>5, <2>2 DEF NoRepeats
  <2>5. k \in ToSet(t)
    <3>1. 1 \in 1..CacheSize
      BY <1>3
    <3> QED
      BY <3>1, <2>2, <2>3, <1>1
  <2>6. ToSet(t) \subseteq ToSet(s)
    BY <1>3, <1>4, <1>5, <2>2, <2>3
  <2> QED
    BY <1>1, <1>2, <1>3, <1>5, <2>1, <2>2, <2>4, <2>5, <2>6
<1>6. CASE ~(n > CacheSize)
  BY <1>1, <1>2, <1>3, <1>4, <1>6
<1> QED
  BY <1>5, <1>6

-----------------------------------------------------------------------------

(* The assumptions on the constants, in the form the steps use.             *)
LEMMA Constants ==
    /\ VerifiedTTL \in Nat /\ LookupTimeout \in Nat /\ RedisTTL \in Nat
    /\ VerifyMax \in Nat /\ MaxTime \in Nat /\ RevocationLag \in Nat
    /\ None \notin Keys /\ None \notin Rows /\ Damaged \notin Keys
    /\ Keys \cap Malformed = {}
  BY TimeAssumption, KeysAssumption DEF RevocationLag, Presented, Rows

(* The gateway starts with an empty LRU and no request.                     *)
LEMMA InitInv == ASSUME Init PROVE Inv
<1> USE DEF Init
<1>1. recency \in Seq(Keys) /\ Len(recency) = 0 /\ NoRepeats(recency)
  BY DEF NoRepeats
<1>2. DOMAIN cache = {} /\ DOMAIN revokedAt = {}
  OBVIOUS
<1>3. ToSet(recency) = {} /\ Cardinality(DOMAIN cache) = 0
  BY <1>2, FS_EmptySet DEF ToSet
<1>4. TypeOK
  <2>1. /\ now \in 0..MaxTime /\ active \subseteq Keys
        /\ \A t \in Slots : redis[t].row \in Rows \cup {None} /\ redis[t].expires \in Nat
    BY Constants DEF NoRow
  <2>2. /\ pc \in [Requests -> {"idle", "cache", "redis", "rpc", "verify"} \cup Answers]
        /\ key \in [Requests -> Presented \cup {None}]
        /\ row \in [Requests -> Rows \cup {None}]
        /\ deadline \in [Requests -> Nat]
    OBVIOUS
  <2>3. Len(recency) <= CacheSize
    BY <1>1, SizeAssumption
  <2> QED
    BY <1>1, <1>2, <1>3, <2>1, <2>2, <2>3 DEF TypeOK
<1>5. LruSound
  BY <1>1, <1>2, <1>3, SizeAssumption DEF LruSound
<1>6. RedisSound
  BY Constants DEF RedisSound, NoRow
<1>7. RequestsSound
  BY DEF RequestsSound, Holds
<1> QED
  BY <1>4, <1>5, <1>6, <1>7 DEF Inv

-----------------------------------------------------------------------------
(* A step of one request, which may change the LRU: what it has to          *)
(* establish is that the LRU and the request itself are sound.              *)
LEMMA RequestStep ==
    ASSUME Inv, NEW r \in Requests,
           UNCHANGED <<now, cloudVars, redis>>,
           LruSound',
           NEW p \in {"idle", "cache", "redis", "rpc", "verify"} \cup Answers,
           NEW k \in Presented \cup {None},
           NEW e \in Rows \cup {None},
           NEW d \in Nat,
           pc' = [pc EXCEPT ![r] = p],
           key' = [key EXCEPT ![r] = k],
           row' = [row EXCEPT ![r] = e],
           deadline' = [deadline EXCEPT ![r] = d],
           Holds(p, k, e, d)
    PROVE  Inv'
<1>1. UNCHANGED <<now, active, revokedAt, redis>> /\ Minted' = Minted
  BY DEF cloudVars, Minted
<1>2. /\ pc' \in [Requests -> {"idle", "cache", "redis", "rpc", "verify"} \cup Answers]
      /\ key' \in [Requests -> Presented \cup {None}]
      /\ row' \in [Requests -> Rows \cup {None}]
      /\ deadline' \in [Requests -> Nat]
  BY DEF Inv, TypeOK
<1>3. /\ pc'[r] = p /\ key'[r] = k /\ row'[r] = e /\ deadline'[r] = d
      /\ \A q \in Requests \ {r} : /\ pc'[q] = pc[q] /\ key'[q] = key[q]
                                   /\ row'[q] = row[q] /\ deadline'[q] = deadline[q]
  BY DEF Inv, TypeOK
<1>4. TypeOK'
  <2>1. /\ ToSet(recency') = DOMAIN cache'
        /\ Len(recency') <= CacheSize
        /\ \A x \in DOMAIN cache' : cache'[x].expires \in 0..(now + VerifiedTTL)
    BY <1>1 DEF LruSound
  <2>2. Len(recency') = Cardinality(DOMAIN cache')
    BY <2>1, LenCardinality DEF LruSound
  <2> QED
    BY <1>1, <1>2, <2>1, <2>2 DEF Inv, TypeOK
<1>5. RedisSound'
  BY <1>1 DEF Inv, RedisSound
<1>6. RequestsSound'
  <2> SUFFICES ASSUME NEW q \in Requests
               PROVE  Holds(pc[q], key[q], row[q], deadline[q])'
    BY DEF RequestsSound
  <2>1. Holds(pc'[q], key'[q], row'[q], deadline'[q])
    BY <1>3 DEF Inv, RequestsSound
  <2> QED
    BY <2>1, <1>1 DEF Holds
<1> QED
  BY <1>4, <1>5, <1>6 DEF Inv

(* The LRU is sound after a step that leaves it alone.                      *)
LEMMA LruUnchanged ==
    ASSUME Inv, UNCHANGED <<now, cloudVars, cacheVars>>
    PROVE  LruSound'
  BY DEF Inv, LruSound, cloudVars, cacheVars, Minted

-----------------------------------------------------------------------------
(* One lemma per action.                                                    *)

LEMMA ArriveInv ==
    ASSUME Inv, NEW r \in Requests, NEW k \in Presented, Arrive(r, k)
    PROVE  Inv'
<1>1. LruSound'
  BY LruUnchanged DEF Arrive
<1>2. Holds("cache", k, row[r], deadline[r])
  BY DEF Holds
<1>3. row' = [row EXCEPT ![r] = row[r]] /\ deadline' = [deadline EXCEPT ![r] = deadline[r]]
  BY DEF Arrive, Inv, TypeOK
<1>4. row[r] \in Rows \cup {None} /\ deadline[r] \in Nat
  BY DEF Inv, TypeOK
<1> QED
  BY <1>1, <1>2, <1>3, <1>4, RequestStep DEF Arrive

(* An answer other than "accepted", with the row as it was.                 *)
LEMMA AnswerInv ==
    ASSUME Inv, NEW r \in Requests, NEW status \in Answers \ {"accepted"},
           Answer(r, status), UNCHANGED <<now, cloudVars, redis, cacheVars, row>>
    PROVE  Inv'
<1>1. LruSound'
  BY LruUnchanged
<1>2. Holds(status, key[r], row[r], deadline[r])
  BY DEF Holds, Answers
<1>3. /\ key' = [key EXCEPT ![r] = key[r]]
      /\ row' = [row EXCEPT ![r] = row[r]]
      /\ deadline' = [deadline EXCEPT ![r] = deadline[r]]
  BY DEF Answer, Inv, TypeOK
<1>4. /\ key[r] \in Presented \cup {None}
      /\ row[r] \in Rows \cup {None} /\ deadline[r] \in Nat
  BY DEF Inv, TypeOK
<1>5. pc' = [pc EXCEPT ![r] = status]
  BY DEF Answer
<1> QED
  BY <1>1, <1>2, <1>3, <1>4, <1>5, RequestStep

LEMMA GetInv == ASSUME Inv, NEW r \in Requests, Get(r) PROVE Inv'
<1> DEFINE k == key[r]
<1>1. /\ k \in Presented /\ row[r] \in Rows \cup {None} /\ deadline[r] \in Nat
      /\ now \in Nat
  BY DEF Get, Inv, TypeOK, RequestsSound, Holds
<1>2. CASE /\ CacheHit(k) /\ Touch(k) /\ Answer(r, "accepted")
           /\ row' = [row EXCEPT ![r] = cache[k].row]
  <2>1. /\ k \in DOMAIN cache /\ now <= cache[k].expires
        /\ cache[k].row = k /\ k \in Minted
        /\ k \in active \/ cache[k].expires <= revokedAt[k] + RevocationLag
        /\ k \in Keys
        /\ k \in Minted \ active => revokedAt[k] \in Nat
        /\ cache[k].expires \in Nat
    BY <1>2, <1>1, Constants, ToSetSeq DEF CacheHit, Inv, LruSound, TypeOK, Minted
  <2>2. Holds("accepted", k, k, deadline[r])
    BY <2>1, <1>1, Constants DEF Holds, Minted
  <2>3. LruSound'
    <3>1. /\ recency' \in Seq(Keys) /\ NoRepeats(recency')
          /\ ToSet(recency') = DOMAIN cache /\ Len(recency') <= CacheSize
      BY <1>2, <2>1, ToFront DEF Touch, Inv, LruSound
    <3>2. UNCHANGED <<now, active, revokedAt, cache>> /\ Minted' = Minted
      BY <1>2 DEF Get, Touch, cloudVars, Minted
    <3> QED
      BY <3>1, <3>2 DEF Inv, LruSound
  <2>4. /\ key' = [key EXCEPT ![r] = k] /\ deadline' = [deadline EXCEPT ![r] = deadline[r]]
        /\ row' = [row EXCEPT ![r] = k] /\ pc' = [pc EXCEPT ![r] = "accepted"]
        /\ UNCHANGED <<now, cloudVars, redis>>
    BY <1>2, <2>1 DEF Answer, Get, Inv, TypeOK
  <2>5. k \in Rows \cup {None} /\ k \in Presented \cup {None} /\ "accepted" \in Answers
    BY <2>1, <1>1 DEF Rows, Answers
  <2> QED
    BY <2>2, <2>3, <2>4, <2>5, <1>1, RequestStep
<1>3. CASE Answer(r, "unauthorized") /\ UNCHANGED <<row, cacheVars>>
  BY <1>3, AnswerInv DEF Get, Answers
<1>4. CASE /\ k \in Keys /\ pc' = [pc EXCEPT ![r] = "redis"]
           /\ deadline' = [deadline EXCEPT ![r] = now + LookupTimeout]
           /\ UNCHANGED <<key, row, cacheVars>>
  <2>1. LruSound'
    BY <1>4, LruUnchanged DEF Get
  <2>2. Holds("redis", k, row[r], now + LookupTimeout) /\ now + LookupTimeout \in Nat
    BY <1>1, <1>4, Constants DEF Holds
  <2>3. key' = [key EXCEPT ![r] = k] /\ row' = [row EXCEPT ![r] = row[r]]
    BY <1>4 DEF Inv, TypeOK
  <2> QED
    BY <1>1, <1>4, <2>1, <2>2, <2>3, RequestStep DEF Get
<1> QED
  BY <1>2, <1>3, <1>4 DEF Get, CacheKey

(* A request that has read a row goes on to verify it.                      *)
LEMMA ResolvedInv ==
    ASSUME Inv, NEW r \in Requests, pc[r] \in {"redis", "rpc"}, NEW e \in Rows,
           Resolved(r, e), UNCHANGED <<now, cloudVars, redis, cacheVars>>,
           e \in Keys =>
              /\ e \in Minted
              /\ Slot[e] = Slot[key[r]]
              /\ e \in active \/ now <= revokedAt[e] + RedisTTL
    PROVE  Inv'
<1>1. LruSound'
  BY LruUnchanged
<1>2. /\ key[r] \in Keys /\ key[r] \in Presented \cup {None}
      /\ deadline[r] \in Nat /\ now \in Nat
      /\ now <= deadline[r] /\ deadline[r] <= now + LookupTimeout
      /\ e \in Minted \ active => revokedAt[e] \in Nat
  BY Constants DEF Inv, TypeOK, RequestsSound, Holds, Minted
<1>3. Holds("verify", key[r], e, deadline[r])
  BY <1>2, Constants DEF Holds
<1>4. /\ pc' = [pc EXCEPT ![r] = "verify"]
      /\ key' = [key EXCEPT ![r] = key[r]]
      /\ row' = [row EXCEPT ![r] = e]
      /\ deadline' = [deadline EXCEPT ![r] = deadline[r]]
  BY DEF Resolved, Inv, TypeOK
<1> QED
  BY <1>1, <1>2, <1>3, <1>4, RequestStep

LEMMA RedisHitInv == ASSUME Inv, NEW r \in Requests, RedisHit(r) PROVE Inv'
<1> DEFINE s == Slot[key[r]]
           e == redis[s].row
<1>1. key[r] \in Keys /\ s \in Slots
  BY SlotAssumption DEF RedisHit, Inv, RequestsSound, Holds
<1>2. e \in Rows
  BY <1>1 DEF RedisHit, Inv, TypeOK
<1>3. now \in Nat /\ redis[s].expires \in Nat /\ (e \in Minted \ active => revokedAt[e] \in Nat)
  BY <1>1, Constants DEF Inv, TypeOK, Minted
<1>4. ASSUME e \in Keys
      PROVE  e \in Minted /\ Slot[e] = s /\ (e \in active \/ now <= revokedAt[e] + RedisTTL)
  BY <1>1, <1>3, <1>4, Constants DEF Inv, RedisSound
<1> QED
  BY <1>2, <1>4, ResolvedInv DEF RedisHit

LEMMA RedisMissInv == ASSUME Inv, NEW r \in Requests, RedisMiss(r) PROVE Inv'
<1>1. LruSound'
  BY LruUnchanged DEF RedisMiss
<1>2. Holds("rpc", key[r], row[r], deadline[r])
  BY DEF RedisMiss, Inv, RequestsSound, Holds
<1>3. /\ pc' = [pc EXCEPT ![r] = "rpc"]
      /\ key' = [key EXCEPT ![r] = key[r]]
      /\ row' = [row EXCEPT ![r] = row[r]]
      /\ deadline' = [deadline EXCEPT ![r] = deadline[r]]
      /\ UNCHANGED <<now, cloudVars, redis>>
  BY DEF RedisMiss, Inv, TypeOK
<1>4. /\ key[r] \in Presented \cup {None} /\ row[r] \in Rows \cup {None}
      /\ deadline[r] \in Nat
  BY DEF Inv, TypeOK
<1> QED
  BY <1>1, <1>2, <1>3, <1>4, RequestStep

LEMMA RpcAnswersInv == ASSUME Inv, NEW r \in Requests, RpcAnswers(r) PROVE Inv'
<1> DEFINE rows == SentRows(Slot[key[r]])
<1>1. ASSUME NEW e \in rows, Resolved(r, e) PROVE Inv'
  <2>1. e \in Rows /\ (e \in Keys => e \in active /\ Slot[e] = Slot[key[r]])
    BY Constants DEF SentRows, ActiveRows, Rows, Inv, TypeOK
  <2> QED
    BY <1>1, <2>1, ResolvedInv DEF RpcAnswers, Minted
<1>2. CASE Answer(r, "unauthorized") /\ UNCHANGED row
  BY <1>2, AnswerInv DEF RpcAnswers, Answers
<1> QED
  BY <1>1, <1>2 DEF RpcAnswers

LEMMA RpcFailsInv == ASSUME Inv, NEW r \in Requests, RpcFails(r) PROVE Inv'
  BY AnswerInv DEF RpcFails, Answers

LEMMA LeaveInv == ASSUME Inv, NEW r \in Requests, Leave(r) PROVE Inv'
<1>1. LruSound'
  BY LruUnchanged DEF Leave
<1>2. Holds("idle", None, None, 0)
  BY DEF Holds
<1>3. /\ pc' = [pc EXCEPT ![r] = "idle"]
      /\ key' = [key EXCEPT ![r] = None]
      /\ row' = [row EXCEPT ![r] = None]
      /\ deadline' = [deadline EXCEPT ![r] = 0]
      /\ UNCHANGED <<now, cloudVars, redis>>
  BY DEF Leave
<1>4. None \in Presented \cup {None} /\ None \in Rows \cup {None} /\ 0 \in Nat
  OBVIOUS
<1> QED
  BY <1>1, <1>2, <1>3, <1>4, RequestStep

LEMMA VerifyInv == ASSUME Inv, NEW r \in Requests, Verify(r) PROVE Inv'
<1> DEFINE k == key[r]
           e == row[r]
           v == ArgonVerify(k, e)
<1>1. CASE Answer(r, "error") /\ UNCHANGED cacheVars
  BY <1>1, AnswerInv DEF Verify, Answers
<1>2. CASE Answer(r, "unauthorized") /\ UNCHANGED cacheVars
  BY <1>2, AnswerInv DEF Verify, Answers
<1>3. CASE v = "match" /\ Put(k, e) /\ Answer(r, "accepted")
  <2>1. e = k /\ k \in Keys
    BY <1>3 DEF Verify, ArgonVerify, Inv, RequestsSound, Holds
  <2>2. /\ now \in Nat /\ deadline[r] \in Nat /\ now <= deadline[r] + VerifyMax
        /\ k \in Minted
        /\ k \in active \/ deadline[r] <= revokedAt[k] + RedisTTL + LookupTimeout
        /\ k \in Minted \ active => revokedAt[k] \in Nat
    BY <2>1, Constants DEF Verify, Inv, TypeOK, RequestsSound, Holds, Minted
  <2>3. k \in active \/ now + VerifiedTTL <= revokedAt[k] + RevocationLag
    BY <2>2, Constants DEF RevocationLag, Minted
  <2>4. Holds("accepted", k, k, deadline[r])
    BY <2>2, <2>3, Constants DEF Holds, Minted
  <2>5. UNCHANGED <<now, active, revokedAt>> /\ Minted' = Minted
    BY DEF Verify, cloudVars, Minted
  <2>6. LruSound'
    <3>1. /\ Kept(k) \in Seq(Keys) /\ NoRepeats(Kept(k)) /\ k \in ToSet(Kept(k))
          /\ ToSet(Kept(k)) \subseteq DOMAIN cache \cup {k} /\ Len(Kept(k)) <= CacheSize
      BY <2>1, KeptKeys DEF Inv, LruSound
    <3>2. /\ recency' = Kept(k) /\ DOMAIN cache' = ToSet(Kept(k))
          /\ cache'[k] = [row |-> k, expires |-> now + VerifiedTTL]
          /\ \A x \in DOMAIN cache' \ {k} : x \in DOMAIN cache /\ cache'[x] = cache[x]
      BY <1>3, <2>1, <3>1 DEF Put
    <3>3. ASSUME NEW x \in DOMAIN cache'
          PROVE  /\ cache'[x].row = x /\ x \in Minted
                 /\ cache'[x].expires \in 0..(now + VerifiedTTL)
                 /\ x \in active \/ cache'[x].expires <= revokedAt[x] + RevocationLag
      <4>1. CASE x = k
        BY <4>1, <3>2, <2>2, <2>3, Constants
      <4>2. CASE x # k
        BY <4>2, <3>2 DEF Inv, LruSound
      <4> QED
        BY <4>1, <4>2
    <3> QED
      BY <2>5, <3>1, <3>2, <3>3 DEF LruSound
  <2>7. /\ pc' = [pc EXCEPT ![r] = "accepted"]
        /\ key' = [key EXCEPT ![r] = k]
        /\ row' = [row EXCEPT ![r] = k]
        /\ deadline' = [deadline EXCEPT ![r] = deadline[r]]
    BY <1>3, <2>1 DEF Answer, Verify, Inv, TypeOK
  <2>8. k \in Presented \cup {None} /\ k \in Rows \cup {None} /\ "accepted" \in Answers
    BY <2>1 DEF Presented, Rows, Answers
  <2> QED
    BY <2>2, <2>4, <2>6, <2>7, <2>8, RequestStep DEF Verify
<1> QED
  BY <1>1, <1>2, <1>3 DEF Verify, CacheKey

LEMMA ExpireInv == ASSUME Inv, NEW k \in Keys, Expire(k) PROVE Inv'
<1>1. UNCHANGED <<now, active, revokedAt, redis, pc, key, row, deadline>> /\ Minted' = Minted
  BY DEF Expire, cloudVars, reqVars, Minted
<1>2. LruSound'
  <2>1. /\ recency' \in Seq(Keys) /\ NoRepeats(recency')
        /\ ToSet(recency') = ToSet(recency) \ {k} /\ Len(recency') <= Len(recency)
        /\ Len(recency') \in Nat /\ Len(recency) \in Nat
    <3>1. LruSound /\ recency' = Without(k) /\ Len(recency) \in Nat
      BY LenProperties DEF Inv, LruSound, Expire
    <3>2. recency' \in Seq(Keys) /\ Len(recency') <= Len(recency)
      BY <3>1, WithoutKey
    <3> QED
      BY <3>1, <3>2, WithoutKey, LenProperties
  <2>2. Len(recency') <= CacheSize
    BY <2>1, SizeAssumption DEF Inv, LruSound
  <2>3. DOMAIN cache' = DOMAIN cache \ {k} /\ \A x \in DOMAIN cache' : cache'[x] = cache[x]
    BY DEF Expire, Restrict
  <2> QED
    BY <1>1, <2>1, <2>2, <2>3 DEF Inv, LruSound
<1>3. TypeOK'
  <2>1. /\ ToSet(recency') = DOMAIN cache' /\ Len(recency') <= CacheSize
        /\ Len(recency') = Cardinality(DOMAIN cache')
        /\ \A x \in DOMAIN cache' : cache'[x].expires \in 0..(now + VerifiedTTL)
    BY <1>1, <1>2, LenCardinality DEF LruSound
  <2> QED
    BY <1>1, <2>1 DEF Inv, TypeOK
<1>4. RedisSound' /\ RequestsSound'
  BY <1>1 DEF Inv, RedisSound, RequestsSound, Holds
<1> QED
  BY <1>2, <1>3, <1>4 DEF Inv

LEMMA MintInv == ASSUME Inv, NEW k \in Keys, Mint(k) PROVE Inv'
<1>1. /\ UNCHANGED <<now, revokedAt, redis, cache, recency, pc, key, row, deadline>>
      /\ active' = active \cup {k} /\ Minted' = Minted \cup {k} /\ k \notin Minted
  BY DEF Mint, cacheVars, reqVars, Minted
<1>2. TypeOK'
  BY <1>1 DEF Inv, TypeOK, Minted
<1>3. LruSound'
  BY <1>1 DEF Inv, LruSound
<1>4. RedisSound'
  BY <1>1 DEF Inv, RedisSound
<1>5. RequestsSound'
  BY <1>1 DEF Inv, RequestsSound, Holds
<1> QED
  BY <1>2, <1>3, <1>4, <1>5 DEF Inv

LEMMA RevokeInv == ASSUME Inv, NEW k \in Keys, Revoke(k) PROVE Inv'
<1>1. /\ UNCHANGED <<now, redis, cache, recency, pc, key, row, deadline>>
      /\ active' = active \ {k} /\ k \in active
      /\ DOMAIN revokedAt' = DOMAIN revokedAt \cup {k}
      /\ revokedAt'[k] = now
      /\ \A x \in DOMAIN revokedAt \ {k} : revokedAt'[x] = revokedAt[x]
      /\ Minted' = Minted
  BY DEF Revoke, cacheVars, reqVars, Minted
<1>2. now \in Nat /\ k \notin DOMAIN revokedAt
  BY <1>1, Constants DEF Inv, TypeOK
<1>3. TypeOK'
  BY <1>1, <1>2 DEF Inv, TypeOK
<1>4. LruSound'
  <2>1. ASSUME NEW x \in DOMAIN cache
        PROVE  x \in active' \/ cache[x].expires <= revokedAt'[x] + RevocationLag
    <3>1. CASE x = k
      <4>1. cache[x].expires <= now + VerifiedTTL /\ cache[x].expires \in Nat
        BY <1>2, Constants DEF Inv, LruSound
      <4> QED
        BY <3>1, <4>1, <1>1, <1>2, Constants DEF RevocationLag
    <3>2. CASE x # k
      BY <3>2, <1>1 DEF Inv, LruSound, Minted
    <3> QED
      BY <3>1, <3>2
  <2> QED
    BY <1>1, <2>1 DEF Inv, LruSound
<1>5. RedisSound'
  <2>1. ASSUME NEW s \in Slots, redis[s].row \in Keys
        PROVE  \/ redis[s].row \in active'
               \/ redis[s].expires <= revokedAt'[redis[s].row] + RedisTTL
    <3>1. /\ redis[s].row \in Minted
          /\ redis[s].expires <= now + RedisTTL
          /\ \/ redis[s].row \in active
             \/ redis[s].expires <= revokedAt[redis[s].row] + RedisTTL
      BY <2>1 DEF Inv, RedisSound
    <3> QED
      BY <3>1, <1>1, <1>2 DEF Minted
  <2> QED
    BY <1>1, <2>1 DEF Inv, RedisSound
<1>6. RequestsSound'
  <2> SUFFICES ASSUME NEW r \in Requests
               PROVE  Holds(pc[r], key[r], row[r], deadline[r])'
    BY DEF RequestsSound
  <2>1. Holds(pc[r], key[r], row[r], deadline[r])
    BY DEF Inv, RequestsSound
  <2>2. deadline[r] \in Nat
    BY DEF Inv, TypeOK
  <2>3. ASSUME pc[r] = "verify", row[r] \in Keys
        PROVE  row[r] \in active' \/ deadline[r] <= revokedAt'[row[r]] + RedisTTL + LookupTimeout
    BY <1>1, <1>2, <2>1, <2>2, <2>3, Constants DEF Holds, Minted
  <2>4. ASSUME pc[r] = "accepted"
        PROVE  key[r] \in active' \/ now <= revokedAt'[key[r]] + RevocationLag
    BY <1>1, <1>2, <2>1, <2>4, Constants DEF Holds, Minted
  <2> QED
    BY <1>1, <2>1, <2>3, <2>4 DEF Holds
<1> QED
  BY <1>3, <1>4, <1>5, <1>6 DEF Inv

(* Steps of the cloud on one Redis slot.                                    *)
LEMMA SlotInv ==
    ASSUME Inv, NEW s \in Slots, NEW e \in Rows \cup {None}, NEW t \in Nat,
           redis' = [redis EXCEPT ![s] = [row |-> e, expires |-> t]],
           UNCHANGED <<now, cloudVars, cacheVars, reqVars>>,
           e \in Keys => e \in active /\ Slot[e] = s /\ t = now + RedisTTL
    PROVE  Inv'
<1>1. UNCHANGED <<now, active, revokedAt, cache, recency, pc, key, row, deadline>> /\ Minted' = Minted
  BY DEF cloudVars, cacheVars, reqVars, Minted
<1>2. /\ redis' \in [Slots -> [row : Rows \cup {None}, expires : Nat]]
      /\ redis'[s] = [row |-> e, expires |-> t]
      /\ \A x \in Slots \ {s} : redis'[x] = redis[x]
  BY DEF Inv, RedisSound
<1>3. TypeOK'
  <2>1. \A x \in Slots : redis'[x].row \in Rows \cup {None} /\ redis'[x].expires \in Nat
    BY <1>2
  <2> QED
    BY <1>1, <2>1 DEF Inv, TypeOK
<1>4. LruSound' /\ RequestsSound'
  BY <1>1 DEF Inv, LruSound, RequestsSound, Holds
<1>5. RedisSound'
  <2>1. now \in Nat /\ (e \in Keys => now + RedisTTL \in now..(now + RedisTTL))
    BY Constants DEF Inv, TypeOK
  <2>2. ASSUME NEW x \in Slots, redis'[x].row \in Keys
        PROVE  LET k == redis'[x].row IN
               /\ k \in Minted
               /\ Slot[k] = x
               /\ redis'[x].expires \in now..(now + RedisTTL)
               /\ k \in active \/ redis'[x].expires <= revokedAt[k] + RedisTTL
    <3>1. CASE x = s
      BY <3>1, <2>1, <2>2, <1>2 DEF Minted
    <3>2. CASE x # s
      BY <3>2, <2>2, <1>2 DEF Inv, RedisSound
    <3> QED
      BY <3>1, <3>2
  <2> QED
    BY <1>1, <1>2, <2>2 DEF RedisSound
<1> QED
  BY <1>3, <1>4, <1>5 DEF Inv

LEMMA WarmInv == ASSUME Inv, NEW s \in Slots, NEW e \in Rows, Warm(s, e) PROVE Inv'
<1>1. now + RedisTTL \in Nat
  BY Constants DEF Inv, TypeOK
<1>2. e \in Keys => e \in active /\ Slot[e] = s
  BY Constants DEF Warm, SentRows, ActiveRows
<1> QED
  BY <1>1, <1>2, SlotInv DEF Warm

LEMMA UnwarmInv == ASSUME Inv, NEW s \in Slots, Unwarm(s) PROVE Inv'
  BY SlotInv, Constants DEF Unwarm, NoRow

LEMMA TickInv == ASSUME Inv, Tick PROVE Inv'
<1>1. /\ UNCHANGED <<active, revokedAt, cache, recency, pc, key, row, deadline>>
      /\ now' = now + 1 /\ Minted' = Minted
      /\ redis' = [s \in Slots |-> IF redis[s].expires < now + 1 THEN NoRow ELSE redis[s]]
      /\ \A r \in Requests : MayWait(r)
  BY DEF Tick, cloudVars, cacheVars, reqVars, Minted
<1>2. now \in Nat /\ now' \in 0..MaxTime
  BY <1>1, Constants DEF Tick, Inv, TypeOK
<1>3. redis' \in [Slots -> [row : Rows \cup {None}, expires : Nat]]
  BY <1>1 DEF Inv, RedisSound, NoRow
<1>4. TypeOK'
  <2>1. \A s \in Slots : redis'[s].row \in Rows \cup {None} /\ redis'[s].expires \in Nat
    BY <1>3
  <2>2. \A k \in DOMAIN revokedAt : revokedAt[k] \in 0..now'
    BY <1>1, <1>2 DEF Inv, TypeOK
  <2>3. \A k \in DOMAIN cache : cache[k].expires \in 0..(now' + VerifiedTTL)
    BY <1>1, <1>2, Constants DEF Inv, TypeOK
  <2> QED
    BY <1>1, <1>2, <2>1, <2>2, <2>3 DEF Inv, TypeOK
<1>5. LruSound'
  <2>1. \A k \in DOMAIN cache : cache[k].expires \in 0..(now' + VerifiedTTL)
    BY <1>1, <1>2, Constants DEF Inv, TypeOK
  <2> QED
    BY <1>1, <2>1 DEF Inv, LruSound
<1>6. RedisSound'
  <2>1. ASSUME NEW s \in Slots, redis'[s].row \in Keys
        PROVE  LET k == redis'[s].row IN
               /\ k \in Minted
               /\ Slot[k] = s
               /\ redis'[s].expires \in now'..(now' + RedisTTL)
               /\ k \in active \/ redis'[s].expires <= revokedAt[k] + RedisTTL
    <3>1. redis'[s] = redis[s] /\ ~(redis[s].expires < now + 1)
      BY <2>1, <1>1, Constants DEF NoRow
    <3>2. redis[s].expires \in now..(now + RedisTTL)
      BY <2>1, <3>1 DEF Inv, RedisSound
    <3>3. redis'[s].expires \in now'..(now' + RedisTTL)
      BY <3>1, <3>2, <1>1, <1>2, Constants
    <3> QED
      BY <2>1, <3>1, <3>3 DEF Inv, RedisSound
  <2> QED
    BY <1>1, <1>3, <2>1 DEF RedisSound
<1>7. RequestsSound'
  <2> SUFFICES ASSUME NEW r \in Requests
               PROVE  Holds(pc[r], key[r], row[r], deadline[r])'
    BY DEF RequestsSound
  <2>1. Holds(pc[r], key[r], row[r], deadline[r]) /\ deadline[r] \in Nat
    BY DEF Inv, RequestsSound, TypeOK
  <2>2. /\ pc[r] \in {"redis", "rpc"} => now + 1 <= deadline[r]
        /\ pc[r] = "verify" => now + 1 <= deadline[r] + VerifyMax
        /\ pc[r] # "accepted"
    BY <1>1, <1>2, <2>1, Constants DEF MayWait, Answers
  <2>3. pc[r] \in {"redis", "rpc", "verify"} => deadline[r] <= (now + 1) + LookupTimeout
    BY <1>2, <2>1, Constants DEF Holds
  <2> QED
    BY <1>1, <2>1, <2>2, <2>3 DEF Holds
<1> QED
  BY <1>4, <1>5, <1>6, <1>7 DEF Inv

(* Every step of the specification.                                         *)
LEMMA NextInv == ASSUME Inv, [Next]_vars PROVE Inv'
<1>1. ASSUME NEW r \in Requests, Auth(r) PROVE Inv'
  BY <1>1, ArriveInv, GetInv, RedisHitInv, RedisMissInv, RpcAnswersInv, RpcFailsInv,
     VerifyInv, LeaveInv DEF Auth
<1>2. ASSUME NEW k \in Keys, Expire(k) PROVE Inv'
  BY <1>2, ExpireInv
<1>3. CASE Cloud
  BY <1>3, MintInv, RevokeInv, WarmInv, UnwarmInv DEF Cloud
<1>4. CASE Tick
  BY <1>4, TickInv
<1>5. CASE UNCHANGED vars
  <2>1. /\ UNCHANGED <<now, active, revokedAt, redis, cache, recency, pc, key, row, deadline>>
        /\ Minted' = Minted
    BY <1>5 DEF vars, cloudVars, cacheVars, reqVars, Minted
  <2>2. TypeOK'
    BY <2>1 DEF Inv, TypeOK
  <2> QED
    BY <2>1, <2>2 DEF Inv, LruSound, RedisSound, RequestsSound, Holds
<1> QED
  BY <1>1, <1>2, <1>3, <1>4, <1>5 DEF Next

(* The invariant holds in every state.                                      *)
THEOREM Invariance == Spec => []Inv
<1>1. Init => Inv
  BY InitInv
<1>2. Inv /\ [Next]_vars => Inv'
  BY NextInv
<1> QED
  BY <1>1, <1>2, PTL DEF Spec

(* Type correctness.  In particular the LRU never exceeds its capacity and  *)
(* its order lists each of its entries once, whatever Get, Put and the      *)
(* expiry goroutine do.                                                     *)
THEOREM TypeCorrect == Spec => []TypeOK
<1>1. Inv => TypeOK
  BY DEF Inv
<1> QED
  BY <1>1, Invariance, PTL

(* auth never lets a request through with another key's row, however many   *)
(* keys share their last four characters and however requests, revocations, *)
(* Redis writes and evictions interleave.                                   *)
THEOREM OwnRowOnly == Spec => []NoCrossTenant
<1>1. Inv => NoCrossTenant
  BY DEF Inv, RequestsSound, Holds, NoCrossTenant
<1> QED
  BY <1>1, Invariance, PTL

(* A revoked key is refused once the times to live of Redis and the LRU,    *)
(* the lookup's deadline and the time of a verification have passed.        *)
THEOREM RevocationBounded == Spec => []RevocationTakesEffect
<1>1. Inv => RevocationTakesEffect
  BY DEF Inv, RequestsSound, Holds, RevocationTakesEffect
<1> QED
  BY <1>1, Invariance, PTL

-----------------------------------------------------------------------------
(* What a step that answers 401 has seen.                                   *)
LEMMA RefusalStep ==
    ASSUME Inv, [Next]_vars, NEW r \in Requests,
           pc'[r] = "unauthorized", pc[r] # "unauthorized"
    PROVE  \/ key[r] \notin active
           \/ \E k \in Minted \ {key[r]} : Slot[k] = Slot[key[r]]
<1>0. pc' # pc
  OBVIOUS
<1>1. \E q \in Requests : Auth(q)
  <2>1. ASSUME NEW k \in Keys, Expire(k) PROVE FALSE
    BY <1>0, <2>1 DEF Expire, reqVars
  <2>2. CASE Cloud
    BY <1>0, <2>2 DEF Cloud, Mint, Revoke, Warm, Unwarm, reqVars
  <2>3. CASE Tick
    BY <1>0, <2>3 DEF Tick, reqVars
  <2>4. CASE UNCHANGED vars
    BY <1>0, <2>4 DEF vars, reqVars
  <2> QED
    BY <2>1, <2>2, <2>3, <2>4 DEF Next
<1>2. PICK q \in Requests : Auth(q)
  BY <1>1
<1>3. pc \in [Requests -> {"idle", "cache", "redis", "rpc", "verify"} \cup Answers]
  BY DEF Inv, TypeOK
<1>4. q = r /\ pc'[r] = "unauthorized"
  BY <1>2, <1>3 DEF Auth, Arrive, Get, RedisHit, RedisMiss, RpcAnswers, RpcFails, Verify, Leave,
                    Answer, Resolved
<1>5. \/ Get(r) /\ key[r] \in Malformed
      \/ RpcAnswers(r) /\ SentRows(Slot[key[r]]) = {}
      \/ Verify(r) /\ ArgonVerify(key[r], row[r]) = "mismatch"
  BY <1>2, <1>3, <1>4 DEF Auth, Arrive, Get, RedisHit, RedisMiss, RpcAnswers, RpcFails, Verify,
                          Leave, Answer, Resolved
<1>6. CASE key[r] \in Malformed
  BY <1>6, Constants DEF Inv, TypeOK
<1>7. CASE SentRows(Slot[key[r]]) = {}
  BY <1>7 DEF SentRows, ActiveRows
<1>8. CASE Verify(r) /\ ArgonVerify(key[r], row[r]) = "mismatch"
  <2>1. row[r] \in Keys /\ row[r] # key[r]
    BY <1>8 DEF Verify, ArgonVerify, Inv, RequestsSound, Holds, Rows
  <2>2. row[r] \in Minted /\ Slot[row[r]] = Slot[key[r]]
    BY <1>8, <2>1 DEF Verify, Inv, RequestsSound, Holds
  <2> QED
    BY <2>1, <2>2
<1> QED
  BY <1>5, <1>6, <1>7, <1>8

(* A customer whose key is active and does not share its last four          *)
(* characters with another minted key is never answered 401, whatever Redis *)
(* and the cloud do.                                                        *)
THEOREM RefusalsJustified == Spec => RefusalJustified
<1> DEFINE A == \A r \in Requests :
                   pc'[r] = "unauthorized" /\ pc[r] # "unauthorized" =>
                      \/ key[r] \notin active
                      \/ \E k \in Minted \ {key[r]} : Slot[k] = Slot[key[r]]
<1>1. Inv /\ [Next]_vars => A
  BY RefusalStep
<1>2. Inv /\ [Next]_vars => [A]_vars
  BY <1>1
<1> QED
  BY <1>2, Invariance, PTL DEF Spec, RefusalJustified

-----------------------------------------------------------------------------
(* KeyAuth implements KeyGate.                                              *)

States == {"idle", "cache", "redis", "rpc", "verify"} \cup Answers

(* What the gate shows of a step that moves one request.                    *)
LEMMA Shown ==
    ASSUME Inv, NEW r \in Requests, NEW p \in States, NEW e,
           pc' = [pc EXCEPT ![r] = p], row' = [row EXCEPT ![r] = e]
    PROVE  /\ AnswerSoFar' =
                [AnswerSoFar EXCEPT ![r] = IF p \in InAuth THEN "asked" ELSE p]
           /\ ServedAs' = [ServedAs EXCEPT ![r] = IF p = "accepted" THEN e ELSE None]
<1>1. pc \in [Requests -> States] /\ row \in [Requests -> Rows \cup {None}]
  BY DEF Inv, TypeOK, States
<1>2. \A q \in Requests : /\ pc'[q] = IF q = r THEN p ELSE pc[q]
                          /\ row'[q] = IF q = r THEN e ELSE row[q]
  BY <1>1
<1> QED
  BY <1>2 DEF AnswerSoFar, ServedAs

(* What it shows of a request that has not been let through.                *)
LEMMA NotServed ==
    ASSUME NEW r \in Requests, pc[r] # "accepted"
    PROVE  [ServedAs EXCEPT ![r] = None] = ServedAs
  BY DEF ServedAs

(* A step between two places inside auth is not seen.                       *)
LEMMA MoveUnseen ==
    ASSUME Inv, NEW r \in Requests, NEW p \in States, NEW e,
           pc' = [pc EXCEPT ![r] = p], row' = [row EXCEPT ![r] = e],
           pc[r] \in InAuth, p \in InAuth,
           UNCHANGED <<now, active, revokedAt, key>>
    PROVE  UNCHANGED Gate!gate
<1>1. pc[r] # "accepted" /\ p # "accepted"
  BY DEF InAuth
<1>2. AnswerSoFar' = [AnswerSoFar EXCEPT ![r] = "asked"] /\ ServedAs' = ServedAs
  BY <1>1, Shown, NotServed
<1>3. AnswerSoFar' = AnswerSoFar
  BY <1>2 DEF AnswerSoFar
<1> QED
  BY <1>2, <1>3 DEF Gate!gate

(* An answer other than accepted is the gate's reply.                       *)
LEMMA ReplySeen ==
    ASSUME Inv, NEW r \in Requests, NEW p \in Answers \ {"accepted"},
           Answer(r, p), UNCHANGED <<now, active, revokedAt, row>>,
           pc[r] \in InAuth
    PROVE  Gate!Reply(r, p) /\ UNCHANGED ServedAs
<1>1. row' = [row EXCEPT ![r] = row[r]] /\ p \in States /\ pc[r] # "accepted"
  BY DEF Inv, TypeOK, States, Answers, InAuth
<1>2. /\ AnswerSoFar' = [AnswerSoFar EXCEPT ![r] = p]
      /\ ServedAs' = [ServedAs EXCEPT ![r] = None]
  BY <1>1, Shown DEF Answer, Answers, InAuth
<1>3. AnswerSoFar[r] = "asked"
  BY DEF AnswerSoFar
<1> QED
  BY <1>1, <1>2, <1>3, NotServed DEF Gate!Reply, Answer

(* A request that is let through is accepted by the gate, since the next    *)
(* state satisfies the invariant.                                           *)
LEMMA AcceptSeen ==
    ASSUME Inv, Inv', NEW r \in Requests, NEW e, Answer(r, "accepted"),
           row' = [row EXCEPT ![r] = e], UNCHANGED <<now, active, revokedAt>>,
           pc[r] \in InAuth
    PROVE  Gate!Accept(r)
<1>1. /\ AnswerSoFar' = [AnswerSoFar EXCEPT ![r] = "accepted"]
      /\ ServedAs' = [ServedAs EXCEPT ![r] = e]
  BY Shown DEF Answer, Answers, InAuth, States
<1>2. AnswerSoFar[r] = "asked"
  BY DEF AnswerSoFar
<1>3. pc'[r] = "accepted" /\ row'[r] = e /\ key'[r] = key[r]
  BY DEF Inv, TypeOK, Answer
<1>4. Holds(pc[r], key[r], row[r], deadline[r])'
  BY DEF Inv, RequestsSound
<1>5. /\ e = key[r] /\ key[r] \in Minted
      /\ key[r] \in active \/ now <= revokedAt[key[r]] + RevocationLag
  BY <1>3, <1>4 DEF Holds, Minted
<1> QED
  BY <1>1, <1>2, <1>5 DEF Gate!Accept, Gate!Reply, Gate!Minted, Minted, Answer

(* An answer 401 is a refusal, by what RefusalStep says of it.              *)
LEMMA RefuseSeen ==
    ASSUME Inv, [Next]_vars, NEW r \in Requests, Answer(r, "unauthorized"),
           UNCHANGED <<now, active, revokedAt, row>>, pc[r] \in InAuth
    PROVE  Gate!Refuse(r)
<1>1. pc'[r] = "unauthorized" /\ pc[r] # "unauthorized"
  BY DEF Inv, TypeOK, Answer, Answers, InAuth
<1>2. \/ key[r] \notin active
      \/ \E k \in Minted \ {key[r]} : Slot[k] = Slot[key[r]]
  BY <1>1, RefusalStep
<1>3. Gate!Reply(r, "unauthorized") /\ UNCHANGED ServedAs
  BY ReplySeen DEF Answers, InAuth
<1> QED
  BY <1>2, <1>3 DEF Gate!Refuse, Gate!Minted, Minted

(* Each step of a request is a step of the gate, or is not seen.            *)
LEMMA AuthSeen ==
    ASSUME Inv, Inv', [Next]_vars, NEW r \in Requests, Auth(r)
    PROVE  Gate!Next \/ UNCHANGED Gate!gate
<1>0. row = [row EXCEPT ![r] = row[r]]
  BY DEF Inv, TypeOK
<1>1. Holds(pc[r], key[r], row[r], deadline[r])
  BY DEF Inv, RequestsSound
<1>2. ASSUME NEW k \in Presented, Arrive(r, k) PROVE Gate!Next
  <2>1. pc[r] = "idle" /\ pc' = [pc EXCEPT ![r] = "cache"] /\ row' = [row EXCEPT ![r] = row[r]]
    BY <1>0, <1>2 DEF Arrive
  <2>2. AnswerSoFar' = [AnswerSoFar EXCEPT ![r] = "asked"] /\ ServedAs' = ServedAs
    BY <2>1, Shown, NotServed DEF States, Answers, InAuth
  <2>3. AnswerSoFar[r] = "idle"
    BY <2>1 DEF AnswerSoFar, InAuth
  <2>4. Gate!Ask(r, k)
    BY <1>2, <2>2, <2>3 DEF Gate!Ask, Arrive, cloudVars
  <2> QED
    BY <2>4 DEF Gate!Next, Presented
<1>3. CASE Get(r)
  <2>1. UNCHANGED <<now, active, revokedAt>> /\ pc[r] = "cache" /\ pc[r] \in InAuth
    BY <1>3 DEF Get, cloudVars, InAuth
  <2>2. CASE Answer(r, "accepted") /\ row' = [row EXCEPT ![r] = cache[CacheKey(key[r])].row]
    BY <2>1, <2>2, AcceptSeen DEF Gate!Next
  <2>3. CASE Answer(r, "unauthorized") /\ UNCHANGED row
    BY <2>1, <2>3, RefuseSeen DEF Gate!Next
  <2>4. CASE pc' = [pc EXCEPT ![r] = "redis"] /\ UNCHANGED <<key, row>>
    <3>1. "redis" \in States /\ "redis" \in InAuth
      BY DEF States, InAuth
    <3> QED
      BY <1>0, <2>1, <2>4, <3>1, MoveUnseen
  <2> QED
    BY <1>3, <2>2, <2>3, <2>4 DEF Get
<1>4. ASSUME NEW e, Resolved(r, e), pc[r] \in {"redis", "rpc"}, UNCHANGED <<now, active, revokedAt>>
      PROVE  UNCHANGED Gate!gate
  <2>1. "verify" \in States /\ "verify" \in InAuth
        /\ pc[r] \in InAuth
    BY <1>4 DEF States, Answers, InAuth
  <2> QED
    BY <1>4, <2>1, MoveUnseen DEF Resolved
<1>5. CASE RedisHit(r)
  BY <1>4, <1>5 DEF RedisHit, cloudVars
<1>6. CASE RedisMiss(r)
  <2>1. "rpc" \in States /\ "rpc" \in InAuth /\ pc[r] \in InAuth
    BY <1>6 DEF States, Answers, InAuth, RedisMiss
  <2> QED
    BY <1>0, <1>6, <2>1, MoveUnseen DEF RedisMiss, cloudVars
<1>7. CASE RpcAnswers(r)
  <2>1. UNCHANGED <<now, active, revokedAt>> /\ pc[r] = "rpc" /\ pc[r] \in InAuth
    BY <1>7 DEF RpcAnswers, cloudVars, InAuth
  <2>2. CASE \E e \in SentRows(Slot[key[r]]) : Resolved(r, e)
    BY <2>1, <2>2, <1>4
  <2>3. CASE Answer(r, "unauthorized") /\ UNCHANGED row
    BY <2>1, <2>3, RefuseSeen DEF Gate!Next
  <2> QED
    BY <1>7, <2>2, <2>3 DEF RpcAnswers
<1>8. CASE RpcFails(r)
  <2>1. /\ Answer(r, "unavailable") /\ UNCHANGED <<now, active, revokedAt, row>>
        /\ pc[r] = "rpc" /\ pc[r] \in InAuth
        /\ "unavailable" \in Answers \ {"accepted"}
    BY <1>8 DEF RpcFails, cloudVars, Answers, InAuth
  <2>2. Gate!Reply(r, "unavailable") /\ UNCHANGED ServedAs
    BY <2>1, ReplySeen
  <2>3. key[r] \in Keys
    BY <1>1, <2>1 DEF Holds
  <2> QED
    BY <2>2, <2>3 DEF Gate!Fail, Gate!Next
<1>9. CASE Verify(r)
  <2>1. /\ UNCHANGED <<now, active, revokedAt, row>> /\ pc[r] = "verify"
        /\ pc[r] \in InAuth
    BY <1>9 DEF Verify, cloudVars, InAuth
  <2>2. CASE Answer(r, "error")
    <3>1. Gate!Reply(r, "error") /\ UNCHANGED ServedAs
      BY <2>1, <2>2, ReplySeen DEF Answers, InAuth
    <3>2. key[r] \in Keys
      BY <1>1, <2>1 DEF Holds
    <3> QED
      BY <3>1, <3>2 DEF Gate!Fail, Gate!Next
  <2>3. CASE Answer(r, "unauthorized")
    BY <2>1, <2>3, RefuseSeen DEF Gate!Next
  <2>4. CASE Answer(r, "accepted")
    BY <1>0, <2>1, <2>4, AcceptSeen DEF Gate!Next
  <2> QED
    BY <1>9, <2>2, <2>3, <2>4 DEF Verify
<1>10. CASE Leave(r)
  <2>1. AnswerSoFar' = [AnswerSoFar EXCEPT ![r] = "idle"] /\ ServedAs' = [ServedAs EXCEPT ![r] = None]
    BY <1>10, Shown DEF Leave, States, InAuth
  <2>2. AnswerSoFar[r] \notin {"idle", "asked"}
    BY <1>10 DEF Leave, AnswerSoFar, Answers, InAuth
  <2>3. Gate!Leave(r)
    BY <1>10, <2>1, <2>2 DEF Leave, cloudVars, Gate!Leave
  <2> QED
    BY <2>3 DEF Gate!Next
<1> QED
  BY <1>2, <1>3, <1>5, <1>6, <1>7, <1>8, <1>9, <1>10 DEF Auth

(* Every step is a step of the gate, or is not seen.                        *)
LEMMA StepSeen ==
    ASSUME Inv, Inv', [Next]_vars
    PROVE  [Gate!Next]_Gate!gate
<1>1. ASSUME UNCHANGED <<pc, row>> PROVE UNCHANGED <<AnswerSoFar, ServedAs>>
  BY <1>1 DEF AnswerSoFar, ServedAs
<1>2. ASSUME UNCHANGED <<now, active, revokedAt, pc, key, row>> PROVE UNCHANGED Gate!gate
  BY <1>1, <1>2 DEF Gate!gate
<1>3. ASSUME NEW r \in Requests, Auth(r) PROVE [Gate!Next]_Gate!gate
  BY <1>3, AuthSeen
<1>4. ASSUME NEW k \in Keys, Expire(k) PROVE UNCHANGED Gate!gate
  BY <1>2, <1>4 DEF Expire, cloudVars, reqVars
<1>5. CASE Cloud
  <2>1. ASSUME NEW k \in Keys, Mint(k) PROVE Gate!Next
    <3>1. Gate!Mint(k)
      BY <1>1, <2>1 DEF Mint, Gate!Mint, Gate!Minted, reqVars
    <3> QED
      BY <3>1 DEF Gate!Next
  <2>2. ASSUME NEW k \in Keys, Revoke(k) PROVE Gate!Next
    <3>1. Gate!Revoke(k)
      BY <1>1, <2>2 DEF Revoke, Gate!Revoke, reqVars
    <3> QED
      BY <3>1 DEF Gate!Next
  <2>3. ASSUME NEW s \in Slots, Unwarm(s) \/ \E e \in Rows : Warm(s, e)
        PROVE  UNCHANGED Gate!gate
    BY <1>2, <2>3 DEF Unwarm, Warm, cloudVars, reqVars
  <2> QED
    BY <1>5, <2>1, <2>2, <2>3 DEF Cloud
<1>6. CASE Tick
  <2>1. Gate!Tick
    BY <1>1, <1>6 DEF Tick, Gate!Tick, cloudVars, reqVars
  <2> QED
    BY <2>1 DEF Gate!Next
<1>7. CASE UNCHANGED vars
  BY <1>2, <1>7 DEF vars, cloudVars, reqVars
<1> QED
  BY <1>3, <1>4, <1>5, <1>6, <1>7 DEF Next

(* auth with its LRU, Redis, the RPC and their deadlines implements the     *)
(* gate, which has none of them: for any keys, slots, requests, sizes and   *)
(* times to live, and whatever Redis and the cloud do, each request gets    *)
(* one final answer, and one that the gate allows.                          *)
THEOREM GateImplemented == Spec => KeepsGate
<1>1. Init => Gate!Init
  BY DEF Init, Gate!Init, AnswerSoFar, ServedAs, InAuth
<1>2. Inv /\ Inv' /\ [Next]_vars => [Gate!Next]_Gate!gate
  BY StepSeen
<1> QED
  BY <1>1, <1>2, Invariance, PTL DEF Spec, KeepsGate, Gate!Spec
=============================================================================
