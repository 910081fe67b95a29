--------------------------- MODULE GatewayProofs ----------------------------
(***************************************************************************)
(* Proofs about Boot and Gateway, for any keys, entries of                 *)
(* VETO_STATIC_KEYS, rows in the cloud and timeouts, and any finite number *)
(* of concurrent requests.                                                 *)
(***************************************************************************)
EXTENDS Gateway, FiniteSetTheorems, SequenceTheorems, TLAPS

-----------------------------------------------------------------------------
(* The start: the inductive invariant.                                      *)

EnvOK ==
    /\ env \in [keys : UNION {[1..n -> Items] : n \in 0..MaxItems},
                redis : {"unset", "malformed", "set"}, cloud : BOOLEAN]
    /\ item <= Len(env.keys) + 1

(* The table holds what was written so far, as long as nothing was wrong,   *)
(* and nothing else.                                                        *)
Parsed ==
    /\ boot # "exited" => \A i \in 1..(item - 1) :
          ~Blank(env.keys[i]) =>
             /\ env.keys[i].key \in DOMAIN table
             /\ table[env.keys[i].key] = [org |-> env.keys[i].org, tier |-> env.keys[i].tier]
    /\ StaticMode => Written # {}
    /\ Unset => ~StaticMode

(* What is connected at each point.                                         *)
Connected ==
    /\ boot \in {"parse", "lookup"} => ~lookup /\ ~metering /\ ~orgRL
    /\ boot = "lookup" => Unset
    /\ boot \in {"metering", "orgRL", "serving"} =>
          /\ Unset \/ (StaticMode /\ item > Len(env.keys))
          /\ lookup <=> Unset
    /\ boot = "metering" => ~metering /\ ~orgRL
    /\ boot = "orgRL" => metering /\ ~orgRL /\ env.redis # "unset"
    /\ boot = "serving" => (metering <=> env.redis # "unset") /\ (orgRL <=> metering)

BootInv == EnvOK /\ BootTypeOK /\ Parsed /\ Connected

LEMMA EnvFacts ==
    ASSUME EnvOK
    PROVE  /\ env.keys \in Seq(Items) /\ Len(env.keys) \in 0..MaxItems
           /\ DOMAIN env.keys = 1..Len(env.keys)
           /\ \A i \in 1..Len(env.keys) : env.keys[i] \in Items
           /\ env.redis \in {"unset", "malformed", "set"} /\ env.cloud \in BOOLEAN
           /\ MaxItems \in Nat
<1>1. MaxItems \in Nat
  BY ItemsAssumption
<1>2. PICK n \in 0..MaxItems : env.keys \in [1..n -> Items]
  BY DEF EnvOK
<1>3. n \in Nat /\ env.keys \in Seq(Items) /\ Len(env.keys) = n
  BY <1>1, <1>2
<1> QED
  BY <1>1, <1>2, <1>3 DEF EnvOK

LEMMA UnsetWritten == ASSUME EnvOK, Unset PROVE Written = {}
<1>1. DOMAIN env.keys = 1..Len(env.keys) /\ Len(env.keys) \in Nat
  BY EnvFacts
<1>2. \A i \in DOMAIN env.keys : Blank(env.keys[i])
  BY <1>1 DEF Unset
<1> QED
  BY <1>2 DEF Written

LEMMA BootInitInv == ASSUME BootInit PROVE BootInv
<1> USE DEF BootInit
<1>1. EnvOK
  <2>1. env \in [keys : UNION {[1..n -> Items] : n \in 0..MaxItems},
                 redis : {"unset", "malformed", "set"}, cloud : BOOLEAN]
    OBVIOUS
  <2>2. PICK n \in 0..MaxItems : env.keys \in [1..n -> Items]
    BY <2>1
  <2>3. Len(env.keys) \in Nat
    BY <2>2, ItemsAssumption
  <2> QED
    BY <2>1, <2>3 DEF EnvOK
<1>2. DOMAIN table = {}
  OBVIOUS
<1>3. BootTypeOK
  <2>1. item \in 1..(MaxItems + 1)
    BY ItemsAssumption
  <2>2. {lookup, metering, orgRL} \subseteq BOOLEAN
    OBVIOUS
  <2> QED
    BY <1>2, <2>1, <2>2 DEF BootTypeOK
<1>4. Parsed
  BY <1>2 DEF Parsed, StaticMode
<1>5. Connected
  BY DEF Connected
<1> QED
  BY <1>1, <1>3, <1>4, <1>5 DEF BootInv

LEMMA ParseEntryInv == ASSUME BootInv, ParseEntry PROVE BootInv'
<1> DEFINE e == env.keys[item]
<1>1. /\ boot = "parse" /\ ~Unset /\ item <= Len(env.keys) /\ item' = item + 1
      /\ UNCHANGED <<env, lookup, metering, orgRL>>
  BY DEF ParseEntry
<1>2. /\ Len(env.keys) \in 0..MaxItems /\ MaxItems \in Nat /\ item \in Nat /\ item >= 1
      /\ e \in Items /\ DOMAIN env.keys = 1..Len(env.keys) /\ item \in DOMAIN env.keys
  BY <1>1, EnvFacts DEF BootInv, BootTypeOK
<1>3. EnvOK' /\ item' \in 1..(MaxItems + 1)
  BY <1>1, <1>2 DEF BootInv, EnvOK
<1>4. /\ ~lookup /\ ~metering /\ ~orgRL
  BY <1>1 DEF BootInv, Connected
<1>5. /\ DOMAIN table \subseteq Keys /\ \A k \in DOMAIN table : table[k] \in Tags
      /\ StaticMode => Written # {}
      /\ \A i \in 1..(item - 1) : ~Blank(env.keys[i]) =>
             /\ env.keys[i].key \in DOMAIN table
             /\ table[env.keys[i].key] = [org |-> env.keys[i].org, tier |-> env.keys[i].tier]
  BY <1>1 DEF BootInv, BootTypeOK, Parsed
<1>6. 1..(item' - 1) = 1..(item - 1) \cup {item}
  BY <1>1, <1>2
<1>7. Unset' = Unset /\ Written' = Written
  BY <1>1 DEF Unset, Written, Blank
<1>8. CASE Blank(e) /\ UNCHANGED <<boot, table>>
  <2>1. BootTypeOK'
    BY <1>1, <1>3, <1>8 DEF BootInv, BootTypeOK, Tags
  <2>2. Parsed'
    BY <1>1, <1>5, <1>6, <1>7, <1>8 DEF Parsed, StaticMode, Blank
  <2>3. Connected'
    BY <1>1, <1>4, <1>8 DEF Connected
  <2> QED
    BY <1>3, <2>1, <2>2, <2>3 DEF BootInv
<1>9. CASE boot' = "exited" /\ UNCHANGED table
  <2>1. BootTypeOK'
    BY <1>1, <1>3, <1>9 DEF BootInv, BootTypeOK, Tags
  <2>2. Parsed'
    BY <1>1, <1>5, <1>7, <1>9 DEF Parsed, StaticMode
  <2>3. Connected'
    BY <1>9 DEF Connected
  <2> QED
    BY <1>3, <2>1, <2>2, <2>3 DEF BootInv
<1>10. CASE ~Blank(e) /\ ~Rejected(e) /\ table' = With(e) /\ UNCHANGED boot
  <2>1. e.key \in Keys /\ e.key \notin DOMAIN table
    BY <1>10 DEF Rejected
  <2>2. /\ DOMAIN table' = DOMAIN table \cup {e.key}
        /\ table'[e.key] = [org |-> e.org, tier |-> e.tier]
        /\ \A k \in DOMAIN table : table'[k] = table[k]
    BY <1>10, <2>1 DEF With
  <2>3. [org |-> e.org, tier |-> e.tier] \in Tags
    BY <1>2 DEF Tags
  <2>4. BootTypeOK'
    BY <1>1, <1>3, <1>5, <1>10, <2>1, <2>2, <2>3 DEF BootInv, BootTypeOK, Tags
  <2>5. Written # {}
    BY <1>2, <1>10 DEF Written
  <2>6. \A i \in 1..(item' - 1) : ~Blank(env.keys[i]) =>
           /\ env.keys[i].key \in DOMAIN table'
           /\ table'[env.keys[i].key] = [org |-> env.keys[i].org, tier |-> env.keys[i].tier]
    BY <1>5, <1>6, <2>2
  <2>7. Parsed'
    BY <1>1, <1>7, <2>5, <2>6 DEF Parsed, Blank
  <2>8. Connected'
    BY <1>1, <1>4, <1>10 DEF Connected
  <2> QED
    BY <1>3, <2>4, <2>7, <2>8 DEF BootInv
<1> QED
  BY <1>8, <1>9, <1>10 DEF ParseEntry

LEMMA ParseDoneInv == ASSUME BootInv, ParseDone PROVE BootInv'
<1>1. /\ boot = "parse" /\ ~Unset /\ item > Len(env.keys)
      /\ boot' = IF StaticMode THEN "metering" ELSE "exited"
      /\ UNCHANGED <<env, item, table, lookup, metering, orgRL>>
  BY DEF ParseDone
<1>2. ~lookup /\ ~metering /\ ~orgRL
  BY <1>1 DEF BootInv, Connected
<1>3. Unset' = Unset /\ Written' = Written /\ StaticMode' = StaticMode
  BY <1>1 DEF Unset, Written, Blank, StaticMode
<1>4. EnvOK'
  BY <1>1 DEF BootInv, EnvOK
<1>5. BootTypeOK'
  BY <1>1 DEF BootInv, BootTypeOK, Tags
<1>6. Parsed'
  BY <1>1, <1>3 DEF BootInv, Parsed, Blank
<1>7. Connected'
  BY <1>1, <1>2, <1>3 DEF Connected
<1> QED
  BY <1>4, <1>5, <1>6, <1>7 DEF BootInv

LEMMA ParseNothingInv == ASSUME BootInv, ParseNothing PROVE BootInv'
<1>1. /\ boot = "parse" /\ Unset /\ boot' = "lookup"
      /\ UNCHANGED <<env, item, table, lookup, metering, orgRL>>
  BY DEF ParseNothing
<1>2. ~lookup /\ ~metering /\ ~orgRL
  BY <1>1 DEF BootInv, Connected
<1>3. Unset' = Unset /\ Written' = Written /\ StaticMode' = StaticMode
  BY <1>1 DEF Unset, Written, Blank, StaticMode
<1>4. EnvOK'
  BY <1>1 DEF BootInv, EnvOK
<1>5. BootTypeOK'
  BY <1>1 DEF BootInv, BootTypeOK, Tags
<1>6. Parsed'
  BY <1>1, <1>3 DEF BootInv, Parsed, Blank
<1>7. Connected'
  BY <1>1, <1>2, <1>3 DEF Connected
<1> QED
  BY <1>4, <1>5, <1>6, <1>7 DEF BootInv

(* The three constructors: each either connects and hands over to the next, *)
(* or ends the process.                                                     *)
LEMMA ConnectInv ==
    ASSUME BootInv, NewLookup \/ NewMetering \/ NewOrgRateLimiter
    PROVE  BootInv'
<1>1. /\ boot \in {"lookup", "metering", "orgRL"} /\ boot' # "parse"
      /\ UNCHANGED <<env, item, table>>
  BY DEF NewLookup, NewMetering, NewOrgRateLimiter
<1>2. Unset' = Unset /\ Written' = Written /\ StaticMode' = StaticMode
  BY <1>1 DEF Unset, Written, Blank, StaticMode
<1>3. EnvOK'
  BY <1>1 DEF BootInv, EnvOK
<1>4. Parsed'
  BY <1>1, <1>2 DEF BootInv, Parsed, Blank
<1>5. /\ boot' \in {"metering", "orgRL", "serving", "exited"}
      /\ {lookup', metering', orgRL'} \subseteq BOOLEAN
  BY DEF NewLookup, NewMetering, NewOrgRateLimiter, BootInv, BootTypeOK
<1>6. BootTypeOK'
  BY <1>1, <1>5 DEF BootInv, BootTypeOK, Tags
<1>7. ASSUME NewLookup PROVE Connected'
  <2>1. boot = "lookup" /\ ~lookup /\ ~metering /\ ~orgRL /\ Unset
    BY <1>7 DEF NewLookup, BootInv, Connected
  <2> QED
    BY <1>2, <1>7, <2>1 DEF NewLookup, Connected
<1>8. ASSUME NewMetering PROVE Connected'
  <2>1. /\ boot = "metering" /\ ~metering /\ ~orgRL /\ (lookup <=> Unset)
        /\ Unset \/ (StaticMode /\ item > Len(env.keys))
    BY <1>8 DEF NewMetering, BootInv, Connected
  <2> QED
    BY <1>1, <1>2, <1>8, <2>1 DEF NewMetering, Connected, CanConnect
<1>9. ASSUME NewOrgRateLimiter PROVE Connected'
  <2>1. /\ boot = "orgRL" /\ metering /\ ~orgRL /\ (lookup <=> Unset)
        /\ env.redis # "unset"
        /\ Unset \/ (StaticMode /\ item > Len(env.keys))
    BY <1>9 DEF NewOrgRateLimiter, BootInv, Connected
  <2> QED
    BY <1>1, <1>2, <1>9, <2>1 DEF NewOrgRateLimiter, Connected
<1> QED
  BY <1>3, <1>4, <1>6, <1>7, <1>8, <1>9 DEF BootInv

LEMMA BootStepInv == ASSUME BootInv, BootStep PROVE BootInv'
  BY ParseEntryInv, ParseDoneInv, ParseNothingInv, ConnectInv DEF BootStep

LEMMA BootUnchanged == ASSUME BootInv, UNCHANGED bootVars PROVE BootInv'
<1>1. UNCHANGED <<env, boot, item, table, lookup, metering, orgRL>>
  BY DEF bootVars
<1>2. Unset' = Unset /\ Written' = Written /\ StaticMode' = StaticMode
  BY <1>1 DEF Unset, Written, Blank, StaticMode
<1>3. EnvOK' /\ BootTypeOK'
  BY <1>1 DEF BootInv, EnvOK, BootTypeOK, Tags
<1>4. Parsed' /\ Connected'
  BY <1>1, <1>2 DEF BootInv, Parsed, Blank, Connected
<1> QED
  BY <1>3, <1>4 DEF BootInv

LEMMA BootInvServes == ASSUME BootInv PROVE NothingMissingInSilence
<1> SUFFICES ASSUME boot = "serving" PROVE NothingMissingInSilence
  BY DEF NothingMissingInSilence
<1>1. /\ Unset \/ StaticMode
      /\ lookup <=> Unset
      /\ (metering <=> env.redis # "unset") /\ (orgRL <=> metering)
  BY DEF BootInv, Connected
<1>2. (StaticMode => Written # {}) /\ (Unset => ~StaticMode)
  BY DEF BootInv, Parsed
<1>3. Unset => Written = {}
  BY UnsetWritten DEF BootInv
<1> QED
  BY <1>1, <1>2, <1>3 DEF NothingMissingInSilence

(* What was written is in the table by the time the gateway serves.         *)
LEMMA WrittenServed ==
    ASSUME BootInv, boot = "serving", NEW e \in Written
    PROVE  /\ StaticMode /\ e.key \in DOMAIN table
           /\ table[e.key] = [org |-> e.org, tier |-> e.tier]
<1>1. PICK i \in DOMAIN env.keys : ~Blank(env.keys[i]) /\ e = env.keys[i]
  BY DEF Written
<1>2. DOMAIN env.keys = 1..Len(env.keys) /\ Len(env.keys) \in Nat
  BY EnvFacts DEF BootInv
<1>3. ~Unset
  BY UnsetWritten DEF BootInv
<1>4. StaticMode /\ item > Len(env.keys) /\ item \in Nat
  BY <1>3, ItemsAssumption DEF BootInv, Connected, BootTypeOK
<1>5. i \in 1..(item - 1)
  BY <1>1, <1>2, <1>4
<1> QED
  BY <1>1, <1>4, <1>5 DEF BootInv, Parsed

-----------------------------------------------------------------------------
(* Requests: the inductive invariant.                                       *)

Statuses == {200, 400, 401, 429, 500, 503}

Entries == {NoEntry} \cup Tags \cup {Rows[k] : k \in DOMAIN Rows}

RequestStates ==
    [stage : {"idle", "auth", "lookup", "count", "body", "scan", "done"},
     key : Keys \cup {Malformed}, empty : BOOLEAN, gone : BOOLEAN,
     age : 0..RequestTimeout, wait : Nat, cut : BOOLEAN, entry : Entries, left : Nat,
     uncounted : {"no", "context", "redis"}, admitted : BOOLEAN,
     status : {0} \cup Statuses, events : Seq([org : Orgs, status : Statuses])]

(* The request carries the entry of the key it presented.                   *)
Owned(q) ==
    IF StaticMode THEN q.key \in DOMAIN table /\ q.entry = table[q.key]
    ELSE q.key \in DOMAIN Rows /\ q.entry = Rows[q.key]

(* What each stage has established.                                         *)
Placed(q) ==
    /\ q.stage = "idle" => q = Fresh
    /\ q.stage \in {"idle", "auth", "lookup"} => q.entry = NoEntry
    /\ q.stage \in {"count", "body", "scan"} => Owned(q)
    /\ q.stage = "lookup" => ~StaticMode
    /\ q.stage \in {"body", "scan"} => q.admitted
    /\ q.stage = "done" <=> q.status # 0
    /\ q.entry = NoEntry \/ Owned(q)
    /\ q.admitted => q.stage \in {"body", "scan", "done"} /\ Owned(q)
    /\ StaticMode /\ q.status \in {401, 503} => q.key \notin DOMAIN table

(* How old a request can be where it is: what lookup and counter may take   *)
(* adds up.  So a call that began under an ended context began after the    *)
(* client had hung up.                                                      *)
Timed(q) ==
    /\ q.stage = "auth" => q.age = 0
    /\ q.stage = "lookup" => q.age <= q.wait /\ q.wait <= LookupTimeout + RedisTimeout
    /\ q.stage = "count" => /\ q.age <= (LookupTimeout + RedisTimeout) + q.wait
                            /\ q.wait <= OpTimeout + RedisTimeout
    /\ q.cut => q.gone

(* Before its body is read, a request whose context ends had no body, so it *)
(* never gets a verdict.                                                    *)
Hung(q) ==
    /\ q.gone => q.stage = "scan" \/ q.empty
    /\ q.stage = "scan" => ~q.empty
    /\ q.status = 200 => ~q.empty
    /\ q.uncounted = "context" => q.empty

Emitted(q) ==
    q.events = IF metering /\ q.admitted /\ q.stage = "done"
               THEN <<[org |-> q.entry.org, status |-> q.status]>> ELSE <<>>

Good(q) == q \in RequestStates /\ Placed(q) /\ Timed(q) /\ Hung(q) /\ Emitted(q)

(* Requests that have been to the counter, and those it let through.        *)
Past(o) == {r \in Requests : req[r].entry.org = o /\ req[r].stage \in {"body", "scan", "done"}}

Passed(o) == {r \in Requests : /\ req[r].entry.org = o /\ req[r].admitted
                               /\ req[r].uncounted = "no"}

PassedOn(o, t) == {r \in Passed(o) : req[r].entry.tier = t}

Counted ==
    /\ counter \in [Orgs -> Nat]
    /\ \A o \in Orgs : counter[o] <= Attempts * Cardinality(Past(o))
    /\ orgRL => \A o \in Orgs :
          /\ Cardinality(Passed(o)) <= counter[o]
          /\ \A t \in DOMAIN Tiers : LimitForTier(t) > 0 =>
                Cardinality(PassedOn(o, t)) <= LimitForTier(t)

(* Nobody is served before the boot is over.                                *)
Unserved == boot # "serving" => \A r \in Requests : req[r] = Fresh

AllGood == req \in [Requests -> RequestStates] /\ \A r \in Requests : Good(req[r])

Inv == BootInv /\ AllGood /\ Unserved /\ Counted

-----------------------------------------------------------------------------
(* What the operators on requests do.                                       *)

LEMMA FreshGood == Good(Fresh)
<1>1. Fresh \in RequestStates
  <2>1. 0 \in 0..RequestTimeout
    BY TimesAssumption
  <2>2. NoEntry \in Entries
    BY DEF Entries
  <2>3. <<>> \in Seq([org : Orgs, status : Statuses])
    OBVIOUS
  <2> QED
    BY <2>1, <2>2, <2>3 DEF Fresh, RequestStates
<1>2. Placed(Fresh) /\ Timed(Fresh) /\ Hung(Fresh) /\ Emitted(Fresh)
  BY DEF Fresh, Placed, Timed, Hung, Emitted
<1> QED
  BY <1>1, <1>2 DEF Good

LEMMA GoodStable ==
    ASSUME UNCHANGED bootVars, NEW q, Good(q)
    PROVE  Good(q)'
<1>1. UNCHANGED <<table, metering>> /\ StaticMode' = StaticMode
  BY DEF bootVars, StaticMode
<1>2. Owned(q)' <=> Owned(q)
  BY <1>1 DEF Owned
<1>3. Placed(q)' /\ Timed(q)' /\ Hung(q)' /\ Emitted(q)'
  BY <1>1, <1>2 DEF Good, Placed, Timed, Hung, Emitted
<1> QED
  BY <1>3 DEF Good, RequestStates, Entries, Tags, Orgs

LEMMA OwnedEntry ==
    ASSUME BootInv, NEW q, Owned(q)
    PROVE  q.entry \in Entries /\ q.entry.org \in Orgs
<1>1. CASE StaticMode
  <2>1. q.entry \in Tags
    BY <1>1 DEF Owned, BootInv, BootTypeOK
  <2> QED
    BY <2>1 DEF Entries, Orgs, Tags
<1>2. CASE ~StaticMode
  BY <1>2 DEF Owned, Entries, Orgs
<1> QED
  BY <1>1, <1>2

LEMMA AnsweredFields ==
    \A q \in RequestStates, s \in Statuses :
       /\ Answered(q, s) \in RequestStates
       /\ Answered(q, s).stage = "done" /\ Answered(q, s).status = s
       /\ Answered(q, s).gone = FALSE /\ Answered(q, s).cut = FALSE
       /\ Answered(q, s).key = q.key /\ Answered(q, s).empty = q.empty
       /\ Answered(q, s).entry = q.entry /\ Answered(q, s).uncounted = q.uncounted
       /\ Answered(q, s).admitted = q.admitted /\ Answered(q, s).events = q.events
<1> TAKE q \in RequestStates, s \in Statuses
<1>1. 0 \in 0..RequestTimeout
  BY TimesAssumption
<1>2. Answered(q, s) \in RequestStates
  BY <1>1 DEF Answered, RequestStates
<1> QED
  BY <1>2 DEF Answered, RequestStates

(* A gate turns the request away.                                           *)
LEMMA TurnedAway ==
    ASSUME NEW q \in RequestStates, ~q.admitted, q.events = <<>>,
           q.entry = NoEntry \/ Owned(q), q.uncounted = "context" => q.empty,
           NEW s \in Statuses \ {200},
           StaticMode /\ s \in {401, 503} => q.key \notin DOMAIN table
    PROVE  Good(Answered(q, s)) /\ ~Answered(q, s).admitted
<1> DEFINE a == Answered(q, s)
<1>1. /\ a \in RequestStates
      /\ a.stage = "done" /\ a.status = s /\ a.gone = FALSE /\ a.cut = FALSE
      /\ a.key = q.key /\ a.empty = q.empty /\ a.entry = q.entry
      /\ a.uncounted = q.uncounted /\ a.admitted = q.admitted /\ a.events = q.events
  BY AnsweredFields
<1>2. Owned(a) <=> Owned(q)
  BY <1>1 DEF Owned
<1> HIDE DEF a
<1>3. Placed(a)
  BY <1>1, <1>2 DEF Placed, Statuses
<1>4. Timed(a) /\ Hung(a) /\ Emitted(a)
  BY <1>1 DEF Timed, Hung, Emitted
<1>5. Good(a) /\ ~a.admitted
  BY <1>1, <1>3, <1>4 DEF Good
<1> QED
  BY <1>5 DEF a

(* What TurnedAway needs holds at every gate.                               *)
LEMMA AtGate ==
    ASSUME NEW q, Good(q), q.stage \in {"auth", "lookup", "count"}
    PROVE  /\ q \in RequestStates /\ ~q.admitted /\ q.events = <<>>
           /\ q.entry = NoEntry \/ Owned(q)
           /\ q.uncounted = "context" => q.empty
  BY DEF Good, Placed, Hung, Emitted

(* handleCheck answers: with metering there is one event, for this answer.  *)
LEMMA Served ==
    ASSUME BootInv, NEW q, Good(q), q.stage \in {"body", "scan"},
           NEW s \in {200, 400, 500}, s = 200 => ~q.empty
    PROVE  LET a == Answered(Metered(q, s), s) IN
           /\ Good(a) /\ a.stage = "done" /\ a.entry = q.entry
           /\ a.admitted = q.admitted /\ a.uncounted = q.uncounted
<1>0. PICK m : m = Metered(q, s)
  OBVIOUS
<1> DEFINE a == Answered(m, s)
<1>1. q \in RequestStates /\ Placed(q) /\ Hung(q) /\ Emitted(q)
  BY DEF Good
<1>2. q.admitted /\ Owned(q) /\ q.events = <<>> /\ s \in Statuses
  BY <1>1 DEF Placed, Emitted, Statuses
<1>3. [org |-> q.entry.org, status |-> s] \in [org : Orgs, status : Statuses]
  BY <1>2, OwnedEntry
<1>4. Append(q.events, [org |-> q.entry.org, status |-> s]) =
        <<[org |-> q.entry.org, status |-> s]>>
  BY <1>2
<1>5. <<[org |-> q.entry.org, status |-> s]>> \in Seq([org : Orgs, status : Statuses])
  BY <1>3
<1>6. /\ m \in RequestStates
      /\ m.events = IF metering THEN <<[org |-> q.entry.org, status |-> s]>> ELSE <<>>
      /\ m.key = q.key /\ m.empty = q.empty /\ m.entry = q.entry
      /\ m.uncounted = q.uncounted /\ m.admitted = q.admitted
  <2>1. CASE metering
    <3>1. PICK ev : ev = <<[org |-> q.entry.org, status |-> s]>>
      OBVIOUS
    <3>2. m = [q EXCEPT !.events = ev]
      BY <1>0, <1>1, <1>4, <2>1, <3>1 DEF Metered, RequestStates
    <3>3. ev \in Seq([org : Orgs, status : Statuses])
      BY <1>5, <3>1
    <3>4. m \in RequestStates
      BY <1>1, <3>2, <3>3 DEF RequestStates
    <3> QED
      BY <1>1, <2>1, <3>1, <3>2, <3>4 DEF RequestStates
  <2>2. CASE ~metering
    BY <1>0, <1>1, <1>2, <2>2 DEF Metered
  <2> QED
    BY <2>1, <2>2
<1>7. /\ a \in RequestStates
      /\ a.stage = "done" /\ a.status = s /\ a.gone = FALSE /\ a.cut = FALSE
      /\ a.key = q.key /\ a.empty = q.empty /\ a.entry = q.entry
      /\ a.uncounted = q.uncounted /\ a.admitted = q.admitted /\ a.events = m.events
  <2>1. m \in RequestStates /\ s \in Statuses
    BY <1>2, <1>6
  <2>2. /\ a \in RequestStates
        /\ a.stage = "done" /\ a.status = s /\ a.gone = FALSE /\ a.cut = FALSE
        /\ a.key = m.key /\ a.empty = m.empty /\ a.entry = m.entry
        /\ a.uncounted = m.uncounted /\ a.admitted = m.admitted /\ a.events = m.events
    BY <2>1, AnsweredFields
  <2> QED
    BY <1>6, <2>2
<1>8. Owned(a) <=> Owned(q)
  BY <1>7 DEF Owned
<1> HIDE DEF a
<1>9. Placed(a)
  BY <1>1, <1>2, <1>7, <1>8 DEF Placed
<1>10. Timed(a) /\ Hung(a)
  BY <1>1, <1>7 DEF Timed, Hung
<1>11. Emitted(a)
  BY <1>2, <1>6, <1>7 DEF Emitted
<1>12. Good(a)
  BY <1>7, <1>9, <1>10, <1>11 DEF Good
<1> QED
  BY <1>0, <1>7, <1>12 DEF a

-----------------------------------------------------------------------------
(* One request moves.                                                       *)

LEMMA LimitsNat == \A t : LimitForTier(t) \in Nat
<1> SUFFICES ASSUME NEW t PROVE LimitForTier(t) \in Nat
  OBVIOUS
<1>1. DOMAIN Tiers = {"free", "pro", "enterprise"}
  BY DEF Tiers
<1>2. Tiers.free \in Nat /\ Tiers.pro \in Nat /\ Tiers.enterprise \in Nat
  BY FreeLimitAssumption DEF Tiers
<1> QED
  BY <1>1, <1>2 DEF LimitForTier

LEMMA SetsFinite ==
    ASSUME NEW o, NEW t
    PROVE  IsFiniteSet(Past(o)) /\ IsFiniteSet(Passed(o)) /\ IsFiniteSet(PassedOn(o, t))
<1>1. Past(o) \subseteq Requests /\ Passed(o) \subseteq Requests /\ PassedOn(o, t) \subseteq Requests
  BY DEF Past, Passed, PassedOn
<1> QED
  BY <1>1, FS_Subset, RequestsAssumption

(* Every step of a request but Count: it stays good, nobody is counted, and *)
(* nobody is let through the counter while there is one.                    *)
LEMMA RequestStep ==
    ASSUME Inv, boot = "serving", NEW r \in Requests, NEW q, Becomes(r, q), Good(q),
           req[r].stage \in {"body", "scan", "done"} =>
              q.stage \in {"body", "scan", "done"} /\ q.entry = req[r].entry,
           orgRL /\ q.admitted /\ q.uncounted = "no" =>
              req[r].admitted /\ req[r].uncounted = "no" /\ q.entry = req[r].entry
    PROVE  Inv'
<1>1. req' = [req EXCEPT ![r] = q] /\ UNCHANGED bootVars /\ UNCHANGED counter
  BY DEF Becomes
<1>2. req \in [Requests -> RequestStates] /\ q \in RequestStates
  BY DEF Inv, AllGood, Good
<1>3. req'[r] = q /\ \A p \in Requests \ {r} : req'[p] = req[p]
  BY <1>1, <1>2
<1>4. BootInv'
  BY <1>1, BootUnchanged DEF Inv
<1>5. AllGood'
  <2>1. req' \in [Requests -> RequestStates]
    BY <1>1, <1>2
  <2>2. RequestStates' = RequestStates
    BY DEF RequestStates, Entries, Tags, Orgs
  <2>3. ASSUME NEW p \in Requests PROVE Good(req[p])'
    <3>1. PICK x : x = req'[p]
      OBVIOUS
    <3>2. Good(x)
      BY <1>3, <3>1 DEF Inv, AllGood
    <3>3. Good(x)'
      BY <1>1, <3>2, GoodStable
    <3> QED
      BY <3>1, <3>3
  <2> QED
    BY <2>1, <2>2, <2>3 DEF AllGood
<1>6. Unserved'
  BY <1>1 DEF Unserved, bootVars
<1>7. Counted'
  <2>1. counter' = counter /\ orgRL' = orgRL /\ Orgs' = Orgs
    BY <1>1 DEF bootVars, Orgs
  <2>2. counter \in [Orgs -> Nat]
    BY DEF Inv, Counted
  <2>3. ASSUME NEW o \in Orgs PROVE counter[o] <= Attempts * Cardinality(Past(o)')
    <3>1. Past(o) \subseteq Past(o)'
      BY <1>3 DEF Past
    <3>2. IsFiniteSet(Past(o)) /\ IsFiniteSet(Past(o)')
      <4>1. Past(o)' \subseteq Requests
        BY DEF Past
      <4> QED
        BY <4>1, FS_Subset, RequestsAssumption, SetsFinite
    <3>3. Cardinality(Past(o)) <= Cardinality(Past(o)')
      BY <3>1, <3>2, FS_Subset
    <3>4. PICK k \in Nat, m \in Nat :
             k = Cardinality(Past(o)) /\ m = Cardinality(Past(o)') /\ k <= m
      BY <3>2, <3>3, FS_CardinalityType
    <3>5. counter[o] \in Nat /\ counter[o] <= Attempts * k
      BY <2>2, <3>4 DEF Inv, Counted
    <3>6. Attempts * k <= Attempts * m /\ Attempts * k \in Nat /\ Attempts * m \in Nat
      BY <3>4, AttemptsAssumption
    <3> QED
      BY <3>4, <3>5, <3>6
  <2>4. ASSUME orgRL, NEW o \in Orgs
        PROVE  /\ Cardinality(Passed(o)') <= counter[o]
               /\ \A t \in DOMAIN Tiers : LimitForTier(t) > 0 =>
                     Cardinality(PassedOn(o, t)') <= LimitForTier(t)
    <3>1. Passed(o)' \subseteq Passed(o)
      BY <1>3, <2>4 DEF Passed
    <3>2. Cardinality(Passed(o)') <= Cardinality(Passed(o)) /\ Cardinality(Passed(o)') \in Nat
      BY <3>1, SetsFinite, FS_Subset, FS_CardinalityType
    <3>3. ASSUME NEW t \in DOMAIN Tiers, LimitForTier(t) > 0
          PROVE  Cardinality(PassedOn(o, t)') <= LimitForTier(t)
      <4>1. PassedOn(o, t)' \subseteq PassedOn(o, t)
        BY <1>3, <2>4 DEF Passed, PassedOn
      <4>2. /\ Cardinality(PassedOn(o, t)') <= Cardinality(PassedOn(o, t))
            /\ Cardinality(PassedOn(o, t)') \in Nat /\ Cardinality(PassedOn(o, t)) \in Nat
        BY <4>1, SetsFinite, FS_Subset, FS_CardinalityType
      <4>3. LimitForTier(t) \in Nat
        BY LimitsNat
      <4> QED
        BY <2>4, <3>3, <4>2, <4>3 DEF Inv, Counted
    <3>4. Cardinality(Passed(o)) <= counter[o] /\ Cardinality(Passed(o)) \in Nat
      BY <2>4, SetsFinite, FS_CardinalityType DEF Inv, Counted
    <3> QED
      BY <2>2, <3>2, <3>3, <3>4
  <2> QED
    BY <2>1, <2>2, <2>3, <2>4 DEF Counted, LimitForTier, Tiers
<1> QED
  BY <1>4, <1>5, <1>6, <1>7 DEF Inv

LEMMA Serving ==
    ASSUME Inv, NEW r \in Requests, req[r].stage # "idle"
    PROVE  boot = "serving"
  BY DEF Inv, Unserved, Fresh

(* The rest of a request's state, where it stands.                          *)
LEMMA GoodFields ==
    ASSUME Inv, NEW r \in Requests
    PROVE  /\ Good(req[r]) /\ req[r] \in RequestStates
           /\ Placed(req[r]) /\ Timed(req[r]) /\ Hung(req[r]) /\ Emitted(req[r])
  BY DEF Inv, AllGood, Good

-----------------------------------------------------------------------------
(* The steps of a request, in the order it takes them.                      *)

LEMMA RateLimitInv ==
    ASSUME Inv, NEW r \in Requests, RateLimit(r)
    PROVE  Inv'
<1>1. boot = "serving" /\ req[r] = Fresh
  BY GoodFields DEF RateLimit, At, Placed
<1>2. PICK k \in Keys \cup {Malformed}, none \in BOOLEAN :
         LET p == [req[r] EXCEPT !.key = k, !.empty = none]
         IN  Becomes(r, [p EXCEPT !.stage = "auth"]) \/ Becomes(r, Answered(p, 429))
  BY DEF RateLimit
<1> DEFINE p == [Fresh EXCEPT !.key = k, !.empty = none]
           a == [p EXCEPT !.stage = "auth"]
<1>3. Fresh \in RequestStates
  BY FreshGood DEF Good
<1>4. a \in RequestStates
  BY <1>3 DEF RequestStates
<1>5. /\ a.stage = "auth" /\ a.gone = FALSE /\ a.cut = FALSE /\ a.age = 0 /\ a.entry = NoEntry
      /\ a.uncounted = "no" /\ a.admitted = FALSE /\ a.status = 0 /\ a.events = <<>>
  BY DEF Fresh
<1>6. p \in RequestStates
  BY <1>3 DEF RequestStates
<1>7. /\ p.entry = NoEntry /\ p.uncounted = "no" /\ p.admitted = FALSE /\ p.events = <<>>
  BY DEF Fresh
<1>8. Becomes(r, a) \/ Becomes(r, Answered(p, 429))
  BY <1>1, <1>2
<1>9. req[r].stage = "idle"
  BY <1>1 DEF Fresh
<1> HIDE DEF a, p
<1>10. CASE Becomes(r, a)
  <2>1. Placed(a) /\ Timed(a) /\ Hung(a) /\ Emitted(a)
    BY <1>5 DEF Placed, Timed, Hung, Emitted
  <2>2. Good(a)
    BY <1>4, <2>1 DEF Good
  <2> QED
    BY <1>1, <1>5, <1>9, <1>10, <2>2, RequestStep
<1>11. CASE Becomes(r, Answered(p, 429))
  <2>1. 429 \in Statuses \ {200} /\ 429 \notin {401, 503}
    BY DEF Statuses
  <2>2. Good(Answered(p, 429)) /\ ~Answered(p, 429).admitted
    BY <1>6, <1>7, <2>1, TurnedAway
  <2> QED
    BY <1>1, <1>9, <1>11, <2>2, RequestStep
<1> QED
  BY <1>8, <1>10, <1>11

(* A request is turned away before handleCheck.                             *)
LEMMA RefusalInv ==
    ASSUME Inv, NEW r \in Requests, req[r].stage \in {"auth", "lookup"},
           NEW s \in Statuses \ {200}, Becomes(r, Answered(req[r], s)),
           StaticMode /\ s \in {401, 503} => req[r].key \notin DOMAIN table
    PROVE  Inv'
<1>1. PICK q : q = req[r]
  OBVIOUS
<1>2. Good(q)
  BY <1>1, GoodFields
<1>3. /\ q \in RequestStates /\ ~q.admitted /\ q.events = <<>>
      /\ q.entry = NoEntry \/ Owned(q)
      /\ q.uncounted = "context" => q.empty
  BY <1>1, <1>2, AtGate
<1>4. Good(Answered(q, s)) /\ ~Answered(q, s).admitted
  BY <1>1, <1>3, TurnedAway
<1>5. PICK a : a = Answered(q, s)
  OBVIOUS
<1> QED
  BY <1>1, <1>4, <1>5, RequestStep, Serving

(* A key is accepted, with the entry that belongs to it.                    *)
LEMMA AuthenticatedInv ==
    ASSUME Inv, NEW r \in Requests, req[r].stage \in {"auth", "lookup"},
           NEW e, Authenticated(r, e), Owned([req[r] EXCEPT !.entry = e])
    PROVE  Inv'
<1>1. PICK q : q = req[r]
  OBVIOUS
<1>2. /\ Good(q) /\ q \in RequestStates /\ Placed(q) /\ Timed(q) /\ Hung(q) /\ Emitted(q)
  BY <1>1, GoodFields
<1>3. PICK d \in BOOLEAN : d = Dead(r)
  BY DEF Dead
<1> DEFINE a == [q EXCEPT !.stage = "count", !.entry = e, !.wait = 0, !.cut = d]
<1>4. Becomes(r, a)
  BY <1>1, <1>3 DEF Authenticated
<1>5. PICK b : b = [q EXCEPT !.entry = e]
  OBVIOUS
<1>6. b.key = q.key /\ b.entry = e /\ Owned(b)
  BY <1>1, <1>2, <1>5 DEF RequestStates
<1>7. e \in Entries
  BY <1>6, OwnedEntry DEF Inv
<1>8. a \in RequestStates
  BY <1>2, <1>7 DEF RequestStates
<1>9. /\ a.stage = "count" /\ a.entry = e /\ a.wait = 0 /\ a.cut = d
      /\ a.key = q.key /\ a.empty = q.empty /\ a.gone = q.gone /\ a.age = q.age
      /\ a.uncounted = q.uncounted /\ a.admitted = q.admitted
      /\ a.status = q.status /\ a.events = q.events
  BY <1>2 DEF RequestStates
<1> HIDE DEF a
<1>10. Owned(a)
  BY <1>6, <1>9 DEF Owned
<1>11. ~q.admitted /\ q.stage # "done" /\ q.stage # "scan"
  BY <1>1, <1>2 DEF Placed
<1>12. Placed(a) /\ Hung(a) /\ Emitted(a)
  BY <1>1, <1>2, <1>9, <1>10, <1>11 DEF Placed, Hung, Emitted
<1>13. Timed(a)
  <2>1. /\ q.age \in Nat /\ q.wait \in Nat
        /\ {RequestTimeout, LookupTimeout, OpTimeout, RedisTimeout} \subseteq Nat
        /\ (LookupTimeout + RedisTimeout) + (OpTimeout + RedisTimeout) < RequestTimeout
    BY <1>2, TimesAssumption DEF RequestStates
  <2>2. q.age <= LookupTimeout + RedisTimeout
    BY <1>1, <1>2, <2>1 DEF Timed
  <2>3. ~(q.age >= RequestTimeout)
    BY <2>1, <2>2
  <2>4. d => q.gone
    BY <1>1, <1>3, <2>3, Zenon DEF Dead
  <2> QED
    BY <1>9, <2>1, <2>2, <2>4 DEF Timed
<1>14. Good(a)
  BY <1>8, <1>12, <1>13 DEF Good
<1> QED
  BY <1>1, <1>4, <1>9, <1>11, <1>14, RequestStep, Serving

LEMMA AuthInv ==
    ASSUME Inv, NEW r \in Requests, Auth(r)
    PROVE  Inv'
<1> DEFINE q == req[r]
<1>1. /\ q.stage \in {"auth", "lookup"} /\ Placed(q) /\ q \in RequestStates
      /\ \A e : [q EXCEPT !.entry = e].key = q.key /\ [q EXCEPT !.entry = e].entry = e
  BY GoodFields DEF Auth, AuthStatic, AuthCached, AuthMiss, LookupAnswers, LookupFails, At,
                    RequestStates
<1>2. /\ 401 \in Statuses \ {200} /\ 500 \in Statuses \ {200} /\ 503 \in Statuses \ {200}
      /\ 500 \notin {401, 503}
  BY DEF Statuses
<1>3. CASE AuthStatic(r)
  <2>1. CASE q.key \in DOMAIN table /\ Authenticated(r, table[q.key])
    <3>1. PICK e : e = table[q.key]
      OBVIOUS
    <3>2. Owned([q EXCEPT !.entry = e])
      BY <1>1, <1>3, <2>1, <3>1 DEF Owned, AuthStatic
    <3> QED
      BY <1>1, <2>1, <3>1, <3>2, AuthenticatedInv
  <2>2. CASE q.key \notin DOMAIN table /\ Becomes(r, Answered(q, 401))
    BY <1>1, <1>2, <2>2, RefusalInv
  <2> QED
    BY <1>3, <2>1, <2>2 DEF AuthStatic
<1>4. CASE AuthCached(r)
  <2>1. PICK p \in Requests : req[p].key = q.key /\ req[p].entry # NoEntry
    BY <1>4 DEF AuthCached
  <2>2. q.key \in DOMAIN Rows /\ ~StaticMode
    BY <1>4, <2>1, GoodFields DEF AuthCached, Placed, Owned
  <2>3. PICK e : e = Rows[q.key]
    OBVIOUS
  <2>4. Owned([q EXCEPT !.entry = e])
    BY <1>1, <2>2, <2>3 DEF Owned
  <2> QED
    BY <1>1, <1>4, <2>3, <2>4, AuthenticatedInv DEF AuthCached
<1>5. CASE AuthMiss(r)
  <2>1. CASE Becomes(r, [q EXCEPT !.stage = "lookup", !.wait = 0, !.cut = Dead(r)])
    <3>1. PICK p : p = q
      OBVIOUS
    <3>2. PICK d \in BOOLEAN : d = Dead(r)
      BY DEF Dead
    <3>3. /\ p \in RequestStates /\ Placed(p) /\ Timed(p) /\ Hung(p) /\ Emitted(p)
          /\ p.stage = "auth" /\ ~StaticMode
      BY <1>5, <3>1, GoodFields DEF AuthMiss, At
    <3> DEFINE a == [p EXCEPT !.stage = "lookup", !.wait = 0, !.cut = d]
    <3>4. a \in RequestStates
      BY <3>3 DEF RequestStates
    <3>5. /\ a.stage = "lookup" /\ a.wait = 0 /\ a.cut = d
          /\ a.key = p.key /\ a.empty = p.empty /\ a.gone = p.gone /\ a.age = p.age
          /\ a.entry = p.entry
          /\ a.uncounted = p.uncounted /\ a.admitted = p.admitted
          /\ a.status = p.status /\ a.events = p.events
      BY <3>3 DEF RequestStates
    <3>6. Becomes(r, a)
      BY <2>1, <3>1, <3>2
    <3> HIDE DEF a
    <3>7. ~p.admitted /\ p.age = 0 /\ p.entry = NoEntry
      BY <3>3 DEF Placed, Timed
    <3>8. Placed(a) /\ Hung(a) /\ Emitted(a)
      BY <3>3, <3>5, <3>7 DEF Placed, Hung, Emitted
    <3>9. ~(p.age >= RequestTimeout)
      BY <3>7, TimesAssumption
    <3>10. d => p.gone
      BY <3>1, <3>2, <3>9, Zenon DEF Dead
    <3>11. Timed(a)
      BY <3>5, <3>7, <3>10, TimesAssumption DEF Timed
    <3>12. Good(a)
      BY <3>4, <3>8, <3>11 DEF Good
    <3> QED
      BY <3>1, <3>3, <3>5, <3>6, <3>7, <3>12, RequestStep, Serving
  <2>2. CASE ~StaticMode /\ Becomes(r, Answered(q, 401))
    BY <1>1, <1>2, <2>2, RefusalInv
  <2> QED
    BY <1>5, <2>1, <2>2 DEF AuthMiss
<1>6. CASE LookupAnswers(r)
  <2>1. ~StaticMode
    BY <1>1, <1>6 DEF LookupAnswers, At, Placed
  <2>2. CASE q.key \in DOMAIN Rows /\ Authenticated(r, Rows[q.key])
    <3>1. PICK e : e = Rows[q.key]
      OBVIOUS
    <3>2. Owned([q EXCEPT !.entry = e])
      BY <1>1, <2>1, <2>2, <3>1 DEF Owned
    <3> QED
      BY <1>1, <2>2, <3>1, <3>2, AuthenticatedInv
  <2>3. CASE \E status \in {401, 500} : Becomes(r, Answered(q, status))
    BY <1>1, <1>2, <2>1, <2>3, RefusalInv
  <2> QED
    BY <1>6, <2>2, <2>3 DEF LookupAnswers
<1>7. CASE LookupFails(r)
  <2>1. ~StaticMode /\ Becomes(r, Answered(q, 503))
    BY <1>1, <1>7 DEF LookupFails, At, Placed
  <2> QED
    BY <1>1, <1>2, <2>1, RefusalInv
<1> QED
  BY <1>3, <1>4, <1>5, <1>6, <1>7 DEF Auth

(* orgRateLimit lets a request through, counted or not.                     *)
LEMMA EntersGood ==
    ASSUME NEW q, Good(q), q.stage = "count",
           NEW u \in {"no", "context", "redis"}, u = "context" => q.empty
    PROVE  LET a == [Enters(q) EXCEPT !.uncounted = u] IN
           /\ Good(a) /\ a.stage = "body" /\ a.entry = q.entry /\ a.uncounted = u
<1> DEFINE a == [Enters(q) EXCEPT !.uncounted = u]
<1>1. q \in RequestStates /\ Placed(q) /\ Hung(q) /\ Emitted(q)
  BY DEF Good
<1>2. a \in RequestStates
  BY <1>1 DEF Enters, RequestStates
<1>3. /\ a.stage = "body" /\ a.entry = q.entry /\ a.admitted = TRUE /\ a.uncounted = u
      /\ a.cut = FALSE
      /\ a.key = q.key /\ a.empty = q.empty /\ a.gone = q.gone
      /\ a.status = q.status /\ a.events = q.events
  BY <1>1 DEF Enters, RequestStates
<1> HIDE DEF a
<1>4. Owned(a) <=> Owned(q)
  BY <1>3 DEF Owned
<1>5. Owned(q) /\ q.status = 0 /\ q.events = <<>>
  BY <1>1 DEF Placed, Emitted
<1>6. Placed(a)
  BY <1>3, <1>4, <1>5 DEF Placed
<1>7. Timed(a) /\ Hung(a) /\ Emitted(a)
  BY <1>1, <1>3, <1>5 DEF Timed, Hung, Emitted
<1>8. Good(a)
  BY <1>2, <1>6, <1>7 DEF Good
<1> QED
  BY <1>3, <1>8 DEF a

(* Without an error, uncounted stays as it is.                              *)
LEMMA EntersPlain ==
    ASSUME NEW q \in RequestStates
    PROVE  Enters(q) = [Enters(q) EXCEPT !.uncounted = q.uncounted]
  BY DEF Enters, RequestStates

LEMMA CountOffInv ==
    ASSUME Inv, NEW r \in Requests, CountOff(r)
    PROVE  Inv'
<1>1. PICK q : q = req[r]
  OBVIOUS
<1>2. Good(q) /\ q \in RequestStates /\ q.stage = "count" /\ ~orgRL /\ Hung(q)
  BY <1>1, GoodFields DEF CountOff, At
<1>3. q.uncounted \in {"no", "context", "redis"} /\ (q.uncounted = "context" => q.empty)
  BY <1>2 DEF RequestStates, Hung
<1>4. PICK a : a = Enters(q)
  OBVIOUS
<1>5. a = [Enters(q) EXCEPT !.uncounted = q.uncounted]
  BY <1>2, <1>4, EntersPlain
<1>6. Good(a) /\ a.stage = "body" /\ a.entry = q.entry
  BY <1>2, <1>3, <1>5, EntersGood
<1>7. Becomes(r, a)
  BY <1>1, <1>4 DEF CountOff
<1> QED
  BY <1>1, <1>2, <1>6, <1>7, RequestStep, Serving

(* Request r becomes c, and the counter of its organisation n.  It is let   *)
(* through as counted only after it was counted, and under the cap.         *)
CountsAs(r, c, org, n) ==
    /\ org = req[r].entry.org /\ org \in Orgs
    /\ n \in Nat /\ n \in counter[org]..(counter[org] + Attempts)
    /\ counter' = [counter EXCEPT ![org] = n]
    /\ req' = [req EXCEPT ![r] = c]
    /\ Good(c) /\ c.stage \in {"body", "done"} /\ c.entry = req[r].entry
    /\ c.admitted /\ c.uncounted = "no" => n > counter[org] /\ ~OverLimit(c.entry.tier, n)

LEMMA CountOne ==
    ASSUME Inv, NEW r \in Requests, Count(r)
    PROVE  \E c, org, n : CountsAs(r, c, org, n)
<1>1. PICK q : q = req[r]
  OBVIOUS
<1>2. /\ Good(q) /\ q \in RequestStates /\ q.stage = "count"
      /\ Placed(q) /\ Hung(q) /\ Timed(q)
  BY <1>1, GoodFields DEF Count, At
<1>3. PICK org : org = q.entry.org
  OBVIOUS
<1>4. org \in Orgs /\ counter[org] \in Nat
  BY <1>2, <1>3, OwnedEntry DEF Placed, Inv, Counted
<1>5. PICK o \in IncrOutcomes(r) :
         LET m == counter[org] + o.applied IN
         /\ counter' = [counter EXCEPT ![org] = m]
         /\ req' = [req EXCEPT ![r] =
                CASE ~o.ok -> [Enters(@) EXCEPT !.uncounted =
                                  IF req[r].cut \/ req[r].gone THEN "context" ELSE "redis"]
                  [] o.ok /\ OverLimit(req[r].entry.tier, m) -> Answered(@, 429)
                  [] OTHER -> Enters(@)]
  BY <1>1, <1>3 DEF Count
<1>6. o.applied \in 0..Attempts /\ o.ok \in BOOLEAN /\ (o.ok => o.applied > 0)
  <2>1. CASE req[r].cut
    <3>1. o = [applied |-> 0, ok |-> FALSE]
      BY <2>1 DEF IncrOutcomes
    <3>2. o.ok = FALSE /\ o.applied = 0 /\ 0 \in 0..Attempts
      BY <3>1, AttemptsAssumption
    <3> QED
      BY <3>2, Zenon
  <2>2. CASE ~req[r].cut
    <3>1. o \in [applied : 0..Attempts, ok : BOOLEAN] /\ (o.ok => o.applied > 0)
      BY <2>2 DEF IncrOutcomes
    <3> QED
      BY <3>1
  <2> QED
    BY <2>1, <2>2
<1>7. PICK n : n = counter[org] + o.applied
  OBVIOUS
<1>8. n \in Nat /\ n \in counter[org]..(counter[org] + Attempts) /\ (o.ok => n > counter[org])
  BY <1>4, <1>6, <1>7, AttemptsAssumption
<1>9. counter' = [counter EXCEPT ![org] = n]
  BY <1>5, <1>7
<1>10. PICK u : u = IF q.cut \/ q.gone THEN "context" ELSE "redis"
  OBVIOUS
<1>11. u \in {"no", "context", "redis"} /\ u # "no" /\ (u = "context" => q.empty)
  BY <1>2, <1>10 DEF Timed, Hung
<1>12. CASE ~o.ok
  <2>1. PICK c : c = [Enters(q) EXCEPT !.uncounted = u]
    OBVIOUS
  <2>2. req' = [req EXCEPT ![r] = c]
    BY <1>1, <1>5, <1>10, <1>12, <2>1 DEF Inv, AllGood
  <2>3. Good(c) /\ c.stage = "body" /\ c.entry = q.entry /\ c.uncounted = u
    BY <1>2, <1>11, <2>1, EntersGood
  <2> QED
    BY <1>1, <1>3, <1>4, <1>8, <1>9, <1>11, <2>2, <2>3 DEF CountsAs
<1>13. CASE o.ok /\ OverLimit(q.entry.tier, n)
  <2>1. PICK c : c = Answered(q, 429)
    OBVIOUS
  <2>2. req' = [req EXCEPT ![r] = c]
    BY <1>1, <1>5, <1>7, <1>13, <2>1 DEF Inv, AllGood
  <2>3. 429 \in Statuses \ {200} /\ 429 \notin {401, 503} /\ 429 \in Statuses
    BY DEF Statuses
  <2>4. /\ q \in RequestStates /\ ~q.admitted /\ q.events = <<>>
        /\ q.entry = NoEntry \/ Owned(q)
        /\ q.uncounted = "context" => q.empty
    BY <1>2, AtGate
  <2>5. Good(c) /\ ~c.admitted
    BY <2>1, <2>3, <2>4, TurnedAway
  <2>6. c.stage = "done" /\ c.entry = q.entry
    <3>1. \A x \in RequestStates, s \in Statuses :
             Answered(x, s).stage = "done" /\ Answered(x, s).entry = x.entry
      BY AnsweredFields
    <3> QED
      BY <2>1, <2>3, <2>4, <3>1
  <2> QED
    BY <1>1, <1>3, <1>4, <1>8, <1>9, <2>2, <2>5, <2>6 DEF CountsAs
<1>14. CASE o.ok /\ ~OverLimit(q.entry.tier, n)
  <2>1. PICK c : c = Enters(q)
    OBVIOUS
  <2>2. req' = [req EXCEPT ![r] = c]
    BY <1>1, <1>5, <1>7, <1>14, <2>1 DEF Inv, AllGood
  <2>3. q.uncounted \in {"no", "context", "redis"} /\ (q.uncounted = "context" => q.empty)
    BY <1>2 DEF RequestStates, Hung
  <2>4. c = [Enters(q) EXCEPT !.uncounted = q.uncounted]
    BY <1>2, <2>1, EntersPlain
  <2>5. Good(c) /\ c.stage = "body" /\ c.entry = q.entry
    BY <1>2, <2>3, <2>4, EntersGood
  <2> QED
    BY <1>1, <1>3, <1>4, <1>8, <1>9, <1>14, <2>2, <2>5 DEF CountsAs
<1> QED
  BY <1>6, <1>12, <1>13, <1>14

LEMMA CountInv ==
    ASSUME Inv, NEW r \in Requests, Count(r)
    PROVE  Inv'
<1>1. PICK c, org, n : CountsAs(r, c, org, n)
  BY CountOne
<1>2. /\ org = req[r].entry.org /\ org \in Orgs
      /\ n \in Nat /\ n \in counter[org]..(counter[org] + Attempts)
      /\ counter' = [counter EXCEPT ![org] = n]
      /\ req' = [req EXCEPT ![r] = c]
      /\ Good(c) /\ c.stage \in {"body", "done"} /\ c.entry = req[r].entry
      /\ c.admitted /\ c.uncounted = "no" =>
            n > counter[org] /\ ~OverLimit(c.entry.tier, n)
  BY <1>1 DEF CountsAs
<1>3. /\ UNCHANGED bootVars /\ req[r].stage = "count" /\ boot = "serving"
      /\ ~req[r].admitted
  BY GoodFields, Serving DEF Count, At, Placed
<1>4. req \in [Requests -> RequestStates] /\ c \in RequestStates /\ counter \in [Orgs -> Nat]
  BY <1>2 DEF Inv, AllGood, Good, Counted
<1>5. req'[r] = c /\ \A p \in Requests \ {r} : req'[p] = req[p]
  BY <1>2, <1>4
<1>6. BootInv'
  BY <1>3, BootUnchanged DEF Inv
<1>7. AllGood'
  <2>1. req' \in [Requests -> RequestStates]
    BY <1>2, <1>4
  <2>2. RequestStates' = RequestStates
    BY DEF RequestStates, Entries, Tags, Orgs
  <2>3. ASSUME NEW p \in Requests PROVE Good(req[p])'
    <3>1. PICK x : x = req'[p]
      OBVIOUS
    <3>2. Good(x)
      BY <1>2, <1>5, <3>1 DEF Inv, AllGood
    <3>3. Good(x)'
      BY <1>3, <3>2, GoodStable
    <3> QED
      BY <3>1, <3>3
  <2> QED
    BY <2>1, <2>2, <2>3 DEF AllGood
<1>8. Unserved'
  BY <1>3 DEF Unserved, bootVars
<1>9. Counted'
  <2>1. orgRL' = orgRL /\ Orgs' = Orgs
    BY <1>3 DEF bootVars, Orgs
  <2>2. counter' \in [Orgs -> Nat]
    BY <1>2, <1>4
  <2>3. ASSUME NEW o \in Orgs PROVE counter'[o] <= Attempts * Cardinality(Past(o)')
    <3>1. IsFiniteSet(Past(o)) /\ Cardinality(Past(o)) \in Nat
      BY SetsFinite, FS_CardinalityType
    <3>2. counter[o] <= Attempts * Cardinality(Past(o)) /\ counter[o] \in Nat
      BY <1>4 DEF Inv, Counted
    <3>3. CASE o = org
      <4>1. Past(o)' = Past(o) \cup {r} /\ r \notin Past(o)
        BY <1>2, <1>3, <1>5, <3>3 DEF Past
      <4>2. Cardinality(Past(o)') = Cardinality(Past(o)) + 1
        BY <3>1, <4>1, FS_AddElement
      <4>3. counter'[o] = n /\ n <= counter[o] + Attempts
        BY <1>2, <1>4, <3>3, AttemptsAssumption
      <4>4. PICK k \in Nat : k = Cardinality(Past(o))
        BY <3>1
      <4>5. Attempts * (k + 1) = Attempts * k + Attempts /\ Attempts * k \in Nat
        BY <4>4, AttemptsAssumption
      <4> QED
        BY <1>2, <3>2, <4>2, <4>3, <4>4, <4>5, AttemptsAssumption
    <3>4. CASE o # org
      <4>1. Past(o)' = Past(o)
        BY <1>2, <1>5, <3>4 DEF Past
      <4> QED
        BY <1>2, <1>4, <3>2, <3>4, <4>1
    <3> QED
      BY <3>3, <3>4
  <2>4. ASSUME orgRL, NEW o \in Orgs
        PROVE  /\ Cardinality(Passed(o)') <= counter'[o]
               /\ \A t \in DOMAIN Tiers : LimitForTier(t) > 0 =>
                     Cardinality(PassedOn(o, t)') <= LimitForTier(t)
    <3>1. /\ counter[o] \in Nat /\ counter'[o] \in Nat /\ counter[o] <= counter'[o]
          /\ o = org => counter'[o] = n
      BY <1>2, <1>4, <2>2
    <3>2. /\ IsFiniteSet(Passed(o)) /\ Cardinality(Passed(o)) \in Nat
          /\ Cardinality(Passed(o)) <= counter[o]
      BY <2>4, SetsFinite, FS_CardinalityType DEF Inv, Counted
    <3>3. ASSUME NEW t \in DOMAIN Tiers, LimitForTier(t) > 0
          PROVE  /\ IsFiniteSet(PassedOn(o, t)) /\ Cardinality(PassedOn(o, t)) \in Nat
                 /\ Cardinality(PassedOn(o, t)) <= LimitForTier(t)
                 /\ Cardinality(PassedOn(o, t)) <= Cardinality(Passed(o))
                 /\ LimitForTier(t) \in Nat
      <4>1. IsFiniteSet(PassedOn(o, t))
        BY SetsFinite
      <4>2. PassedOn(o, t) \subseteq Passed(o)
        BY DEF PassedOn
      <4> QED
        BY <2>4, <3>2, <3>3, <4>1, <4>2, FS_CardinalityType, FS_Subset, LimitsNat
           DEF Inv, Counted
    <3>4. CASE o = org /\ c.admitted /\ c.uncounted = "no"
      <4>1. Passed(o)' = Passed(o) \cup {r} /\ r \notin Passed(o)
        BY <1>2, <1>3, <1>5, <3>4 DEF Passed
      <4>2. Cardinality(Passed(o)') = Cardinality(Passed(o)) + 1
        BY <3>2, <4>1, FS_AddElement
      <4>3. Cardinality(Passed(o)') <= counter'[o] /\ n >= Cardinality(Passed(o)) + 1
        BY <1>2, <3>1, <3>2, <3>4, <4>2
      <4>4. ASSUME NEW t \in DOMAIN Tiers, LimitForTier(t) > 0
            PROVE  Cardinality(PassedOn(o, t)') <= LimitForTier(t)
        <5>1. CASE c.entry.tier = t
          <6>1. PassedOn(o, t)' = PassedOn(o, t) \cup {r} /\ r \notin PassedOn(o, t)
            BY <1>5, <4>1, <5>1 DEF PassedOn, Passed
          <6>2. Cardinality(PassedOn(o, t)') = Cardinality(PassedOn(o, t)) + 1
            BY <3>3, <4>4, <6>1, FS_AddElement
          <6>3. n <= LimitForTier(t)
            BY <1>2, <3>3, <3>4, <4>4, <5>1 DEF OverLimit
          <6> QED
            BY <1>2, <3>2, <3>3, <4>3, <4>4, <6>2, <6>3
        <5>2. CASE c.entry.tier # t
          <6>1. PassedOn(o, t)' = PassedOn(o, t)
            BY <1>5, <4>1, <5>2 DEF PassedOn, Passed
          <6> QED
            BY <3>3, <4>4, <6>1
        <5> QED
          BY <5>1, <5>2
      <4> QED
        BY <4>3, <4>4
    <3>5. CASE ~(o = org /\ c.admitted /\ c.uncounted = "no")
      <4>1. Passed(o)' = Passed(o) /\ r \notin Passed(o)
        BY <1>2, <1>3, <1>5, <3>5 DEF Passed
      <4>2. \A t : PassedOn(o, t)' = PassedOn(o, t)
        BY <1>5, <4>1 DEF PassedOn, Passed
      <4> QED
        BY <3>1, <3>2, <3>3, <4>1, <4>2
    <3> QED
      BY <3>4, <3>5
  <2> QED
    BY <2>1, <2>2, <2>3, <2>4 DEF Counted, LimitForTier, Tiers
<1> QED
  BY <1>6, <1>7, <1>8, <1>9 DEF Inv

(* handleCheck answers, with an event if there is metering.                 *)
LEMMA AnswerInv ==
    ASSUME Inv, NEW r \in Requests, req[r].stage \in {"body", "scan"},
           NEW s \in {200, 400, 500}, s = 200 => ~req[r].empty,
           Becomes(r, Answered(Metered(req[r], s), s))
    PROVE  Inv'
<1>1. PICK q : q = req[r]
  OBVIOUS
<1>2. PICK a : a = Answered(Metered(q, s), s)
  OBVIOUS
<1>3. BootInv /\ Good(q) /\ boot = "serving"
  BY <1>1, GoodFields, Serving DEF Inv
<1>4. /\ Good(a) /\ a.stage = "done" /\ a.entry = q.entry
      /\ a.admitted = q.admitted /\ a.uncounted = q.uncounted
  BY <1>1, <1>2, <1>3, Served
<1> QED
  BY <1>1, <1>2, <1>3, <1>4, RequestStep

(* A request goes on inside handleCheck, or its client hangs up.            *)
LEMMA StepInside ==
    ASSUME Inv, NEW r \in Requests, req[r].stage # "idle", NEW a, a \in RequestStates,
           Becomes(r, a),
           /\ a.key = req[r].key /\ a.empty = req[r].empty /\ a.entry = req[r].entry
           /\ a.uncounted = req[r].uncounted /\ a.admitted = req[r].admitted
           /\ a.status = req[r].status /\ a.events = req[r].events,
           \/ a.stage = req[r].stage
           \/ req[r].stage = "body" /\ a.stage = "scan" /\ ~a.empty,
           a.gone => a.stage = "scan" \/ a.empty,
           Timed(a)
    PROVE  Inv'
<1>1. PICK q : q = req[r]
  OBVIOUS
<1>2. Good(q) /\ Placed(q) /\ Hung(q) /\ Emitted(q)
  BY <1>1, GoodFields
<1>3. Owned(a) <=> Owned(q)
  BY <1>1 DEF Owned
<1>4. Placed(a)
  BY <1>1, <1>2, <1>3 DEF Placed
<1>5. Hung(a) /\ Emitted(a)
  BY <1>1, <1>2 DEF Hung, Emitted
<1>6. Good(a)
  BY <1>4, <1>5 DEF Good
<1> QED
  BY <1>1, <1>6, RequestStep, Serving

LEMMA HandleCheckInv ==
    ASSUME Inv, NEW r \in Requests, HandleCheck(r)
    PROVE  Inv'
<1>1. PICK q : q = req[r]
  OBVIOUS
<1>2. q \in RequestStates /\ Timed(q) /\ Hung(q) /\ Placed(q)
  BY <1>1, GoodFields
<1>3. CASE BodyFails(r)
  BY <1>3, AnswerInv DEF BodyFails, At
<1>4. CASE BodyRead(r)
  <2>1. PICK n \in Injections :
           Becomes(r, [q EXCEPT !.stage = "scan", !.left = n])
    BY <1>1, <1>4 DEF BodyRead
  <2>2. q.stage = "body" /\ ~q.empty /\ n \in Nat
    BY <1>1, <1>2, <1>4, RequestsAssumption DEF BodyRead, At, RequestStates
  <2> DEFINE a == [q EXCEPT !.stage = "scan", !.left = n]
  <2>3. a \in RequestStates
    BY <1>2, <2>2 DEF RequestStates
  <2>4. /\ a.stage = "scan" /\ a.cut = q.cut
        /\ a.key = q.key /\ a.empty = q.empty /\ a.entry = q.entry /\ a.gone = q.gone
        /\ a.uncounted = q.uncounted /\ a.admitted = q.admitted
        /\ a.status = q.status /\ a.events = q.events
    BY <1>2 DEF RequestStates
  <2> HIDE DEF a
  <2>5. Timed(a)
    BY <1>2, <2>4 DEF Timed
  <2>6. Becomes(r, a)
    BY <2>1 DEF a
  <2> QED
    BY <1>1, <2>2, <2>3, <2>4, <2>5, <2>6, StepInside
<1>5. CASE Infer(r)
  <2> DEFINE a == [q EXCEPT !.left = q.left - 1, !.wait = 0]
  <2>1. q.stage = "scan" /\ q.left > 0 /\ q.left \in Nat /\ ~q.empty
    BY <1>1, <1>2, <1>5 DEF Infer, At, RequestStates, Hung
  <2>2. Becomes(r, a)
    BY <1>1, <1>2, <1>5 DEF Infer, RequestStates
  <2>3. a \in RequestStates
    <3>1. q.left - 1 \in Nat
      BY <2>1
    <3> QED
      BY <1>2, <3>1 DEF RequestStates
  <2>4. /\ a.stage = "scan" /\ a.cut = q.cut
        /\ a.key = q.key /\ a.empty = q.empty /\ a.entry = q.entry /\ a.gone = q.gone
        /\ a.uncounted = q.uncounted /\ a.admitted = q.admitted
        /\ a.status = q.status /\ a.events = q.events
    BY <1>2, <2>1 DEF RequestStates
  <2> HIDE DEF a
  <2>5. Timed(a)
    BY <1>2, <2>1, <2>4 DEF Timed
  <2> QED
    BY <1>1, <2>1, <2>2, <2>3, <2>4, <2>5, StepInside
<1>6. CASE Respond(r)
  <2>1. req[r].stage = "scan" /\ ~req[r].empty
    BY <1>1, <1>2, <1>6 DEF Respond, At, Hung
  <2>2. PICK s \in {200, 500} : Becomes(r, Answered(Metered(req[r], s), s))
    BY <1>6 DEF Respond
  <2> QED
    BY <2>1, <2>2, AnswerInv
<1> QED
  BY <1>3, <1>4, <1>5, <1>6 DEF HandleCheck

LEMMA HangUpInv ==
    ASSUME Inv, NEW r \in Requests, HangUp(r)
    PROVE  Inv'
<1>1. PICK q : q = req[r]
  OBVIOUS
<1>2. q \in RequestStates /\ Timed(q) /\ q.stage # "idle" /\ (q.stage = "scan" \/ q.empty)
  BY <1>1, GoodFields DEF HangUp, At
<1> DEFINE a == [q EXCEPT !.gone = TRUE]
<1>3. a \in RequestStates
  BY <1>2 DEF RequestStates
<1>4. /\ a.stage = q.stage /\ a.gone /\ a.age = q.age /\ a.wait = q.wait
      /\ a.key = q.key /\ a.empty = q.empty /\ a.entry = q.entry
      /\ a.uncounted = q.uncounted /\ a.admitted = q.admitted
      /\ a.status = q.status /\ a.events = q.events
  BY <1>2 DEF RequestStates
<1>5. Becomes(r, a)
  BY <1>1 DEF HangUp
<1> HIDE DEF a
<1>6. Timed(a)
  BY <1>2, <1>4 DEF Timed
<1> QED
  BY <1>1, <1>2, <1>3, <1>4, <1>5, <1>6, StepInside

-----------------------------------------------------------------------------
(* Time.                                                                    *)

(* A request that may wait is still in time a tick later.                   *)
LEMMA OlderGood ==
    ASSUME Inv, NEW r \in Requests, MayWait(r)
    PROVE  LET a == Older(req[r]) IN
           /\ Good(a) /\ a.stage = req[r].stage /\ a.entry = req[r].entry
           /\ a.admitted = req[r].admitted /\ a.uncounted = req[r].uncounted
<1>1. PICK q : q = req[r]
  OBVIOUS
<1>2. /\ Good(q) /\ q \in RequestStates
      /\ Placed(q) /\ Timed(q) /\ Hung(q) /\ Emitted(q)
  BY <1>1, GoodFields
<1>3. CASE q.stage \in {"idle", "done"}
  BY <1>1, <1>2, <1>3 DEF Older
<1>4. CASE q.stage \notin {"idle", "done"}
  <2>1. /\ q.age \in 0..RequestTimeout /\ q.wait \in Nat
        /\ {RequestTimeout, LookupTimeout, OpTimeout, RedisTimeout} \subseteq Nat
    BY <1>2, TimesAssumption DEF RequestStates
  <2>2. PICK g, w : /\ g = IF q.age < RequestTimeout THEN q.age + 1 ELSE q.age
                    /\ w = IF q.stage = "body" THEN 0 ELSE q.wait + 1
    OBVIOUS
  <2>3. g \in 0..RequestTimeout /\ w \in Nat /\ g <= q.age + 1
    BY <2>1, <2>2
  <2> DEFINE a == [q EXCEPT !.age = g, !.wait = w]
  <2>4. Older(q) = a
    BY <1>2, <1>4, <2>2 DEF Older, RequestStates
  <2>5. a \in RequestStates
    BY <1>2, <2>3 DEF RequestStates
  <2>6. /\ a.stage = q.stage /\ a.cut = q.cut /\ a.age = g /\ a.wait = w
        /\ a.key = q.key /\ a.empty = q.empty /\ a.entry = q.entry /\ a.gone = q.gone
        /\ a.uncounted = q.uncounted /\ a.admitted = q.admitted
        /\ a.status = q.status /\ a.events = q.events
    BY <1>2 DEF RequestStates
  <2> HIDE DEF a
  <2>7. Owned(a) <=> Owned(q)
    BY <2>6 DEF Owned
  <2>8. Placed(a)
    BY <1>2, <1>4, <2>6, <2>7 DEF Placed
  <2>9. Hung(a) /\ Emitted(a)
    BY <1>2, <2>6 DEF Hung, Emitted
  <2>10. Timed(a)
    <3>1. \/ q.stage = "body"
          \/ /\ q.stage \in {"lookup", "count", "scan"}
             /\ q.wait < CallTimeout(q.stage)
      BY <1>1, <1>4 DEF MayWait, At
    <3>2. CASE q.stage = "body"
      BY <1>2, <2>6, <3>2 DEF Timed
    <3>3. CASE q.stage = "lookup"
      <4>1. q.wait < LookupTimeout + RedisTimeout /\ w = q.wait + 1
        BY <2>2, <3>1, <3>3 DEF CallTimeout
      <4> QED
        BY <1>2, <2>1, <2>3, <2>6, <3>3, <4>1 DEF Timed
    <3>4. CASE q.stage = "count"
      <4>1. q.wait < OpTimeout + RedisTimeout /\ w = q.wait + 1
        BY <2>2, <3>1, <3>4 DEF CallTimeout
      <4> QED
        BY <1>2, <2>1, <2>3, <2>6, <3>4, <4>1 DEF Timed
    <3>5. CASE q.stage = "scan"
      BY <1>2, <2>6, <3>5 DEF Timed
    <3> QED
      BY <3>1, <3>2, <3>3, <3>4, <3>5
  <2>11. Good(a)
    BY <2>5, <2>8, <2>9, <2>10 DEF Good
  <2> QED
    BY <1>1, <2>4, <2>6, <2>11
<1> QED
  BY <1>3, <1>4

(* Nobody moves between the sets that are counted.                          *)
LEMMA CountedSame ==
    ASSUME Inv, UNCHANGED counter,
           \/ UNCHANGED orgRL
           \/ \A r \in Requests : ~req[r].admitted,
           \A r \in Requests :
              /\ req'[r].stage = req[r].stage /\ req'[r].entry = req[r].entry
              /\ req'[r].admitted = req[r].admitted /\ req'[r].uncounted = req[r].uncounted
    PROVE  Counted'
<1>1. \A o : Past(o)' = Past(o) /\ Passed(o)' = Passed(o)
  BY DEF Past, Passed
<1>2. \A o, t : PassedOn(o, t)' = PassedOn(o, t)
  BY <1>1 DEF PassedOn, Passed
<1>3. counter \in [Orgs -> Nat] /\ \A o \in Orgs : counter[o] <= Attempts * Cardinality(Past(o))
  BY DEF Inv, Counted
<1>4. CASE UNCHANGED orgRL
  BY <1>1, <1>2, <1>4 DEF Inv, Counted, Orgs, LimitForTier, Tiers
<1>5. CASE \A r \in Requests : ~req[r].admitted
  <2>1. \A o, t : Passed(o) = {} /\ PassedOn(o, t) = {}
    BY <1>5 DEF Passed, PassedOn
  <2>2. Cardinality({}) = 0
    BY FS_EmptySet
  <2>3. \A o \in Orgs : 0 <= counter[o]
    BY <1>3
  <2>4. \A t : LimitForTier(t) \in Nat
    BY LimitsNat
  <2>5. ASSUME NEW o \in Orgs
        PROVE  /\ Cardinality(Passed(o)') <= counter[o]
               /\ \A t \in DOMAIN Tiers : LimitForTier(t) > 0 =>
                     Cardinality(PassedOn(o, t)') <= LimitForTier(t)
    BY <1>1, <1>2, <2>1, <2>2, <2>3, <2>4
  <2>6. Orgs' = Orgs /\ \A o \in Orgs : counter[o] <= Attempts * Cardinality(Past(o)')
    BY <1>1, <1>3 DEF Orgs
  <2> QED
    BY <1>3, <2>5, <2>6 DEF Counted, LimitForTier, Tiers
<1> QED
  BY <1>4, <1>5

LEMMA TickInv == ASSUME Inv, Tick PROVE Inv'
<1>1. /\ boot = "serving" /\ \A r \in Requests : MayWait(r)
      /\ req' = [r \in Requests |-> Older(req[r])]
      /\ UNCHANGED bootVars /\ UNCHANGED counter
  BY DEF Tick
<1>2. ASSUME NEW r \in Requests
      PROVE  /\ Good(req'[r]) /\ req'[r].stage = req[r].stage /\ req'[r].entry = req[r].entry
             /\ req'[r].admitted = req[r].admitted /\ req'[r].uncounted = req[r].uncounted
  BY <1>1, OlderGood
<1>3. AllGood'
  <2>1. \A r \in Requests : req'[r] \in RequestStates
    BY <1>2 DEF Good
  <2>2. req' \in [Requests -> RequestStates]
    BY <1>1, <2>1
  <2>3. RequestStates' = RequestStates
    BY DEF RequestStates, Entries, Tags, Orgs
  <2>4. ASSUME NEW r \in Requests PROVE Good(req[r])'
    <3>1. PICK x : x = req'[r]
      OBVIOUS
    <3>2. Good(x)
      BY <1>2, <3>1
    <3>3. Good(x)'
      BY <1>1, <3>2, GoodStable
    <3> QED
      BY <3>1, <3>3
  <2> QED
    BY <2>2, <2>3, <2>4 DEF AllGood
<1>4. Unserved'
  BY <1>1 DEF Unserved, bootVars
<1>5. Counted'
  BY <1>1, <1>2, CountedSame DEF bootVars
<1>6. BootInv'
  BY <1>1, BootUnchanged DEF Inv
<1> QED
  BY <1>3, <1>4, <1>5, <1>6 DEF Inv

-----------------------------------------------------------------------------
(* The start, the stuttering steps, and the theorems.                       *)

LEMMA FreshCounts == Fresh.admitted = FALSE /\ Fresh.stage = "idle"
  BY DEF Fresh

LEMMA BootInvStep == ASSUME Inv, BootStep, UNCHANGED <<req, counter>> PROVE Inv'
<1>1. boot # "serving"
  BY DEF BootStep, ParseEntry, ParseDone, ParseNothing, NewLookup, NewMetering,
         NewOrgRateLimiter
<1>2. \A r \in Requests : req[r] = Fresh
  BY <1>1 DEF Inv, Unserved
<1>3. BootInv'
  BY BootStepInv DEF Inv
<1>4. AllGood'
  <2>1. Good(Fresh)'
    BY FreshGood, PTL
  <2>2. Fresh' = Fresh
    BY DEF Fresh, NoEntry
  <2>3. RequestStates' = RequestStates
    BY DEF RequestStates, Entries, Tags, Orgs
  <2>4. req' \in [Requests -> RequestStates]
    BY DEF Inv, AllGood
  <2>5. \A r \in Requests : Good(req[r])'
    BY <1>2, <2>1, <2>2
  <2> QED
    BY <2>3, <2>4, <2>5 DEF AllGood
<1>5. Unserved'
  BY <1>2 DEF Unserved, Fresh, NoEntry
<1>6. Counted'
  BY <1>2, FreshCounts, CountedSame
<1> QED
  BY <1>3, <1>4, <1>5, <1>6 DEF Inv

LEMMA InitInv == ASSUME Init PROVE Inv
<1>1. req = [r \in Requests |-> Fresh] /\ counter = [o \in Orgs |-> 0] /\ BootInit
  BY DEF Init
<1>2. \A r \in Requests : req[r] = Fresh
  BY <1>1
<1>3. Good(Fresh) /\ Fresh \in RequestStates
  BY FreshGood DEF Good
<1>4. BootInv
  BY <1>1, BootInitInv
<1>5. AllGood /\ Unserved
  BY <1>1, <1>2, <1>3 DEF AllGood, Unserved
<1>6. Counted
  <2>1. counter \in [Orgs -> Nat] /\ \A o \in Orgs : counter[o] = 0
    BY <1>1
  <2>2. ~orgRL
    BY <1>1 DEF BootInit
  <2>3. \A o : Cardinality(Past(o)) \in Nat
    BY SetsFinite, FS_CardinalityType
  <2>4. ASSUME NEW o \in Orgs PROVE counter[o] <= Attempts * Cardinality(Past(o))
    <3>1. PICK k \in Nat : k = Cardinality(Past(o))
      BY <2>3
    <3>2. Attempts * k \in Nat
      BY AttemptsAssumption
    <3> QED
      BY <2>1, <3>1, <3>2
  <2> QED
    BY <2>1, <2>2, <2>4 DEF Counted
<1> QED
  BY <1>4, <1>5, <1>6 DEF Inv

LEMMA UnchangedInv == ASSUME Inv, UNCHANGED vars PROVE Inv'
<1>1. UNCHANGED bootVars /\ req' = req /\ counter' = counter
  BY DEF vars
<1>2. BootInv'
  BY <1>1, BootUnchanged DEF Inv
<1>3. ASSUME NEW r \in Requests PROVE Good(req[r])'
  <2>1. PICK x : x = req[r]
    OBVIOUS
  <2>2. Good(x)
    BY <2>1 DEF Inv, AllGood
  <2>3. Good(x)'
    BY <1>1, <2>2, GoodStable
  <2> QED
    BY <1>1, <2>1, <2>3
<1>4. AllGood'
  <2>1. RequestStates' = RequestStates
    BY DEF RequestStates, Entries, Tags, Orgs
  <2> QED
    BY <1>1, <1>3, <2>1 DEF Inv, AllGood
<1>5. Unserved'
  BY <1>1 DEF Inv, Unserved, bootVars, Fresh, NoEntry
<1>6. Counted'
  BY <1>1, CountedSame DEF bootVars
<1> QED
  BY <1>2, <1>4, <1>5, <1>6 DEF Inv

LEMMA NextInv == ASSUME Inv, [Next]_vars PROVE Inv'
<1>1. CASE BootStep /\ UNCHANGED <<req, counter>>
  BY <1>1, BootInvStep
<1>2. ASSUME NEW r \in Requests, Handle(r) PROVE Inv'
  BY <1>2, RateLimitInv, AuthInv, CountOffInv, CountInv, HandleCheckInv
     DEF Handle, OrgRateLimit
<1>3. ASSUME NEW r \in Requests, HangUp(r) PROVE Inv'
  BY <1>3, HangUpInv
<1>4. CASE Tick
  BY <1>4, TickInv
<1>5. CASE UNCHANGED vars
  BY <1>5, UnchangedInv
<1> QED
  BY <1>1, <1>2, <1>3, <1>4, <1>5 DEF Next, Exited

(* The invariant holds throughout, for any number of requests.              *)
THEOREM Invariance == Spec => []Inv
<1>1. Init => Inv
  BY InitInv
<1>2. Inv /\ [Next]_vars => Inv'
  BY NextInv
<1> QED
  BY <1>1, <1>2, PTL DEF Spec

(* Every state has the shape the components expect, and no request ever     *)
(* hands metering more than one event (Emit in handleCheck).                *)
THEOREM TypeCorrect == Spec => []TypeOK
<1>1. Inv => TypeOK
  <2> SUFFICES ASSUME Inv PROVE TypeOK
    OBVIOUS
  <2>1. BootTypeOK /\ counter \in [Orgs -> Nat]
    BY DEF Inv, BootInv, Counted
  <2>2. ASSUME NEW r \in Requests
        PROVE  LET q == req[r] IN
               /\ q.stage \in {"idle", "auth", "lookup", "count", "body", "scan", "done"}
               /\ q.key \in Keys \cup {Malformed}
               /\ q.entry = NoEntry \/ q.entry.org \in Orgs
               /\ q.age \in 0..RequestTimeout
               /\ q.status \in {0, 200, 400, 401, 429, 500, 503}
               /\ q.status # 0 <=> q.stage = "done"
               /\ Len(q.events) <= 1
    <3>1. PICK q : q = req[r]
      OBVIOUS
    <3>2. q \in RequestStates /\ Placed(q) /\ Emitted(q) /\ BootInv
      BY <3>1, GoodFields DEF Inv
    <3>3. /\ q.stage \in {"idle", "auth", "lookup", "count", "body", "scan", "done"}
          /\ q.key \in Keys \cup {Malformed}
          /\ q.age \in 0..RequestTimeout
          /\ q.status \in {0, 200, 400, 401, 429, 500, 503}
      BY <3>2 DEF RequestStates, Statuses
    <3>4. q.entry = NoEntry \/ q.entry.org \in Orgs
      BY <3>2, OwnedEntry DEF Placed
    <3>5. q.status # 0 <=> q.stage = "done"
      BY <3>2 DEF Placed
    <3>6. Len(q.events) <= 1
      BY <3>2 DEF Emitted
    <3> QED
      BY <3>1, <3>3, <3>4, <3>5, <3>6
  <2> QED
    BY <2>1, <2>2 DEF TypeOK
<1> QED
  BY <1>1, Invariance, PTL

(* Whichever setting is wrong and whichever ping fails, a gateway that      *)
(* serves has its key source, its metering and its cap (main).              *)
THEOREM LoudAtBoot == Spec => []NothingMissingInSilence
<1>1. Inv => NothingMissingInSilence
  BY BootInvServes DEF Inv
<1> QED
  BY <1>1, Invariance, PTL

(* Every key written in VETO_STATIC_KEYS passes auth as what it was written *)
(* for (parseStaticKeys and auth), whatever else is in the list.            *)
THEOREM OperatorLetIn == Spec => []OperatorNotLockedOut
<1>1. Inv => OperatorNotLockedOut
  <2> SUFFICES ASSUME Inv, boot = "serving", NEW e \in Written, NEW r \in Requests,
                      req[r].key = e.key
               PROVE  /\ req[r].status \notin {401, 503}
                      /\ req[r].entry \in {NoEntry, [org |-> e.org, tier |-> e.tier]}
    BY DEF OperatorNotLockedOut
  <2>1. /\ StaticMode /\ e.key \in DOMAIN table
        /\ table[e.key] = [org |-> e.org, tier |-> e.tier]
    BY WrittenServed DEF Inv
  <2>2. Placed(req[r])
    BY GoodFields
  <2>3. req[r].status \notin {401, 503}
    BY <2>1, <2>2 DEF Placed
  <2>4. req[r].entry = NoEntry \/ req[r].entry = table[e.key]
    BY <2>1, <2>2 DEF Placed, Owned
  <2> QED
    BY <2>1, <2>3, <2>4
<1> QED
  BY <1>1, Invariance, PTL

(* Exactly the requests that reached handleCheck and were answered have an  *)
(* event, one each, with the answer and the key's organisation; and only    *)
(* requests with a good key touch a counter (orgRateLimit).                 *)
THEOREM EventsMatch == Spec => []EventsMatchGates
<1>1. Inv => EventsMatchGates
  <2> SUFFICES ASSUME Inv PROVE EventsMatchGates
    OBVIOUS
  <2>1. ASSUME NEW r \in Requests
        PROVE  LET q == req[r]
                   owner == IF StaticMode THEN table[q.key].org ELSE Rows[q.key].org
               IN  q.events = IF metering /\ q.admitted /\ q.stage = "done"
                              THEN <<[org |-> owner, status |-> q.status]>> ELSE <<>>
    <3>1. PICK q : q = req[r]
      OBVIOUS
    <3>2. Placed(q) /\ Emitted(q)
      BY <3>1, GoodFields
    <3>3. q.admitted => q.entry.org = IF StaticMode THEN table[q.key].org ELSE Rows[q.key].org
      BY <3>2 DEF Placed, Owned
    <3> QED
      BY <3>1, <3>2, <3>3 DEF Emitted
  <2>2. ASSUME NEW o \in Orgs
        PROVE  counter[o] <= Attempts * Cardinality({r \in Requests : req[r].entry.org = o})
    <3> DEFINE All == {r \in Requests : req[r].entry.org = o}
    <3>1. Past(o) \subseteq All
      BY DEF Past
    <3>2. IsFiniteSet(All)
      BY FS_Subset, RequestsAssumption
    <3>3. /\ Cardinality(Past(o)) <= Cardinality(All)
          /\ Cardinality(Past(o)) \in Nat /\ Cardinality(All) \in Nat
      BY <3>1, <3>2, FS_Subset, FS_CardinalityType
    <3>4. counter[o] \in Nat /\ counter[o] <= Attempts * Cardinality(Past(o))
      BY DEF Inv, Counted
    <3> HIDE DEF All
    <3>5. PICK k \in Nat, m \in Nat : k = Cardinality(Past(o)) /\ m = Cardinality(All) /\ k <= m
      BY <3>3
    <3>6. Attempts * k <= Attempts * m /\ Attempts * k \in Nat /\ Attempts * m \in Nat
      BY <3>5, AttemptsAssumption
    <3>7. counter[o] <= Attempts * Cardinality(All)
      BY <3>4, <3>5, <3>6
    <3> QED
      BY <3>7 DEF All
  <2> QED
    BY <2>1, <2>2 DEF EventsMatchGates
<1> QED
  BY <1>1, Invariance, PTL

(* Billing and the cap agree: CheckAndIncrement lets nobody through         *)
(* uncounted but for a failure of Redis, and no more of a capped tier than  *)
(* the cap, whoever hangs up and however slow the stages are.               *)
THEOREM BilledCounted == Spec => []BilledWasCounted
<1>1. Inv => BilledWasCounted
  <2> SUFFICES ASSUME Inv, orgRL, NEW o \in Orgs
               PROVE  LET counted == {r \in Billed(o) : req[r].uncounted # "redis"} IN
                      /\ Cardinality(counted) <= counter[o]
                      /\ \A t \in DOMAIN Tiers : LimitForTier(t) > 0 =>
                            Cardinality({r \in counted : req[r].entry.tier = t}) <= LimitForTier(t)
    BY DEF BilledWasCounted
  <2> DEFINE counted == {r \in Billed(o) : req[r].uncounted # "redis"}
  <2>1. ASSUME NEW r \in counted PROVE r \in Passed(o)
    <3>1. r \in Requests /\ req[r].uncounted # "redis"
      BY DEF Billed
    <3>2. PICK i \in DOMAIN req[r].events : req[r].events[i] = [org |-> o, status |-> 200]
      BY DEF Billed
    <3>3. PICK q : q = req[r]
      OBVIOUS
    <3>4. q \in RequestStates /\ Hung(q) /\ Emitted(q)
      BY <3>1, <3>3, GoodFields
    <3>5. metering /\ q.admitted /\ q.stage = "done"
      BY <3>2, <3>3, <3>4 DEF Emitted
    <3>6. q.events = <<[org |-> q.entry.org, status |-> q.status]>>
      BY <3>4, <3>5 DEF Emitted
    <3>7. q.events[i] = [org |-> q.entry.org, status |-> q.status]
      BY <3>2, <3>3, <3>6
    <3>8. q.entry.org = o /\ q.status = 200
      BY <3>2, <3>3, <3>7
    <3>9. q.uncounted = "no"
      BY <3>1, <3>3, <3>4, <3>8 DEF Hung, RequestStates
    <3> QED
      BY <3>1, <3>3, <3>5, <3>8, <3>9 DEF Passed
  <2>2. Cardinality(counted) <= counter[o]
    <3>1. Cardinality(counted) <= Cardinality(Passed(o)) /\ Cardinality(counted) \in Nat
      BY <2>1, SetsFinite, FS_Subset, FS_CardinalityType
    <3>2. /\ Cardinality(Passed(o)) <= counter[o] /\ counter[o] \in Nat
          /\ Cardinality(Passed(o)) \in Nat
      BY SetsFinite, FS_CardinalityType DEF Inv, Counted
    <3> QED
      BY <3>1, <3>2
  <2>3. ASSUME NEW t \in DOMAIN Tiers, LimitForTier(t) > 0
        PROVE  Cardinality({r \in counted : req[r].entry.tier = t}) <= LimitForTier(t)
    <3> DEFINE On == {r \in counted : req[r].entry.tier = t}
    <3>1. On \subseteq PassedOn(o, t)
      BY <2>1 DEF PassedOn
    <3> HIDE DEF On
    <3>2. /\ Cardinality(On) <= Cardinality(PassedOn(o, t)) /\ Cardinality(On) \in Nat
          /\ Cardinality(PassedOn(o, t)) \in Nat
      BY <3>1, SetsFinite, FS_Subset, FS_CardinalityType
    <3>3. Cardinality(PassedOn(o, t)) <= LimitForTier(t) /\ LimitForTier(t) \in Nat
      BY <2>3, LimitsNat DEF Inv, Counted
    <3>4. Cardinality(On) <= LimitForTier(t)
      BY <3>2, <3>3
    <3> QED
      BY <3>4 DEF On
  <2> QED
    BY <2>2, <2>3
<1> QED
  BY <1>1, Invariance, PTL

(* The calls behind auth and orgRateLimit, each as long as its context and  *)
(* the Redis client let it be, never use up the time of the Timeout         *)
(* middleware before handleCheck has begun.                                 *)
THEOREM TimeLeft == Spec => []GatesLeaveTime
<1>1. Inv => GatesLeaveTime
  <2> SUFFICES ASSUME Inv, NEW r \in Requests, req[r].stage \in {"auth", "lookup", "count"}
               PROVE  req[r].age < RequestTimeout
    BY DEF GatesLeaveTime
  <2>1. PICK q : q = req[r]
    OBVIOUS
  <2>2. q \in RequestStates /\ Timed(q)
    BY <2>1, GoodFields
  <2>3. q.age \in Nat /\ q.wait \in Nat
    BY <2>2, TimesAssumption DEF RequestStates
  <2>4. /\ {RequestTimeout, LookupTimeout, OpTimeout, RedisTimeout} \subseteq Nat
        /\ (LookupTimeout + RedisTimeout) + (OpTimeout + RedisTimeout) < RequestTimeout
    BY TimesAssumption
  <2>5. q.age < RequestTimeout
    BY <2>1, <2>2, <2>3, <2>4 DEF Timed
  <2> QED
    BY <2>1, <2>5
<1> QED
  BY <1>1, Invariance, PTL
=============================================================================
