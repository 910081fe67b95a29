------------------------------ MODULE KeyGate -------------------------------
(***************************************************************************)
(* What authentication promises, without caches, lookups or deadlines:     *)
(* each request that presents a key gets one answer.  It is let through as *)
(* the customer the key was minted for and as no other, and only while the *)
(* key is active or for a fixed lag after its revocation.  It is refused   *)
(* only when the key is not active, or cannot be told by its slot from     *)
(* another minted key.  A well-formed key may get an error instead.        *)
(***************************************************************************)
EXTENDS Naturals

CONSTANTS
    Keys,       \* well-formed keys
    Malformed,  \* other strings that a request may present
    Slot,       \* what a key is looked up by
    Requests,
    Lag,        \* how long a revoked key may still be let through
    None        \* no key

VARIABLES
    now,        \* the clock
    active,     \* keys minted and not revoked
    revokedAt,  \* when each revoked key was revoked
    key,        \* the key each request presents
    answer,     \* the answer it got
    servedAs    \* the key whose customer it is let through as

gate == <<now, active, revokedAt, key, answer, servedAs>>

Minted == active \cup DOMAIN revokedAt

Init ==
    /\ now = 0
    /\ active = {}
    /\ revokedAt = <<>>
    /\ key = [r \in Requests |-> None]
    /\ answer = [r \in Requests |-> "idle"]
    /\ servedAs = [r \in Requests |-> None]

Ask(r, k) ==
    /\ answer[r] = "idle"
    /\ answer' = [answer EXCEPT ![r] = "asked"]
    /\ key' = [key EXCEPT ![r] = k]
    /\ UNCHANGED <<now, active, revokedAt, servedAs>>

(* The one answer to a request.                                             *)
Reply(r, status) ==
    /\ answer[r] = "asked"
    /\ UNCHANGED <<now, active, revokedAt, key>>
    /\ answer' = [answer EXCEPT ![r] = status]

Accept(r) ==
    /\ key[r] \in Minted
    /\ key[r] \in active \/ now <= revokedAt[key[r]] + Lag
    /\ Reply(r, "accepted")
    /\ servedAs' = [servedAs EXCEPT ![r] = key[r]]

Refuse(r) ==
    /\ \/ key[r] \notin active
       \/ \E k \in Minted \ {key[r]} : Slot[k] = Slot[key[r]]
    /\ Reply(r, "unauthorized")
    /\ UNCHANGED servedAs

Fail(r) ==
    /\ key[r] \in Keys
    /\ Reply(r, "unavailable") \/ Reply(r, "error")
    /\ UNCHANGED servedAs

Leave(r) ==
    /\ answer[r] \notin {"idle", "asked"}
    /\ answer' = [answer EXCEPT ![r] = "idle"]
    /\ key' = [key EXCEPT ![r] = None]
    /\ servedAs' = [servedAs EXCEPT ![r] = None]
    /\ UNCHANGED <<now, active, revokedAt>>

(* A key is minted once and revoked once.                                   *)
Mint(k) ==
    /\ k \notin Minted
    /\ active' = active \cup {k}
    /\ UNCHANGED <<now, revokedAt, key, answer, servedAs>>

Revoke(k) ==
    /\ k \in active
    /\ active' = active \ {k}
    /\ revokedAt' = [x \in DOMAIN revokedAt \cup {k} |-> IF x = k THEN now ELSE revokedAt[x]]
    /\ UNCHANGED <<now, key, answer, servedAs>>

Tick == now' = now + 1 /\ UNCHANGED <<active, revokedAt, key, answer, servedAs>>

Next ==
    \/ \E r \in Requests :
          \/ \E k \in Keys \cup Malformed : Ask(r, k)
          \/ Accept(r) \/ Refuse(r) \/ Fail(r) \/ Leave(r)
    \/ \E k \in Keys : Mint(k) \/ Revoke(k)
    \/ Tick

Spec == Init /\ [][Next]_gate
=============================================================================
