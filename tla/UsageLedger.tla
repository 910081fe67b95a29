---------------------------- MODULE UsageLedger -----------------------------
(***************************************************************************)
(* What the metering pipeline promises, without queue, worker or shutdown: *)
(* an event is recorded once, and is then pending, billed or reported as   *)
(* dropped.  A pending event may be settled, once and for ever; an event   *)
(* whose fate is unknown (an XADD applied but not acknowledged) may be     *)
(* billed and reported as dropped at once, but never neither.              *)
(***************************************************************************)
CONSTANT Requests

VARIABLES
    pending,   \* recorded, and not yet settled
    billed,    \* in the stream that customers are billed from
    dropped    \* reported as dropped

ledger == <<pending, billed, dropped>>

Init == pending = {} /\ billed = {} /\ dropped = {}

(* A new event is taken on, or is refused and reported.                     *)
Record(r) ==
    /\ r \notin pending \cup billed \cup dropped
    /\ \/ pending' = pending \cup {r} /\ UNCHANGED dropped
       \/ dropped' = dropped \cup {r} /\ UNCHANGED pending
    /\ UNCHANGED billed

(* A pending event is billed, reported, or both.                            *)
Settle(r) ==
    /\ r \in pending
    /\ pending' = pending \ {r}
    /\ \/ billed' = billed \cup {r} /\ UNCHANGED dropped
       \/ dropped' = dropped \cup {r} /\ UNCHANGED billed
       \/ billed' = billed \cup {r} /\ dropped' = dropped \cup {r}

Next == \E r \in Requests : Record(r) \/ Settle(r)

Spec == Init /\ [][Next]_ledger
=============================================================================
