----------------------------- MODULE MCGateway ------------------------------
(* Gateway for TLC: two keys of one organisation with different tiers, one  *)
(* of them also written for another organisation, the ways an entry of      *)
(* VETO_STATIC_KEYS can be wrong, and a cloud that knows one of the keys,   *)
(* on a tier that is not in the table.  A tick is two and a half seconds.   *)
EXTENDS Gateway, TLC

Item(n, k, o, t) == [fields |-> n, key |-> k, org |-> o, tier |-> t]

MCItems == {
    Item(3, "k1", "acme", "free"),
    Item(3, "k2", "acme", "pro"),
    Item(3, "k1", "globex", "pro"),
    Item(0, "", "", ""),
    Item(2, "k2", "acme", ""),
    Item(3, "bad", "acme", "free"),
    Item(3, "k2", "", "free"),
    Item(3, "k2", "acme", "gold") }

MCRows == [k \in {"k1"} |-> [org |-> "acme", tier |-> "trial"]]

Symmetry == Permutations(Requests)
=============================================================================
