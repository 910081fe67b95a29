--------------------------- MODULE MCOrgRateLimit ---------------------------
(* OrgRateLimit for TLC: a limited and an unlimited tier.                   *)
EXTENDS OrgRateLimit, TLC

MCLimits == "free" :> 2 @@ "pro" :> 0

Symmetry == Permutations(Requests) \cup Permutations(Orgs)
=============================================================================
