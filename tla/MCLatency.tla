----------------------------- MODULE MCLatency ------------------------------
(* Latency for TLC: latencies on both sides of the first, a middle and the  *)
(* last finite bound.  TLC's integers have 32 bits, which the products of   *)
(* the interpolation would exceed with the code's 999_999_999; any bound    *)
(* beyond 25000 has the same effect.                                        *)
EXTENDS Latency

MCLatencies == {0, 10, 11, 25, 500, 501, 5000, 5001}

(* 28 of a hundred is the target that float64 rounds up: of 25 requests,    *)
(* 7 and 18 in two buckets, its rank is 7.000000000000001.                  *)
MCTargets == {-5, 0, 28, 50, 95, 99, 100, 105}

MCRoundedUp == {28}
=============================================================================
