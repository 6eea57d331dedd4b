--------------------------- MODULE MCRateLimiter ----------------------------
(* Three requests of one client.  Two ticks to the second make fractions   *)
(* of a token; rps = 0 switches the limiter off and burst = 0 refuses      *)
(* everybody.                                                              *)
EXTENDS RateLimiter, TLC

Symmetry == Permutations(Tasks)
=============================================================================
