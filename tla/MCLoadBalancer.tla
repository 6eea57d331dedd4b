--------------------------- MODULE MCLoadBalancer ---------------------------
(* Two request tasks of one client and three backends; once with distinct  *)
(* URLs and once with a URL configured twice.  The client's hash makes the *)
(* walk of ip_hash wrap, and USize is, as 2^64 is, one more than a         *)
(* multiple of 3, so the cursor wraps out of step.                         *)
EXTENDS LoadBalancer, TLC

CONSTANT a1

MCHash == a1 :> 5
MCUrlLists ==
  { (0 :> "u") @@ (1 :> "v") @@ (2 :> "w"), (0 :> "u") @@ (1 :> "v") @@ (2 :> "v") }
Symmetry == Permutations(Tasks)
=============================================================================
