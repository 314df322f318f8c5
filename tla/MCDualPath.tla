----------------------------- MODULE MCDualPath -----------------------------
(* DualPath on a small instance: on one flow towards a host, a redirect to   *)
(* its scrubber, a blackhole and the return to normal; on a flow that leaves *)
(* the fat-tree, a rate limit.                                               *)
EXTENDS DualPath

CONSTANTS c1, inside, outside, pod

MCDecisions ==
    { [flow |-> inside, tier |-> 3, redirect |-> pod],
      [flow |-> inside, tier |-> 4, redirect |-> NoTarget],
      [flow |-> inside, tier |-> 0, redirect |-> NoTarget],
      [flow |-> outside, tier |-> 2, redirect |-> NoTarget] }

=============================================================================
