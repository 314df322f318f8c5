----------------------------- MODULE MCFastPath -----------------------------
(* FastPath on a small instance: on one flow towards a host, a redirect that *)
(* names its scrubber, one that does not, one to an address outside the      *)
(* fat-tree (the rule is that of a blackhole) and the return to normal; on   *)
(* a flow that leaves the fat-tree, a rate limit.                            *)
EXTENDS FastPath, TLC

CONSTANTS c1, e1, inside, outside, pod, cloud

MCDecisions ==
    { [flow |-> inside, tier |-> 3, redirect |-> pod],
      [flow |-> inside, tier |-> 3, redirect |-> NoTarget],
      [flow |-> inside, tier |-> 3, redirect |-> cloud],
      [flow |-> inside, tier |-> 0, redirect |-> NoTarget],
      [flow |-> outside, tier |-> 2, redirect |-> NoTarget] }

\* The controller treats all switches alike.
SwitchSymmetry == Permutations(Switches)

=============================================================================
