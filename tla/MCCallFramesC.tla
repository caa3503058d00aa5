--------------------------- MODULE MCCallFramesC ----------------------------
(* Instances of CallFramesC for TLC. *)
EXTENDS CallFramesC, TLC

CONSTANTS x, y, v, w

(* The same two names in either order: one node, two layouts.               *)
TwoLayouts ==
  {[params |-> <<x>>, captured |-> <<[key |-> y, val |-> w]>>],
   [params |-> <<>>, captured |-> <<[key |-> x, val |-> v]>>]}

(* Allocations are interchangeable.                                         *)
AnyTab == Permutations(Tabs)
=============================================================================
