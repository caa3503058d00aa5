---------------------------- MODULE MCCallFrames ----------------------------
(* Instances of CallFrames for TLC. *)
EXTENDS CallFrames, TLC

CONSTANTS x, y, v, w

(* A closure of two parameters, and one that captured x and takes y.        *)
TwoClosures ==
  {[params |-> <<x, y>>, captured |-> <<>>],
   [params |-> <<y>>, captured |-> <<[key |-> x, val |-> v]>>]}

(* Allocations are interchangeable.                                         *)
AnyTab == Permutations(Tabs)
=============================================================================
