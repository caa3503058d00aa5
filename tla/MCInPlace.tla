----------------------------- MODULE MCInPlace ------------------------------
(* Instances of InPlace for TLC. *)
EXTENDS InPlace, TLC

(* Two lengths; a division by zero halfway, and by -1 of the least integer.  *)
SomeLiterals == {<<1, 0>>, <<-2>>}
SomeScalars == {-1, Nil}

(* Allocations are interchangeable.                                         *)
AnyCol == Permutations(Cols)
=============================================================================
