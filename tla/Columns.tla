------------------------------ MODULE Columns -------------------------------
(***************************************************************************)
(* Integer columns and their elementwise arithmetic, as arith2 defines it: *)
(* two's complement of a fixed width, truncated division, nil propagating, *)
(* and a division that overflows when the divisor is 0 or the quotient     *)
(* does not fit.                                                           *)
(***************************************************************************)
EXTENDS Integers, Sequences, FiniteSets

CONSTANTS
  Half,    (* half as many as there are integers: 2^63, in the small        *)
  Nil,     (* the absent element                                            *)
  Ops      (* the operations of this instance                               *)

AllOps == {"add", "sub", "mul", "div", "rem"}

ASSUME ColumnsAssumption ==
  /\ Half \in Nat \ {0}
  /\ Ops \subseteq AllOps /\ Ops # {}
  /\ Nil \notin Int

MinInt == -Half
Ints == MinInt..(Half - 1)
Elem == Ints \cup {Nil}
Column == Seq(Elem)

Wrap(n) == ((n - MinInt) % (2 * Half)) + MinInt

Magnitude(n) == IF n < 0 THEN -n ELSE n
Quotient(x, y) ==
  LET q == Magnitude(x) \div Magnitude(y)
  IN IF (x < 0) = (y < 0) THEN q ELSE -q

Overflows(op, x, y) ==
  /\ x # Nil /\ y # Nil
  /\ op \in {"div", "rem"}
  /\ y = 0 \/ (x = MinInt /\ y = -1)

Arith2(op, x, y) ==
  IF x = Nil \/ y = Nil THEN Nil
  ELSE CASE op = "add" -> Wrap(x + y)
         [] op = "sub" -> Wrap(x - y)
         [] op = "mul" -> Wrap(x * y)
         [] op = "div" -> Quotient(x, y)
         [] op = "rem" -> x - y * Quotient(x, y)

Failing(op, x, y) == {i \in 1..Len(x) : Overflows(op, x[i], y[i])}

(* The elements a loop over x and y has written into the column o when it   *)
(* ends or stops at the first division that overflows.                      *)
Written(op, x, y, o) ==
  [i \in 1..Len(x) |->
     IF \E j \in Failing(op, x, y) : j <= i THEN o[i] ELSE Arith2(op, x[i], y[i])]

Broadcast(e, n) == [i \in 1..n |-> e]
=============================================================================
