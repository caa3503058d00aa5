---------------------------- MODULE PureColumns -----------------------------
(***************************************************************************)
(* What evaluation promises of values (SPEC section 10.2): they are        *)
(* immutable. A stack of intermediate values and the named ones; an        *)
(* operation pops its operands and pushes a new value, or fails and drops  *)
(* the intermediate values down to some enclosing `try`.                   *)
(***************************************************************************)
EXTENDS Columns

CONSTANTS Names, Literals, Scalars

VARIABLES stack, named

pvars == <<stack, named>>

(* A value: <<"num", element>> or <<"col", elements>>; a name without a     *)
(* value has <<>>.                                                          *)
Num(e) == <<"num", e>>
Col(x) == <<"col", x>>
IsCol(v) == v[1] = "col"

Length(a, b) == IF IsCol(a) THEN Len(a[2]) ELSE Len(b[2])
Elements(v, n) == IF IsCol(v) THEN v[2] ELSE Broadcast(v[2], n)

Mismatch(a, b) == IsCol(a) /\ IsCol(b) /\ Len(a[2]) # Len(b[2])

Answer(op, a, b) ==
  IF IsCol(a) \/ IsCol(b)
  THEN LET n == Length(a, b)
       IN Col([i \in 1..n |-> Arith2(op, Elements(a, n)[i], Elements(b, n)[i])])
  ELSE Num(Arith2(op, a[2], b[2]))

Refused(op, a, b) ==
  \/ Mismatch(a, b)
  \/ IF IsCol(a) \/ IsCol(b)
     THEN LET n == Length(a, b)
          IN Failing(op, Elements(a, n), Elements(b, n)) # {}
     ELSE Overflows(op, a[2], b[2])

PInit == stack = <<>> /\ named = [n \in Names |-> <<>>]

Push(v) == stack' = Append(stack, v) /\ UNCHANGED named

Bind(n) ==
  /\ stack # <<>>
  /\ named' = [named EXCEPT ![n] = stack[Len(stack)]]
  /\ UNCHANGED stack

Forget(n) == named' = [named EXCEPT ![n] = <<>>] /\ UNCHANGED stack

Pop == stack # <<>> /\ stack' = SubSeq(stack, 1, Len(stack) - 1) /\ UNCHANGED named

Operate(op) ==
  /\ Len(stack) >= 2
  /\ LET a == stack[Len(stack) - 1]
         b == stack[Len(stack)]
     IN IF Refused(op, a, b)
        THEN \E k \in 0..Len(stack) - 2 : stack' = SubSeq(stack, 1, k)
        ELSE stack' = Append(SubSeq(stack, 1, Len(stack) - 2), Answer(op, a, b))
  /\ UNCHANGED named

PNext == \/ \E l \in Literals : Push(Col(l))
         \/ \E e \in Scalars : Push(Num(e))
         \/ \E n \in Names : named[n] # <<>> /\ Push(named[n])
         \/ \E n \in Names : Bind(n) \/ Forget(n)
         \/ Pop
         \/ \E op \in Ops : Operate(op)

PSpec == PInit /\ [][PNext]_pvars
=============================================================================
