-------------------------------- MODULE Envs --------------------------------
(***************************************************************************)
(* Environments: the Tab of both implementations, a list of bindings whose *)
(* tab_bind replaces the first entry of a name and whose lookup returns    *)
(* the last. Which tabs a value inside a binding refers to is abstracted.  *)
(***************************************************************************)
EXTENDS Integers, Sequences, FiniteSets

CONSTANTS
  Vars,      (* names                                                       *)
  Vals,      (* values                                                      *)
  NoVal,     (* no value was read                                           *)
  Closures,  (* the closures of the program: what they captured, parameters *)
  Slots,     (* bound: places where the program keeps a reflected env       *)
  MaxCalls   (* bound: calls in progress                                    *)

Binding == [key : Vars, val : Vals]
Env == Seq(Binding)

Keys(e) == {e[i].key : i \in 1..Len(e)}
Positions(e, x) == {i \in 1..Len(e) : e[i].key = x}
First(s) == CHOOSE i \in s : \A j \in s : i <= j
Last(s)  == CHOOSE i \in s : \A j \in s : j <= i

(* Mutant of Bind: the name is not looked for.                              *)
BindAnew(e, x, v) == Append(e, [key |-> x, val |-> v])

Bind(e, x, v) ==
  IF x \in Keys(e)
  THEN [e EXCEPT ![First(Positions(e, x))].val = v]
  ELSE Append(e, [key |-> x, val |-> v])

Lookup(e, x) == e[Last(Positions(e, x))].val

Closure == [params : Seq(Vars), captured : Env]

(* A closure captures each of its free names once.                          *)
OneBindingEach(e) == \A x \in Vars : Cardinality(Positions(e, x)) <= 1

ASSUME EnvsAssumption ==
  /\ Closures \subseteq {c \in Closure : OneBindingEach(c.captured)}
  /\ NoVal \notin Binding
  /\ MaxCalls \in Nat
=============================================================================
