----------------------------- MODULE PureCalls ------------------------------
(***************************************************************************)
(* What calls promise the program: every call has an environment of its    *)
(* own, made of what its closure captured and its arguments; a block's     *)
(* declarations are seen in the block alone; and an environment that was   *)
(* reflected with locals() is a value, which never changes again. Nothing  *)
(* is pooled, shared or counted.                                           *)
(***************************************************************************)
EXTENDS Envs

VARIABLES
  calls,  (* the calls in progress: closure, how many parameters are bound, *)
          (* whether the body has returned, environment, open blocks        *)
  held,   (* slot -> the reflected environment kept there                   *)
  read    (* the name last referred to and the value that gave               *)

pvars == <<calls, held, read>>

(* A slot holds nothing or one environment.                                 *)
NoEnv == <<>>

Top == calls[Len(calls)]
Scope(c) == IF c.blocks = <<>> THEN c.env ELSE c.blocks[Len(c.blocks)]
InBody(c) == ~c.returned /\ c.bound = Len(c.clo.params)
Update(c) == [calls EXCEPT ![Len(calls)] = c]
Drop == SubSeq(calls, 1, Len(calls) - 1)

PInit == calls = <<>> /\ held = [h \in Slots |-> NoEnv] /\ read = NoVal

Enter(clo) ==
  /\ calls' = Append(calls, [clo |-> clo, bound |-> 0, returned |-> FALSE,
                             env |-> clo.captured, blocks |-> <<>>])
  /\ UNCHANGED <<held, read>>

BindParam(v) ==
  /\ calls # <<>> /\ ~Top.returned /\ Top.bound < Len(Top.clo.params)
  /\ calls' = Update([Top EXCEPT !.bound = @ + 1,
                        !.env = Bind(@, Top.clo.params[Top.bound + 1], v)])
  /\ UNCHANGED <<held, read>>

Read(x) ==
  /\ calls # <<>> /\ InBody(Top) /\ x \in Keys(Scope(Top))
  /\ read' = [key |-> x, val |-> Lookup(Scope(Top), x)]
  /\ UNCHANGED <<calls, held>>

OpenBlock ==
  /\ calls # <<>> /\ InBody(Top)
  /\ calls' = Update([Top EXCEPT !.blocks = Append(@, Scope(Top))])
  /\ UNCHANGED <<held, read>>

Let(x, v) ==
  /\ calls # <<>> /\ InBody(Top) /\ Top.blocks # <<>>
  /\ calls' = Update([Top EXCEPT !.blocks[Len(Top.blocks)] = Bind(@, x, v)])
  /\ UNCHANGED <<held, read>>

CloseBlock ==
  /\ calls # <<>> /\ Top.blocks # <<>>
  /\ calls' = Update([Top EXCEPT !.blocks = SubSeq(@, 1, Len(@) - 1)])
  /\ UNCHANGED <<held, read>>

Reflect(h) ==
  /\ calls # <<>> /\ InBody(Top)
  /\ held[h] = NoEnv
  /\ held' = [held EXCEPT ![h] = <<Scope(Top)>>]
  /\ UNCHANGED <<calls, read>>

Forget(h) ==
  /\ held' = [held EXCEPT ![h] = NoEnv]
  /\ UNCHANGED <<calls, read>>

(* The body's value is left to be coerced to the declared type.             *)
Return ==
  /\ calls # <<>> /\ InBody(Top) /\ Top.blocks = <<>>
  /\ calls' = Update([Top EXCEPT !.returned = TRUE, !.env = <<>>])
  /\ UNCHANGED <<held, read>>

(* The call ends, with its value or with an error, which some caller may    *)
(* catch.                                                                   *)
Leave ==
  /\ calls # <<>>
  /\ calls' = Drop
  /\ UNCHANGED <<held, read>>

PNext == \/ \E clo \in Closures : Enter(clo)
         \/ \E v \in Vals : BindParam(v)
         \/ \E x \in Vars : Read(x)
         \/ \E x \in Vars, v \in Vals : Let(x, v)
         \/ \E h \in Slots : Reflect(h) \/ Forget(h)
         \/ OpenBlock \/ CloseBlock \/ Return \/ Leave

PSpec == PInit /\ [][PNext]_pvars
=============================================================================
