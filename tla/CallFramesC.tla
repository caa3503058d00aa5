---------------------------- MODULE CallFramesC -----------------------------
(***************************************************************************)
(* Calls in the C implementation (src/c/eval.c): apply with frame_get and  *)
(* frame_put, decl_step, which copies the env at every declaration, and    *)
(* variable references that remember the position they last found their    *)
(* name at. A block retains its env and releases nothing.                  *)
(***************************************************************************)
EXTENDS Frames

CONSTANT MaxCount  \* bound: references to one tab

ASSUME CountAssumption == MaxCount \in Nat

VARIABLE slot  \* name -> var_slot of the node that refers to it, 0 for none

vars == <<frameVars, slot>>

Init == FramesInit /\ slot = [x \in Vars |-> 0]

----------------------------------------------------------------------------
(* e with the bindings of bs bound in it, one after the other.              *)
BindAll(e, bs) ==
  LET bound[n \in 0..Len(bs)] ==
        IF n = 0 THEN e ELSE Bind(bound[n - 1], bs[n].key, bs[n].val)
  IN bound[Len(bs)]

(* frame_get leaves the rest of the pool.                                   *)
FrameGet(p) == IF p = <<>> THEN p ELSE SubSeq(p, 1, Len(p) - 1)

(* apply: the captured bindings are bound in a frame from the pool.         *)
Enter(clo) ==
  /\ Len(calls) < MaxCalls
  /\ \E t \in IF pool = <<>> THEN FreeTabs ELSE {pool[Len(pool)]} :
       /\ tab' = [tab EXCEPT ![t] = [rc |-> 1, env |-> BindAll(@.env, clo.captured)]]
       /\ calls' = Append(calls, [clo |-> clo, bound |-> 0, returned |-> FALSE,
                                  frame |-> t, blocks |-> <<>>])
  /\ pool' = FrameGet(pool)
  /\ UNCHANGED <<held, read, slot>>

BindParam(v) ==
  /\ calls # <<>>
  /\ ~Top.returned
  /\ Top.bound < Len(Top.clo.params)
  /\ tab' = [tab EXCEPT ![Top.frame].env = Bind(@, Top.clo.params[Top.bound + 1], v)]
  /\ calls' = Update([Top EXCEPT !.bound = @ + 1])
  /\ UNCHANGED <<pool, held, read, slot>>

----------------------------------------------------------------------------
(* Mutant of SlotHolds: the key is not compared.                            *)
SlotInRange(e, x) == slot[x] \in 1..Len(e)

(* The remembered position still holds the name.                            *)
SlotHolds(e, x) == slot[x] \in 1..Len(e) /\ e[slot[x]].key = x

Read(x) ==
  /\ calls # <<>>
  /\ InBody(Top)
  /\ LET e == tab[Scope(Top)].env
     IN /\ x \in Keys(e)
        /\ slot' = IF SlotHolds(e, x) THEN slot
                   ELSE [slot EXCEPT ![x] = Last(Positions(e, x))]
        /\ read' = [key |-> x, val |-> e[slot'[x]].val]
  /\ UNCHANGED <<tab, pool, calls, held>>

OpenBlock ==
  /\ calls # <<>>
  /\ InBody(Top)
  /\ Len(Top.blocks) < MaxBlocks
  /\ tab[Scope(Top)].rc < MaxCount
  /\ tab' = [tab EXCEPT ![Scope(Top)].rc = @ + 1]
  /\ calls' = Update([Top EXCEPT !.blocks = Append(@, Scope(Top))])
  /\ UNCHANGED <<pool, held, read, slot>>

(* decl_step goes on in a copy; the env it copied keeps its count.          *)
Let(x, v) ==
  /\ calls # <<>>
  /\ InBody(Top)
  /\ Top.blocks # <<>>
  /\ \E t \in FreeTabs :
       /\ tab' = [tab EXCEPT ![t] = [rc  |-> 1,
                                     env |-> Bind(tab[Scope(Top)].env, x, v)]]
       /\ calls' = Update([Top EXCEPT !.blocks[Len(Top.blocks)] = t])
  /\ UNCHANGED <<pool, held, read, slot>>

(* The block's env goes out of scope with the count it has.                 *)
CloseBlock ==
  /\ calls # <<>>
  /\ Top.blocks # <<>>
  /\ calls' = Update([Top EXCEPT !.blocks = SubSeq(@, 1, Len(@) - 1)])
  /\ UNCHANGED <<tab, pool, held, read, slot>>

(* OP_ENV.                                                                  *)
Reflect(h) ==
  /\ calls # <<>>
  /\ InBody(Top)
  /\ held[h] = NoTab
  /\ held' = [held EXCEPT ![h] = Scope(Top)]
  /\ tab' = [tab EXCEPT ![Scope(Top)].rc = @ + 1]
  /\ UNCHANGED <<pool, calls, read, slot>>

Forget(h) ==
  /\ held[h] # NoTab
  /\ held' = [held EXCEPT ![h] = NoTab]
  /\ tab' = Release(tab, <<held[h]>>)
  /\ UNCHANGED <<pool, calls, read, slot>>

----------------------------------------------------------------------------
(* Mutant of Shared: a frame is given back whoever refers to it.            *)
NeverShared(t) == FALSE

Shared(t) == tab[t].rc # 1

(* frame_put, or tab_release when the count says the frame was reflected.   *)
GiveBack(t) ==
  IF Shared(t)
  THEN tab' = Release(tab, <<t>>) /\ UNCHANGED pool
  ELSE IF Len(pool) < PoolMax
  THEN tab' = [tab EXCEPT ![t].env = <<>>] /\ pool' = Append(pool, t)
  ELSE tab' = [tab EXCEPT ![t] = Free] /\ UNCHANGED pool

Return ==
  /\ calls # <<>>
  /\ InBody(Top)
  /\ Top.blocks = <<>>
  /\ GiveBack(Top.frame)
  /\ calls' = Update([Top EXCEPT !.returned = TRUE, !.frame = NoTab])
  /\ UNCHANGED <<held, read, slot>>

(* apply ends: the coercion of the value succeeds or fails, or an error     *)
(* leaves the body or the binding of the parameters.                        *)
Leave ==
  /\ calls # <<>>
  /\ IF Top.returned THEN UNCHANGED <<tab, pool>> ELSE GiveBack(Top.frame)
  /\ calls' = SubSeq(calls, 1, Len(calls) - 1)
  /\ UNCHANGED <<held, read, slot>>

(* Out of allocations: the bound of the model, not of the program.          *)
CutOff == FreeTabs = {} /\ UNCHANGED vars

Next == \/ \E clo \in Closures : Enter(clo)
        \/ \E v \in Vals : BindParam(v)
        \/ \E x \in Vars : Read(x)
        \/ \E x \in Vars, v \in Vals : Let(x, v)
        \/ \E h \in Slots : Reflect(h) \/ Forget(h)
        \/ OpenBlock
        \/ CloseBlock
        \/ Return
        \/ Leave
        \/ CutOff

Spec == Init /\ [][Next]_vars
=============================================================================
