----------------------------- MODULE CallFrames -----------------------------
(***************************************************************************)
(* Calls in the Rust implementation (src/src/eval.rs): apply takes a frame *)
(* from a pool and gives it back, a block shares its call's frame until    *)
(* its first declaration copies it (Rc::make_mut), locals() hands out      *)
(* the frame itself. Only reference counts keep these apart.               *)
(***************************************************************************)
EXTENDS Frames

vars == frameVars

Init == FramesInit

(* Mutant of Unshared: the count is not looked at.                          *)
TakenForUnshared(t) == TRUE

(* Rc::get_mut succeeds, and Rc::make_mut copies nothing.                   *)
Unshared(t) == tab[t].rc = 1

----------------------------------------------------------------------------
(* Mutant of FrameGet: the frame stays in the pool.                         *)
FrameGetShared(p) == p

(* frame_get leaves the rest of the pool.                                   *)
FrameGet(p) == IF p = <<>> THEN p ELSE SubSeq(p, 1, Len(p) - 1)

(* apply: a frame from the pool, or a new one, and the captured bindings    *)
(* appended to whatever it holds.                                           *)
Enter(clo) ==
  /\ Len(calls) < MaxCalls
  /\ \E t \in IF pool = <<>> THEN FreeTabs ELSE {pool[Len(pool)]} :
       /\ tab' = [tab EXCEPT ![t] = [rc  |-> 1, env |-> @.env \o clo.captured]]
       /\ calls' = Append(calls, [clo |-> clo, bound |-> 0, returned |-> FALSE,
                                  frame |-> t, blocks |-> <<>>])
  /\ pool' = FrameGet(pool)
  /\ UNCHANGED <<held, read>>

(* The next argument, once coerced, is bound. The coercion may call a       *)
(* predicate: Enter is possible here too.                                   *)
BindParam(v) ==
  /\ calls # <<>>
  /\ ~Top.returned
  /\ Top.bound < Len(Top.clo.params)
  /\ tab' = [tab EXCEPT ![Top.frame].env = Bind(@, Top.clo.params[Top.bound + 1], v)]
  /\ calls' = Update([Top EXCEPT !.bound = @ + 1])
  /\ UNCHANGED <<pool, held, read>>

----------------------------------------------------------------------------
Read(x) ==
  /\ calls # <<>>
  /\ InBody(Top)
  /\ x \in Keys(tab[Scope(Top)].env)
  /\ read' = [key |-> x, val |-> Lookup(tab[Scope(Top)].env, x)]
  /\ UNCHANGED <<tab, pool, calls, held>>

(* A block starts with another reference to the env around it.              *)
OpenBlock ==
  /\ calls # <<>>
  /\ InBody(Top)
  /\ Len(Top.blocks) < MaxBlocks
  /\ tab' = [tab EXCEPT ![Scope(Top)].rc = @ + 1]
  /\ calls' = Update([Top EXCEPT !.blocks = Append(@, Scope(Top))])
  /\ UNCHANGED <<pool, held, read>>

(* decl_step: make_mut copies the env unless the block has the only         *)
(* reference to it.                                                         *)
Let(x, v) ==
  /\ calls # <<>>
  /\ InBody(Top)
  /\ Top.blocks # <<>>
  /\ LET cur == Scope(Top)
         e == Bind(tab[cur].env, x, v)
     IN IF Unshared(cur)
        THEN /\ tab' = [tab EXCEPT ![cur].env = e]
             /\ UNCHANGED calls
        ELSE \E t \in FreeTabs :
               /\ tab' = [tab EXCEPT ![cur].rc = @ - 1, ![t] = [rc |-> 1, env |-> e]]
               /\ calls' = Update([Top EXCEPT !.blocks[Len(Top.blocks)] = t])
  /\ UNCHANGED <<pool, held, read>>

CloseBlock ==
  /\ calls # <<>>
  /\ Top.blocks # <<>>
  /\ tab' = Release(tab, <<Scope(Top)>>)
  /\ calls' = Update([Top EXCEPT !.blocks = SubSeq(@, 1, Len(@) - 1)])
  /\ UNCHANGED <<pool, held, read>>

(* locals(): a reference to the env itself.                                 *)
Reflect(h) ==
  /\ calls # <<>>
  /\ InBody(Top)
  /\ held[h] = NoTab
  /\ held' = [held EXCEPT ![h] = Scope(Top)]
  /\ tab' = [tab EXCEPT ![Scope(Top)].rc = @ + 1]
  /\ UNCHANGED <<pool, calls, read>>

Forget(h) ==
  /\ held[h] # NoTab
  /\ held' = [held EXCEPT ![h] = NoTab]
  /\ tab' = Release(tab, <<held[h]>>)
  /\ UNCHANGED <<pool, calls, read>>

----------------------------------------------------------------------------
Pooled(t) == Unshared(t) /\ Len(pool) < PoolMax

(* The body has its value: a frame nobody else refers to is emptied and     *)
(* goes back to the pool if there is room; the value is yet to be coerced.  *)
Return ==
  /\ calls # <<>>
  /\ InBody(Top)
  /\ Top.blocks = <<>>
  /\ tab' = IF Unshared(Top.frame) THEN [tab EXCEPT ![Top.frame].env = <<>>] ELSE tab
  /\ pool' = IF Pooled(Top.frame) THEN Append(pool, Top.frame) ELSE pool
  /\ calls' = Update([Top EXCEPT !.returned = TRUE,
                                 !.frame = IF Pooled(@) THEN NoTab ELSE @])
  /\ UNCHANGED <<held, read>>

(* apply ends: after the coercion of the value, or by an error at any       *)
(* point, which drops the frame and the blocks' envs.                       *)
Leave ==
  /\ calls # <<>>
  /\ tab' = Release(tab, IF Top.frame = NoTab THEN Top.blocks
                         ELSE Append(Top.blocks, Top.frame))
  /\ calls' = SubSeq(calls, 1, Len(calls) - 1)
  /\ UNCHANGED <<pool, held, read>>

Next == \/ \E clo \in Closures : Enter(clo)
        \/ \E v \in Vals : BindParam(v)
        \/ \E x \in Vars : Read(x)
        \/ \E x \in Vars, v \in Vals : Let(x, v)
        \/ \E h \in Slots : Reflect(h) \/ Forget(h)
        \/ OpenBlock
        \/ CloseBlock
        \/ Return
        \/ Leave

Spec == Init /\ [][Next]_vars
=============================================================================
