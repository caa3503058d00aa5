-------------------------- MODULE FileLoader_proofs --------------------------
(***************************************************************************)
(* Proofs about the unit loader, for any set of texts, any files, any      *)
(* number of forms and edits.                                              *)
(***************************************************************************)
EXTENDS FileLoader, Units_proofs

(* A stack or a list of activations without its last element.               *)
LEMMA PopIsShorter ==
  ASSUME NEW S, NEW s \in Seq(S), Len(s) > 0
  PROVE  /\ Pop(s) \in Seq(S)
         /\ Len(Pop(s)) = Len(s) - 1
         /\ \A i \in 1..Len(s) - 1 : Pop(s)[i] = s[i]
  BY FrontIsShorter DEF Pop

----------------------------------------------------------------------------
(* First layer: types, and the correspondence of stack and activations that *)
(* makes Current and Pop meaningful.                                        *)

Shape == TypeOK /\ StackMatchesLoads

LEMMA RunningShape ==
  ASSUME Shape, outcome = "running"
  PROVE  /\ acts \in Seq(Activation) /\ stack \in Seq(Names)
         /\ Len(acts) \in Nat /\ Len(stack) \in Nat
         /\ Len(acts) = Len(stack) + 1
         /\ \A i \in 1..Len(stack) : acts[i + 1].name = stack[i]
         /\ \A i \in 1..Len(acts) : acts[i] \in Activation
         /\ Current \in Activation
  <1>1. /\ acts \in Seq(Activation) /\ stack \in Seq(Names)
        /\ Len(acts) = Len(stack) + 1
        /\ \A i \in 1..Len(stack) : acts[i + 1].name = stack[i]
    BY DEF Shape, TypeOK, StackMatchesLoads
  <1>2. Len(acts) \in Nat /\ Len(stack) \in Nat
    BY <1>1, LenProperties
  <1>3. \A i \in 1..Len(acts) : acts[i] \in Activation
    BY <1>1, ElementOfSeq
  <1>4. Len(acts) \in 1..Len(acts)
    BY <1>1, <1>2
  <1> QED
    BY <1>1, <1>2, <1>3, <1>4 DEF Current

(* A step that only rewrites the innermost activation, keeping its name.    *)
LEMMA ReplaceKeepsShape ==
  ASSUME Shape, outcome = "running",
         NEW b \in Activation, b.name = Current.name,
         acts' = Replace(b), stack' = stack, outcome' = outcome
  PROVE  /\ acts' \in Seq(Activation)
         /\ Len(acts') = Len(acts)
         /\ \A i \in 1..Len(acts) : acts'[i] = IF i = Len(acts) THEN b ELSE acts[i]
         /\ StackMatchesLoads'
  <1>1. /\ acts \in Seq(Activation) /\ Len(acts) \in Nat /\ Len(stack) \in Nat
        /\ Len(acts) = Len(stack) + 1
        /\ \A i \in 1..Len(stack) : acts[i + 1].name = stack[i]
    BY RunningShape
  <1>2. Len(acts) \in 1..Len(acts)
    BY <1>1
  <1>3. /\ acts' \in Seq(Activation)
        /\ Len(acts') = Len(acts)
        /\ \A i \in 1..Len(acts) : acts'[i] = IF i = Len(acts) THEN b ELSE acts[i]
    BY <1>1, <1>2, ExceptSeq DEF Replace
  <1>4. \A i \in 1..Len(stack) : acts'[i + 1].name = stack[i]
    BY <1>1, <1>3 DEF Current
  <1> QED
    BY <1>1, <1>3, <1>4 DEF StackMatchesLoads

(* A load that returns pops the activation and the name together; its       *)
(* caller b may have moved on.                                              *)
LEMMA ReturnKeepsShape ==
  ASSUME Shape, outcome = "running", Len(acts) > 1,
         NEW b \in Activation, b.name = acts[Len(acts) - 1].name,
         \/ acts' = [Pop(acts) EXCEPT ![Len(acts) - 1] = b]
         \/ acts' = Pop(acts) /\ b = acts[Len(acts) - 1],
         stack' = Pop(stack), outcome' = outcome
  PROVE  /\ acts' \in Seq(Activation)
         /\ stack' \in Seq(Names)
         /\ Len(acts') = Len(acts) - 1
         /\ Len(stack') = Len(stack) - 1
         /\ \A i \in 1..Len(acts) - 1 :
              acts'[i] = IF i = Len(acts) - 1 THEN b ELSE acts[i]
         /\ \A i \in 1..Len(stack) - 1 : stack'[i] = stack[i]
         /\ StackMatchesLoads'
  <1>1. /\ acts \in Seq(Activation) /\ stack \in Seq(Names)
        /\ Len(acts) \in Nat /\ Len(stack) \in Nat
        /\ Len(acts) = Len(stack) + 1
        /\ \A i \in 1..Len(stack) : acts[i + 1].name = stack[i]
    BY RunningShape
  <1>2. /\ Pop(acts) \in Seq(Activation)
        /\ Len(Pop(acts)) = Len(acts) - 1
        /\ \A i \in 1..Len(acts) - 1 : Pop(acts)[i] = acts[i]
    BY <1>1, PopIsShorter
  <1>3. /\ stack' \in Seq(Names)
        /\ Len(stack') = Len(stack) - 1
        /\ \A i \in 1..Len(stack) - 1 : stack'[i] = stack[i]
    BY <1>1, PopIsShorter
  <1>4. Len(acts) - 1 \in 1..Len(Pop(acts))
    BY <1>1, <1>2
  <1>5. /\ acts' \in Seq(Activation)
        /\ Len(acts') = Len(acts) - 1
        /\ \A i \in 1..Len(acts) - 1 :
             acts'[i] = IF i = Len(acts) - 1 THEN b ELSE Pop(acts)[i]
    <2>1. CASE acts' = [Pop(acts) EXCEPT ![Len(acts) - 1] = b]
      BY <1>2, <1>4, <2>1, ExceptSeq
    <2>2. CASE acts' = Pop(acts) /\ b = acts[Len(acts) - 1]
      BY <1>1, <1>2, <1>4, <2>2
    <2> QED
      BY <2>1, <2>2
  <1>6. \A i \in 1..Len(acts) - 1 :
          acts'[i] = IF i = Len(acts) - 1 THEN b ELSE acts[i]
    BY <1>2, <1>5
  <1>7. \A i \in 1..Len(stack) - 1 : acts'[i + 1].name = stack[i]
    BY <1>1, <1>6
  <1> QED
    BY <1>1, <1>3, <1>5, <1>6, <1>7 DEF StackMatchesLoads

LEMMA BeginKeepsShape ==
  ASSUME Shape, outcome = "running",
         NEW n \in Names, NEW b \in Activation, b.name = n,
         acts' = Append(acts, b), stack' = Append(stack, n), outcome' = outcome
  PROVE  /\ acts' \in Seq(Activation)
         /\ stack' \in Seq(Names)
         /\ Len(acts') = Len(acts) + 1
         /\ Len(stack') = Len(stack) + 1
         /\ \A i \in 1..Len(acts) : acts'[i] = acts[i]
         /\ acts'[Len(acts) + 1] = b
         /\ \A i \in 1..Len(stack) : stack'[i] = stack[i]
         /\ stack'[Len(stack) + 1] = n
         /\ StackMatchesLoads'
  <1>1. /\ acts \in Seq(Activation) /\ stack \in Seq(Names)
        /\ Len(acts) \in Nat /\ Len(stack) \in Nat
        /\ Len(acts) = Len(stack) + 1
        /\ \A i \in 1..Len(stack) : acts[i + 1].name = stack[i]
    BY RunningShape
  <1>2. /\ acts' \in Seq(Activation)
        /\ Len(acts') = Len(acts) + 1
        /\ \A i \in 1..Len(acts) : acts'[i] = acts[i]
        /\ acts'[Len(acts) + 1] = b
    BY <1>1, AppendProperties
  <1>3. /\ stack' \in Seq(Names)
        /\ Len(stack') = Len(stack) + 1
        /\ \A i \in 1..Len(stack) : stack'[i] = stack[i]
        /\ stack'[Len(stack) + 1] = n
    BY <1>1, AppendProperties
  <1>4. \A i \in 1..Len(stack) + 1 : acts'[i + 1].name = stack'[i]
    <2> TAKE i \in 1..Len(stack) + 1
    <2>1. CASE i \in 1..Len(stack)
      BY <1>1, <1>2, <1>3, <2>1
    <2>2. CASE i = Len(stack) + 1
      BY <1>1, <1>2, <1>3, <2>2
    <2> QED
      BY <1>1, <2>1, <2>2
  <1> QED
    BY <1>1, <1>2, <1>3, <1>4 DEF StackMatchesLoads

(* What the next declaration of a running activation is.                    *)
LEMMA WantedIsTyped ==
  ASSUME Shape, Demanding
  PROVE  /\ outcome = "running"
         /\ Current \in Activation
         /\ Wanted \in UseDecl
         /\ Wanted.name \in Names
         /\ SourceOf(Wanted) \in Sources
  <1>1. outcome = "running" /\ ~Finished(Current)
    BY DEF Demanding, WantsUnit
  <1>2. Current \in Activation
    BY <1>1, RunningShape
  <1>3. /\ Current.text \in Texts
        /\ Current.pc \in Nat \ {0}
    BY <1>2 DEF Activation
  <1>4. /\ Len(Current.text.uses) \in Nat
        /\ \A i \in 1..Len(Current.text.uses) : Current.text.uses[i] \in UseDecl
    BY <1>3, TextIsTyped
  <1>5. Current.pc \in 1..Len(Current.text.uses)
    BY <1>1, <1>3, <1>4 DEF Finished
  <1>6. Wanted \in UseDecl
    BY <1>4, <1>5 DEF Wanted, Declaration
  <1> QED
    BY <1>1, <1>2, <1>6 DEF UseDecl, SourceOf, Sources

LEMMA RaiseKeepsShape ==
  ASSUME Shape, outcome = "running",
         NEW why \in {"missing", "cycle", "remote", "parse", "check", "eval"},
         Raise(why)
  PROVE  Shape'
  <1>1. Current.phase \in {"check", "eval"}
    BY RunningShape DEF Activation
  <1>2. fault' \in Faults
    BY <1>1 DEF Raise, Faults
  <1> QED
    BY <1>2 DEF Raise, env, Shape, TypeOK, StackMatchesLoads

LEMMA ShapeStep ==
  ASSUME Shape, [Next]_vars
  PROVE  Shape'
  <1>1. ASSUME NEW t \in Texts, Submit(t)
        PROVE  Shape'
    <2> DEFINE r == Fresh(Root, FALSE, t, IF interactive THEN "eval" ELSE "check")
    <2>1. r \in Activation
      BY FreshIsTyped
    <2>2. acts = <<>> /\ stack = <<>>
      BY <1>1 DEF Submit, Shape, StackMatchesLoads
    <2>3. forms \in Nat /\ forms' \in 0..MaxForms
      BY <1>1, LoaderAssumption DEF Submit, FormsOfSession, Shape, TypeOK
    <2>4. CASE outcome' = "failed" /\ acts' = acts
      BY <1>1, <2>2, <2>3, <2>4 DEF Submit, Shape, TypeOK, StackMatchesLoads
    <2>5. CASE outcome' = "running" /\ acts' = <<r>>
      <3>1. acts' \in Seq(Activation) /\ Len(acts') = 1
        BY <2>1, <2>5, SingletonIsASeq
      <3>2. StackMatchesLoads'
        BY <1>1, <2>2, <2>5, <3>1 DEF Submit, StackMatchesLoads
      <3> QED
        BY <1>1, <2>3, <2>5, <3>1, <3>2 DEF Submit, Shape, TypeOK
    <2> QED
      BY <1>1, <2>4, <2>5 DEF Submit
  <1>2. ASSUME NEW x \in Sources, NEW t \in Texts \cup {Missing}, Edit(x, t)
        PROVE  Shape'
    <2>1. disk' \in [Sources -> Texts \cup {Missing}]
      BY <1>2 DEF Edit, Shape, TypeOK
    <2>2. edits' \in 0..MaxEdits
      BY <1>2, LoaderAssumption DEF Edit, Shape, TypeOK
    <2> QED
      BY <1>2, <2>1, <2>2 DEF Edit, Shape, TypeOK, StackMatchesLoads
  <1>3. CASE LoadHit
    <2>1. cache[Wanted.name] \in Unit
      BY <1>3, WantedIsTyped DEF LoadHit, Shape, TypeOK
    <2> DEFINE b == Receive(Current, Wanted.name, cache[Wanted.name])
    <2>2. b \in Activation /\ b.name = Current.name
      BY <1>3, <2>1, WantedIsTyped, ReceiveIsTyped DEF LoadHit
    <2>3. acts' \in Seq(Activation) /\ StackMatchesLoads'
      BY <1>3, <2>2, WantedIsTyped, ReplaceKeepsShape DEF LoadHit
    <2> QED
      BY <1>3, <2>3 DEF LoadHit, env, Shape, TypeOK
  <1>4. CASE LoadForbidden
    BY <1>4, RaiseKeepsShape DEF LoadForbidden, Demanding
  <1>5. CASE LoadCycle
    BY <1>5, RaiseKeepsShape DEF LoadCycle, Demanding
  <1>6. CASE LoadUnreadable
    BY <1>6, RaiseKeepsShape DEF LoadUnreadable, Reading, Demanding
  <1>7. CASE LoadUnparsable
    BY <1>7, RaiseKeepsShape DEF LoadUnparsable, Reading, Demanding
  <1>8. CASE LoadBegin
    <2>1. Demanding
      BY <1>8 DEF LoadBegin, Reading
    <2>2. disk[SourceOf(Wanted)] \in Texts
      BY <1>8, <2>1, WantedIsTyped DEF LoadBegin, Shape, TypeOK
    <2> DEFINE b == Fresh(Wanted.name, Wanted.url = NoUrl, disk[SourceOf(Wanted)], "check")
    <2>3. b \in Activation /\ b.name = Wanted.name
      BY <2>1, <2>2, WantedIsTyped, FreshIsTyped
    <2>4. acts' \in Seq(Activation) /\ stack' \in Seq(Names) /\ StackMatchesLoads'
      BY <1>8, <2>1, <2>3, WantedIsTyped, BeginKeepsShape DEF LoadBegin
    <2> QED
      BY <1>8, <2>4 DEF LoadBegin, env, Shape, TypeOK
  <1>9. CASE CheckSkip
    <2>1. Current \in Activation
      BY <1>9, RunningShape DEF CheckSkip
    <2> DEFINE b == [Current EXCEPT !.pc = @ + 1]
    <2>2. b \in Activation /\ b.name = Current.name
      BY <2>1 DEF Activation
    <2>3. acts' \in Seq(Activation) /\ StackMatchesLoads'
      BY <1>9, <2>2, ReplaceKeepsShape DEF CheckSkip
    <2> QED
      BY <1>9, <2>3 DEF CheckSkip, env, Shape, TypeOK
  <1>10. CASE CheckAccept
    <2>1. Current \in Activation
      BY <1>10, RunningShape DEF CheckAccept, AtCheck
    <2> DEFINE b == [Current EXCEPT !.phase = "eval", !.pc = 1]
    <2>2. b \in Activation /\ b.name = Current.name
      BY <2>1, EvalStartIsTyped
    <2>3. acts' \in Seq(Activation) /\ StackMatchesLoads'
      BY <1>10, <2>2, ReplaceKeepsShape DEF CheckAccept, AtCheck
    <2> QED
      BY <1>10, <2>3 DEF CheckAccept, env, Shape, TypeOK
  <1>11. CASE CheckReject
    BY <1>11, RaiseKeepsShape DEF CheckReject, AtCheck
  <1>12. CASE EvalFault
    BY <1>12, RaiseKeepsShape DEF EvalFault, AtEnd
  <1>13. CASE Publish
    <2>1. /\ outcome = "running" /\ Len(acts) > 1
          /\ Current \in Activation /\ Len(acts) \in Nat
          /\ Len(acts) = Len(stack) + 1 /\ Len(stack) \in Nat
      BY <1>13, RunningShape DEF Publish, AtEnd
    <2>2. acts[Len(acts) - 1] \in Activation
      BY <2>1, RunningShape
    <2>3. Current.name = stack[Len(stack)]
      BY <2>1, RunningShape DEF Current
    <2>4. Current.name \in Names
      BY <2>1, <2>3, RunningShape, ElementOfSeq
    <2>5. Current.text \in Texts /\ serial + 1 \in Nat
      BY <2>1 DEF Activation, Shape, TypeOK
    <2> DEFINE u == [text |-> Current.text, serial |-> serial + 1]
               b == Receive(acts[Len(acts) - 1], Current.name, u)
    <2>6. u \in Unit
      BY <2>5 DEF Unit
    <2>7. b \in Activation /\ b.name = acts[Len(acts) - 1].name
      BY <2>2, <2>4, <2>6, ReceiveIsTyped
    <2>8. acts' \in Seq(Activation) /\ stack' \in Seq(Names) /\ StackMatchesLoads'
      BY <1>13, <2>1, <2>7, ReturnKeepsShape DEF Publish
    <2>9. /\ cache' \in [Names -> Unit]
          /\ evals' \in [Names -> Nat]
          /\ serial' \in Nat
      BY <1>13, <2>4, <2>5, <2>6 DEF Publish, RenderSni, Shape, TypeOK
    <2>10. sni' \in [Names -> Texts \cup {Missing}]
      BY <1>13, <2>4, <2>5 DEF Publish, RenderSni, Shape, TypeOK
    <2> QED
      BY <1>13, <2>8, <2>9, <2>10 DEF Publish, env, Shape, TypeOK
  <1>14. CASE Complete
    <2>1. Len(stack) = 0 /\ stack \in Seq(Names)
      BY <1>14, RunningShape DEF Complete, AtEnd
    <2>2. stack = <<>>
      BY <2>1, EmptySeq
    <2>3. acts' \in Seq(Activation) /\ StackMatchesLoads'
      BY <1>14, <2>2 DEF Complete, StackMatchesLoads
    <2> QED
      BY <1>14, <2>3 DEF Complete, env, Shape, TypeOK
  <1>15. CASE Catch
    <2>1. Current \in Activation
      BY <1>15, RunningShape DEF Catch
    <2> DEFINE b == [Current EXCEPT !.pc = @ + 1]
    <2>2. b \in Activation /\ b.name = Current.name
      BY <2>1 DEF Activation
    <2>3. acts' \in Seq(Activation) /\ StackMatchesLoads'
      BY <1>15, <2>2, ReplaceKeepsShape DEF Catch
    <2> QED
      BY <1>15, <2>3 DEF Catch, env, Shape, TypeOK
  <1>16. CASE Propagate
    <2>1. /\ outcome = "running" /\ Len(acts) > 1 /\ Len(acts) \in Nat
      BY <1>16, RunningShape DEF Propagate
    <2>2. acts[Len(acts) - 1] \in Activation
      BY <2>1, RunningShape
    <2>3. acts' \in Seq(Activation) /\ stack' \in Seq(Names) /\ StackMatchesLoads'
      BY <1>16, <2>1, <2>2, ReturnKeepsShape DEF Propagate
    <2> QED
      BY <1>16, <2>3 DEF Propagate, env, Shape, TypeOK
  <1>17. CASE Abandon
    <2>1. Len(stack) = 0 /\ stack \in Seq(Names)
      BY <1>17, RunningShape DEF Abandon
    <2>2. stack = <<>>
      BY <2>1, EmptySeq
    <2>3. acts' \in Seq(Activation) /\ StackMatchesLoads'
      BY <1>17, <2>2 DEF Abandon, StackMatchesLoads
    <2> QED
      BY <1>17, <2>3 DEF Abandon, env, Shape, TypeOK
  <1>18. CASE UNCHANGED vars
    BY <1>18 DEF vars, Shape, TypeOK, StackMatchesLoads
  <1> QED
    BY <1>1, <1>2, <1>3, <1>4, <1>5, <1>6, <1>7, <1>8, <1>9, <1>10, <1>11,
       <1>12, <1>13, <1>14, <1>15, <1>16, <1>17, <1>18
       DEF Next, Interpreter, Load, EvalUnit, Exhausted

(* Type correctness of the loader, and that its stack names exactly the     *)
(* loads in progress: every way out of a load pops what the load pushed.    *)
THEOREM LoaderShape == Spec => [](TypeOK /\ StackMatchesLoads)
  <1>1. Init => Shape
    BY LoaderAssumption DEF Init, Shape, TypeOK, StackMatchesLoads, Unit, NoUnit
  <1>2. Shape /\ [Next]_vars => Shape'
    BY ShapeStep
  <1>3. Shape => TypeOK /\ StackMatchesLoads
    BY DEF Shape
  <1> QED
    BY <1>1, <1>2, <1>3, PTL DEF Spec

----------------------------------------------------------------------------
(* Second layer: the inductive invariant about the cache. It adds what the  *)
(* properties need to survive a step: a caller waits at a use of exactly    *)
(* the unit being loaded (Awaiting), what an activation has passed over is  *)
(* in the cache with the serial it noted down (Sound), an evaluation was    *)
(* counted exactly for the cached names, and serials lie in the past.       *)

Awaiting ==
  \A i \in 1..Len(acts) - 1 :
    WantsUnit(acts[i]) /\ Declaration(acts[i]).name = acts[i + 1].name

Counted ==
  /\ \A n \in Names : evals[n] = IF Cached(n) THEN 1 ELSE 0
  /\ \A n \in Names : cache[n].serial <= serial

CachedHasText ==
  \A n \in Names : IF Cached(n) THEN cache[n].text \in Texts
                                ELSE cache[n].text = Missing

LoaderInv ==
  /\ Shape
  /\ NoReentry
  /\ Awaiting
  /\ \A i \in 1..Len(acts) : Sound(acts[i], cache)
  /\ Counted
  /\ CachedHasText
  /\ ImportsPrecede
  /\ InterfaceIsOfLoadedUnit

(* A step that leaves the cache, the evaluation counts, the interfaces and  *)
(* the stack alone and only moves the innermost activation to b.            *)
LEMMA MoveKeepsInv ==
  ASSUME LoaderInv, Shape', outcome = "running",
         NEW b \in Activation, b.name = Current.name, Sound(b, cache),
         acts' = Replace(b), stack' = stack, outcome' = outcome,
         UNCHANGED <<cache, evals, serial, sni>>
  PROVE  LoaderInv'
  <1>1. /\ Len(acts) \in Nat /\ Len(acts') = Len(acts)
        /\ \A i \in 1..Len(acts) : acts'[i] = IF i = Len(acts) THEN b ELSE acts[i]
    BY ReplaceKeepsShape, RunningShape DEF LoaderInv
  <1>2. Awaiting'
    BY <1>1 DEF LoaderInv, Awaiting, Current
  <1>3. \A i \in 1..Len(acts') : Sound(acts'[i], cache')
    BY <1>1 DEF LoaderInv
  <1>4. /\ NoReentry' /\ Counted' /\ CachedHasText' /\ ImportsPrecede'
        /\ InterfaceIsOfLoadedUnit'
    BY DEF LoaderInv, NoReentry, Counted, CachedHasText, ImportsPrecede,
           InterfaceIsOfLoadedUnit, Cached
  <1> QED
    BY <1>1, <1>2, <1>3, <1>4 DEF LoaderInv

(* A step that touches none of it.                                          *)
LEMMA StillKeepsInv ==
  ASSUME LoaderInv, Shape', UNCHANGED <<acts, stack, cache, evals, serial, sni>>
  PROVE  LoaderInv'
  BY DEF LoaderInv, NoReentry, Awaiting, Counted, CachedHasText, ImportsPrecede,
         InterfaceIsOfLoadedUnit, Cached

(* A load that fails: the innermost activation and its name disappear.      *)
LEMMA UnwindKeepsInv ==
  ASSUME LoaderInv, Shape', Propagate
  PROVE  LoaderInv'
  <1>1. /\ outcome = "running" /\ Len(acts) > 1
        /\ Len(acts) \in Nat /\ Len(stack) \in Nat /\ Len(acts) = Len(stack) + 1
        /\ acts[Len(acts) - 1] \in Activation
    BY RunningShape DEF LoaderInv, Propagate
  <1>2. /\ Len(acts') = Len(acts) - 1 /\ Len(stack') = Len(stack) - 1
        /\ \A i \in 1..Len(acts) - 1 : acts'[i] = acts[i]
        /\ \A i \in 1..Len(stack) - 1 : stack'[i] = stack[i]
    BY <1>1, ReturnKeepsShape DEF LoaderInv, Propagate
  <1>3. Awaiting'
    <2> SUFFICES ASSUME NEW i \in 1..Len(acts') - 1
                 PROVE  /\ WantsUnit(acts'[i])
                        /\ Declaration(acts'[i]).name = acts'[i + 1].name
      BY DEF Awaiting
    <2>1. /\ i \in 1..Len(acts) - 1 /\ i + 1 \in 1..Len(acts) - 1
      BY <1>1, <1>2
    <2> QED
      BY <1>2, <2>1 DEF LoaderInv, Awaiting
  <1>4. \A i \in 1..Len(acts') : Sound(acts'[i], cache')
    BY <1>1, <1>2 DEF LoaderInv, Propagate
  <1>5. NoReentry'
    BY <1>1, <1>2 DEF LoaderInv, Propagate, NoReentry, Cached
  <1>6. Counted' /\ CachedHasText' /\ ImportsPrecede' /\ InterfaceIsOfLoadedUnit'
    BY DEF LoaderInv, Propagate, Counted, CachedHasText, ImportsPrecede,
           InterfaceIsOfLoadedUnit, Cached
  <1> QED
    BY <1>3, <1>4, <1>5, <1>6 DEF LoaderInv

(* A load that starts: the name is new to the stack and to the cache, and   *)
(* the activation that wants it waits below.                                *)
LEMMA BeginKeepsInv ==
  ASSUME LoaderInv, Shape', LoadBegin
  PROVE  LoaderInv'
  <1>1. /\ Demanding /\ outcome = "running"
        /\ Len(acts) \in Nat /\ Len(stack) \in Nat /\ Len(acts) = Len(stack) + 1
    BY RunningShape DEF LoaderInv, LoadBegin, Reading, Demanding
  <1>2. Wanted.name \in Names /\ SourceOf(Wanted) \in Sources
    BY <1>1, WantedIsTyped DEF LoaderInv
  <1>3. disk[SourceOf(Wanted)] \in Texts
    BY <1>2 DEF LoaderInv, Shape, TypeOK, LoadBegin
  <1> DEFINE b == Fresh(Wanted.name, Wanted.url = NoUrl, disk[SourceOf(Wanted)], "check")
  <1>4. b \in Activation /\ b.name = Wanted.name /\ b.pc = 1
    BY <1>2, <1>3, FreshIsTyped
  <1>5. \A n \in Names : b.typed[n] = 0 /\ b.bound[n] = 0
    BY DEF Fresh
  <1>6. acts' = Append(acts, b) /\ stack' = Append(stack, Wanted.name)
    BY DEF LoadBegin
  <1> HIDE DEF b
  <1>7. /\ Len(acts') = Len(acts) + 1 /\ Len(stack') = Len(stack) + 1
        /\ \A i \in 1..Len(acts) : acts'[i] = acts[i]
        /\ acts'[Len(acts) + 1] = b
        /\ \A i \in 1..Len(stack) : stack'[i] = stack[i]
        /\ stack'[Len(stack) + 1] = Wanted.name
    BY <1>1, <1>2, <1>4, <1>6, BeginKeepsShape DEF LoaderInv, LoadBegin
  <1>8. Awaiting'
    <2>1. WantsUnit(Current) /\ Declaration(Current).name = b.name
      BY <1>1, <1>4 DEF Demanding, Wanted
    <2> SUFFICES ASSUME NEW i \in 1..Len(acts') - 1
                 PROVE  /\ WantsUnit(acts'[i])
                        /\ Declaration(acts'[i]).name = acts'[i + 1].name
      BY DEF Awaiting
    <2>2. CASE i = Len(acts)
      BY <1>1, <1>7, <2>1, <2>2 DEF Current
    <2>3. CASE i \in 1..Len(acts) - 1
      BY <1>1, <1>7, <2>3 DEF LoaderInv, Awaiting
    <2> QED
      BY <1>1, <1>7, <2>2, <2>3
  <1>9. \A i \in 1..Len(acts') : Sound(acts'[i], cache')
    <2>1. Sound(b, cache)
      <3>1. Len(b.text.uses) \in Nat
        BY <1>4, TextIsTyped DEF Activation
      <3>2. Accepted(b)
        BY DEF LoadBegin, Accepted, Fresh, b
      <3> QED
        BY <1>4, <1>5, <3>1, <3>2 DEF Sound, Passed, Noted
    <2>2. cache' = cache
      BY DEF LoadBegin
    <2> QED
      BY <1>1, <1>7, <2>1, <2>2 DEF LoaderInv
  <1>10. NoReentry'
    <2>1. ~Cached(Wanted.name) /\ \A i \in 1..Len(stack) : stack[i] # Wanted.name
      BY DEF LoadBegin, Reading, Loading
    <2>2. \A i \in 1..Len(stack') : ~Cached(stack'[i])
      BY <1>1, <1>7, <2>1 DEF LoaderInv, NoReentry
    <2>3. \A i, j \in 1..Len(stack') : i # j => stack'[i] # stack'[j]
      BY <1>1, <1>7, <2>1 DEF LoaderInv, NoReentry
    <2> QED
      BY <2>2, <2>3 DEF NoReentry, LoadBegin, Cached
  <1>11. Counted' /\ CachedHasText' /\ ImportsPrecede' /\ InterfaceIsOfLoadedUnit'
    BY DEF LoaderInv, LoadBegin, Counted, CachedHasText, ImportsPrecede,
           InterfaceIsOfLoadedUnit, Cached
  <1> QED
    BY <1>8, <1>9, <1>10, <1>11 DEF LoaderInv

(* A load that succeeds: the unit enters the cache under a name that was    *)
(* not in it, after everything it imports, and its caller moves on.         *)
LEMMA PublishKeepsInv ==
  ASSUME LoaderInv, Shape', Publish
  PROVE  LoaderInv'
  <1> DEFINE n == Current.name
             t == Current.text
             k == Len(acts) - 1
             caller == acts[k]
             u == [text |-> t, serial |-> serial + 1]
             b == Receive(caller, n, u)
  <1>1. /\ outcome = "running" /\ Len(acts) > 1
        /\ Len(acts) \in Nat /\ Len(stack) \in Nat /\ Len(acts) = Len(stack) + 1
        /\ \A i \in 1..Len(acts) : acts[i] \in Activation
        /\ \A i \in 1..Len(stack) : acts[i + 1].name = stack[i]
        /\ Current \in Activation /\ k \in 1..Len(acts)
    BY RunningShape DEF LoaderInv, Publish, AtEnd
  <1>2. /\ n = stack[Len(stack)] /\ n \in Names /\ ~Cached(n)
        /\ \A i \in 1..Len(stack) - 1 : stack[i] # n
    <2>1. n = stack[Len(stack)]
      BY <1>1 DEF Current
    <2>2. n \in Names
      BY <1>1, <2>1, RunningShape, ElementOfSeq DEF LoaderInv
    <2> QED
      BY <1>1, <2>1, <2>2 DEF LoaderInv, NoReentry
  <1>3. /\ t \in Texts /\ serial \in Nat /\ u \in Unit
        /\ u.text = t /\ u.serial = serial + 1
        /\ cache \in [Names -> Unit] /\ evals \in [Names -> Nat]
        /\ sni \in [Names -> Texts \cup {Missing}]
    <2>1. t \in Texts
      BY <1>1 DEF Activation
    <2>2. /\ serial \in Nat /\ cache \in [Names -> Unit]
          /\ evals \in [Names -> Nat]
          /\ sni \in [Names -> Texts \cup {Missing}]
      BY DEF LoaderInv, Shape, TypeOK
    <2> HIDE DEF t
    <2> QED
      BY <2>1, <2>2 DEF Unit
  <1>4. /\ b \in Activation /\ b.name = caller.name /\ b.text = caller.text
        /\ b.pc = caller.pc + 1 /\ b.phase = caller.phase
    BY <1>1, <1>2, <1>3, ReceiveIsTyped
  <1>5. /\ cache' = [cache EXCEPT ![n] = u]
        /\ evals' = [evals EXCEPT ![n] = @ + 1]
        /\ serial' = serial + 1
        /\ acts' = [Pop(acts) EXCEPT ![k] = b]
        /\ stack' = Pop(stack)
        /\ sni' = sni \/ sni' = [sni EXCEPT ![n] = t]
        /\ outcome' = outcome
    BY DEF Publish, RenderSni
  <1>6. /\ Len(acts') = k /\ Len(stack') = Len(stack) - 1
        /\ \A i \in 1..k : acts'[i] = IF i = k THEN b ELSE acts[i]
        /\ \A i \in 1..Len(stack) - 1 : stack'[i] = stack[i]
    <2> HIDE DEF b
    <2> QED
      BY <1>1, <1>4, <1>5, ReturnKeepsShape DEF LoaderInv
  <1>7. /\ \A m \in Names : m # n => cache'[m] = cache[m]
        /\ cache'[n] = u
        /\ \A m \in Names : Cached(m) => m # n
    BY <1>2, <1>3, <1>5
  <1>8. WantsUnit(caller) /\ Declaration(caller).name = n
    BY <1>1 DEF LoaderInv, Awaiting, Current
  <1>9. \A m \in TopImports(t) : m \in Names /\ Cached(m)
    <2>1. Finished(Current) /\ Passed(Current, cache)
      BY <1>1 DEF LoaderInv, Sound, Publish, AtEnd, Current
    <2>2. /\ Len(t.uses) \in Nat
          /\ \A j \in 1..Len(t.uses) : t.uses[j] \in UseDecl
      BY <1>3, TextIsTyped
    <2>3. Current.pc \in Nat
      BY <1>1 DEF Activation
    <2>4. \A j \in 1..Len(t.uses) : t.uses[j].place = "top" =>
            t.uses[j].name \in Names /\ cache[t.uses[j].name].serial # 0
      BY <2>1, <2>2, <2>3 DEF Finished, Passed, UseDecl
    <2> QED
      BY <2>4 DEF TopImports, Cached
  <1>10. Awaiting'
    <2> HIDE DEF b, caller
    <2> SUFFICES ASSUME NEW i \in 1..Len(acts') - 1
                 PROVE  /\ WantsUnit(acts'[i])
                        /\ Declaration(acts'[i]).name = acts'[i + 1].name
      BY DEF Awaiting
    <2>1. i \in 1..Len(acts) - 1 /\ i + 1 \in 1..k /\ i # k /\ i \in 1..k
      BY <1>1, <1>6
    <2>2. acts'[i] = acts[i] /\ acts'[i + 1].name = acts[i + 1].name
      BY <1>4, <1>6, <2>1 DEF caller
    <2> QED
      BY <2>1, <2>2 DEF LoaderInv, Awaiting
  <1>11. \A i \in 1..Len(acts') : Sound(acts'[i], cache')
    <2> SUFFICES ASSUME NEW i \in 1..k
                 PROVE  Sound(acts'[i], cache')
      BY <1>6
    <2>1. acts[i] \in Activation /\ Sound(acts[i], cache)
      BY <1>1 DEF LoaderInv
    <2>2. /\ Len(acts[i].text.uses) \in Nat
          /\ \A j \in 1..Len(acts[i].text.uses) : acts[i].text.uses[j].name \in Names
          /\ acts[i].pc \in Nat
      BY <2>1, TextIsTyped DEF Activation, UseDecl
    <2>3. Passed(acts[i], cache')
      <3>1. \A m \in Names : cache[m].serial # 0 => cache'[m].serial # 0
        BY <1>7 DEF Cached
      <3>2. Passed(acts[i], cache)
        BY <2>1 DEF Sound
      <3> QED
        BY <2>2, <3>1, <3>2 DEF Passed
    <2>4. \A m \in Names : m # n => cache'[m].serial = cache[m].serial
      BY <1>7
    <2>5. Noted(acts[i], cache')
      BY <1>2, <1>3, <1>7, <2>1, <2>4 DEF Sound, Noted, Cached
    <2>6. CASE i # k
      BY <1>6, <2>1, <2>3, <2>5, <2>6 DEF Sound
    <2>7. CASE i = k
      <3>1. acts'[i] = b
        BY <1>6, <2>7
      <3>2. caller.text.uses[caller.pc].name = n /\ cache'[n].serial # 0
        BY <1>3, <1>7, <1>8 DEF Declaration
      <3>3. Passed(b, cache')
        <4> HIDE DEF b
        <4> SUFFICES ASSUME NEW j \in 1..Len(b.text.uses), j < b.pc,
                            b.text.uses[j].place = "top"
                     PROVE  cache'[b.text.uses[j].name].serial # 0
          BY DEF Passed
        <4>1. j \in Nat /\ (j < caller.pc \/ j = caller.pc)
          BY <1>4, <2>2, <2>7
        <4> QED
          BY <1>4, <2>3, <2>7, <3>2, <4>1 DEF Passed
      <3>4. Noted(b, cache')
        <4>1. caller.typed \in [Names -> Nat] /\ caller.bound \in [Names -> Nat]
          BY <2>1, <2>7 DEF Activation
        <4>2. Noted(caller, cache')
          BY <2>5, <2>7
        <4>3. caller \in [ name : Names \cup {Root}, local : BOOLEAN, text : Texts,
                           phase : {"check", "eval"}, pc : Nat \ {0},
                           typed : [Names -> Nat], bound : [Names -> Nat] ]
          BY <2>1, <2>7 DEF Activation
        <4>4. /\ b.typed = caller.typed
                 \/ b.typed = [caller.typed EXCEPT ![n] = u.serial]
              /\ b.bound = caller.bound
                 \/ b.bound = [caller.bound EXCEPT ![n] = u.serial]
          <5> HIDE DEF u, n, caller
          <5> QED
            BY <4>3 DEF Receive
        <4>5. cache'[n].serial = u.serial
          BY <1>7
        <4> HIDE DEF b, caller, u, n
        <4> QED
          BY <4>1, <4>2, <4>4, <4>5 DEF Noted
      <3>5. Accepted(b)
        <4> HIDE DEF b
        <4> QED
          BY <1>4, <2>1, <2>7 DEF Sound, Accepted
      <3> QED
        BY <3>1, <3>3, <3>4, <3>5 DEF Sound
    <2> QED
      BY <2>6, <2>7
  <1>12. NoReentry'
    <2>1. \A i \in 1..Len(stack') : stack'[i] \in Names
      BY <1>1, <1>6, RunningShape, ElementOfSeq DEF LoaderInv
    <2>4. \A i \in 1..Len(stack') :
            i \in 1..Len(stack) /\ i # Len(stack) /\ stack'[i] = stack[i]
      <3>1. /\ Len(stack) \in Nat /\ Len(stack') = Len(stack) - 1
            /\ \A i \in 1..Len(stack) - 1 : stack'[i] = stack[i]
        BY <1>1, <1>6
      <3>2. \A k0 \in Nat : \A i \in 1..k0 - 1 : i \in 1..k0 /\ i # k0
        OBVIOUS
      <3> QED
        BY <3>1, <3>2
    <2>2. \A i \in 1..Len(stack') : cache'[stack'[i]].serial = 0
      <3> SUFFICES ASSUME NEW i \in 1..Len(stack') PROVE cache'[stack'[i]].serial = 0
        OBVIOUS
      <3>1. i \in 1..Len(stack) /\ i # Len(stack) /\ stack'[i] = stack[i]
        BY <2>4
      <3>2. Len(stack) \in 1..Len(stack) /\ stack[Len(stack)] = n
        BY <1>1, <1>2
      <3>3. stack[i] # n /\ cache[stack[i]].serial = 0
        BY <3>1, <3>2 DEF LoaderInv, NoReentry, Cached
      <3>4. cache'[stack'[i]] = cache[stack[i]]
        BY <1>7, <2>1, <3>1, <3>3
      <3> QED
        BY <3>3, <3>4
    <2>3. \A i, j \in 1..Len(stack') : i # j => stack'[i] # stack'[j]
      <3> SUFFICES ASSUME NEW i \in 1..Len(stack'), NEW j \in 1..Len(stack'), i # j
                   PROVE  stack'[i] # stack'[j]
        OBVIOUS
      <3>1. /\ i \in 1..Len(stack) /\ j \in 1..Len(stack)
            /\ stack'[i] = stack[i] /\ stack'[j] = stack[j]
        BY <2>4
      <3> QED
        BY <3>1 DEF LoaderInv, NoReentry
    <2> QED
      BY <2>2, <2>3 DEF NoReentry, Cached
  <1>13. Counted'
    <2>1. evals[n] = 0
      BY <1>2 DEF LoaderInv, Counted
    <2>2. \A m \in Names : cache[m].serial \in Nat /\ cache[m].serial <= serial
      BY <1>3 DEF LoaderInv, Counted, Unit
    <2>3. \A m \in Names : evals'[m] = IF cache'[m].serial # 0 THEN 1 ELSE 0
      BY <1>2, <1>3, <1>5, <1>7, <2>1 DEF LoaderInv, Counted, Cached
    <2>4. \A m \in Names : cache'[m].serial <= serial'
      BY <1>3, <1>5, <1>7, <2>2
    <2> QED
      BY <2>3, <2>4 DEF Counted, Cached
  <1>14. ImportsPrecede'
    <2> SUFFICES ASSUME NEW p \in Names, cache'[p].serial # 0,
                        NEW m \in TopImports(cache'[p].text)
                 PROVE  cache'[m].serial # 0 /\ cache'[m].serial < cache'[p].serial
      BY DEF ImportsPrecede, Cached
    <2>1. CASE p = n
      <3>1. m \in Names /\ Cached(m) /\ cache'[m] = cache[m]
        BY <1>3, <1>7, <1>9, <2>1
      <3>2. cache[m].serial \in Nat /\ cache[m].serial <= serial
        BY <1>3, <3>1 DEF LoaderInv, Counted, Unit
      <3> QED
        BY <1>3, <1>7, <2>1, <3>1, <3>2 DEF Cached
    <2>2. CASE p # n
      <3>1. cache'[p] = cache[p] /\ Cached(p)
        BY <1>7, <2>2 DEF Cached
      <3>2. Cached(m) /\ cache[m].serial < cache[p].serial
        BY <3>1 DEF LoaderInv, ImportsPrecede
      <3>3. m \in Names
        <4>1. cache[p] \in Unit /\ cache[p].text \in Texts \cup {Missing}
          BY <1>3 DEF Unit
        <4>2. cache[p].text \in Texts
          BY <3>1, <4>1 DEF LoaderInv, CachedHasText
        <4> QED
          BY <3>1, <4>2, TextIsTyped DEF TopImports, UseDecl
      <3> QED
        BY <1>7, <3>1, <3>2, <3>3 DEF Cached
    <2> QED
      BY <2>1, <2>2
  <1>15. InterfaceIsOfLoadedUnit'
    <2> SUFFICES ASSUME NEW m \in Names, sni'[m] # Missing
                 PROVE  cache'[m].serial # 0 /\ sni'[m] = cache'[m].text
      BY DEF InterfaceIsOfLoadedUnit, Cached
    <2>1. sni[n] = Missing
      BY <1>2 DEF LoaderInv, InterfaceIsOfLoadedUnit
    <2>2. CASE m = n
      BY <1>2, <1>3, <1>5, <1>7, <2>1, <2>2
    <2>3. CASE m # n
      BY <1>2, <1>3, <1>5, <1>7, <2>3 DEF LoaderInv, InterfaceIsOfLoadedUnit, Cached
    <2> QED
      BY <2>2, <2>3
  <1>16. CachedHasText'
    BY <1>2, <1>3, <1>7 DEF LoaderInv, CachedHasText, Cached
  <1> QED
    BY <1>10, <1>11, <1>12, <1>13, <1>14, <1>15, <1>16 DEF LoaderInv

----------------------------------------------------------------------------
(* The moves of the innermost activation, each to a sound one.              *)

LEMMA CurrentIsSound ==
  ASSUME LoaderInv, outcome = "running"
  PROVE  /\ Current \in Activation
         /\ Current.text \in Texts
         /\ Current.pc \in Nat \ {0}
         /\ Len(Current.text.uses) \in Nat
         /\ Passed(Current, cache) /\ Noted(Current, cache) /\ Accepted(Current)
  <1>1. Current \in Activation /\ Len(acts) \in 1..Len(acts)
    BY RunningShape DEF LoaderInv
  <1>2. Sound(Current, cache)
    BY <1>1 DEF LoaderInv, Current
  <1> QED
    BY <1>1, <1>2, TextIsTyped DEF Sound, Activation

LEMMA HitKeepsInv ==
  ASSUME LoaderInv, Shape', LoadHit
  PROVE  LoaderInv'
  <1> DEFINE n == Wanted.name
             b == Receive(Current, n, cache[n])
  <1>1. /\ Demanding /\ outcome = "running" /\ n \in Names /\ Cached(n)
        /\ WantsUnit(Current) /\ n = Declaration(Current).name
    BY WantedIsTyped DEF LoaderInv, LoadHit, Demanding, Wanted
  <1>2. cache \in [Names -> Unit] /\ cache[n] \in Unit
    BY <1>1 DEF LoaderInv, Shape, TypeOK
  <1>3. Current \in Activation /\ Sound(Current, cache)
    BY <1>1, CurrentIsSound DEF Sound
  <1>4. b \in Activation /\ b.name = Current.name
    BY <1>1, <1>2, <1>3, ReceiveIsTyped
  <1>5. Sound(b, cache)
    BY <1>1, <1>2, <1>3, ReceiveIsSound DEF Cached
  <1> HIDE DEF b
  <1> QED
    BY <1>1, <1>4, <1>5, MoveKeepsInv DEF LoadHit, b

(* A declaration that is not a top-level use is passed over.                *)
LEMMA SkipKeepsInv ==
  ASSUME LoaderInv, Shape', outcome = "running", ~Finished(Current),
         Declaration(Current).place # "top",
         acts' = Replace([Current EXCEPT !.pc = @ + 1]), stack' = stack,
         outcome' = outcome, UNCHANGED <<cache, evals, serial, sni>>
  PROVE  LoaderInv'
  <1> DEFINE b == [Current EXCEPT !.pc = @ + 1]
  <1>1. Current \in Activation /\ Sound(Current, cache)
    BY CurrentIsSound DEF Sound
  <1>2. b \in Activation /\ b.name = Current.name
    BY <1>1, AdvanceIsTyped
  <1>3. Sound(b, cache)
    BY <1>1, SkipIsSound
  <1> HIDE DEF b
  <1> QED
    BY <1>2, <1>3, MoveKeepsInv DEF b

(* The check accepts the innermost unit's text.                             *)
LEMMA AcceptKeepsInv ==
  ASSUME LoaderInv, Shape', CheckAccept
  PROVE  LoaderInv'
  <1> DEFINE b == [Current EXCEPT !.phase = "eval", !.pc = 1]
  <1>1. outcome = "running" /\ Current.text.verdict # "check"
    BY DEF CheckAccept, AtCheck
  <1>2. Current \in Activation /\ Sound(Current, cache)
    BY <1>1, CurrentIsSound DEF Sound
  <1>3. b \in Activation /\ b.name = Current.name
    BY <1>2, EvalStartIsTyped
  <1>4. Sound(b, cache)
    BY <1>1, <1>2, EvalStartIsSound
  <1> HIDE DEF b
  <1> QED
    BY <1>1, <1>3, <1>4, MoveKeepsInv DEF CheckAccept, b

LEMMA SubmitKeepsInv ==
  ASSUME LoaderInv, Shape', NEW t \in Texts, Submit(t)
  PROVE  LoaderInv'
  <1> DEFINE r == Fresh(Root, FALSE, t, IF interactive THEN "eval" ELSE "check")
  <1>1. acts = <<>> /\ stack = <<>>
    BY DEF LoaderInv, Shape, StackMatchesLoads, Submit
  <1>2. acts' = acts \/ acts' = <<r>>
    BY DEF Submit
  <1>3. r \in Activation /\ r.pc = 1 /\ r.text = t
    BY FreshIsTyped DEF Fresh
  <1>4. \A n \in Names : r.typed[n] = 0 /\ r.bound[n] = 0
    BY DEF Fresh
  <1>8. acts' = <<r>> => Accepted(r)
    BY <1>1 DEF Submit, Accepted, Fresh
  <1> HIDE DEF r
  <1>5. acts' = <<r>> => Sound(r, cache)
    BY <1>3, <1>4, <1>8, TextIsTyped DEF Sound, Passed, Noted
  <1>6. CASE acts' = acts
    BY <1>6, StillKeepsInv DEF Submit
  <1>7. CASE acts' = <<r>>
    <2>1. Awaiting'
      BY <1>3, <1>7, SingletonIsASeq DEF Awaiting
    <2>2. \A i \in 1..Len(acts') : Sound(acts'[i], cache')
      BY <1>3, <1>5, <1>7, SingletonIsASeq DEF Submit
    <2>3. NoReentry' /\ Counted' /\ CachedHasText' /\ ImportsPrecede'
          /\ InterfaceIsOfLoadedUnit'
      BY DEF LoaderInv, Submit, NoReentry, Counted, CachedHasText, ImportsPrecede,
             InterfaceIsOfLoadedUnit, Cached
    <2> QED
      BY <2>1, <2>2, <2>3 DEF LoaderInv
  <1> QED
    BY <1>2, <1>6, <1>7

(* The root form ends and leaves no activation.                             *)
LEMMA EndKeepsInv ==
  ASSUME LoaderInv, Shape', acts' = <<>>,
         UNCHANGED <<stack, cache, evals, serial, sni>>
  PROVE  LoaderInv'
  <1>1. Awaiting' /\ \A i \in 1..Len(acts') : Sound(acts'[i], cache')
    BY DEF Awaiting
  <1>2. NoReentry' /\ Counted' /\ CachedHasText' /\ ImportsPrecede'
        /\ InterfaceIsOfLoadedUnit'
    BY DEF LoaderInv, NoReentry, Counted, CachedHasText, ImportsPrecede,
           InterfaceIsOfLoadedUnit, Cached
  <1> QED
    BY <1>1, <1>2 DEF LoaderInv

LEMMA LoaderInvStep ==
  ASSUME LoaderInv, [Next]_vars
  PROVE  LoaderInv'
  <1>1. Shape'
    BY ShapeStep DEF LoaderInv
  <1>2. ASSUME NEW why \in {"missing", "cycle", "remote", "parse", "check", "eval"},
               Raise(why)
        PROVE  LoaderInv'
    BY <1>1, <1>2, StillKeepsInv DEF Raise
  <1>3. CASE Load
    BY <1>1, <1>2, <1>3, HitKeepsInv, BeginKeepsInv
       DEF Load, LoadForbidden, LoadCycle, LoadUnreadable, LoadUnparsable
  <1>4. CASE CheckSkip
    BY <1>1, <1>4, SkipKeepsInv DEF CheckSkip
  <1>5. CASE CheckReject \/ EvalFault
    BY <1>2, <1>5 DEF CheckReject, EvalFault
  <1>6. CASE Catch
    BY <1>1, <1>6, SkipKeepsInv DEF Catch, Guarded
  <1>7. CASE Complete \/ Abandon
    BY <1>1, <1>7, EndKeepsInv DEF Complete, Abandon
  <1>8. CASE CheckAccept \/ Publish \/ Propagate
    BY <1>1, <1>8, AcceptKeepsInv, PublishKeepsInv, UnwindKeepsInv
  <1>9. ASSUME NEW t \in Texts, Submit(t) PROVE LoaderInv'
    BY <1>1, <1>9, SubmitKeepsInv
  <1>10. ASSUME NEW x \in Sources, NEW t \in Texts \cup {Missing}, Edit(x, t)
         PROVE  LoaderInv'
    BY <1>1, <1>10, StillKeepsInv DEF Edit
  <1>11. CASE UNCHANGED vars
    BY <1>1, <1>11, StillKeepsInv DEF vars
  <1> QED
    BY <1>3, <1>4, <1>5, <1>6, <1>7, <1>8, <1>9, <1>10, <1>11
       DEF Next, Interpreter, EvalUnit, Exhausted

LEMMA LoaderInvHolds == Spec => []LoaderInv
  <1>1. Init => LoaderInv
    <2> SUFFICES ASSUME Init PROVE LoaderInv
      OBVIOUS
    <2>1. Shape
      BY LoaderAssumption DEF Init, Shape, TypeOK, StackMatchesLoads, Unit, NoUnit
    <2>2. \A n \in Names : cache[n].serial = 0 /\ cache[n].text = Missing
      BY DEF Init, NoUnit
    <2>3. NoReentry /\ Awaiting /\ \A i \in 1..Len(acts) : Sound(acts[i], cache)
      BY DEF Init, NoReentry, Awaiting
    <2>4. Counted /\ CachedHasText /\ ImportsPrecede /\ InterfaceIsOfLoadedUnit
      BY <2>2 DEF Init, Counted, CachedHasText, ImportsPrecede,
                  InterfaceIsOfLoadedUnit, Cached
    <2> QED
      BY <2>1, <2>3, <2>4 DEF LoaderInv
  <1>2. LoaderInv /\ [Next]_vars => LoaderInv'
    BY LoaderInvStep
  <1> QED
    BY <1>1, <1>2, PTL DEF Spec

----------------------------------------------------------------------------
(* However units import each other and however the files change, no unit is *)
(* loaded inside its own load or once it is cached: load and eval_unit      *)
(* never nest deeper than there are names.                                  *)
THEOREM LoaderNeverReenters == Spec => []NoReentry
  <1>1. LoaderInv => NoReentry
    BY DEF LoaderInv
  <1> QED
    BY <1>1, LoaderInvHolds, PTL

(* A unit is evaluated at most once in a run or REPL session.               *)
THEOREM UnitsEvaluatedOnce == Spec => []EvaluatedOnce
  <1>1. LoaderInv => EvaluatedOnce
    BY DEF LoaderInv, Counted, EvaluatedOnce
  <1> QED
    BY <1>1, LoaderInvHolds, PTL

(* What is in the cache was put there after everything it imports.          *)
THEOREM CacheIsOrdered == Spec => []ImportsPrecede
  <1>1. LoaderInv => ImportsPrecede
    BY DEF LoaderInv
  <1> QED
    BY <1>1, LoaderInvHolds, PTL

(* The unit that typed an import at check time is the one bound to it.      *)
THEOREM ImportsStayAsChecked == Spec => []CheckedIsBound
  <1>1. LoaderInv => CheckedIsBound
    <2> SUFFICES ASSUME LoaderInv, NEW i \in 1..Len(acts), NEW n \in Names,
                        acts[i].typed[n] # 0, acts[i].bound[n] # 0
                 PROVE  acts[i].typed[n] = acts[i].bound[n]
      BY DEF CheckedIsBound
    <2>1. Noted(acts[i], cache)
      BY DEF LoaderInv, Sound
    <2> QED
      BY <2>1 DEF Noted
  <1> QED
    BY <1>1, LoaderInvHolds, PTL

(* A generated interface is that of the unit the program has loaded.        *)
THEOREM InterfacesMatchCache == Spec => []InterfaceIsOfLoadedUnit
  <1>1. LoaderInv => InterfaceIsOfLoadedUnit
    BY DEF LoaderInv
  <1> QED
    BY <1>1, LoaderInvHolds, PTL

(* A cached name keeps its unit.                                            *)
THEOREM CacheNeverChanges == Spec => CacheIsFinal
  <1>1. LoaderInv /\ [Next]_vars => [\A n \in Names : Cached(n) => cache'[n] = cache[n]]_vars
    <2> SUFFICES ASSUME LoaderInv, Next, NEW n \in Names, Cached(n)
                 PROVE  cache'[n] = cache[n]
      OBVIOUS
    <2>1. CASE Publish
      <3>1. /\ outcome = "running" /\ Len(acts) \in Nat /\ Len(stack) \in Nat
            /\ Len(acts) = Len(stack) + 1 /\ Len(acts) > 1
            /\ \A i \in 1..Len(stack) : acts[i + 1].name = stack[i]
        BY <2>1, RunningShape DEF LoaderInv, Publish, AtEnd
      <3>2. Current.name = stack[Len(stack)]
        BY <3>1 DEF Current
      <3>3. ~Cached(Current.name)
        BY <3>1, <3>2 DEF LoaderInv, NoReentry
      <3>4. cache' = [cache EXCEPT ![Current.name] =
                        [text |-> Current.text, serial |-> serial + 1]]
        BY <2>1 DEF Publish
      <3>5. n # Current.name
        BY <3>3
      <3>6. cache \in [Names -> Unit]
        BY DEF LoaderInv, Shape, TypeOK
      <3> QED
        BY <3>4, <3>5, <3>6, Zenon
    <2>2. CASE ~Publish
      BY <2>2 DEF Next, Interpreter, Load, EvalUnit, Exhausted, vars, Submit, Edit,
         LoadHit, LoadForbidden, LoadCycle, LoadUnreadable, LoadUnparsable, LoadBegin,
         CheckSkip, CheckAccept, CheckReject, EvalFault, Complete, Catch, Propagate,
         Abandon, Raise
    <2> QED
      BY <2>1, <2>2
  <1> QED
    BY <1>1, LoaderInvHolds, PTL DEF Spec, CacheIsFinal

----------------------------------------------------------------------------
(* Every step of the loader is a step of what loading promises, or none:    *)
(* only Publish publishes, and by then everything the unit imports is there.*)
THEOREM LoaderKeepsPromise ==
  Spec => Promise!PInit /\ [][Promise!PNext]_(Promise!pvars)
  <1> DEFINE Loaded == [n \in Names |-> cache[n].text]
  <1>1. Init => Promise!PInit
    <2> SUFFICES ASSUME Init PROVE Promise!PInit
      OBVIOUS
    <2>1. Loaded = [n \in Names |-> Missing] /\ outcome = "ready"
      BY DEF Init, NoUnit
    <2> QED
      BY <2>1 DEF Promise!PInit
  <1>2. LoaderInv /\ [Next]_vars => [Promise!PNext]_(Promise!pvars)
    <2> SUFFICES ASSUME LoaderInv, [Next]_vars
                 PROVE  [Promise!PNext]_(Promise!pvars)
      OBVIOUS
    <2>1. cache \in [Names -> Unit]
      BY DEF LoaderInv, Shape, TypeOK
    <2>2. \A n \in Names : Cached(n) <=> Loaded[n] # Missing
      BY UnitsAssumption DEF LoaderInv, CachedHasText
    <2>3. ASSUME AtEnd, Current.text.verdict # "eval"
          PROVE  Current.text \in Texts /\ Promise!Publishable(Current.text)
      <3>1. /\ Passed(Current, cache) /\ Accepted(Current)
            /\ Current.text \in Texts /\ Current.pc \in Nat
            /\ Finished(Current) /\ Current.phase = "eval"
        BY <2>3, CurrentIsSound DEF AtEnd
      <3>2. \A m \in TopImports(Current.text) : m \in Names /\ Cached(m)
        BY <3>1, TextIsTyped DEF Finished, Passed, TopImports, UseDecl, Cached
      <3>3. Current.text.verdict = "ok"
        BY <2>3, <3>1, TextIsTyped DEF Accepted, Verdicts
      <3> QED
        BY <2>2, <3>1, <3>2, <3>3 DEF Promise!Publishable, Promise!TopImports, TopImports
    <2>4. CASE Publish
      <3> DEFINE n == Current.name
                 u == [text |-> Current.text, serial |-> serial + 1]
      <3>1. /\ outcome = "running" /\ Len(acts) \in Nat /\ Len(stack) \in Nat
            /\ Len(acts) = Len(stack) + 1 /\ Len(acts) > 1
            /\ \A i \in 1..Len(stack) : acts[i + 1].name = stack[i]
        BY <2>4, RunningShape DEF LoaderInv, Publish, AtEnd
      <3>2. n = stack[Len(stack)]
        BY <3>1 DEF Current
      <3>3. n \in Names /\ ~Cached(n)
        BY <3>1, <3>2, RunningShape, ElementOfSeq DEF LoaderInv, NoReentry
      <3>9. AtEnd /\ Current.text.verdict # "eval"
        BY <2>4 DEF Publish
      <3>4. Current.text \in Texts /\ Promise!Publishable(Current.text)
        BY <2>3, <3>9
      <3>5. cache' = [cache EXCEPT ![n] = u] /\ outcome' = outcome
        BY <2>4 DEF Publish
      <3>6. Loaded' = [Loaded EXCEPT ![n] = Current.text]
        BY <2>1, <3>3, <3>5
      <3>7. PICK m \in Names, t \in Texts : m = n /\ t = Current.text
        BY <3>3, <3>4
      <3>8. Promise!PublishUnit(m, t)
        BY <2>2, <3>1, <3>3, <3>4, <3>5, <3>6, <3>7 DEF Promise!PublishUnit
      <3> QED
        BY <3>8 DEF Promise!PNext
    <2>5. CASE Complete
      <3>1. AtEnd /\ Current.text.verdict # "eval"
        BY <2>5 DEF Complete
      <3>2. Current.text \in Texts /\ Promise!Publishable(Current.text)
        BY <2>3, <3>1
      <3>3. outcome = "running" /\ outcome' = "ok" /\ cache' = cache
        BY <2>5 DEF Complete, AtEnd
      <3>4. Promise!Succeed
        BY <3>2, <3>3 DEF Promise!Succeed
      <3> QED
        BY <3>4 DEF Promise!PNext
    <2>6. CASE Abandon
      <3>1. outcome = "running" /\ outcome' = "failed" /\ cache' = cache
        BY <2>6 DEF Abandon
      <3>2. Promise!Fail
        BY <3>1 DEF Promise!Fail
      <3> QED
        BY <3>2 DEF Promise!PNext
    <2>7. ASSUME NEW t \in Texts, Submit(t)
          PROVE  Promise!PNext
      BY <2>7 DEF Submit, Promise!PNext, Promise!Accept
    <2>8. CASE UNCHANGED <<cache, outcome>>
      BY <2>8 DEF Promise!pvars
    <2>9. \/ Publish \/ Complete \/ Abandon \/ (\E t \in Texts : Submit(t))
          \/ UNCHANGED <<cache, outcome>>
      BY DEF Next, Interpreter, Load, EvalUnit, Exhausted, vars, Edit,
         LoadHit, LoadForbidden, LoadCycle, LoadUnreadable, LoadUnparsable, LoadBegin,
         CheckSkip, CheckAccept, CheckReject, EvalFault, Catch, Propagate, Raise
    <2> QED
      BY <2>4, <2>5, <2>6, <2>7, <2>8, <2>9
  <1> QED
    BY <1>1, <1>2, LoaderInvHolds, PTL DEF Spec
=============================================================================
