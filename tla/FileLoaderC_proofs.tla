------------------------- MODULE FileLoaderC_proofs -------------------------
(***************************************************************************)
(* Proofs about the C implementation's unit loader, for any set of texts,  *)
(* any files, any number of edits and any size of its arrays.              *)
(***************************************************************************)
EXTENDS FileLoaderC, Units_proofs, FiniteSetTheorems, NaturalsInduction,
        WellFoundedInduction

Entry == [unit : Activation, outer : Nat \ {0}]

(* While a form runs an activation is in progress, and all of them but the  *)
(* first were begun by a use; the stack is cut back with them.              *)
Busy ==
  /\ outcome = "running" => Len(acts) > 0
  /\ outcome # "running" => acts = <<>>
  /\ \A i \in 2..Len(acts) : acts[i].unit.name \in Names

Shape == TypeOK /\ Busy

(* A build keeps its arrays.                                                 *)
LEMMA SlotsAreNat ==
  ASSUME TypeOK
  PROVE  slots \in Nat \ {0}
  BY LoaderCAssumption DEF TypeOK

LEMMA SlotsStay ==
  ASSUME [Next]_vars
  PROVE  slots' = slots
  BY DEF Next, Interpreter, Load, EvalProgram, Answered, vars, env, Edit, LoadHit,
     LoadForbidden, LoadCycle, LoadUnreadable, LoadUnparsable, LoadTooDeep,
     LoadBegin, CheckSkip, CheckAccept, CheckReject, EvalFault, Publish, Complete,
     Catch, Propagate, Abandon, Raise

LEMMA RoomStays ==
  ASSUME [Next]_vars
  PROVE  Room' <=> Room
  BY SlotsStay DEF Room

LEMMA RunningShape ==
  ASSUME Shape, outcome = "running"
  PROVE  /\ acts \in Seq(Entry)
         /\ Len(acts) \in Nat \ {0}
         /\ \A i \in 1..Len(acts) : acts[i] \in Entry
         /\ Current \in Entry
         /\ Current.unit \in Activation
         /\ Current.outer \in Nat \ {0}
         /\ stack \in Seq(Names) /\ Len(stack) \in Nat
  <1>1. acts \in Seq(Entry) /\ Len(acts) > 0 /\ stack \in Seq(Names)
    BY DEF Shape, TypeOK, Busy, Entry
  <1>2. Len(acts) \in Nat \ {0} /\ Len(stack) \in Nat
    BY <1>1, LenProperties
  <1>3. \A i \in 1..Len(acts) : acts[i] \in Entry
    BY <1>1, ElementOfSeq
  <1>4. Current \in Entry
    BY <1>2, <1>3 DEF Current
  <1> QED
    BY <1>1, <1>2, <1>3, <1>4 DEF Entry

(* The slot the search stops at is a filled one that holds the name.        *)
LEMMA FoundIsAHit ==
  ASSUME TypeOK, NEW n \in Names
  PROVE  Lookup(n) \in Unit
  <1>1. /\ cache \in Seq([name : Names, unit : Unit])
        /\ Len(cache) \in Nat
    BY LenProperties DEF TypeOK
  <1>2. CASE ~Cached(n)
    BY <1>2, UnitsAssumption DEF Lookup, NoUnit, Unit
  <1>3. CASE Cached(n)
    <2>1. Hits(n) \subseteq Nat /\ Hits(n) # {}
      BY <1>1, <1>3 DEF Hits, Cached
    <2> DEFINE Earlier == {p \in Nat \X Nat : p[1] < p[2]}
    <2>2. OpToRel(<, Nat) = Earlier
      BY DEF OpToRel
    <2>3. IsWellFoundedOn(Earlier, Nat)
      BY <2>2, NatLessThanWellFounded
    <2>4. PICK i \in Hits(n) : \A j \in Hits(n) : ~(<<j, i>> \in Earlier)
      <3> HIDE DEF Earlier
      <3> QED
        BY <2>1, <2>3, WFMin
    <2>5. \A j \in Hits(n) : i <= j
      <3> TAKE j \in Hits(n)
      <3>1. i \in Nat /\ j \in Nat /\ ~(<<j, i>> \in Earlier)
        BY <2>1, <2>4
      <3>2. <<j, i>> \in Nat \X Nat /\ <<j, i>>[1] = j /\ <<j, i>>[2] = i
        BY <3>1
      <3>3. ~(j < i)
        BY <3>1, <3>2, Zenon
      <3> QED
        BY <3>1, <3>3
    <2> DEFINE k == CHOOSE x \in Hits(n) : \A j \in Hits(n) : x <= j
    <2>6. k \in Hits(n)
      BY <2>5
    <2>7. k \in 1..Len(cache)
      BY <2>6 DEF Hits
    <2>8. cache[k] \in [name : Names, unit : Unit]
      BY <1>1, <2>7, ElementOfSeq
    <2> QED
      BY <1>3, <2>8 DEF Lookup
  <1> QED
    BY <1>2, <1>3

(* The declaration at pc of a running activation.                           *)
LEMMA WantedIsTyped ==
  ASSUME Shape, Demanding
  PROVE  /\ outcome = "running"
         /\ Wanted \in UseDecl
         /\ Wanted.name \in Names
         /\ SourceOf(Wanted) \in Sources
  <1>1. outcome = "running" /\ ~Finished(Current.unit)
    BY DEF Demanding, WantsUnit
  <1>2. Current.unit \in Activation
    BY <1>1, RunningShape
  <1>3. Current.unit.text \in Texts /\ Current.unit.pc \in Nat \ {0}
    BY <1>2 DEF Activation
  <1>4. /\ Len(Current.unit.text.uses) \in Nat
        /\ \A i \in 1..Len(Current.unit.text.uses) :
             Current.unit.text.uses[i] \in UseDecl
    BY <1>3, TextIsTyped
  <1>5. Current.unit.pc \in 1..Len(Current.unit.text.uses)
    BY <1>1, <1>3, <1>4 DEF Finished
  <1>6. Wanted \in UseDecl
    BY <1>4, <1>5 DEF Wanted, Declaration
  <1> QED
    BY <1>1, <1>6 DEF UseDecl, SourceOf, Sources

LEMMA EntryTakesUnit ==
  ASSUME NEW e \in Entry, NEW u \in Activation
  PROVE  /\ [e EXCEPT !.unit = u] \in Entry
         /\ [e EXCEPT !.unit = u].unit = u
         /\ [e EXCEPT !.unit = u].outer = e.outer
  BY DEF Entry

----------------------------------------------------------------------------
(* The four kinds of step, as far as the loads in progress, their names and *)
(* their texts are concerned.                                               *)

SameLoad(i) ==
  /\ acts'[i].unit.name = acts[i].unit.name
  /\ acts'[i].unit.local = acts[i].unit.local
  /\ acts'[i].outer = acts[i].outer

Stays ==
  /\ Len(acts') = Len(acts)
  /\ \A i \in 1..Len(acts) : SameLoad(i)
  /\ UNCHANGED <<stack, errsrc, outcome>>

Enters(n, isLocal) ==
  /\ outcome = "running" /\ outcome' = outcome
  /\ n \notin Loading
  /\ Len(acts') = Len(acts) + 1
  /\ \A i \in 1..Len(acts) : SameLoad(i)
  /\ acts'[Len(acts) + 1].unit.name = n
  /\ acts'[Len(acts) + 1].unit.local = isLocal
  /\ acts'[Len(acts) + 1].outer = errsrc
  /\ stack' = PushName(n)
  /\ errsrc' = EnterText(isLocal)

Leaves ==
  /\ outcome = "running" /\ outcome' = outcome
  /\ Len(acts) > 1
  /\ Len(acts') = Len(acts) - 1
  /\ \A i \in 1..Len(acts) - 1 : SameLoad(i)
  /\ stack' = PopName
  /\ errsrc' = LeaveText(Current)

Stops == outcome' # "running" /\ acts' = <<>>

LEMMA ReplaceStays ==
  ASSUME Shape, outcome = "running", NEW e \in Entry,
         e.unit.name = Current.unit.name, e.unit.local = Current.unit.local,
         e.outer = Current.outer,
         acts' = Replace(e),
         stack' = stack, errsrc' = errsrc, outcome' = outcome
  PROVE  acts' \in Seq(Entry) /\ Busy' /\ Stays
  <1>1. /\ acts \in Seq(Entry) /\ Len(acts) \in Nat \ {0} /\ Len(acts) > 0
        /\ Current = acts[Len(acts)]
    BY RunningShape DEF Current
  <1>2. /\ acts' \in Seq(Entry)
        /\ Len(acts') = Len(acts)
        /\ \A i \in 1..Len(acts) : acts'[i] = IF i = Len(acts) THEN e ELSE acts[i]
    BY <1>1, LastIsReplaced DEF Replace
  <1>3. \A i \in 1..Len(acts) : SameLoad(i)
    BY <1>1, <1>2 DEF SameLoad
  <1>4. \A i \in 2..Len(acts') : acts'[i].unit.name \in Names
    <2> TAKE i \in 2..Len(acts')
    <2>1. i \in 1..Len(acts) /\ i \in 2..Len(acts)
      BY <1>1, <1>2
    <2> QED
      BY <1>3, <2>1 DEF SameLoad, Shape, Busy
  <1>5. Busy'
    BY <1>1, <1>2, <1>4 DEF Busy
  <1> QED
    BY <1>2, <1>3, <1>5 DEF Stays

LEMMA PopNameIsTyped ==
  ASSUME TypeOK
  PROVE  PopName \in Seq(Names) /\ Len(PopName) <= slots
  <1>1. stack \in Seq(Names) /\ Len(stack) <= slots /\ Len(stack) \in Nat
    BY LenProperties DEF TypeOK
  <1>2. CASE Len(stack) > 0
    <2>1. Pop(stack) \in Seq(Names) /\ Len(Pop(stack)) = Len(stack) - 1
      BY <1>1, <1>2, FrontIsShorter DEF Pop
    <2> QED
      BY <1>1, <1>2, <2>1, SlotsAreNat DEF PopName
  <1>3. CASE ~(Len(stack) > 0)
    BY <1>1, <1>3 DEF PopName
  <1> QED
    BY <1>2, <1>3

(* A load that ends, well or not: its caller e may have moved on.           *)
LEMMA ReturnLeaves ==
  ASSUME Shape, outcome = "running", Len(acts) > 1,
         NEW e \in Entry,
         e.unit.name = acts[Len(acts) - 1].unit.name,
         e.unit.local = acts[Len(acts) - 1].unit.local,
         e.outer = acts[Len(acts) - 1].outer,
         \/ acts' = [Pop(acts) EXCEPT ![Len(acts) - 1] = e]
         \/ acts' = Pop(acts) /\ e = acts[Len(acts) - 1],
         stack' = PopName, errsrc' = LeaveText(Current), outcome' = outcome
  PROVE  /\ acts' \in Seq(Entry)
         /\ stack' \in Seq(Names) /\ Len(stack') <= slots
         /\ errsrc' \in Nat \ {0}
         /\ Busy' /\ Leaves
  <1>1. /\ acts \in Seq(Entry) /\ Len(acts) \in Nat \ {0}
        /\ Current.outer \in Nat \ {0}
    BY RunningShape
  <1>2. /\ Pop(acts) \in Seq(Entry)
        /\ Len(Pop(acts)) = Len(acts) - 1
        /\ \A i \in 1..Len(acts) - 1 : Pop(acts)[i] = acts[i]
    BY <1>1, FrontIsShorter DEF Pop
  <1>3. Len(acts) - 1 \in 1..Len(Pop(acts))
    BY <1>1, <1>2
  <1>4. /\ acts' \in Seq(Entry)
        /\ Len(acts') = Len(acts) - 1
        /\ \A i \in 1..Len(acts) - 1 :
             acts'[i] = IF i = Len(acts) - 1 THEN e ELSE Pop(acts)[i]
    <2>1. CASE acts' = [Pop(acts) EXCEPT ![Len(acts) - 1] = e]
      BY <1>2, <1>3, <2>1, ExceptSeq
    <2>2. CASE acts' = Pop(acts) /\ e = acts[Len(acts) - 1]
      BY <1>1, <1>2, <1>3, <2>2
    <2> QED
      BY <2>1, <2>2
  <1>5. \A i \in 1..Len(acts) - 1 : SameLoad(i)
    BY <1>2, <1>4 DEF SameLoad
  <1>6. \A i \in 2..Len(acts') : acts'[i].unit.name \in Names
    <2> TAKE i \in 2..Len(acts')
    <2>1. i \in 1..Len(acts) - 1 /\ i \in 2..Len(acts)
      BY <1>1, <1>4
    <2> QED
      BY <1>5, <2>1 DEF SameLoad, Shape, Busy
  <1>7. stack' \in Seq(Names) /\ Len(stack') <= slots
    BY PopNameIsTyped DEF Shape
  <1>8. Len(acts') > 0
    BY <1>1, <1>4
  <1> QED
    BY <1>1, <1>4, <1>5, <1>6, <1>7, <1>8 DEF Leaves, LeaveText, Busy

LEMMA RaiseStays ==
  ASSUME Shape, outcome = "running",
         NEW why \in {"missing", "cycle", "remote", "parse", "check", "eval"},
         Raise(why)
  PROVE  Shape' /\ Stays
  <1>1. Current.unit.phase \in {"check", "eval"}
    BY RunningShape DEF Activation
  <1>2. fault' \in Faults
    BY <1>1 DEF Raise, Faults
  <1> QED
    BY <1>2 DEF Raise, env, Shape, TypeOK, Busy, Stays, SameLoad

(* A step that only moves the innermost activation to u.                    *)
LEMMA MoveStays ==
  ASSUME Shape, outcome = "running", NEW u \in Activation,
         u.name = Current.unit.name, u.local = Current.unit.local,
         acts' = Replace([Current EXCEPT !.unit = u]),
         fault' \in Faults \cup {NoFault},
         UNCHANGED <<cache, stack, errsrc, outcome, serial, env>>
  PROVE  Shape' /\ Stays
  <1>1. Current \in Entry
    BY RunningShape
  <1> DEFINE e == [Current EXCEPT !.unit = u]
  <1>2. e \in Entry /\ e.unit = u /\ e.outer = Current.outer
    BY <1>1, EntryTakesUnit
  <1>3. acts' = Replace(e)
    OBVIOUS
  <1> HIDE DEF e
  <1>4. acts' \in Seq(Entry) /\ Busy' /\ Stays
    BY <1>2, <1>3, ReplaceStays
  <1> QED
    BY <1>4 DEF env, Shape, TypeOK, Entry

LEMMA HitStays ==
  ASSUME Shape, LoadHit
  PROVE  Shape' /\ Stays
  <1>1. /\ outcome = "running" /\ Wanted.name \in Names
        /\ Current.unit \in Activation
    BY WantedIsTyped, RunningShape DEF LoadHit
  <1>2. Lookup(Wanted.name) \in Unit
    BY <1>1, FoundIsAHit DEF Shape
  <1> DEFINE u == Receive(Current.unit, Wanted.name, Lookup(Wanted.name))
  <1>3. /\ u \in Activation
        /\ u.name = Current.unit.name /\ u.local = Current.unit.local
    BY <1>1, <1>2, ReceiveIsTyped
  <1>4. acts' = Replace([Current EXCEPT !.unit = u])
    BY DEF LoadHit
  <1>5. fault' \in Faults \cup {NoFault}
    BY DEF LoadHit, Shape, TypeOK
  <1> QED
    BY <1>1, <1>3, <1>4, <1>5, MoveStays DEF LoadHit

LEMMA AdvanceStays ==
  ASSUME Shape, outcome = "running",
         acts' = Replace([Current EXCEPT !.unit.pc = @ + 1]),
         fault' \in Faults \cup {NoFault},
         UNCHANGED <<cache, stack, errsrc, outcome, serial, env>>
  PROVE  Shape' /\ Stays
  <1>1. Current.unit \in Activation
    BY RunningShape
  <1> DEFINE u == [Current.unit EXCEPT !.pc = @ + 1]
  <1>2. /\ u \in Activation
        /\ u.name = Current.unit.name /\ u.local = Current.unit.local
    BY <1>1, AdvanceIsTyped
  <1>3. acts' = Replace([Current EXCEPT !.unit = u])
    OBVIOUS
  <1> QED
    BY <1>2, <1>3, MoveStays

LEMMA AcceptStays ==
  ASSUME Shape, CheckAccept
  PROVE  Shape' /\ Stays
  <1>1. outcome = "running" /\ Current.unit \in Activation
    BY RunningShape DEF CheckAccept, AtCheck
  <1> DEFINE u == [Current.unit EXCEPT !.phase = "eval", !.pc = 1]
  <1>2. /\ u \in Activation
        /\ u.name = Current.unit.name /\ u.local = Current.unit.local
    BY <1>1, EvalStartIsTyped
  <1>3. acts' = Replace([Current EXCEPT !.unit = u])
    <2>1. [Current EXCEPT !.unit.phase = "eval", !.unit.pc = 1]
            = [Current EXCEPT !.unit = u]
      BY <1>1, RunningShape DEF Entry, Activation
    <2> QED
      BY <2>1 DEF CheckAccept
  <1>4. fault' \in Faults \cup {NoFault}
    BY DEF CheckAccept, Shape, TypeOK
  <1> QED
    BY <1>1, <1>2, <1>3, <1>4, MoveStays DEF CheckAccept

LEMMA BeginEnters ==
  ASSUME Shape, LoadBegin
  PROVE  /\ Shape'
         /\ \E n \in Names, l \in BOOLEAN : Enters(n, l)
  <1>1. Demanding /\ outcome = "running"
    BY DEF LoadBegin, Loadable, Reading, Demanding
  <1>2. Wanted.name \in Names /\ SourceOf(Wanted) \in Sources
    BY <1>1, WantedIsTyped
  <1>3. disk[SourceOf(Wanted)] \in Texts
    BY <1>2 DEF LoadBegin, Loadable, Shape, TypeOK
  <1>4. /\ acts \in Seq(Entry) /\ Len(acts) \in Nat \ {0}
        /\ stack \in Seq(Names) /\ Len(stack) \in Nat
        /\ \A i \in 1..Len(acts) : acts[i] \in Entry
    BY <1>1, RunningShape
  <1>5. errsrc \in Nat \ {0}
    BY DEF Shape, TypeOK
  <1> DEFINE n == Wanted.name
             l == Wanted.url = NoUrl
             u == Fresh(n, l, disk[SourceOf(Wanted)], "check")
             e == [unit |-> u, outer |-> errsrc]
  <1>6. u \in Activation /\ u.name = n /\ u.local = l
    BY <1>2, <1>3, FreshIsTyped
  <1>7. e \in Entry /\ e.unit = u /\ e.outer = errsrc
    BY <1>5, <1>6 DEF Entry
  <1>8. acts' = Append(acts, e) /\ errsrc' = EnterText(l) /\ stack' = PushName(n)
    BY DEF LoadBegin
  <1> HIDE DEF e, u
  <1>9. /\ acts' \in Seq(Entry)
        /\ Len(acts') = Len(acts) + 1
        /\ \A i \in 1..Len(acts) : acts'[i] = acts[i]
        /\ acts'[Len(acts) + 1] = e
    BY <1>4, <1>7, <1>8, AppendProperties
  <1>10. stack' \in Seq(Names) /\ Len(stack') <= slots
    <2>1. CASE Len(stack) < slots
      <3>1. stack' \in Seq(Names) /\ Len(stack') = Len(stack) + 1
        BY <1>2, <1>4, <1>8, <2>1, AppendProperties DEF PushName
      <3> QED
        BY <1>4, <2>1, <3>1, SlotsAreNat DEF Shape
    <2>2. CASE ~(Len(stack) < slots)
      BY <1>8, <2>2 DEF PushName, Shape, TypeOK
    <2> QED
      BY <2>1, <2>2
  <1>11. errsrc' \in Nat \ {0}
    BY <1>4, <1>5, <1>8 DEF EnterText
  <1>12. \A i \in 2..Len(acts') : acts'[i].unit.name \in Names
    <2> TAKE i \in 2..Len(acts')
    <2>1. CASE i = Len(acts) + 1
      BY <1>2, <1>6, <1>7, <1>9, <2>1
    <2>2. CASE i # Len(acts) + 1
      <3>1. i \in 1..Len(acts) /\ i \in 2..Len(acts)
        BY <1>4, <1>9, <2>2
      <3> QED
        BY <1>9, <3>1 DEF Shape, Busy
    <2> QED
      BY <2>1, <2>2
  <1>13. Busy'
    BY <1>1, <1>4, <1>9, <1>12 DEF Busy, LoadBegin
  <1>14. Shape'
    BY <1>9, <1>10, <1>11, <1>13 DEF LoadBegin, env, Shape, TypeOK, Entry
  <1>15. Enters(n, l)
    BY <1>1, <1>6, <1>7, <1>8, <1>9 DEF Enters, SameLoad, LoadBegin, Loadable, Reading
  <1> QED
    BY <1>2, <1>14, <1>15

(* Only a unit a use asked for is published, and its slot, when there is    *)
(* room for one, is within the cache.                                       *)
LEMMA PublishLeaves ==
  ASSUME Shape, Publish
  PROVE  Shape' /\ Leaves
  <1>1. /\ outcome = "running" /\ Len(acts) > 1
        /\ Len(acts) \in Nat
        /\ \A i \in 1..Len(acts) : acts[i] \in Entry
        /\ acts \in Seq(Entry)
    BY RunningShape DEF Publish, AtEnd
  <1>2. Current.unit \in Activation /\ Current.unit.name \in Names
    <2>1. Len(acts) \in 2..Len(acts)
      BY <1>1
    <2> QED
      BY <1>1, <2>1, RunningShape DEF Current, Shape, Busy
  <1>3. Current.unit.text \in Texts /\ serial + 1 \in Nat
    BY <1>2 DEF Activation, Shape, TypeOK
  <1> DEFINE n == Current.unit.name
             u == [text |-> Current.unit.text, serial |-> serial + 1]
             c == acts[Len(acts) - 1]
             r == Receive(c.unit, n, u)
             e == [c EXCEPT !.unit = r]
  <1>4. u \in Unit
    BY <1>3 DEF Unit
  <1>5. c \in Entry /\ c.unit \in Activation
    BY <1>1 DEF Entry
  <1>6. r \in Activation /\ r.name = c.unit.name /\ r.local = c.unit.local
    BY <1>2, <1>4, <1>5, ReceiveIsTyped
  <1>7. e \in Entry /\ e.unit = r /\ e.outer = c.outer
    BY <1>5, <1>6, EntryTakesUnit
  <1>8. acts' = [Pop(acts) EXCEPT ![Len(acts) - 1] = e]
    <2>1. /\ Len(acts) - 1 \in 1..Len(acts) - 1
          /\ Pop(acts)[Len(acts) - 1] = c
      BY <1>1, FrontIsShorter DEF Pop
    <2> QED
      BY <2>1 DEF Publish
  <1>9. stack' = PopName /\ errsrc' = LeaveText(Current) /\ outcome' = outcome
    BY DEF Publish
  <1>10. cache' \in Seq([name : Names, unit : Unit]) /\ Len(cache') <= slots
    <2> DEFINE slot == [name |-> n, unit |-> u]
    <2>1. slot \in [name : Names, unit : Unit]
      BY <1>2, <1>4
    <2>2. /\ cache \in Seq([name : Names, unit : Unit])
          /\ Len(cache) <= slots /\ Len(cache) \in Nat
      BY LenProperties DEF Shape, TypeOK
    <2>3. cache' = IF Len(cache) < slots THEN Append(cache, slot) ELSE cache
      BY DEF Publish, Remember
    <2> HIDE DEF slot
    <2>4. CASE Len(cache) < slots
      <3>1. /\ cache' \in Seq([name : Names, unit : Unit])
            /\ Len(cache') = Len(cache) + 1
        BY <2>1, <2>2, <2>3, <2>4, AppendProperties
      <3> QED
        BY <2>2, <2>4, <3>1, SlotsAreNat DEF Shape
    <2>5. CASE ~(Len(cache) < slots)
      BY <2>2, <2>3, <2>5
    <2> QED
      BY <2>4, <2>5
  <1> HIDE DEF e, r, u, n
  <1>11. /\ acts' \in Seq(Entry)
         /\ stack' \in Seq(Names) /\ Len(stack') <= slots
         /\ errsrc' \in Nat \ {0}
         /\ Busy' /\ Leaves
    BY <1>1, <1>6, <1>7, <1>8, <1>9, ReturnLeaves
  <1> QED
    BY <1>3, <1>10, <1>11 DEF Publish, env, Shape, TypeOK, Entry

LEMMA PropagateLeaves ==
  ASSUME Shape, Propagate
  PROVE  Shape' /\ Leaves
  <1>1. outcome = "running" /\ Len(acts) > 1
    BY DEF Propagate
  <1>2. acts[Len(acts) - 1] \in Entry
    BY <1>1, RunningShape
  <1>3. /\ acts' \in Seq(Entry)
        /\ stack' \in Seq(Names) /\ Len(stack') <= slots
        /\ errsrc' \in Nat \ {0}
        /\ Busy' /\ Leaves
    BY <1>1, <1>2, ReturnLeaves DEF Propagate
  <1> QED
    BY <1>3 DEF Propagate, env, Shape, TypeOK, Entry

LEMMA StepKinds ==
  ASSUME Shape, [Next]_vars
  PROVE  /\ Shape'
         /\ \/ Stays
            \/ \E n \in Names, l \in BOOLEAN : Enters(n, l)
            \/ Leaves
            \/ Stops
  <1>1. ASSUME NEW x \in Sources, NEW t \in Texts \cup {Missing}, Edit(x, t)
        PROVE  Shape' /\ Stays
    <2>1. disk' \in [Sources -> Texts \cup {Missing}]
      BY <1>1 DEF Edit, Shape, TypeOK
    <2>2. edits' \in 0..MaxEdits
      BY <1>1, LoaderCAssumption DEF Edit, Shape, TypeOK
    <2> QED
      BY <1>1, <2>1, <2>2 DEF Edit, Shape, TypeOK, Busy, Stays, SameLoad
  <1>2. CASE LoadHit
    BY <1>2, HitStays
  <1>3. CASE LoadForbidden
    BY <1>3, RaiseStays DEF LoadForbidden, Demanding
  <1>4. CASE LoadCycle
    BY <1>4, RaiseStays DEF LoadCycle, Demanding
  <1>5. CASE LoadUnreadable
    BY <1>5, RaiseStays DEF LoadUnreadable, Reading, Demanding
  <1>6. CASE LoadUnparsable
    BY <1>6, RaiseStays DEF LoadUnparsable, Reading, Demanding
  <1>7. CASE LoadBegin
    BY <1>7, BeginEnters
  <1>8. CASE CheckSkip
    BY <1>8, AdvanceStays DEF CheckSkip, Shape, TypeOK
  <1>9. CASE CheckAccept
    BY <1>9, AcceptStays
  <1>10. CASE CheckReject
    BY <1>10, RaiseStays DEF CheckReject, AtCheck
  <1>11. CASE EvalFault
    BY <1>11, RaiseStays DEF EvalFault, AtEnd
  <1>12. CASE Publish
    BY <1>12, PublishLeaves
  <1>13. CASE Complete
    <2>1. acts' = <<>> /\ outcome' = "ok"
      BY <1>13 DEF Complete
    <2>2. Busy'
      BY <2>1 DEF Busy
    <2> QED
      BY <1>13, <2>1, <2>2 DEF Complete, env, Shape, TypeOK, Stops
  <1>14. CASE Catch
    BY <1>14, AdvanceStays DEF Catch
  <1>15. CASE Propagate
    BY <1>15, PropagateLeaves
  <1>16. CASE Abandon
    <2>1. acts' = <<>> /\ outcome' = "failed"
      BY <1>16 DEF Abandon
    <2>2. Busy'
      BY <2>1 DEF Busy
    <2> QED
      BY <1>16, <2>1, <2>2 DEF Abandon, env, Shape, TypeOK, Stops
  <1>17. CASE UNCHANGED vars
    BY <1>17 DEF vars, Shape, TypeOK, Busy, Stays, SameLoad
  <1>18. CASE LoadTooDeep
    <2>1. acts' = <<>> /\ outcome' = "crashed"
      BY <1>18 DEF LoadTooDeep
    <2>2. Busy'
      BY <2>1 DEF Busy
    <2> QED
      BY <1>18, <2>1, <2>2 DEF LoadTooDeep, env, Shape, TypeOK, Stops
  <1> QED
    BY <1>1, <1>2, <1>3, <1>4, <1>5, <1>6, <1>7, <1>8, <1>9, <1>10, <1>11,
       <1>12, <1>13, <1>14, <1>15, <1>16, <1>17, <1>18
       DEF Next, Interpreter, Load, EvalProgram, Answered

LEMMA InitShape ==
  ASSUME Init
  PROVE  /\ Shape
         /\ outcome = "running" /\ Len(acts) = 1 /\ acts[1].unit.name = Root
         /\ stack = <<>> /\ errsrc = 1
  <1>1. PICK t \in Texts : acts = <<[unit |-> Fresh(Root, FALSE, t, "check"), outer |-> 1]>>
    BY DEF Init
  <1> DEFINE u == Fresh(Root, FALSE, t, "check")
             e == [unit |-> u, outer |-> 1]
  <1>2. u \in Activation /\ u.name = Root
    BY FreshIsTyped
  <1>3. acts = <<e>>
    BY <1>1
  <1> HIDE DEF u
  <1>4. e \in Entry /\ e.unit = u
    BY <1>2 DEF Entry
  <1> HIDE DEF e
  <1>5. acts \in Seq(Entry) /\ Len(acts) = 1 /\ acts[1] = e
    BY <1>3, <1>4, SingletonIsASeq
  <1>6. Busy
    BY <1>5 DEF Init, Busy
  <1>7. /\ cache \in Seq([name : Names, unit : Unit]) /\ Len(cache) <= slots
        /\ stack \in Seq(Names) /\ Len(stack) <= slots
    BY LoaderCAssumption DEF Init
  <1>8. /\ fault \in Faults \cup {NoFault} /\ edits \in 0..MaxEdits
        /\ serial \in Nat /\ errsrc \in Nat \ {0}
    BY LoaderCAssumption DEF Init
  <1>9. TypeOK
    BY <1>5, <1>7, <1>8 DEF Init, TypeOK, Entry
  <1> QED
    BY <1>2, <1>4, <1>5, <1>6, <1>9 DEF Init, Shape

(* Type correctness, with it that the stack and the cache never outgrow     *)
(* their arrays, whatever LOADER_MAX is and however many units a program    *)
(* imports.                                                                 *)
THEOREM ArraysAreNeverOverrun == Spec => []TypeOK
  <1>1. Init => Shape
    BY InitShape
  <1>2. Shape /\ [Next]_vars => Shape'
    BY StepKinds
  <1>3. Shape => TypeOK
    BY DEF Shape
  <1> QED
    BY <1>1, <1>2, <1>3, PTL DEF Spec

----------------------------------------------------------------------------
(* Error lines. IsText(e, n): of the first n activations, e is the          *)
(* innermost whose text lines are counted in. What a load puts back when it *)
(* ends is what was so when it began.                                       *)
IsText(e, n) ==
  /\ e \in 1..n
  /\ e = 1 \/ acts[e].unit.local
  /\ \A i \in 1..n : (i = 1 \/ acts[i].unit.local) => i <= e

TextsInv ==
  outcome = "running" =>
    /\ IsText(errsrc, Len(acts))
    /\ \A i \in 2..Len(acts) : IsText(acts[i].outer, i - 1)

(* It is so still where the activations are the same.                       *)
LEMMA SameLoadsSameText ==
  ASSUME NEW n \in Nat, NEW e, IsText(e, n), \A i \in 1..n : SameLoad(i)
  PROVE  /\ e \in 1..n
         /\ e = 1 \/ acts'[e].unit.local
         /\ \A i \in 1..n : (i = 1 \/ acts'[i].unit.local) => i <= e
  BY DEF IsText, SameLoad

LEMMA TextsStep ==
  ASSUME Shape, TextsInv, [Next]_vars
  PROVE  TextsInv'
  <1>1. acts \in Seq(Entry) /\ Len(acts) \in Nat
    BY LenProperties DEF Shape, TypeOK, Entry
  <1>2. CASE Stays
    <2> SUFFICES ASSUME outcome' = "running"
                 PROVE  /\ IsText(errsrc, Len(acts))'
                        /\ \A i \in 2..Len(acts') : IsText(acts[i].outer, i - 1)'
      BY DEF TextsInv
    <2>1. /\ IsText(errsrc, Len(acts))
          /\ \A i \in 2..Len(acts) : IsText(acts[i].outer, i - 1)
      BY <1>2 DEF Stays, TextsInv
    <2>2. IsText(errsrc, Len(acts))'
      BY <1>1, <1>2, <2>1, SameLoadsSameText DEF Stays, IsText
    <2>3. ASSUME NEW i \in 2..Len(acts')
          PROVE  IsText(acts[i].outer, i - 1)'
      <3>1. i - 1 \in Nat /\ i \in 1..Len(acts) /\ i \in 2..Len(acts)
        BY <1>1, <1>2, <2>3 DEF Stays
      <3>2. \A j \in 1..i - 1 : SameLoad(j)
        BY <1>1, <1>2, <3>1 DEF Stays
      <3>3. acts'[i].outer = acts[i].outer
        BY <1>2, <3>1 DEF Stays, SameLoad
      <3> QED
        BY <2>1, <3>1, <3>2, <3>3, SameLoadsSameText DEF IsText
    <2> QED
      BY <2>2, <2>3
  <1>3. ASSUME NEW n \in Names, NEW l \in BOOLEAN, Enters(n, l)
        PROVE  TextsInv'
    <2>1. /\ IsText(errsrc, Len(acts))
          /\ \A i \in 2..Len(acts) : IsText(acts[i].outer, i - 1)
          /\ Len(acts') = Len(acts) + 1
          /\ \A i \in 1..Len(acts) : SameLoad(i)
      BY <1>3 DEF Enters, TextsInv
    <2>2. /\ errsrc \in 1..Len(acts)
          /\ errsrc = 1 \/ acts'[errsrc].unit.local
          /\ \A i \in 1..Len(acts) : (i = 1 \/ acts'[i].unit.local) => i <= errsrc
      BY <1>1, <2>1, SameLoadsSameText
    <2>3. ASSUME NEW i \in 2..Len(acts')
          PROVE  IsText(acts[i].outer, i - 1)'
      <3>1. i - 1 \in Nat
        BY <1>1, <2>1, <2>3
      <3>2. CASE i = Len(acts) + 1
        BY <1>1, <1>3, <2>2, <3>2 DEF Enters, IsText
      <3>3. CASE i # Len(acts) + 1
        <4>1. i \in 1..Len(acts) /\ i \in 2..Len(acts)
          BY <1>1, <2>1, <2>3, <3>3
        <4>2. \A j \in 1..i - 1 : SameLoad(j)
          BY <1>1, <2>1, <4>1
        <4>3. acts'[i].outer = acts[i].outer
          BY <2>1, <4>1 DEF SameLoad
        <4> QED
          BY <2>1, <3>1, <4>1, <4>2, <4>3, SameLoadsSameText DEF IsText
      <3> QED
        BY <3>2, <3>3
    <2>4. IsText(errsrc, Len(acts))'
      <3>1. CASE l
        <4>1. errsrc' = Len(acts) + 1 /\ acts'[Len(acts) + 1].unit.local
          BY <1>3, <3>1 DEF Enters, EnterText
        <4>2. errsrc' \in 1..Len(acts') /\ \A i \in 1..Len(acts') : i <= errsrc'
          BY <1>1, <2>1, <4>1
        <4>3. errsrc' = 1 \/ acts'[errsrc'].unit.local
          BY <4>1
        <4> QED
          BY <4>2, <4>3 DEF IsText
      <3>2. CASE ~l
        <4>1. errsrc' = errsrc /\ acts'[Len(acts) + 1].unit.local = FALSE
          BY <1>3, <3>2 DEF Enters, EnterText
        <4>2. ASSUME NEW i \in 1..Len(acts'), i = 1 \/ acts'[i].unit.local
              PROVE  i <= errsrc
          <5>1. Len(acts) > 0
            BY <1>1, <2>2
          <5>2. i # Len(acts) + 1
            BY <1>1, <4>1, <4>2, <5>1
          <5>3. i \in 1..Len(acts)
            BY <1>1, <2>1, <5>2
          <5> QED
            BY <2>2, <4>2, <5>3
        <4>3. errsrc \in 1..Len(acts')
          BY <1>1, <2>1, <2>2
        <4> QED
          BY <2>2, <4>1, <4>2, <4>3 DEF IsText
      <3> QED
        BY <3>1, <3>2
    <2> QED
      BY <2>3, <2>4 DEF TextsInv
  <1>4. CASE Leaves
    <2>1. /\ \A i \in 2..Len(acts) : IsText(acts[i].outer, i - 1)
          /\ Len(acts') = Len(acts) - 1 /\ Len(acts) > 1
          /\ \A i \in 1..Len(acts) - 1 : SameLoad(i)
          /\ errsrc' = acts[Len(acts)].outer
      BY <1>4 DEF Leaves, TextsInv, LeaveText, Current
    <2>2. Len(acts) \in 2..Len(acts) /\ Len(acts) - 1 \in Nat
      BY <1>1, <2>1
    <2>3. IsText(errsrc, Len(acts))'
      BY <2>1, <2>2, SameLoadsSameText DEF IsText
    <2>4. ASSUME NEW i \in 2..Len(acts')
          PROVE  IsText(acts[i].outer, i - 1)'
      <3>1. i - 1 \in Nat /\ i \in 1..Len(acts) - 1 /\ i \in 2..Len(acts)
        BY <1>1, <2>1, <2>4
      <3>2. \A j \in 1..i - 1 : SameLoad(j)
        BY <1>1, <2>1, <3>1
      <3>3. acts'[i].outer = acts[i].outer
        BY <2>1, <3>1 DEF SameLoad
      <3> QED
        BY <2>1, <3>1, <3>2, <3>3, SameLoadsSameText DEF IsText
    <2> QED
      BY <2>3, <2>4 DEF TextsInv
  <1>5. CASE Stops
    BY <1>5 DEF Stops, TextsInv
  <1> QED
    BY <1>2, <1>3, <1>4, <1>5, StepKinds

(* The caret under an error is put under a line of the text the error is    *)
(* of, however many units were entered, caught or abandoned on the way      *)
(* there (the g_err_src of loader_load), unless that text came from a url.  *)
THEOREM LinesAreAlwaysOfOwnText == Spec => []LinesAreOfOwnText
  <1> DEFINE Inv == Shape /\ TextsInv
  <1>1. Init => Inv
    <2> SUFFICES ASSUME Init PROVE Inv
      OBVIOUS
    <2>1. Shape /\ Len(acts) = 1 /\ errsrc = 1
      BY InitShape
    <2>2. IsText(errsrc, Len(acts)) /\ 2..Len(acts) = {}
      BY <2>1 DEF IsText
    <2> QED
      BY <2>1, <2>2 DEF TextsInv
  <1>2. Inv /\ [Next]_vars => Inv'
    BY StepKinds, TextsStep
  <1>3. Inv => LinesAreOfOwnText
    <2> SUFFICES ASSUME Inv, outcome = "running", ~FromUrl(Len(acts))
                 PROVE  errsrc = Len(acts)
      BY DEF LinesAreOfOwnText
    <2>1. Len(acts) \in Nat \ {0}
      BY RunningShape
    <2>2. IsText(errsrc, Len(acts))
      BY DEF TextsInv
    <2>3. Len(acts) = 1 \/ acts[Len(acts)].unit.local
      BY <2>1 DEF FromUrl
    <2>4. errsrc \in 1..Len(acts) /\ Len(acts) <= errsrc
      BY <2>1, <2>2, <2>3 DEF IsText
    <2> QED
      BY <2>1, <2>4
  <1> QED
    BY <1>1, <1>2, <1>3, PTL DEF Spec

----------------------------------------------------------------------------
(* No unit is loaded inside its own load, as long as the stack has a slot   *)
(* for every name: then what is on it is what is being loaded, and since no *)
(* name is there twice there is room for one that is not there.             *)
StackInv ==
  outcome = "running" =>
    /\ Len(stack) = Len(acts) - 1
    /\ acts[1].unit.name = Root
    /\ \A i \in 1..Len(stack) : stack[i] = acts[i + 1].unit.name
    /\ \A i, j \in 1..Len(stack) : i # j => stack[i] # stack[j]

(* A name that is not yet in a list of different names fits into the array. *)
LEMMA ThereIsRoom ==
  ASSUME TypeOK, Room, NEW s \in Seq(Names), NEW n \in Names,
         \A i \in 1..Len(s) : s[i] # n,
         \A i, j \in 1..Len(s) : i # j => s[i] # s[j]
  PROVE  Len(s) < slots
  <1>1. Len(s) \in Nat
    BY LenProperties
  <1> DEFINE others == Names \ {n}
  <1>2. /\ IsFiniteSet(others) /\ Cardinality(others) = Cardinality(Names) - 1
        /\ Cardinality(Names) \in Nat
    BY FS_RemoveElement, FS_CardinalityType DEF Room
  <1>3. s \in [1..Len(s) -> others]
    <2>1. s \in [1..Len(s) -> Names]
      BY LenProperties
    <2> QED
      BY <2>1
  <1>4. s \in Injection(1..Len(s), others)
    BY <1>3 DEF Injection, IsInjective
  <1>5. Cardinality(1..Len(s)) <= Cardinality(others)
    BY <1>2, <1>4, FS_Injection
  <1>6. Cardinality(1..Len(s)) = Len(s)
    <2>1. Cardinality(1..Len(s)) = IF 1 > Len(s) THEN 0 ELSE Len(s) - 1 + 1
      BY <1>1, FS_Interval
    <2> QED
      BY <1>1, <2>1
  <1> QED
    BY <1>1, <1>2, <1>5, <1>6, SlotsAreNat DEF Room

LEMMA StackStep ==
  ASSUME Room, Shape, StackInv, [Next]_vars
  PROVE  StackInv'
  <1>1. /\ acts \in Seq(Entry) /\ Len(acts) \in Nat
        /\ stack \in Seq(Names) /\ Len(stack) \in Nat
    BY LenProperties DEF Shape, TypeOK, Entry
  <1>2. CASE Stays
    <2> SUFFICES ASSUME outcome' = "running"
                 PROVE  /\ Len(stack) = Len(acts') - 1
                        /\ acts'[1].unit.name = Root
                        /\ \A i \in 1..Len(stack) : stack[i] = acts'[i + 1].unit.name
                        /\ \A i, j \in 1..Len(stack) : i # j => stack[i] # stack[j]
      BY <1>2 DEF Stays, StackInv
    <2>1. /\ Len(acts') = Len(acts) /\ outcome = "running"
          /\ \A i \in 1..Len(acts) : acts'[i].unit.name = acts[i].unit.name
      BY <1>2 DEF Stays, SameLoad
    <2>2. /\ Len(stack) = Len(acts) - 1
          /\ acts[1].unit.name = Root
          /\ \A i \in 1..Len(stack) : stack[i] = acts[i + 1].unit.name
          /\ \A i, j \in 1..Len(stack) : i # j => stack[i] # stack[j]
      BY <2>1 DEF StackInv
    <2>3. 1 \in 1..Len(acts) /\ \A i \in 1..Len(stack) : i + 1 \in 1..Len(acts)
      BY <1>1, <2>2
    <2> QED
      BY <2>1, <2>2, <2>3
  <1>3. ASSUME NEW n \in Names, NEW l \in BOOLEAN, Enters(n, l)
        PROVE  StackInv'
    <2>1. /\ Len(stack) = Len(acts) - 1
          /\ acts[1].unit.name = Root
          /\ \A i \in 1..Len(stack) : stack[i] = acts[i + 1].unit.name
          /\ \A i, j \in 1..Len(stack) : i # j => stack[i] # stack[j]
      BY <1>3 DEF Enters, StackInv
    <2>2. n \notin Loading
      BY <1>3 DEF Enters
    <2>3. Len(stack) < slots
      BY <1>1, <2>1, <2>2, ThereIsRoom DEF Loading, Shape
    <2>4. stack' = Append(stack, n)
      BY <1>3, <2>3 DEF Enters, PushName
    <2>5. /\ Len(stack') = Len(stack) + 1
          /\ \A i \in 1..Len(stack) : stack'[i] = stack[i]
          /\ stack'[Len(stack) + 1] = n
      BY <1>1, <2>4, AppendProperties
    <2>6. /\ Len(acts') = Len(acts) + 1
          /\ \A i \in 1..Len(acts) : acts'[i].unit.name = acts[i].unit.name
          /\ acts'[Len(acts) + 1].unit.name = n
      BY <1>3 DEF Enters, SameLoad
    <2>7. \A i \in 1..Len(stack') : stack'[i] = acts'[i + 1].unit.name
      <3> TAKE i \in 1..Len(stack')
      <3>1. CASE i = Len(stack) + 1
        BY <1>1, <2>1, <2>5, <2>6, <3>1
      <3>2. CASE i # Len(stack) + 1
        <4>1. i \in 1..Len(stack) /\ i + 1 \in 1..Len(acts)
          BY <1>1, <2>1, <2>5, <3>2
        <4> QED
          BY <2>1, <2>5, <2>6, <4>1
      <3> QED
        BY <3>1, <3>2
    <2>8. \A i \in 1..Len(stack) : stack[i] # n
      BY <2>2 DEF Loading
    <2>9. \A i, j \in 1..Len(stack') : i # j => stack'[i] # stack'[j]
      <3> TAKE i, j \in 1..Len(stack')
      <3>1. CASE i = Len(stack) + 1
        BY <1>1, <2>5, <2>8, <3>1
      <3>2. CASE j = Len(stack) + 1
        BY <1>1, <2>5, <2>8, <3>2
      <3>3. CASE i # Len(stack) + 1 /\ j # Len(stack) + 1
        BY <1>1, <2>1, <2>5, <3>3
      <3> QED
        BY <3>1, <3>2, <3>3
    <2>10. 1 \in 1..Len(acts)
      BY <1>1, <2>1
    <2> QED
      BY <1>1, <2>1, <2>5, <2>6, <2>7, <2>9, <2>10 DEF StackInv
  <1>4. CASE Leaves
    <2>1. /\ Len(stack) = Len(acts) - 1 /\ Len(acts) > 1
          /\ acts[1].unit.name = Root
          /\ \A i \in 1..Len(stack) : stack[i] = acts[i + 1].unit.name
          /\ \A i, j \in 1..Len(stack) : i # j => stack[i] # stack[j]
      BY <1>4 DEF Leaves, StackInv
    <2>2. /\ Len(acts') = Len(acts) - 1
          /\ \A i \in 1..Len(acts) - 1 : acts'[i].unit.name = acts[i].unit.name
      BY <1>4 DEF Leaves, SameLoad
    <2>3. Len(stack) > 0
      BY <1>1, <2>1
    <2>4. stack' = Pop(stack)
      BY <1>4, <2>3 DEF Leaves, PopName
    <2>5. /\ Len(stack') = Len(stack) - 1
          /\ \A i \in 1..Len(stack) - 1 : stack'[i] = stack[i]
      BY <1>1, <2>3, <2>4, FrontIsShorter DEF Pop
    <2>6. \A i \in 1..Len(stack') : stack'[i] = acts'[i + 1].unit.name
      <3> TAKE i \in 1..Len(stack')
      <3>1. /\ i \in 1..Len(stack) /\ i \in 1..Len(stack) - 1
            /\ i + 1 \in 1..Len(acts) - 1
        BY <1>1, <2>1, <2>5
      <3> QED
        BY <2>1, <2>2, <2>5, <3>1
    <2>7. \A i, j \in 1..Len(stack') : i # j => stack'[i] # stack'[j]
      <3> TAKE i, j \in 1..Len(stack')
      <3>1. i \in 1..Len(stack) - 1 /\ j \in 1..Len(stack) - 1
        BY <2>5
      <3>2. 1..Len(stack) - 1 \subseteq 1..Len(stack)
        BY <1>1
      <3> QED
        BY <2>1, <2>5, <3>1, <3>2
    <2>8. 1 \in 1..Len(acts) - 1
      BY <1>1, <2>1
    <2> QED
      BY <1>1, <2>1, <2>2, <2>5, <2>6, <2>7, <2>8 DEF StackInv
  <1>5. CASE Stops
    BY <1>5 DEF Stops, StackInv
  <1> QED
    BY <1>2, <1>3, <1>4, <1>5, StepKinds

(* "Caches loaded units and detects import cycles": with no more names than *)
(* LOADER_MAX, whatever the texts import, where and in what order, failing  *)
(* or not, the recursion of loader_load through eval_program never enters a *)
(* unit it is in.                                                           *)
THEOREM NoUnitInItsOwnLoad == Spec => []NoReentry
  <1> DEFINE Inv == Shape /\ (Room => StackInv)
  <1>1. Init => Inv
    <2> SUFFICES ASSUME Init PROVE Inv
      OBVIOUS
    <2>1. Shape /\ Len(acts) = 1 /\ acts[1].unit.name = Root /\ stack = <<>>
      BY InitShape
    <2> QED
      BY <2>1 DEF StackInv
  <1>2. Inv /\ [Next]_vars => Inv'
    BY StepKinds, StackStep, RoomStays
  <1>3. Inv => NoReentry
    <2> SUFFICES ASSUME Shape, StackInv, NEW i \in 1..Len(acts), NEW j \in 1..Len(acts), i # j
                 PROVE  acts[i].unit.name # acts[j].unit.name
      BY DEF NoReentry
    <2>1. /\ Len(acts) \in Nat /\ Len(stack) \in Nat
      BY LenProperties DEF Shape, TypeOK
    <2>2. outcome = "running"
      <3>1. Len(acts) > 0
        BY <2>1
      <3> QED
        BY <3>1 DEF Shape, Busy
    <2>3. /\ Len(stack) = Len(acts) - 1 /\ acts[1].unit.name = Root
          /\ \A k \in 2..Len(acts) : acts[k].unit.name \in Names
          /\ \A k \in 1..Len(stack) : stack[k] = acts[k + 1].unit.name
          /\ \A k, m \in 1..Len(stack) : k # m => stack[k] # stack[m]
      BY <2>2 DEF StackInv, Shape, Busy
    <2>4. CASE i = 1
      <3>1. j \in 2..Len(acts)
        BY <2>1, <2>4
      <3> QED
        BY <2>3, <2>4, <3>1, UnitsAssumption
    <2>5. CASE j = 1
      <3>1. i \in 2..Len(acts)
        BY <2>1, <2>5
      <3> QED
        BY <2>3, <2>5, <3>1, UnitsAssumption
    <2>6. CASE i # 1 /\ j # 1
      <3>1. /\ i - 1 \in 1..Len(stack) /\ j - 1 \in 1..Len(stack)
            /\ i - 1 # j - 1 /\ (i - 1) + 1 = i /\ (j - 1) + 1 = j
        BY <2>1, <2>3, <2>6
      <3>2. stack[i - 1] = acts[i].unit.name /\ stack[j - 1] = acts[j].unit.name
        BY <2>3, <3>1
      <3> QED
        BY <2>3, <3>1, <3>2
    <2> QED
      BY <2>4, <2>5, <2>6
  <1> QED
    BY <1>1, <1>2, <1>3, PTL DEF Spec

----------------------------------------------------------------------------
(* The cache. Held is what it holds, as a function of the name: with room   *)
(* for every name no slot is refused, no name has two, and so a lookup      *)
(* finds what was published under the name, for good.                       *)
Held == [n \in Names |-> Lookup(n)]

CacheInv ==
  \A i \in 1..Len(cache) :
    /\ cache[i].unit.serial \in 1..serial
    /\ cache[i].unit.text \in Texts
    /\ \A j \in 1..Len(cache) : i # j => cache[i].name # cache[j].name

(* A caller waits at a use of exactly the unit being loaded.                *)
Awaiting ==
  \A i \in 1..Len(acts) - 1 :
    /\ WantsUnit(acts[i].unit)
    /\ Declaration(acts[i].unit).name = acts[i + 1].unit.name

LoadsInv ==
  outcome = "running" =>
    /\ \A i \in 1..Len(stack) : ~Cached(stack[i])
    /\ Awaiting
    /\ \A i \in 1..Len(acts) : Sound(acts[i].unit, Held)

KeptInv == Shape /\ StackInv /\ CacheInv /\ LoadsInv

Slot == [name : Names, unit : Unit]

(* The filled slots of the cache.                                            *)
LEMMA CacheIsTyped ==
  ASSUME Shape
  PROVE  /\ cache \in Seq(Slot) /\ Len(cache) \in Nat /\ serial \in Nat
         /\ \A i \in 1..Len(cache) :
              /\ cache[i].name \in Names
              /\ cache[i].unit \in Unit
  <1>1. cache \in Seq(Slot) /\ serial \in Nat
    BY DEF Shape, TypeOK, Slot
  <1>2. Len(cache) \in Nat /\ \A i \in 1..Len(cache) : cache[i] \in Slot
    BY <1>1, LenProperties, ElementOfSeq
  <1> QED
    BY <1>1, <1>2 DEF Slot

(* No two slots hold the same name: the one that does is found.             *)
LEMMA SlotIsFound ==
  ASSUME Shape, CacheInv, NEW i \in 1..Len(cache)
  PROVE  Cached(cache[i].name) /\ Lookup(cache[i].name) = cache[i].unit
  <1>1. Hits(cache[i].name) = {i}
    BY CacheIsTyped DEF CacheInv, Hits
  <1>2. Cached(cache[i].name)
    BY <1>1 DEF Cached
  <1> DEFINE n == cache[i].name
             k == CHOOSE x \in Hits(n) : \A j \in Hits(n) : x <= j
  <1>3. i \in Int /\ i <= i
    BY CacheIsTyped
  <1>4. k = i
    BY <1>1, <1>3
  <1>5. Lookup(n) = cache[k].unit
    BY <1>2 DEF Lookup
  <1> QED
    BY <1>2, <1>4, <1>5

(* The same of the next state.                                              *)
LEMMA SlotIsFoundNext ==
  (Shape /\ CacheInv =>
     \A i \in 1..Len(cache) :
       Cached(cache[i].name) /\ Lookup(cache[i].name) = cache[i].unit)'
  <1>1. Shape /\ CacheInv =>
          \A i \in 1..Len(cache) :
            Cached(cache[i].name) /\ Lookup(cache[i].name) = cache[i].unit
    BY SlotIsFound
  <1> QED
    BY <1>1, PTL

(* Held has its type, and serial 0 marks the names not cached.               *)
LEMMA HeldIsTyped ==
  ASSUME Shape, CacheInv
  PROVE  /\ Held \in [Names -> Unit]
         /\ \A n \in Names :
              /\ Held[n] = Lookup(n)
              /\ Cached(n) <=> Held[n].serial # 0
              /\ Held[n].serial # 0 => Held[n].text \in Texts
              /\ Held[n].serial = 0 => Held[n].text = Missing
              /\ Held[n].serial <= serial
  <1>1. ASSUME NEW n \in Names
        PROVE  /\ Lookup(n) \in Unit
               /\ Cached(n) <=> Lookup(n).serial # 0
               /\ Lookup(n).serial # 0 => Lookup(n).text \in Texts
               /\ Lookup(n).serial = 0 => Lookup(n).text = Missing
               /\ Lookup(n).serial <= serial
    <2>1. CASE ~Cached(n)
      BY <2>1, CacheIsTyped, UnitsAssumption DEF Lookup, NoUnit, Unit
    <2>2. CASE Cached(n)
      <3>1. PICK i \in 1..Len(cache) : cache[i].name = n
        BY <2>2 DEF Cached, Hits
      <3>2. Lookup(n) = cache[i].unit
        BY <3>1, SlotIsFound
      <3> QED
        BY <2>2, <3>2, CacheIsTyped DEF CacheInv
    <2> QED
      BY <2>1, <2>2
  <1> QED
    BY <1>1 DEF Held

(* In the next state a name is cached exactly if it holds a unit.           *)
LEMMA HeldIsTypedNext ==
  (Shape /\ CacheInv => \A n \in Names : Cached(n) <=> Held[n].serial # 0)'
  <1>1. Shape /\ CacheInv => \A n \in Names : Cached(n) <=> Held[n].serial # 0
    BY HeldIsTyped
  <1> QED
    BY <1>1, PTL

(* A step that leaves the cache alone leaves what it holds alone.            *)
LEMMA SameCache ==
  ASSUME cache' = cache
  PROVE  Held' = Held /\ \A n : Cached(n)' = Cached(n)
  <1>1. \A n : Hits(n)' = Hits(n)
    BY DEF Hits
  <1>2. \A n : Cached(n)' = Cached(n)
    BY <1>1 DEF Cached
  <1>3. ASSUME NEW n
        PROVE  Lookup(n)' = Lookup(n)
    <2> DEFINE h == Hits(n)
               k == CHOOSE i \in h : \A j \in h : i <= j
    <2>1. Lookup(n) = IF Cached(n) THEN cache[k].unit ELSE NoUnit
      BY DEF Lookup
    <2>2. Lookup(n)' = IF Cached(n)' THEN cache'[k'].unit ELSE NoUnit
      BY DEF Lookup
    <2>3. k' = k
      BY <1>1
    <2> QED
      BY <1>2, <2>1, <2>2, <2>3
  <1> QED
    BY <1>2, <1>3 DEF Held

(* The innermost activation is sound.                                       *)
LEMMA CurrentIsSound ==
  ASSUME KeptInv, outcome = "running"
  PROVE  /\ Current \in Entry /\ Current.unit \in Activation
         /\ Sound(Current.unit, Held)
         /\ Held \in [Names -> Unit]
  <1>1. Len(acts) \in 1..Len(acts) /\ Current \in Entry /\ Current.unit \in Activation
    BY RunningShape DEF KeptInv
  <1>2. Sound(Current.unit, Held)
    BY <1>1 DEF KeptInv, LoadsInv, Current
  <1> QED
    BY <1>1, <1>2, HeldIsTyped DEF KeptInv

(* A step that only moves the innermost activation to u.                    *)
LEMMA MoveKeeps ==
  ASSUME KeptInv, Shape', StackInv', outcome = "running", NEW u \in Activation,
         u.name = Current.unit.name, Sound(u, Held),
         acts' = Replace([Current EXCEPT !.unit = u]),
         UNCHANGED <<cache, stack, outcome, serial>>
  PROVE  KeptInv'
  <1>1. /\ acts \in Seq(Entry) /\ Len(acts) \in Nat /\ Len(acts) > 0
        /\ Current = acts[Len(acts)] /\ Current \in Entry
    BY RunningShape DEF KeptInv, Current
  <1> DEFINE e == [Current EXCEPT !.unit = u]
  <1>2. e \in Entry /\ e.unit = u
    BY <1>1, EntryTakesUnit
  <1>3. acts' = Replace(e)
    OBVIOUS
  <1> HIDE DEF e
  <1>4. /\ Len(acts') = Len(acts)
        /\ \A i \in 1..Len(acts) : acts'[i] = IF i = Len(acts) THEN e ELSE acts[i]
    BY <1>1, <1>2, <1>3, LastIsReplaced DEF Replace
  <1>5. Held' = Held /\ \A n : Cached(n)' = Cached(n)
    BY SameCache
  <1>6. CacheInv'
    BY DEF KeptInv, CacheInv
  <1>7. Awaiting /\ \A i \in 1..Len(acts) : Sound(acts[i].unit, Held)
    BY DEF KeptInv, LoadsInv
  <1>8. Awaiting'
    <2> SUFFICES ASSUME NEW i \in 1..Len(acts') - 1
                 PROVE  /\ WantsUnit(acts'[i].unit)
                        /\ Declaration(acts'[i].unit).name = acts'[i + 1].unit.name
      BY DEF Awaiting
    <2>1. /\ i \in 1..Len(acts) - 1 /\ i \in 1..Len(acts) /\ i + 1 \in 1..Len(acts)
          /\ i # Len(acts)
      BY <1>1, <1>4
    <2>2. acts'[i] = acts[i] /\ acts'[i + 1].unit.name = acts[i + 1].unit.name
      BY <1>1, <1>2, <1>4, <2>1
    <2> QED
      BY <1>7, <2>1, <2>2 DEF Awaiting
  <1>9. \A i \in 1..Len(acts') : Sound(acts'[i].unit, Held)
    BY <1>2, <1>4, <1>7
  <1>10. \A i \in 1..Len(stack') : ~Cached(stack'[i])
    BY DEF KeptInv, LoadsInv
  <1>11. LoadsInv'
    BY <1>5, <1>8, <1>9, <1>10 DEF LoadsInv
  <1> QED
    BY <1>6, <1>11 DEF KeptInv

(* A step that touches none of it.                                          *)
LEMMA StillKeeps ==
  ASSUME KeptInv, Shape', StackInv', UNCHANGED <<acts, cache, stack, outcome, serial>>
  PROVE  KeptInv'
  <1>1. Held' = Held /\ \A n : Cached(n)' = Cached(n)
    BY SameCache
  <1> QED
    BY <1>1 DEF KeptInv, CacheInv, LoadsInv, Awaiting

(* A cached unit is handed to the activation that wants it.                  *)
LEMMA HitKeeps ==
  ASSUME KeptInv, Shape', StackInv', LoadHit
  PROVE  KeptInv'
  <1> DEFINE a == Current.unit
             n == Declaration(a).name
             b == Receive(a, n, Held[n])
  <1>1. /\ outcome = "running" /\ n \in Names /\ Cached(n) /\ WantsUnit(a)
    BY WantedIsTyped DEF KeptInv, LoadHit, Demanding, Wanted
  <1>2. a \in Activation /\ Sound(a, Held) /\ Held \in [Names -> Unit]
    BY <1>1, CurrentIsSound
  <1>3. Held[n].serial # 0 /\ Held[n] = Lookup(n) /\ Held[n] \in Unit
    BY <1>1, <1>2, HeldIsTyped DEF KeptInv
  <1>4. b \in Activation /\ b.name = a.name
    BY <1>1, <1>2, <1>3, ReceiveIsTyped
  <1>5. Sound(b, Held)
    BY <1>1, <1>2, <1>3, ReceiveIsSound
  <1>6. acts' = Replace([Current EXCEPT !.unit = b])
    BY <1>3 DEF LoadHit, Wanted
  <1> HIDE DEF b
  <1> QED
    BY <1>1, <1>4, <1>5, <1>6, MoveKeeps DEF LoadHit

(* A declaration that is not a top-level use is passed over.                *)
LEMMA SkipKeeps ==
  ASSUME KeptInv, Shape', StackInv', outcome = "running", ~Finished(Current.unit),
         Declaration(Current.unit).place # "top",
         acts' = Replace([Current EXCEPT !.unit.pc = @ + 1]),
         UNCHANGED <<cache, stack, outcome, serial>>
  PROVE  KeptInv'
  <1> DEFINE a == Current.unit
             b == [a EXCEPT !.pc = @ + 1]
  <1>1. a \in Activation /\ Sound(a, Held)
    BY CurrentIsSound
  <1>2. b \in Activation /\ b.name = a.name
    BY <1>1, AdvanceIsTyped
  <1>3. Sound(b, Held)
    BY <1>1, SkipIsSound
  <1>4. acts' = Replace([Current EXCEPT !.unit = b])
    OBVIOUS
  <1> HIDE DEF b
  <1> QED
    BY <1>2, <1>3, <1>4, MoveKeeps

(* The check accepts the innermost unit's text.                              *)
LEMMA AcceptKeeps ==
  ASSUME KeptInv, Shape', StackInv', CheckAccept
  PROVE  KeptInv'
  <1> DEFINE a == Current.unit
             b == [a EXCEPT !.phase = "eval", !.pc = 1]
  <1>1. outcome = "running" /\ a.text.verdict # "check"
    BY DEF CheckAccept, AtCheck
  <1>2. a \in Activation /\ Sound(a, Held) /\ Current \in Entry
    BY <1>1, CurrentIsSound
  <1>3. b \in Activation /\ b.name = a.name
    BY <1>2, EvalStartIsTyped
  <1>4. Sound(b, Held)
    BY <1>1, <1>2, EvalStartIsSound
  <1>5. acts' = Replace([Current EXCEPT !.unit = b])
    <2>1. [Current EXCEPT !.unit.phase = "eval", !.unit.pc = 1]
            = [Current EXCEPT !.unit = b]
      BY <1>2 DEF Entry, Activation
    <2> QED
      BY <2>1 DEF CheckAccept
  <1> HIDE DEF b
  <1> QED
    BY <1>1, <1>3, <1>4, <1>5, MoveKeeps DEF CheckAccept

(* A load that begins: its name is not cached, and its caller waits.        *)
LEMMA BeginKeeps ==
  ASSUME Room, KeptInv, Shape', StackInv', LoadBegin
  PROVE  KeptInv'
  <1> DEFINE n == Wanted.name
             t == disk[SourceOf(Wanted)]
             b == Fresh(n, Wanted.url = NoUrl, t, "check")
             e == [unit |-> b, outer |-> errsrc]
  <1>1. /\ Demanding /\ ~Cached(n) /\ t # Missing /\ t.verdict # "parse"
        /\ acts' = Append(acts, e) /\ stack' = PushName(n)
        /\ UNCHANGED <<cache, outcome, serial>>
    BY DEF LoadBegin, Loadable, Reading
  <1>2. /\ outcome = "running" /\ n \in Names /\ SourceOf(Wanted) \in Sources
        /\ WantsUnit(Current.unit) /\ n = Declaration(Current.unit).name
    BY <1>1, WantedIsTyped DEF KeptInv, Demanding, Wanted
  <1>3. t \in Texts
    BY <1>1, <1>2 DEF KeptInv, Shape, TypeOK
  <1>4. b \in Activation /\ b.name = n
    BY <1>2, <1>3, FreshIsTyped
  <1>5. Sound(b, Held)
    BY <1>1, <1>2, <1>3, FreshIsSound
  <1> HIDE DEF b
  <1>6. /\ acts \in Seq(Entry) /\ Len(acts) \in Nat /\ Len(acts) > 0
        /\ Current = acts[Len(acts)]
        /\ stack \in Seq(Names) /\ Len(stack) \in Nat
    BY <1>2, RunningShape DEF KeptInv, Current
  <1>7. e \in Entry /\ e.unit = b
    BY <1>4 DEF KeptInv, Shape, TypeOK, Entry
  <1> HIDE DEF e
  <1>8. /\ Len(acts') = Len(acts) + 1
        /\ \A i \in 1..Len(acts) : acts'[i] = acts[i]
        /\ acts'[Len(acts) + 1] = e
    BY <1>1, <1>6, <1>7, AppendProperties
  <1>9. Held' = Held /\ \A m : Cached(m)' = Cached(m)
    BY <1>1, SameCache
  <1>10. /\ \A i \in 1..Len(stack) : ~Cached(stack[i])
         /\ Awaiting /\ \A i \in 1..Len(acts) : Sound(acts[i].unit, Held)
    BY <1>2 DEF KeptInv, LoadsInv
  <1>11. Awaiting'
    <2> SUFFICES ASSUME NEW i \in 1..Len(acts') - 1
                 PROVE  /\ WantsUnit(acts'[i].unit)
                        /\ Declaration(acts'[i].unit).name = acts'[i + 1].unit.name
      BY DEF Awaiting
    <2>1. CASE i = Len(acts)
      BY <1>2, <1>4, <1>6, <1>7, <1>8, <2>1
    <2>2. CASE i # Len(acts)
      <3>1. i \in 1..Len(acts) - 1 /\ i \in 1..Len(acts) /\ i + 1 \in 1..Len(acts)
        BY <1>6, <1>8, <2>2
      <3> QED
        BY <1>8, <1>10, <3>1 DEF Awaiting
    <2> QED
      BY <2>1, <2>2
  <1>12. \A i \in 1..Len(acts') : Sound(acts'[i].unit, Held)
    <2> TAKE i \in 1..Len(acts')
    <2>1. i \in 1..Len(acts) \/ i = Len(acts) + 1
      BY <1>6, <1>8
    <2> QED
      BY <1>5, <1>7, <1>8, <1>10, <2>1
  <1>13. \A i \in 1..Len(stack') : ~Cached(stack'[i])
    <2>1. CASE stack' = stack
      BY <1>10, <2>1
    <2>2. CASE stack' = Append(stack, n)
      <3>1. /\ Len(stack') = Len(stack) + 1
            /\ \A i \in 1..Len(stack) : stack'[i] = stack[i]
            /\ stack'[Len(stack) + 1] = n
        BY <1>2, <1>6, <2>2, AppendProperties
      <3> TAKE i \in 1..Len(stack')
      <3>2. i \in 1..Len(stack) \/ i = Len(stack) + 1
        BY <1>6, <3>1
      <3> QED
        BY <1>1, <1>10, <3>1, <3>2
    <2> QED
      BY <1>1, <2>1, <2>2 DEF PushName
  <1>14. LoadsInv'
    BY <1>9, <1>11, <1>12, <1>13 DEF LoadsInv
  <1>15. CacheInv'
    BY <1>1 DEF KeptInv, CacheInv
  <1> QED
    BY <1>14, <1>15 DEF KeptInv

(* A load that ends, failed: the innermost activation disappears.           *)
LEMMA UnwindKeeps ==
  ASSUME KeptInv, Shape', StackInv', Propagate
  PROVE  KeptInv'
  <1>1. /\ outcome = "running" /\ Len(acts) > 1 /\ acts' = Pop(acts)
        /\ stack' = PopName /\ UNCHANGED <<cache, outcome, serial>>
    BY DEF Propagate
  <1>2. /\ acts \in Seq(Entry) /\ Len(acts) \in Nat
        /\ stack \in Seq(Names) /\ Len(stack) \in Nat
    BY <1>1, RunningShape DEF KeptInv
  <1>3. /\ Len(acts') = Len(acts) - 1
        /\ \A i \in 1..Len(acts) - 1 : acts'[i] = acts[i]
    BY <1>1, <1>2, FrontIsShorter DEF Pop
  <1>4. Held' = Held /\ \A n : Cached(n)' = Cached(n)
    BY <1>1, SameCache
  <1>5. /\ \A i \in 1..Len(stack) : ~Cached(stack[i])
        /\ Awaiting /\ \A i \in 1..Len(acts) : Sound(acts[i].unit, Held)
        /\ Len(stack) = Len(acts) - 1
    BY <1>1 DEF KeptInv, LoadsInv, StackInv
  <1>6. /\ Len(stack') = Len(stack) - 1
        /\ \A i \in 1..Len(stack) - 1 : stack'[i] = stack[i]
    BY <1>1, <1>2, <1>5, FrontIsShorter DEF Pop, PopName
  <1>7. Awaiting'
    <2> SUFFICES ASSUME NEW i \in 1..Len(acts') - 1
                 PROVE  /\ WantsUnit(acts'[i].unit)
                        /\ Declaration(acts'[i].unit).name = acts'[i + 1].unit.name
      BY DEF Awaiting
    <2>1. i \in 1..Len(acts) - 1 /\ i + 1 \in 1..Len(acts) - 1
      BY <1>2, <1>3
    <2> QED
      BY <1>3, <1>5, <2>1 DEF Awaiting
  <1>8. \A i \in 1..Len(acts') : Sound(acts'[i].unit, Held)
    <2> TAKE i \in 1..Len(acts')
    <2>1. i \in 1..Len(acts) - 1 /\ i \in 1..Len(acts)
      BY <1>2, <1>3
    <2> QED
      BY <1>3, <1>5, <2>1
  <1>9. \A i \in 1..Len(stack') : ~Cached(stack'[i])
    <2> TAKE i \in 1..Len(stack')
    <2>1. i \in 1..Len(stack) - 1 /\ i \in 1..Len(stack)
      BY <1>2, <1>6
    <2> QED
      BY <1>5, <1>6, <2>1
  <1>10. LoadsInv'
    BY <1>4, <1>7, <1>8, <1>9 DEF LoadsInv
  <1> QED
    BY <1>1, <1>10 DEF KeptInv, CacheInv

(* What is published: the innermost unit, as the next one evaluated.        *)
Published(n, u) ==
  /\ n \in Names /\ u \in Unit
  /\ n = Current.unit.name
  /\ u = [text |-> Current.unit.text, serial |-> serial + 1]

(* Publish has a unit to publish.                                            *)
LEMMA SomethingIsPublished ==
  ASSUME KeptInv, Publish
  PROVE  \E n \in Names, u \in Unit : Published(n, u)
  <1> DEFINE m == Current.unit.name
             v == [text |-> Current.unit.text, serial |-> serial + 1]
  <1>1. /\ outcome = "running" /\ Len(acts) > 1
    BY DEF Publish, AtEnd
  <1>2. /\ Len(acts) \in 2..Len(acts) /\ Current.unit \in Activation
    BY <1>1, RunningShape DEF KeptInv
  <1>3. m \in Names
    BY <1>2 DEF KeptInv, Shape, Busy, Current
  <1>4. v \in Unit
    BY <1>2, CacheIsTyped DEF KeptInv, Activation, Unit
  <1> QED
    BY <1>3, <1>4 DEF Published

(* What Publish does to the cache: the name was not in it, there is a slot  *)
(* for it, and every other name keeps its unit.                             *)
LEMMA PublishFills ==
  ASSUME Room, KeptInv, Shape', Publish,
         NEW n \in Names, NEW u \in Unit, Published(n, u)
  PROVE  /\ ~Cached(n) /\ n = stack[Len(stack)]
         /\ Len(stack) = Len(acts) - 1 /\ Len(stack) > 0
         /\ CacheInv'
         /\ Held' = [Held EXCEPT ![n] = u]
  <1>1. /\ outcome = "running" /\ Len(acts) > 1 /\ serial' = serial + 1
        /\ cache' = Remember(n, u)
    BY DEF Publish, AtEnd, Published
  <1>2. /\ Len(acts) \in Nat /\ stack \in Seq(Names) /\ Len(stack) \in Nat
        /\ Current.unit \in Activation
    BY <1>1, RunningShape DEF KeptInv
  <1>3. /\ Len(stack) = Len(acts) - 1
        /\ \A i \in 1..Len(stack) : stack[i] = acts[i + 1].unit.name
        /\ \A i \in 1..Len(stack) : ~Cached(stack[i])
    BY <1>1 DEF KeptInv, StackInv, LoadsInv
  <1>4. Len(stack) \in 1..Len(stack) /\ n = stack[Len(stack)]
    BY <1>1, <1>2, <1>3 DEF Current, Published
  <1>5. ~Cached(n)
    BY <1>3, <1>4
  <1>6. /\ serial \in Nat /\ Current.unit.text \in Texts
        /\ u.serial = serial + 1 /\ u.text \in Texts
    BY <1>2, CacheIsTyped DEF KeptInv, Activation, Published
  <1>0. PICK slot : slot = [name |-> n, unit |-> u]
    OBVIOUS
  <1>7. /\ cache \in Seq(Slot) /\ Len(cache) \in Nat
        /\ slot \in Slot /\ slot.name = n /\ slot.unit = u
    BY <1>0, CacheIsTyped DEF KeptInv, Slot
  <1>8. \A i \in 1..Len(cache) : cache[i].name # n /\ cache[i].name \in Names
    BY <1>5, CacheIsTyped DEF KeptInv, Cached, Hits
  <1>9. Len(cache) < slots
    <2> DEFINE s == [i \in 1..Len(cache) |-> cache[i].name]
    <2>1. /\ s \in Seq(Names) /\ Len(s) = Len(cache)
          /\ \A i \in 1..Len(cache) : s[i] = cache[i].name
      BY <1>7, <1>8
    <2>2. \A i, j \in 1..Len(s) : i # j => s[i] # s[j]
      BY <2>1 DEF KeptInv, CacheInv
    <2> HIDE DEF s
    <2>3. \A i \in 1..Len(s) : s[i] # n
      BY <1>8, <2>1
    <2>4. Len(s) < slots
      BY <2>1, <2>2, <2>3, ThereIsRoom DEF KeptInv, Shape
    <2> QED
      BY <2>1, <2>4
  <1>10. cache' = Append(cache, slot)
    BY <1>0, <1>1, <1>9 DEF Remember
  <1>11. /\ Len(cache') = Len(cache) + 1
         /\ \A i \in 1..Len(cache) : cache'[i] = cache[i]
         /\ cache'[Len(cache) + 1] = slot
    BY <1>7, <1>10, AppendProperties
  <1>12. CacheInv'
    <2> SUFFICES ASSUME NEW i \in 1..Len(cache')
                 PROVE  /\ cache'[i].unit.serial \in 1..serial'
                        /\ cache'[i].unit.text \in Texts
                        /\ \A j \in 1..Len(cache') :
                             i # j => cache'[i].name # cache'[j].name
      BY DEF CacheInv
    <2>1. \A j \in 1..Len(cache') : j \in 1..Len(cache) \/ j = Len(cache) + 1
      BY <1>7, <1>11
    <2>2. \A j \in 1..Len(cache) :
            /\ cache[j].unit.serial \in 1..serial /\ cache[j].unit.text \in Texts
            /\ \A k \in 1..Len(cache) : j # k => cache[j].name # cache[k].name
      BY DEF KeptInv, CacheInv
    <2>3. 1..serial \subseteq 1..serial' /\ serial + 1 \in 1..serial'
      BY <1>1, <1>6
    <2>4. /\ cache'[i].unit.serial \in 1..serial' /\ cache'[i].unit.text \in Texts
      BY <1>6, <1>7, <1>11, <2>1, <2>2, <2>3
    <2>5. ASSUME NEW j \in 1..Len(cache'), i # j
          PROVE  cache'[i].name # cache'[j].name
      BY <1>7, <1>8, <1>11, <2>1, <2>2, <2>5
    <2> QED
      BY <2>4, <2>5
  <1>13. ASSUME NEW m \in Names, m # n
         PROVE  Lookup(m)' = Lookup(m)
    <2>1. CASE Cached(m)
      <3>1. PICK i \in 1..Len(cache) : cache[i].name = m
        BY <2>1 DEF Cached, Hits
      <3>2. i \in 1..Len(cache') /\ cache'[i] = cache[i]
        BY <1>7, <1>11
      <3>3. Lookup(m) = cache[i].unit
        BY <3>1, SlotIsFound DEF KeptInv
      <3>4. Lookup(cache[i].name)' = cache'[i].unit
        BY <1>12, <3>2, SlotIsFoundNext
      <3> QED
        BY <3>1, <3>2, <3>3, <3>4
    <2>2. CASE ~Cached(m)
      <3>1. \A i \in 1..Len(cache') : cache'[i].name # m
        BY <1>7, <1>11, <1>13, <2>2 DEF Cached, Hits
      <3>2. ~Cached(m)'
        BY <3>1 DEF Cached, Hits
      <3> QED
        BY <2>2, <3>2 DEF Lookup
    <2> QED
      BY <2>1, <2>2
  <1>14. Lookup(n)' = u
    <2>1. PICK i \in 1..Len(cache') : i = Len(cache) + 1
      BY <1>7, <1>11
    <2>2. cache'[i] = slot
      BY <1>11, <2>1
    <2>3. Lookup(cache[i].name)' = cache'[i].unit
      BY <1>12, SlotIsFoundNext
    <2> QED
      BY <1>7, <2>2, <2>3
  <1>15. Held' = [Held EXCEPT ![n] = u]
    BY <1>5, <1>13, <1>14 DEF Held
  <1> QED
    BY <1>1, <1>2, <1>3, <1>4, <1>5, <1>6, <1>12, <1>15

(* A load that succeeds: the unit is handed to the caller that waits for it.*)
LEMMA PublishKeeps ==
  ASSUME Room, KeptInv, Shape', StackInv', Publish
  PROVE  KeptInv'
  <1>1. PICK n \in Names, u \in Unit : Published(n, u)
    BY SomethingIsPublished
  <1>2. /\ ~Cached(n) /\ n = stack[Len(stack)]
        /\ Len(stack) = Len(acts) - 1 /\ Len(stack) > 0
        /\ CacheInv' /\ Held' = [Held EXCEPT ![n] = u]
    BY <1>1, PublishFills
  <1>3. /\ outcome = "running" /\ stack' = PopName /\ outcome' = outcome
        /\ acts' = [Pop(acts) EXCEPT ![Len(acts) - 1].unit = Receive(@, n, u)]
    BY <1>1 DEF Publish, AtEnd, Published
  <1>4. /\ acts \in Seq(Entry) /\ Len(acts) \in Nat
        /\ \A i \in 1..Len(acts) : acts[i] \in Entry
        /\ stack \in Seq(Names) /\ Len(stack) \in Nat
    BY <1>3, RunningShape DEF KeptInv
  <1>5. Current.unit.name = n /\ u.serial # 0 /\ Held[n].serial = 0
    <2>1. serial \in Nat
      BY CacheIsTyped DEF KeptInv
    <2> QED
      BY <1>1, <1>2, <2>1, HeldIsTyped DEF KeptInv, Published
  <1>6. /\ \A i \in 1..Len(stack) : ~Cached(stack[i])
        /\ \A i, j \in 1..Len(stack) : i # j => stack[i] # stack[j]
        /\ Awaiting /\ \A i \in 1..Len(acts) : Sound(acts[i].unit, Held)
    BY <1>3 DEF KeptInv, LoadsInv, StackInv
  <1>7. Held \in [Names -> Unit] /\ Held' \in [Names -> Unit]
    BY <1>2, HeldIsTyped DEF KeptInv
  <1>8. \A m \in Names : Held[m].serial # 0 => Held'[m] = Held[m]
    BY <1>2, <1>5, <1>7
  <1>9. PICK k \in 1..Len(acts) - 1 : k = Len(acts) - 1
    BY <1>2, <1>4
  <1>10. PICK a \in Activation : a = acts[k].unit
    <2>1. acts[k] \in Entry
      BY <1>4
    <2> QED
      BY <2>1 DEF Entry
  <1>11. WantsUnit(a) /\ Declaration(a).name = n /\ k + 1 = Len(acts)
    BY <1>4, <1>5, <1>6, <1>9, <1>10 DEF Awaiting, Current
  <1>0. PICK h \in [Names -> Unit] : h = Held'
    BY <1>7
  <1>12. \A i \in 1..Len(acts) : Sound(acts[i].unit, Held')
    <2> TAKE i \in 1..Len(acts)
    <2>1. acts[i].unit \in Activation /\ Sound(acts[i].unit, Held)
      BY <1>4, <1>6 DEF Entry
    <2>2. Sound(acts[i].unit, h)
      BY <1>0, <1>7, <1>8, <2>1, StillSound
    <2> QED
      BY <1>0, <2>2
  <1>13. Held'[n] = u /\ k \in 1..Len(acts)
    BY <1>2, <1>4, <1>7, <1>9
  <1>14. PICK b \in Activation : b = Receive(a, n, u)
    BY ReceiveIsTyped
  <1>15. Sound(b, Held') /\ b.name = a.name
    <2>1. Sound(a, h) /\ h[n] = u /\ h[n].serial # 0
      BY <1>0, <1>5, <1>10, <1>12, <1>13
    <2>2. Sound(Receive(a, n, u), h)
      BY <1>11, <2>1, ReceiveIsSound
    <2>3. b.name = a.name
      BY <1>14, ReceiveIsTyped
    <2> QED
      BY <1>0, <1>14, <2>2, <2>3
  <1>16. PICK e \in Entry : e = [acts[k] EXCEPT !.unit = b] /\ e.unit = b
    BY <1>4, <1>13, EntryTakesUnit
  <1>17. /\ Pop(acts) \in Seq(Entry) /\ Len(Pop(acts)) = Len(acts) - 1
         /\ \A i \in 1..Len(acts) - 1 : Pop(acts)[i] = acts[i]
    BY <1>2, <1>4, FrontIsShorter DEF Pop
  <1>18. acts' = [Pop(acts) EXCEPT ![k] = e]
    BY <1>3, <1>9, <1>10, <1>14, <1>16, <1>17
  <1>19. /\ Len(acts') = Len(acts) - 1
         /\ \A i \in 1..Len(acts) - 1 : acts'[i] = IF i = k THEN e ELSE acts[i]
    BY <1>9, <1>17, <1>18, ExceptSeq
  <1>20. Awaiting'
    <2> SUFFICES ASSUME NEW i \in 1..Len(acts') - 1
                 PROVE  /\ WantsUnit(acts'[i].unit)
                        /\ Declaration(acts'[i].unit).name = acts'[i + 1].unit.name
      BY DEF Awaiting
    <2>1. /\ i \in 1..Len(acts) - 1 /\ i + 1 \in 1..Len(acts) - 1 /\ i # k
      BY <1>4, <1>9, <1>19
    <2>2. acts'[i] = acts[i] /\ acts'[i + 1].unit.name = acts[i + 1].unit.name
      BY <1>10, <1>15, <1>16, <1>19, <2>1
    <2> QED
      BY <1>6, <2>1, <2>2 DEF Awaiting
  <1>21. \A i \in 1..Len(acts') : Sound(acts'[i].unit, Held')
    <2> TAKE i \in 1..Len(acts')
    <2>1. i \in 1..Len(acts) - 1 /\ i \in 1..Len(acts)
      BY <1>4, <1>19
    <2> QED
      BY <1>12, <1>15, <1>16, <1>19, <2>1
  <1>22. ASSUME NEW i \in 1..Len(stack')
         PROVE  ~Cached(stack[i])'
    <2>1. /\ Len(stack') = Len(stack) - 1
          /\ \A j \in 1..Len(stack) - 1 : stack'[j] = stack[j]
      BY <1>2, <1>3, <1>4, FrontIsShorter DEF Pop, PopName
    <2>2. /\ i \in 1..Len(stack) - 1 /\ i \in 1..Len(stack)
          /\ Len(stack) \in 1..Len(stack) /\ i # Len(stack)
      BY <1>2, <1>4, <2>1
    <2>3. /\ stack'[i] = stack[i] /\ stack[i] # n /\ ~Cached(stack[i])
          /\ stack[i] \in Names
      BY <1>2, <1>4, <1>6, <2>1, <2>2, ElementOfSeq
    <2>4. Held'[stack'[i]].serial = 0
      BY <1>2, <1>7, <2>3, HeldIsTyped DEF KeptInv
    <2> QED
      BY <1>2, <2>3, <2>4, HeldIsTypedNext
  <1>23. LoadsInv'
    BY <1>20, <1>21, <1>22 DEF LoadsInv
  <1> QED
    BY <1>2, <1>23 DEF KeptInv

(* Every step keeps the invariant.                                           *)
LEMMA KeptStep ==
  ASSUME Room, KeptInv, [Next]_vars
  PROVE  KeptInv'
  <1>1. Shape' /\ StackInv'
    BY StepKinds, StackStep DEF KeptInv
  <1>2. CASE UNCHANGED <<acts, cache, stack, outcome, serial>>
    BY <1>1, <1>2, StillKeeps
  <1>3. CASE LoadHit
    BY <1>1, <1>3, HitKeeps
  <1>4. CASE LoadBegin
    BY <1>1, <1>4, BeginKeeps
  <1>5. CASE CheckSkip
    BY <1>1, <1>5, SkipKeeps DEF CheckSkip
  <1>6. CASE CheckAccept
    BY <1>1, <1>6, AcceptKeeps
  <1>7. CASE Publish
    BY <1>1, <1>7, PublishKeeps
  <1>8. CASE Catch
    BY <1>1, <1>8, SkipKeeps DEF Catch, Guarded
  <1>9. CASE Propagate
    BY <1>1, <1>9, UnwindKeeps
  <1>10. CASE Complete \/ Abandon \/ LoadTooDeep
    BY <1>1, <1>10 DEF Complete, Abandon, LoadTooDeep, KeptInv, LoadsInv, CacheInv
  <1>11. \/ UNCHANGED <<acts, cache, stack, outcome, serial>>
         \/ LoadHit \/ LoadBegin \/ CheckSkip \/ CheckAccept \/ Publish
         \/ Catch \/ Propagate \/ Complete \/ Abandon \/ LoadTooDeep
    BY DEF Next, Interpreter, Load, EvalProgram, Answered, vars, Edit, LoadForbidden,
       LoadCycle, LoadUnreadable, LoadUnparsable, CheckReject, EvalFault, Raise
  <1> QED
    BY <1>2, <1>3, <1>4, <1>5, <1>6, <1>7, <1>8, <1>9, <1>10, <1>11

(* It holds at the start.                                                    *)
LEMMA InitKept == Init => KeptInv
  <1> SUFFICES ASSUME Init PROVE KeptInv
    OBVIOUS
  <1>1. /\ Shape /\ Len(acts) = 1 /\ acts[1].unit.name = Root /\ stack = <<>>
        /\ cache = <<>>
    BY InitShape DEF Init
  <1>2. StackInv /\ CacheInv
    BY <1>1 DEF StackInv, CacheInv
  <1>3. PICK t \in Texts :
          /\ t.verdict # "parse"
          /\ acts = <<[unit |-> Fresh(Root, FALSE, t, "check"), outer |-> 1]>>
    BY DEF Init
  <1>4. Sound(Fresh(Root, FALSE, t, "check"), Held)
    BY <1>3, FreshIsSound
  <1> DEFINE u == Fresh(Root, FALSE, t, "check")
             e == [unit |-> u, outer |-> 1]
  <1>7. Sound(e.unit, Held) /\ acts = <<e>>
    BY <1>3, <1>4
  <1> HIDE DEF e
  <1>8. acts[1] = e
    BY <1>7
  <1>5. \A i \in 1..Len(acts) : Sound(acts[i].unit, Held)
    BY <1>1, <1>7, <1>8
  <1>6. Awaiting
    BY <1>1 DEF Awaiting
  <1> QED
    BY <1>1, <1>2, <1>5, <1>6 DEF KeptInv, LoadsInv

(* So it holds always.                                                       *)
LEMMA KeptHolds == Spec => [](Room => KeptInv)
  <1>1. Init => (Room => KeptInv)
    BY InitKept
  <1>2. (Room => KeptInv) /\ [Next]_vars => (Room => KeptInv)'
    BY KeptStep, RoomStays
  <1> QED
    BY <1>1, <1>2, PTL DEF Spec

(* With no more names than LOADER_MAX, the second loader_load of a `use`,   *)
(* at evaluation, finds the unit whose interface the first one gave the     *)
(* check, however the files changed meanwhile.                              *)
THEOREM ImportsStayAsChecked == Spec => []CheckedIsBound
  <1>1. (Room => KeptInv) => CheckedIsBound
    <2> SUFFICES ASSUME KeptInv, NEW i \in 1..Len(acts), NEW n \in Names,
                        acts[i].unit.typed[n] # 0, acts[i].unit.bound[n] # 0
                 PROVE  acts[i].unit.typed[n] = acts[i].unit.bound[n]
      BY DEF CheckedIsBound
    <2>1. outcome = "running"
      BY DEF KeptInv, Shape, Busy
    <2>2. Noted(acts[i].unit, Held)
      BY <2>1 DEF KeptInv, LoadsInv, Sound
    <2> QED
      BY <2>2 DEF Noted
  <1> QED
    BY <1>1, KeptHolds, PTL

----------------------------------------------------------------------------
(* The refinement. Only Publish changes what is loaded; only Complete,      *)
(* Abandon and LoadTooDeep answer; loaded is the text of what a lookup finds.               *)
Loaded == [n \in Names |-> Lookup(n).text]

(* Nothing is loaded while the cache stays as it is.                         *)
LEMMA SameLoaded ==
  ASSUME cache' = cache
  PROVE  Loaded' = Loaded
  <1>1. Loaded = [n \in Names |-> Held[n].text]
    BY DEF Loaded, Held
  <1>2. Loaded' = [n \in Names |-> Held'[n].text]
    BY DEF Loaded, Held
  <1> QED
    BY <1>1, <1>2, SameCache

(* Publish is the abstract step that publishes a unit.                       *)
LEMMA PublishImplements ==
  ASSUME Room, KeptInv, Shape', Publish
  PROVE  \E n \in Names, t \in Texts : Promise!PublishUnit(n, t)
  <1>1. PICK n \in Names, u \in Unit : Published(n, u)
    BY SomethingIsPublished
  <1>2. ~Cached(n) /\ Held' = [Held EXCEPT ![n] = u] /\ CacheInv'
    BY <1>1, PublishFills
  <1>3. /\ outcome = "running" /\ outcome' = outcome
        /\ Finished(Current.unit) /\ Current.unit.phase = "eval"
        /\ Current.unit.text.verdict # "eval"
    BY DEF Publish, AtEnd
  <1>4. PICK t \in Texts : t = Current.unit.text /\ t.verdict = "ok"
                           /\ \A m \in TopImports(t) : m \in Names /\ Held[m].serial # 0
    BY <1>3, CurrentIsSound, FinishedIsPublishable
  <1>5. \A m \in Names : (Loaded[m] # Missing <=> Held[m].serial # 0)
                         /\ Loaded[m] = Held[m].text
    BY HeldIsTyped, UnitsAssumption DEF KeptInv, Loaded
  <1>6. Loaded[n] = Missing
    BY <1>2, <1>5, HeldIsTyped DEF KeptInv
  <1>7. Promise!Publishable(t)
    BY <1>4, <1>5 DEF Promise!Publishable, Promise!TopImports, TopImports, Loaded
  <1>8. Loaded' = [Loaded EXCEPT ![n] = t]
    <2>1. Loaded = [m \in Names |-> Held[m].text]
      BY DEF Loaded, Held
    <2>2. Loaded' = [m \in Names |-> Held'[m].text]
      BY DEF Loaded, Held
    <2>3. u.text = t /\ Held \in [Names -> Unit]
      BY <1>1, <1>4, HeldIsTyped DEF Published, KeptInv
    <2> QED
      BY <1>2, <2>1, <2>2, <2>3
  <1>9. Promise!PublishUnit(n, t)
    BY <1>3, <1>6, <1>7, <1>8 DEF Promise!PublishUnit, Loaded
  <1> QED
    BY <1>9

(* Complete is the abstract success.                                         *)
LEMMA CompleteImplements ==
  ASSUME KeptInv, Complete
  PROVE  Promise!Succeed
  <1>1. /\ outcome = "running" /\ outcome' = "ok" /\ cache' = cache
        /\ Finished(Current.unit) /\ Current.unit.phase = "eval"
        /\ Current.unit.text.verdict # "eval"
    BY DEF Complete, AtEnd
  <1>2. PICK t \in Texts : t = Current.unit.text /\ t.verdict = "ok"
                           /\ \A m \in TopImports(t) : m \in Names /\ Held[m].serial # 0
    BY <1>1, CurrentIsSound, FinishedIsPublishable
  <1>3. \A m \in Names : (Loaded[m] # Missing <=> Held[m].serial # 0)
    BY HeldIsTyped, UnitsAssumption DEF KeptInv, Loaded
  <1>4. Promise!Publishable(t)
    BY <1>2, <1>3 DEF Promise!Publishable, Promise!TopImports, TopImports, Loaded
  <1>5. Loaded' = Loaded
    BY <1>1, SameLoaded
  <1> QED
    BY <1>1, <1>4, <1>5 DEF Promise!Succeed, Loaded

(* The C loader keeps the promise of loading, as the Rust one does, as long *)
(* as its arrays have a slot for every name: every step publishes one unit  *)
(* whose imports are published, answers the program, or changes nothing of  *)
(* what is promised.                                                        *)
THEOREM LoaderKeepsPromise ==
  Spec /\ Room => Promise!PInit /\ [][Promise!PNext]_(Promise!pvars)
  <1>1. Init => Promise!PInit
    <2> SUFFICES ASSUME Init PROVE Promise!PInit
      OBVIOUS
    <2>1. cache = <<>> /\ outcome = "running"
      BY DEF Init
    <2>2. \A n : Hits(n) = {}
      BY <2>1 DEF Hits
    <2>3. \A n : Lookup(n).text = Missing
      BY <2>2 DEF Lookup, Cached, NoUnit
    <2> QED
      BY <2>1, <2>3 DEF Promise!PInit
  <1>2. Room /\ [Next]_vars => Room'
    BY RoomStays
  <1>3. Room /\ KeptInv /\ [Next]_vars => [Promise!PNext]_(Promise!pvars)
    <2> SUFFICES ASSUME Room, KeptInv, [Next]_vars
                 PROVE  [Promise!PNext]_(Promise!pvars)
      OBVIOUS
    <2>1. CASE Publish
      BY <2>1, PublishImplements, StepKinds DEF KeptInv, Promise!PNext
    <2>2. CASE Complete
      BY <2>2, CompleteImplements DEF Promise!PNext
    <2>3. CASE Abandon \/ LoadTooDeep
      <3>1. /\ outcome = "running" /\ outcome' \in {"failed", "crashed"}
            /\ cache' = cache
        BY <2>3 DEF Abandon, LoadTooDeep, Loadable, Reading, Demanding
      <3>2. Loaded' = Loaded
        BY <3>1, SameLoaded
      <3> QED
        BY <3>1, <3>2 DEF Promise!PNext, Promise!Fail, Loaded
    <2>4. CASE UNCHANGED <<cache, outcome>>
      <3>1. Loaded' = Loaded
        BY <2>4, SameLoaded
      <3> QED
        BY <2>4, <3>1 DEF Promise!pvars, Loaded
    <2>5. Publish \/ Complete \/ Abandon \/ LoadTooDeep \/ UNCHANGED <<cache, outcome>>
      BY DEF Next, Interpreter, Load, EvalProgram, Answered, vars, Edit, LoadHit,
         LoadForbidden, LoadCycle, LoadUnreadable, LoadUnparsable, LoadBegin,
         CheckSkip, CheckAccept, CheckReject, EvalFault, Catch, Propagate, Raise
    <2> QED
      BY <2>1, <2>2, <2>3, <2>4, <2>5
  <1> QED
    BY <1>1, <1>2, <1>3, KeptHolds, PTL DEF Spec
=============================================================================
