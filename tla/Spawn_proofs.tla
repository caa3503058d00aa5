---------------------------- MODULE Spawn_proofs ----------------------------
(***************************************************************************)
(* Proofs about Spawn, for every program, input and capacity: a value is   *)
(* given only after the program is over, and it is everything that the     *)
(* program said. The first invariant says where each state of the process  *)
(* can be met; the second relates what is in the pipes and what was read   *)
(* from them to the step that the program is at.                           *)
(***************************************************************************)
EXTENDS Spawn, SequenceTheorems, WellFoundedInduction, TLAPS

----------------------------------------------------------------------------
(* The least of some natural numbers, from which induction follows for any  *)
(* property that can be written as a set.                                   *)
LEMMA LeastOfNats ==
  ASSUME NEW T, T \subseteq Nat, T # {}
  PROVE  \E m \in T : \A k \in T : m <= k
  <1> DEFINE R == {ss \in Nat \X Nat : ss[1] < ss[2]}
  <1>1. IsWellFoundedOn(R, Nat)
    BY NatLessThanWellFounded DEF OpToRel
  <1>2. \A x, y \in Nat : x < y => <<x, y>> \in R
    OBVIOUS
  <1> HIDE DEF R
  <1>3. PICK x \in T : \A y \in T : ~(<<y, x>> \in R)
    BY <1>1, WFMin
  <1>4. ASSUME NEW k \in T
        PROVE  x <= k
    <2>1. x \in Nat /\ k \in Nat /\ ~(k < x)
      BY <1>2, <1>3
    <2> QED
      BY <2>1
  <1> QED
    BY <1>4

LEMMA NatSetInduction ==
  ASSUME NEW T, 0 \in T, \A n \in Nat : n \in T => n + 1 \in T
  PROVE  Nat \subseteq T
  <1> SUFFICES ASSUME ~(Nat \subseteq T) PROVE FALSE
    OBVIOUS
  <1> DEFINE U == Nat \ T
  <1>1. U \subseteq Nat /\ U # {}
    OBVIOUS
  <1>2. PICK m \in U : \A k \in U : m <= k
    <2> HIDE DEF U
    <2> QED
      BY <1>1, LeastOfNats
  <1>3. m \in Nat /\ m - 1 \in Nat /\ m - 1 + 1 = m
    OBVIOUS
  <1>4. m - 1 \in T
    BY <1>2, <1>3
  <1> QED
    BY <1>3, <1>4

LEMMA SingletonIsASeq ==
  ASSUME NEW S, NEW e \in S
  PROVE  <<e>> \in Seq(S) /\ Len(<<e>>) = 1 /\ <<e>>[1] = e
  OBVIOUS

Shape ==
  /\ at \in [Twins -> {"start", "writing", "reading", "waiting", "done"}]
  /\ DOMAIN child = Twins
  /\ DOMAIN outcome = Twins

Fields == {"state", "todo", "hand", "in", "out"}

Answering(t) ==
  /\ DOMAIN child[t] = Fields
  /\ child[t].state \in {"none", "running", "exited", "reaped"}
  /\ at[t] = "start" => child[t].state = "none"
  /\ at[t] # "done" => outcome[t] = Unanswered
  /\ outcome[t][1] = "ok" => child[t].state \in {"none", "reaped"}

SpawnInv == Shape /\ \A t \in Twins : Answering(t)

(* Nothing has been answered at the start.                                   *)
LEMMA InitAnswers == Init => SpawnInv
<1>1. DOMAIN NoChild = Fields /\ NoChild.state = "none"
  BY DEF NoChild, Fields
<1>2. ASSUME Init, NEW t \in Twins
      PROVE  at[t] = "start" /\ child[t] = NoChild /\ outcome[t] = Unanswered
  BY <1>2 DEF Init
<1>3. Unanswered[1] # "ok"
  BY DEF Unanswered
<1>4. Init => Shape
  BY DEF Init, Shape
<1> QED
  BY <1>1, <1>2, <1>3, <1>4 DEF SpawnInv, Answering

(* The program's own steps need it to be running, and never end in a state  *)
(* but running or exited.                                                   *)
LEMMA ChildAnswers ==
  ASSUME SpawnInv, NEW t \in Twins, Child(t)
  PROVE  SpawnInv'
<1> USE DEF Fields
<1>1. Running(t) /\ at' = at /\ outcome' = outcome
  BY DEF Child, ChildReads, ChildAtEnd, ChildWrites, ChildCloses, ChildExits,
         Doing, Elsewhere
<1>2. DOMAIN child' = Twins /\ \A u \in Twins \ {t} : child'[u] = child[u]
  BY DEF Child, ChildReads, ChildAtEnd, ChildWrites, ChildCloses, ChildExits,
         Become, SpawnInv, Shape
<1>3. child'[t].state \in {"running", "exited"} /\ DOMAIN child'[t] = Fields
  <2> USE <1>1 DEF Become, Rest, Running, SpawnInv, Shape, Answering
  <2>1. CASE ChildReads(t)
    BY <2>1 DEF ChildReads
  <2>2. CASE ChildAtEnd(t)
    BY <2>2 DEF ChildAtEnd
  <2>3. CASE ChildWrites(t)
    <3>1. child' = [child EXCEPT ![t] = [NoChild EXCEPT !.state = "exited"]]
            \/ child' = [child EXCEPT ![t] = Rest(t)]
            \/ child' = [child EXCEPT ![t] = [child[t] EXCEPT !.hand = <<>>]]
      BY <2>3 DEF ChildWrites
    <3> QED
      BY <3>1 DEF NoChild
  <2>4. CASE ChildCloses(t)
    BY <2>4 DEF ChildCloses
  <2>5. CASE ChildExits(t)
    BY <2>5 DEF ChildExits, NoChild
  <2> QED
    BY <2>1, <2>2, <2>3, <2>4, <2>5 DEF Child
<1>4. at[t] # "start" /\ outcome[t][1] # "ok"
  BY <1>1 DEF SpawnInv, Answering, Running
<1> QED
  BY <1>1, <1>2, <1>3, <1>4 DEF SpawnInv, Shape, Answering

(* An answer is given only by Wait, when the program is over.                *)
LEMMA ParentAnswers ==
  ASSUME SpawnInv, NEW t \in Twins, Parent(t)
  PROVE  SpawnInv'
<1> USE DEF SpawnInv, Shape, Answering, Fields
<1>1. CASE Fork(t)
  BY <1>1 DEF Fork, Go, End, Unanswered, Started
<1>2. CASE ForkFailure(t)
  BY <1>2 DEF ForkFailure, Go, End, Unanswered
<1>3. CASE Write(t)
  BY <1>3 DEF Write
<1>4. CASE WriteRefused(t)
  BY <1>4 DEF WriteRefused, Go, End, Unanswered
<1>5. CASE CloseInput(t)
  BY <1>5 DEF CloseInput, Go
<1>6. CASE Read(t)
  BY <1>6 DEF Read
<1>7. CASE OutputEnd(t)
  BY <1>7 DEF OutputEnd, Go
<1>8. CASE Wait(t)
  BY <1>8 DEF Wait, Over, Running, Go, End, Unanswered
<1> QED
  BY <1>1, <1>2, <1>3, <1>4, <1>5, <1>6, <1>7, <1>8 DEF Parent

(* When io.spawn gives a value, the program it started is over and waited   *)
(* for, in both implementations, for any programs, inputs and capacity.     *)
THEOREM ProgramIsOver == Spec => []EffectsPrecede
<1>1. SpawnInv /\ [Next]_vars => SpawnInv'
  BY ChildAnswers, ParentAnswers
  DEF Next, vars, SpawnInv, Shape, Answering
<1>2. SpawnInv => EffectsPrecede
  BY DEF SpawnInv, Answering, EffectsPrecede
<1> QED
  BY <1>1, <1>2, InitAnswers, PTL DEF Spec

----------------------------------------------------------------------------
(* The first n values, as a function that the equation of Says describes.   *)
Begins(g, n) ==
  /\ DOMAIN g = 0..n
  /\ g[0] = Nothing
  /\ \A k \in 1..n : g[k] = After(g[k - 1], program[k])

(* Says is computed up to every number of steps.                             *)
LEMMA BeginningsExist == \A n \in Nat : \E g : Begins(g, n)
<1> DEFINE T == {n \in Nat : \E g : Begins(g, n)}
<1>1. 0 \in T
  <2>1. Begins([k \in 0..0 |-> Nothing], 0)
    BY DEF Begins
  <2> QED
    BY <2>1
<1>2. ASSUME NEW n \in Nat, n \in T
      PROVE  n + 1 \in T
  <2>1. PICK g : Begins(g, n)
    BY <1>2
  <2> DEFINE h == [k \in 0..n + 1 |->
                     IF k = n + 1 THEN After(g[n], program[k]) ELSE g[k]]
  <2>2. DOMAIN h = 0..n + 1 /\ h[0] = Nothing
    BY <2>1 DEF Begins
  <2>3. ASSUME NEW k \in 1..n + 1
        PROVE  h[k] = After(h[k - 1], program[k])
    <3>1. /\ k \in Nat /\ k - 1 \in 0..n + 1 /\ k - 1 # n + 1 /\ k \in 0..n + 1
          /\ k # n + 1 => k \in 1..n
          /\ k = n + 1 => k - 1 = n
      BY <2>3
    <3>2. h[k - 1] = g[k - 1]
      BY <3>1
    <3>3. CASE k = n + 1
      BY <3>1, <3>2, <3>3
    <3>4. CASE k # n + 1
      <4>1. h[k] = g[k]
        BY <3>1, <3>4
      <4> QED
        BY <3>1, <3>2, <3>4, <4>1, <2>1 DEF Begins
    <3> QED
      BY <3>3, <3>4
  <2> HIDE DEF h
  <2>4. Begins(h, n + 1)
    BY <2>2, <2>3 DEF Begins
  <2> QED
    BY <2>4
<1> HIDE DEF T
<1>3. Nat \subseteq T
  BY <1>1, <1>2, NatSetInduction
<1> QED
  BY <1>3 DEF T

(* Two computations of Says agree as far as both go.                         *)
LEMMA BeginningsAgree ==
  ASSUME NEW m \in Nat, NEW n \in Nat, m <= n, NEW g, NEW h,
         Begins(g, m), Begins(h, n)
  PROVE  g[m] = h[m]
<1> DEFINE T == {k \in Nat : k <= m => g[k] = h[k]}
<1>1. 0 \in T
  BY DEF Begins
<1>2. ASSUME NEW k \in Nat, k \in T
      PROVE  k + 1 \in T
  <2>1. CASE k + 1 <= m
    <3>1. /\ k + 1 \in 1..m /\ k + 1 \in 1..n /\ k + 1 - 1 = k
          /\ g[k] = h[k]
      BY <1>2, <2>1
    <3>2. /\ g[k + 1] = After(g[k], program[k + 1])
          /\ h[k + 1] = After(h[k], program[k + 1])
      BY <3>1 DEF Begins
    <3> QED
      BY <3>1, <3>2
  <2>2. CASE ~(k + 1 <= m)
    BY <2>2
  <2> QED
    BY <2>1, <2>2
<1> HIDE DEF T
<1>3. Nat \subseteq T
  BY <1>1, <1>2, NatSetInduction
<1> QED
  BY <1>3 DEF T

(* Says satisfies its own definition.                                        *)
LEMMA SaysEquation ==
  /\ Says[0] = Nothing
  /\ \A n \in Nat : Says[n + 1] = After(Says[n], program[n + 1])
  /\ Says = [n \in Nat |-> Says[n]]
<1> DEFINE g(n) == CHOOSE f : Begins(f, n)
           F == [n \in Nat |-> g(n)[n]]
<1>1. \A n \in Nat : Begins(g(n), n)
  BY BeginningsExist
<1> HIDE DEF g
<1>2. ASSUME NEW n \in Nat
      PROVE  F[n] = IF n = 0 THEN Nothing ELSE After(F[n - 1], program[n])
  <2>1. CASE n = 0
    BY <1>1, <2>1 DEF Begins
  <2>2. CASE n # 0
    <3>1. n - 1 \in Nat /\ n - 1 <= n /\ n \in 1..n
      BY <2>2
    <3>2. g(n)[n] = After(g(n)[n - 1], program[n])
      BY <1>1, <3>1 DEF Begins
    <3>3. g(n - 1)[n - 1] = g(n)[n - 1]
      BY <1>1, <3>1, BeginningsAgree
    <3>4. F[n] = g(n)[n] /\ F[n - 1] = g(n - 1)[n - 1]
      BY <3>1
    <3> QED
      BY <2>2, <3>2, <3>3, <3>4
  <2> QED
    BY <2>1, <2>2
<1> DEFINE Solves(f) ==
      f = [n \in Nat |-> IF n = 0 THEN Nothing ELSE After(f[n - 1], program[n])]
<1>3. Solves(F)
  <2> HIDE DEF F
  <2>1. F = [n \in Nat |-> F[n]]
    BY DEF F
  <2> QED
    BY <1>2, <2>1
<1>4. Says = CHOOSE f : Solves(f)
  BY DEF Says
<1>5. Solves(Says)
  <2> HIDE DEF Solves, F
  <2> QED
    BY <1>3, <1>4
<1>6. ASSUME NEW n \in Nat
      PROVE  Says[n] = IF n = 0 THEN Nothing ELSE After(Says[n - 1], program[n])
  BY <1>5, Zenon
<1>7. Says = [n \in Nat |-> Says[n]]
  BY <1>5, Zenon
<1>8. /\ Says[0] = Nothing
      /\ \A n \in Nat : Says[n + 1] = After(Says[n], program[n + 1])
  BY <1>6
<1> QED
  BY <1>7, <1>8, Zenon

----------------------------------------------------------------------------
Taken(t) == written[t] - Len(input[t])
Told(t) == got[t] \o output[t]

Given == [took : 0..length, said : Seq(Int)]

(* No bytes between a number and itself.                                     *)
LEMMA NoBytes ==
  ASSUME NEW m \in Nat
  PROVE  Bytes(m, m) = <<>>
<1>1. m - m = 0
  OBVIOUS
<1>2. Bytes(m, m) \in Seq(Int) /\ Len(Bytes(m, m)) = 0
  BY <1>1 DEF Bytes
<1> QED
  BY <1>2, EmptySeq

(* Bytes(m, k + 1) is Bytes(m, k) and one byte more.                         *)
LEMMA BytesAre ==
  ASSUME NEW m \in Nat, NEW n \in Nat, m <= n
  PROVE  /\ Bytes(m, n) \in Seq(Int)
         /\ Bytes(m, n + 1) = Bytes(m, n) \o <<n + 1>>
         /\ Bytes(m, n) \o <<n + 1>> \in Seq(Int)
<1>1. n - m \in Nat /\ n + 1 - m \in Nat /\ n + 1 - m = n - m + 1
  OBVIOUS
<1>2. /\ Bytes(m, n) \in Seq(Int) /\ Len(Bytes(m, n)) = n - m
      /\ Bytes(m, n + 1) \in Seq(Int) /\ Len(Bytes(m, n + 1)) = n - m + 1
  BY <1>1 DEF Bytes
<1> DEFINE s == Append(Bytes(m, n), n + 1)
<1>4. /\ s \in Seq(Int) /\ Len(s) = n - m + 1
      /\ s = Bytes(m, n) \o <<n + 1>>
      /\ \A i \in 1..n - m : s[i] = Bytes(m, n)[i]
      /\ s[n - m + 1] = n + 1
  <2> DEFINE r == Bytes(m, n)
  <2>1. r \in Seq(Int) /\ n + 1 \in Int /\ Len(r) = n - m
    BY <1>2
  <2> HIDE DEF r
  <2> QED
    BY <2>1, AppendProperties, AppendIsConcat DEF r
<1>5. \A i \in 1..n - m + 1 : Bytes(m, n + 1)[i] = s[i]
  <2> TAKE i \in 1..n - m + 1
  <2>1. Bytes(m, n + 1)[i] = m + i
    BY <1>1 DEF Bytes
  <2>2. i \in 1..n - m => Bytes(m, n)[i] = m + i
    BY <1>1 DEF Bytes
  <2>3. i \notin 1..n - m => i = n - m + 1 /\ m + i = n + 1
    BY <1>1
  <2> QED
    BY <1>4, <2>1, <2>2, <2>3
<1>6. Bytes(m, n + 1) = s
  <2> HIDE DEF s
  <2> QED
    BY <1>2, <1>4, <1>5, SeqEqual
<1> QED
  BY <1>2, <1>4, <1>6

(* What a program has taken and said stays of its type.                      *)
LEMMA AfterIsGiven ==
  ASSUME length \in Nat, NEW b \in Given, NEW step
  PROVE  After(b, step) \in Given
<1>1. b.took \in 0..length /\ b.said \in Seq(Int) /\ b = [took |-> b.took, said |-> b.said]
  BY DEF Given
<1>2. /\ Bytes(b.took, length) \in Seq(Int)
      /\ b.said \o Bytes(b.took, length) \in Seq(Int)
      /\ Append(b.said, 0) \in Seq(Int)
  <2>1. b.took \in Nat /\ b.took <= length /\ 0 \in Int
    BY <1>1
  <2>2. Bytes(b.took, length) \in Seq(Int)
    BY <2>1, BytesAre
  <2>3. Append(b.said, 0) \in Seq(Int)
    BY <1>1, <2>1, AppendProperties
  <2> QED
    BY <1>1, <2>2, <2>3, ConcatProperties
<1>3. CASE step = "write"
  <2>1. After(b, step) = [took |-> b.took, said |-> Append(b.said, 0)]
    BY <1>1, <1>3 DEF After
  <2> QED
    BY <1>1, <1>2, <2>1 DEF Given
<1>4. CASE step = "read"
  <2>1. After(b, step) =
          [took |-> IF b.took = length THEN b.took ELSE b.took + 1, said |-> b.said]
    BY <1>1, <1>4 DEF After
  <2>2. b.took # length => b.took + 1 \in 0..length
    BY <1>1
  <2> QED
    BY <1>1, <2>1, <2>2 DEF Given
<1>5. CASE step = "drain"
  <2>1. After(b, step) = [took |-> length, said |-> b.said]
    BY <1>1, <1>5 DEF After
  <2> QED
    BY <1>1, <2>1 DEF Given
<1>6. CASE step = "copy"
  <2>1. After(b, step) =
          [took |-> length, said |-> b.said \o Bytes(b.took, length)]
    BY <1>6 DEF After
  <2> QED
    BY <1>2, <2>1 DEF Given
<1>7. CASE step \notin {"write", "read", "drain", "copy"}
  BY <1>7 DEF After
<1> QED
  BY <1>3, <1>4, <1>5, <1>6, <1>7

(* Says has its type at every step, by induction.                            *)
LEMMA SaysIsGiven == length \in Nat => \A n \in Nat : Says[n] \in Given
<1> SUFFICES ASSUME length \in Nat PROVE \A n \in Nat : Says[n] \in Given
  OBVIOUS
<1> DEFINE T == {n \in Nat : Says[n] \in Given}
<1>1. 0 \in T
  <2>1. 0 \in 0..length /\ <<>> \in Seq(Int)
    OBVIOUS
  <2>2. Nothing \in Given
    BY <2>1 DEF Nothing, Given
  <2> QED
    BY <2>2, SaysEquation
<1>2. ASSUME NEW n \in Nat, n \in T
      PROVE  n + 1 \in T
  BY <1>2, SaysEquation, AfterIsGiven
<1> HIDE DEF T
<1>3. Nat \subseteq T
  BY <1>1, <1>2, NatSetInduction
<1> QED
  BY <1>3 DEF T

(* A byte that goes from the head of one sequence to the end of another.    *)
LEMMA HeadMoves ==
  ASSUME NEW s \in Seq(Int), NEW r \in Seq(Int), r # <<>>
  PROVE  /\ Append(s, Head(r)) \in Seq(Int) /\ Tail(r) \in Seq(Int)
         /\ Append(s, Head(r)) \o Tail(r) = s \o r
<1>1. /\ Head(r) \in Int /\ Tail(r) \in Seq(Int)
      /\ Append(s, Head(r)) = s \o <<Head(r)>>
      /\ <<Head(r)>> \in Seq(Int)
  BY HeadTailProperties, AppendIsConcat
<1>2. <<Head(r)>> \o Tail(r) = r
  <2>1. /\ Len(r) \in Nat \ {0} /\ Len(<<Head(r)>>) = 1 /\ <<Head(r)>>[1] = Head(r)
        /\ Len(Tail(r)) = Len(r) - 1 /\ Head(r) = r[1]
        /\ \A i \in 1..Len(Tail(r)) : Tail(r)[i] = r[i + 1]
    BY HeadTailProperties, EmptySeq
  <2> DEFINE q == <<Head(r)>> \o Tail(r)
  <2>2. /\ q \in Seq(Int) /\ Len(q) = Len(r)
        /\ \A i \in 1..Len(r) :
             q[i] = IF i <= 1 THEN <<Head(r)>>[i] ELSE Tail(r)[i - 1]
    BY <1>1, <2>1, ConcatProperties
  <2>3. \A i \in 1..Len(r) : q[i] = r[i]
    <3> TAKE i \in 1..Len(r)
    <3>1. i = 1 \/ (~(i <= 1) /\ i - 1 \in 1..Len(Tail(r)) /\ i - 1 + 1 = i)
      BY <2>1
    <3> QED
      BY <2>1, <2>2, <3>1
  <2> HIDE DEF q
  <2>4. q = r
    BY <2>2, <2>3, SeqEqual
  <2> QED
    BY <2>4 DEF q
<1> QED
  BY <1>1, <1>2, ConcatAssociative

----------------------------------------------------------------------------
(* The program is at step k + 1 of p, with bytes taken of the input and      *)
(* told what it said, hand in its hands.                                    *)
NextStep(p, k) == IF k < Len(p) THEN p[k + 1] ELSE "exit"

Reached(p, says, k, hand, out, taken, told) ==
  /\ ~out => \E i \in 1..k : p[i] = "closeOut"
  /\ says[k].took <= taken
  /\ NextStep(p, k) \notin {"copy", "drain"} => says[k].took = taken
  /\ NextStep(p, k) # "copy" => hand = <<>>
  /\ told \o hand =
       IF NextStep(p, k) = "copy"
       THEN says[k].said \o Bytes(says[k].took, taken)
       ELSE says[k].said

Performs(p, says, todo, hand, out, taken, told) ==
  LET k == Len(p) - Len(todo)
  IN  /\ k \in Nat
      /\ \A i \in 1..Len(todo) : todo[i] = p[k + i]
      /\ Reached(p, says, k, hand, out, taken, told)

(* A program that exists, run on its input.                                 *)
Runs == /\ program \in Seq(Steps)
        /\ UsesOpen(program)
        /\ length \in Nat

(* The place of a step in a program.                                        *)
LEMMA StepIsAt ==
  ASSUME Runs, NEW todo \in Seq(Steps), NEW hand, NEW out, NEW taken, NEW told,
         Performs(program, Says, todo, hand, out, taken, told),
         todo # <<>>, NEW k, k = Len(program) - Len(todo)
  PROVE  /\ k \in Nat /\ k < Len(program)
         /\ NextStep(program, k) = Head(todo) /\ program[k + 1] = Head(todo)
         /\ Tail(todo) \in Seq(Steps)
         /\ Len(program) - Len(Tail(todo)) = k + 1
         /\ \A i \in 1..Len(Tail(todo)) : Tail(todo)[i] = program[k + 1 + i]
<1>1. /\ Len(program) \in Nat /\ Len(todo) \in Nat \ {0}
      /\ Tail(todo) \in Seq(Steps) /\ Len(Tail(todo)) = Len(todo) - 1
      /\ \A i \in 1..Len(Tail(todo)) : Tail(todo)[i] = todo[i + 1]
      /\ Head(todo) = todo[1]
  BY LenProperties, EmptySeq, HeadTailProperties DEF Runs
<1>2. /\ k \in Nat
      /\ \A i \in 1..Len(todo) : todo[i] = program[k + i]
  BY DEF Performs, Reached
<1>3. /\ k < Len(program) /\ Len(program) - Len(Tail(todo)) = k + 1
      /\ 1 \in 1..Len(todo)
  BY <1>1, <1>2
<1>4. \A i \in 1..Len(Tail(todo)) :
        /\ i + 1 \in 1..Len(todo) /\ k + (i + 1) = k + 1 + i
  BY <1>1, <1>2
<1> QED
  BY <1>1, <1>2, <1>3, <1>4 DEF NextStep

(* A step is over when what it says and takes is.                           *)
LEMMA StepIsOver ==
  ASSUME Runs, NEW todo \in Seq(Steps), NEW hand, NEW out, NEW taken, NEW told,
         Performs(program, Says, todo, hand, out, taken, told),
         todo # <<>>, NEW k, k = Len(program) - Len(todo),
         NEW opened, ~opened => ~out \/ Head(todo) = "closeOut"
  PROVE  Performs(program, Says, Tail(todo), <<>>, opened,
                  Says[k + 1].took, Says[k + 1].said)
<1>1. /\ k \in Nat /\ k < Len(program) /\ program[k + 1] = Head(todo)
      /\ Len(program) - Len(Tail(todo)) = k + 1
      /\ \A i \in 1..Len(Tail(todo)) : Tail(todo)[i] = program[k + 1 + i]
  BY StepIsAt
<1> DEFINE took == Says[k + 1].took
           said == Says[k + 1].said
<1>2. Says[k + 1] \in Given
  BY <1>1, SaysIsGiven DEF Runs
<1>3. took \in Nat /\ Bytes(took, took) = <<>>
  <2>1. took \in Nat
    BY <1>2 DEF Given, Runs
  <2> QED
    BY <2>1, NoBytes
<1>4. said \o <<>> = said
  BY <1>2, ConcatEmptySeq DEF Given
<1>5. ~opened => \E i \in 1..k + 1 : program[i] = "closeOut"
  <2>1. ~out => \E i \in 1..k : program[i] = "closeOut"
    BY DEF Performs, Reached
  <2>2. 1..k \subseteq 1..k + 1 /\ k + 1 \in 1..k + 1
    BY <1>1
  <2> QED
    BY <1>1, <2>1, <2>2
<1>6. took <= took /\ k + 1 \in Nat
  BY <1>1, <1>3
<1> QED
  BY <1>1, <1>3, <1>4, <1>5, <1>6 DEF Performs, Reached

(* What is known before a step, for the lemmas on each of them.             *)
LEMMA StepIsKnown ==
  ASSUME Runs, NEW todo \in Seq(Steps), NEW hand, NEW out, NEW taken, NEW told,
         Performs(program, Says, todo, hand, out, taken, told),
         NEW k, k = Len(program) - Len(todo)
  PROVE  /\ Says[k] \in Given /\ k \in Nat
         /\ Says[k] = [took |-> Says[k].took, said |-> Says[k].said]
         /\ Says[k].took \in Nat /\ Says[k].took <= length
         /\ Says[k].said \in Seq(Int)
         /\ Says[k + 1] = After(Says[k], program[k + 1])
<1>1. k \in Nat
  BY DEF Performs, Reached
<1>2. Says[k] \in Given
  BY <1>1, SaysIsGiven DEF Runs
<1>3. Says[k + 1] = After(Says[k], program[k + 1])
  BY <1>1, SaysEquation
<1> QED
  BY <1>1, <1>2, <1>3 DEF Given, Runs

(* A read takes the next byte, or nothing at the end of the input.           *)
LEMMA ReadTakes ==
  ASSUME Runs, NEW todo \in Seq(Steps), NEW hand, NEW out,
         NEW taken \in 0..length, NEW told \in Seq(Int),
         Performs(program, Says, todo, hand, out, taken, told),
         todo # <<>>, Head(todo) = "read"
  PROVE  Performs(program, Says, Tail(todo), <<>>, out,
                  IF taken = length THEN taken ELSE taken + 1, told)
<1> DEFINE k == Len(program) - Len(todo)
<1>1. /\ Says[k].took \in Nat /\ Says[k].said \in Seq(Int)
      /\ Says[k] = [took |-> Says[k].took, said |-> Says[k].said]
      /\ Says[k + 1] = After(Says[k], program[k + 1])
  BY StepIsKnown
<1>2. program[k + 1] = "read" /\ NextStep(program, k) = "read"
  BY StepIsAt
<1>3. Says[k].took = taken /\ hand = <<>> /\ told \o hand = Says[k].said
  BY <1>2 DEF Performs, Reached
<1>4. told = Says[k].said
  BY <1>3, ConcatEmptySeq
<1>5. After(Says[k], "read") =
        [took |-> IF taken = length THEN taken ELSE taken + 1, said |-> told]
  BY <1>1, <1>3, <1>4 DEF After
<1>6. k = Len(program) - Len(todo) /\ (~out => ~out \/ Head(todo) = "closeOut")
  OBVIOUS
<1> HIDE DEF k
<1>7. /\ (IF taken = length THEN taken ELSE taken + 1) = Says[k + 1].took
      /\ told = Says[k + 1].said
  BY <1>1, <1>2, <1>5
<1>8. Performs(program, Says, Tail(todo), <<>>, out,
               Says[k + 1].took, Says[k + 1].said)
  BY <1>6, StepIsOver
<1> QED
  BY <1>7, <1>8

(* drain takes one byte at a time, and is over at the end.                  *)
LEMMA DrainTakes ==
  ASSUME Runs, NEW todo \in Seq(Steps), NEW hand, NEW out,
         NEW taken \in 0..length, NEW told \in Seq(Int),
         Performs(program, Says, todo, hand, out, taken, told),
         todo # <<>>, Head(todo) = "drain"
  PROVE  /\ hand = <<>>
         /\ Performs(program, Says, todo, <<>>, out, taken + 1, told)
         /\ taken = length =>
              Performs(program, Says, Tail(todo), <<>>, out, taken, told)
<1> DEFINE k == Len(program) - Len(todo)
<1>1. /\ Says[k].took \in Nat /\ Says[k].said \in Seq(Int)
      /\ Says[k] = [took |-> Says[k].took, said |-> Says[k].said]
      /\ Says[k + 1] = After(Says[k], program[k + 1])
  BY StepIsKnown
<1>2. program[k + 1] = "drain" /\ NextStep(program, k) = "drain"
  BY StepIsAt
<1>3. Says[k].took <= taken /\ hand = <<>> /\ told \o hand = Says[k].said
  BY <1>2 DEF Performs, Reached
<1>4. told = Says[k].said
  BY <1>3, ConcatEmptySeq
<1>5. Says[k].took <= taken + 1
  BY <1>1, <1>3
<1>6. Performs(program, Says, todo, <<>>, out, taken + 1, told)
  BY <1>2, <1>3, <1>5 DEF Performs, Reached
<1>7. After(Says[k], "drain") = [took |-> length, said |-> told]
  BY <1>1, <1>4 DEF After
<1>8. k = Len(program) - Len(todo) /\ (~out => ~out \/ Head(todo) = "closeOut")
  OBVIOUS
<1> HIDE DEF k
<1>9. length = Says[k + 1].took /\ told = Says[k + 1].said
  BY <1>1, <1>2, <1>7
<1>10. Performs(program, Says, Tail(todo), <<>>, out,
                Says[k + 1].took, Says[k + 1].said)
  BY <1>8, StepIsOver
<1> QED
  BY <1>3, <1>6, <1>9, <1>10

(* copy takes a byte when its hands are empty, and is over at the end.      *)
LEMMA CopyTakes ==
  ASSUME Runs, NEW todo \in Seq(Steps), NEW out,
         NEW taken \in 0..length, NEW told \in Seq(Int),
         Performs(program, Says, todo, <<>>, out, taken, told),
         todo # <<>>, Head(todo) = "copy"
  PROVE  /\ Performs(program, Says, todo, <<taken + 1>>, out, taken + 1, told)
         /\ taken = length =>
              Performs(program, Says, Tail(todo), <<>>, out, taken, told)
<1> DEFINE k == Len(program) - Len(todo)
           c == Bytes(Says[k].took, taken)
<1>1. /\ Says[k].took \in Nat /\ Says[k].said \in Seq(Int)
      /\ Says[k] = [took |-> Says[k].took, said |-> Says[k].said]
      /\ Says[k + 1] = After(Says[k], program[k + 1])
  BY StepIsKnown
<1>2. program[k + 1] = "copy" /\ NextStep(program, k) = "copy"
  BY StepIsAt
<1>3. Says[k].took <= taken /\ told \o <<>> = Says[k].said \o c
  BY <1>2 DEF Performs, Reached
<1>4. told = Says[k].said \o c
  BY <1>3, ConcatEmptySeq
<1>5. /\ c \in Seq(Int) /\ <<taken + 1>> \in Seq(Int)
      /\ Bytes(Says[k].took, taken + 1) = c \o <<taken + 1>>
  <2>1. taken \in Nat /\ taken + 1 \in Int
    BY DEF Runs
  <2> DEFINE m == Says[k].took
  <2>2. m \in Nat /\ m <= taken
    BY <1>1, <1>3
  <2> HIDE DEF m, k
  <2>3. Bytes(m, taken) \in Seq(Int) /\ Bytes(m, taken + 1) = Bytes(m, taken) \o <<taken + 1>>
    BY <2>1, <2>2, BytesAre
  <2> QED
    BY <2>1, <2>3 DEF m
<1>6. told \o <<taken + 1>> = Says[k].said \o Bytes(Says[k].took, taken + 1)
  <2> DEFINE s == Says[k].said
             d == <<taken + 1>>
  <2>1. s \in Seq(Int) /\ c \in Seq(Int) /\ d \in Seq(Int) /\ told = s \o c
    BY <1>1, <1>4, <1>5
  <2>2. (s \o c) \o d = s \o (c \o d)
    <3>1. s \in Seq(Int) /\ c \in Seq(Int) /\ d \in Seq(Int)
      BY <2>1
    <3> HIDE DEF s, c, d
    <3> QED
      BY <3>1, ConcatAssociative
  <2> QED
    BY <1>5, <2>1, <2>2
<1>7. Says[k].took <= taken + 1
  BY <1>1, <1>3
<1>8. Performs(program, Says, todo, <<taken + 1>>, out, taken + 1, told)
  BY <1>2, <1>6, <1>7 DEF Performs, Reached
<1>9. taken = length =>
        After(Says[k], "copy") = [took |-> taken, said |-> told]
  BY <1>4 DEF After
<1>10. k = Len(program) - Len(todo) /\ (~out => ~out \/ Head(todo) = "closeOut")
  OBVIOUS
<1> HIDE DEF k, c
<1>11. taken = length => length = Says[k + 1].took /\ told = Says[k + 1].said
  BY <1>1, <1>2, <1>9
<1>12. Performs(program, Says, Tail(todo), <<>>, out,
                Says[k + 1].took, Says[k + 1].said)
  BY <1>10, StepIsOver
<1> QED
  BY <1>8, <1>11, <1>12

(* and gives away what it holds.                                            *)
LEMMA CopyGives ==
  ASSUME Runs, NEW todo \in Seq(Steps), NEW hand \in Seq(Int), NEW out,
         NEW taken, NEW told \in Seq(Int),
         Performs(program, Says, todo, hand, out, taken, told)
  PROVE  Performs(program, Says, todo, <<>>, out, taken, told \o hand)
<1>1. told \o hand \o <<>> = told \o hand
  BY ConcatProperties, ConcatEmptySeq
<1> QED
  BY <1>1 DEF Performs, Reached

(* A write adds a zero to what was said.                                     *)
LEMMA WriteSays ==
  ASSUME Runs, NEW todo \in Seq(Steps), NEW hand, NEW out,
         NEW taken, NEW told \in Seq(Int),
         Performs(program, Says, todo, hand, out, taken, told),
         todo # <<>>, Head(todo) = "write"
  PROVE  Performs(program, Says, Tail(todo), <<>>, out, taken, Append(told, 0))
<1> DEFINE k == Len(program) - Len(todo)
<1>1. /\ Says[k].took \in Nat /\ Says[k].said \in Seq(Int)
      /\ Says[k] = [took |-> Says[k].took, said |-> Says[k].said]
      /\ Says[k + 1] = After(Says[k], program[k + 1])
  BY StepIsKnown
<1>2. program[k + 1] = "write" /\ NextStep(program, k) = "write"
  BY StepIsAt
<1>3. Says[k].took = taken /\ hand = <<>> /\ told \o hand = Says[k].said
  BY <1>2 DEF Performs, Reached
<1>4. told = Says[k].said
  BY <1>3, ConcatEmptySeq
<1>5. After(Says[k], "write") = [took |-> taken, said |-> Append(told, 0)]
  BY <1>1, <1>3, <1>4 DEF After
<1>7. k = Len(program) - Len(todo) /\ (~out => ~out \/ Head(todo) = "closeOut")
  OBVIOUS
<1> HIDE DEF k
<1>8. taken = Says[k + 1].took /\ Append(told, 0) = Says[k + 1].said
  BY <1>1, <1>2, <1>5
<1>9. Performs(program, Says, Tail(todo), <<>>, out,
               Says[k + 1].took, Says[k + 1].said)
  BY <1>7, StepIsOver
<1> QED
  BY <1>8, <1>9

(* Closing a descriptor takes and says nothing.                              *)
LEMMA CloseIsSilent ==
  ASSUME Runs, NEW todo \in Seq(Steps), NEW hand, NEW out, NEW opened,
         NEW taken, NEW told \in Seq(Int),
         Performs(program, Says, todo, hand, out, taken, told),
         todo # <<>>, Head(todo) \in {"closeIn", "closeOut"},
         ~opened => ~out \/ Head(todo) = "closeOut"
  PROVE  hand = <<>> /\ Performs(program, Says, Tail(todo), <<>>, opened, taken, told)
<1> DEFINE k == Len(program) - Len(todo)
<1>1. /\ Says[k].took \in Nat /\ Says[k].said \in Seq(Int)
      /\ Says[k + 1] = After(Says[k], program[k + 1])
  BY StepIsKnown
<1>2. program[k + 1] = Head(todo) /\ NextStep(program, k) = Head(todo)
  BY StepIsAt
<1>3. Says[k].took = taken /\ hand = <<>> /\ told \o hand = Says[k].said
  BY <1>2 DEF Performs, Reached
<1>4. told = Says[k].said
  BY <1>3, ConcatEmptySeq
<1>5. After(Says[k], program[k + 1]) = Says[k]
  BY <1>2 DEF After
<1>6. k = Len(program) - Len(todo)
  OBVIOUS
<1> HIDE DEF k
<1>7. Performs(program, Says, Tail(todo), <<>>, opened,
               Says[k + 1].took, Says[k + 1].said)
  BY <1>6, StepIsOver
<1> QED
  BY <1>1, <1>3, <1>4, <1>5, <1>7

(* At its end a program said what it says; without its output it says no    *)
(* more.                                                                    *)
LEMMA ProgramSaid ==
  ASSUME Runs, NEW hand, NEW out, NEW taken, NEW told \in Seq(Int),
         Performs(program, Says, <<>>, hand, out, taken, told)
  PROVE  told = Says[Len(program)].said
<1>1. Len(program) \in Nat /\ Len(program) - Len(<<>>) = Len(program)
  BY LenProperties, EmptySeq DEF Runs
<1>2. NextStep(program, Len(program)) = "exit"
  BY <1>1 DEF NextStep
<1>3. hand = <<>> /\ told \o hand = Says[Len(program)].said
  BY <1>1, <1>2 DEF Performs, Reached
<1> QED
  BY <1>3, ConcatEmptySeq

(* After closing its output a program says nothing more.                     *)
LEMMA ClosedIsSilent ==
  ASSUME Runs, NEW todo \in Seq(Steps), NEW hand, NEW taken, NEW told,
         Performs(program, Says, todo, hand, FALSE, taken, told), todo # <<>>
  PROVE  Head(todo) \notin {"write", "copy"}
<1> DEFINE k == Len(program) - Len(todo)
<1>1. k \in Nat /\ k < Len(program) /\ program[k + 1] = Head(todo)
  BY StepIsAt
<1>2. PICK i \in 1..k : program[i] = "closeOut"
  BY DEF Performs, Reached
<1>3. DOMAIN program = 1..Len(program) /\ Len(program) \in Nat
  BY LenProperties DEF Runs
<1>4. i \in DOMAIN program /\ k + 1 \in DOMAIN program /\ i < k + 1
  BY <1>1, <1>3
<1> HIDE DEF k
<1> QED
  BY <1>1, <1>2, <1>4 DEF Runs, UsesOpen

----------------------------------------------------------------------------
Places == {"start", "writing", "reading", "waiting", "done"}

Typed(t) ==
  /\ written[t] \in 0..length
  /\ input[t] \in Seq(0..length) /\ Len(input[t]) <= Capacity
  /\ output[t] \in Seq(0..length) /\ Len(output[t]) <= Capacity
  /\ got[t] \in Seq(0..length)
  /\ child[t] \in Process
  /\ outcome[t][1] \in {"none", "ok", "error", "killed"}

(* The input arrives in order, and all of it.                               *)
InOrder(t) ==
  /\ Len(input[t]) <= written[t]
  /\ \A i \in 1..Len(input[t]) : input[t][i] = Taken(t) + i
  /\ at[t] \in {"reading", "waiting"} => written[t] = length
  /\ Len(child[t].hand) <= 1

Performing(t) ==
  Performs(program, Says, child[t].todo, child[t].hand, child[t].out,
           Taken(t), Told(t))

Gives(t) ==
  /\ at[t] = "start" => /\ child[t] = NoChild /\ written[t] = 0
                        /\ input[t] = <<>> /\ output[t] = <<>> /\ got[t] = <<>>
  /\ at[t] = "waiting" => output[t] = <<>> /\ (Running(t) => child[t].out = FALSE)
  /\ t = "rust" /\ at[t] \in {"writing", "reading", "waiting"} =>
       child[t].state # "none" /\ program # Missing
  /\ program = Missing /\ Running(t) => child[t].todo = <<>>
  /\ program # Missing /\ at[t] # "done" =>
       /\ Running(t) => Performing(t)
       /\ child[t].state = "exited" => Told(t) = Says[Len(program)].said
       /\ child[t].state # "reaped"

OutputRight(t) ==
  outcome[t][1] = "ok" /\ (t = "rust" \/ (program # Missing /\ child[t].state = "reaped"))
    => outcome[t][2] = Says[Len(program)].said

Right(t) == Typed(t) /\ InOrder(t) /\ Gives(t) /\ OutputRight(t)

Domains ==
  /\ at \in [Twins -> Places] /\ written \in [Twins -> 0..length]
  /\ DOMAIN input = Twins /\ DOMAIN output = Twins /\ DOMAIN got = Twins
  /\ DOMAIN child = Twins /\ DOMAIN outcome = Twins
  /\ program \in Programs /\ length \in Inputs

PipesInv == Domains /\ \A t \in Twins : Right(t)

(* The equations of Says hold in the next state too.                         *)
LEMMA SaysEquationNext ==
  /\ Says'[0] = Nothing
  /\ \A n \in Nat : Says'[n + 1] = After(Says[n], program[n + 1])'
  /\ Says' = [n \in Nat |-> Says'[n]]
<1>1. (/\ Says[0] = Nothing
       /\ \A n \in Nat : Says[n + 1] = After(Says[n], program[n + 1])
       /\ Says = [n \in Nat |-> Says[n]])'
  BY SaysEquation, PTL
<1> QED
  BY <1>1

(* Says stays as it is while the program and its input do.                   *)
LEMMA SaysStays ==
  ASSUME UNCHANGED <<program, length>>
  PROVE  Says' = Says
<1> DEFINE T == {n \in Nat : Says'[n] = Says[n]}
<1>1. 0 \in T
  BY SaysEquation, SaysEquationNext
<1>2. ASSUME NEW n \in Nat, n \in T
      PROVE  n + 1 \in T
  <2>1. /\ Says'[n] = Says[n] /\ program' = program
        /\ Says'[n + 1] = After(Says[n], program[n + 1])'
        /\ Says[n + 1] = After(Says[n], program[n + 1])
    BY <1>2, SaysEquation, SaysEquationNext
  <2>2. After(Says[n], program[n + 1])' = After(Says[n], program[n + 1])
    BY <2>1 DEF After
  <2> QED
    BY <2>1, <2>2
<1> HIDE DEF T
<1>3. Nat \subseteq T
  BY <1>1, <1>2, NatSetInduction
<1>4. \A n \in Nat : Says'[n] = Says[n]
  BY <1>3 DEF T
<1> QED
  BY <1>4, SaysEquation, SaysEquationNext

(* A program that is not missing is one of the runs the assumption is about. *)
LEMMA RealRuns ==
  ASSUME Domains, program # Missing
  PROVE  Runs
BY SpawnAssumption DEF Domains, Runs

(* The input has a length.                                                   *)
LEMMA LengthIsNat == Domains => length \in Nat
BY SpawnAssumption DEF Domains

(* The invariant holds at the start.                                         *)
LEMMA InitRight == Init => PipesInv
<1> SUFFICES ASSUME Init PROVE PipesInv
  OBVIOUS
<1>1. length \in Nat /\ 0 \in 0..length
  BY SpawnAssumption DEF Init
<1>2. Domains
  BY <1>1 DEF Init, Domains, Places
<1>3. ASSUME NEW t \in Twins
      PROVE  Right(t)
  <2>1. /\ at[t] = "start" /\ written[t] = 0 /\ input[t] = <<>> /\ output[t] = <<>>
        /\ got[t] = <<>> /\ child[t] = NoChild /\ outcome[t] = Unanswered
    BY DEF Init
  <2>2. <<>> \in Seq(0..length) /\ Len(<<>>) = 0 /\ 0 <= Capacity
    BY SpawnAssumption, EmptySeq
  <2>3. /\ NoChild \in Process /\ NoChild.state = "none" /\ NoChild.hand = <<>>
        /\ Unanswered[1] = "none"
    BY EmptySeq DEF NoChild, Process, Unanswered
  <2>4. Typed(t)
    BY <1>1, <2>1, <2>2, <2>3 DEF Typed
  <2>5. InOrder(t)
    BY <2>1, <2>2, <2>3 DEF InOrder
  <2>6. Gives(t) /\ OutputRight(t)
    BY <2>1, <2>3 DEF Gives, OutputRight, Running
  <2> QED
    BY <2>4, <2>5, <2>6 DEF Right
<1> QED
  BY <1>2, <1>3 DEF PipesInv

(* A step of one implementation leaves the other's part of the invariant.    *)
LEMMA OthersStayRight ==
  ASSUME PipesInv, UNCHANGED <<program, length>>, NEW u \in Twins,
         at'[u] = at[u], written'[u] = written[u], input'[u] = input[u],
         output'[u] = output[u], got'[u] = got[u], child'[u] = child[u],
         outcome'[u] = outcome[u]
  PROVE  Right(u)'
<1>1. Right(u) /\ Says' = Says
  BY SaysStays DEF PipesInv
<1>2. Taken(u)' = Taken(u) /\ Told(u)' = Told(u) /\ (Running(u)' <=> Running(u))
  BY DEF Taken, Told, Running
<1>3. Typed(u)' /\ InOrder(u)'
  BY <1>1, <1>2 DEF Right, Typed, InOrder, Process
<1>4. Performing(u)' = Performing(u)
  BY <1>1, <1>2 DEF Performing
<1>5. Gives(u)' /\ OutputRight(u)'
  BY <1>1, <1>2, <1>4 DEF Right, Gives, OutputRight
<1> QED
  BY <1>3, <1>5 DEF Right

----------------------------------------------------------------------------
(* What a step of one implementation leaves alone.                          *)
LEMMA OnlyOne ==
  ASSUME PipesInv, UNCHANGED <<program, length>>, NEW t \in Twins,
         Domains', Right(t)',
         \A u \in Twins \ {t} :
           /\ at'[u] = at[u] /\ written'[u] = written[u] /\ input'[u] = input[u]
           /\ output'[u] = output[u] /\ got'[u] = got[u] /\ child'[u] = child[u]
           /\ outcome'[u] = outcome[u]
  PROVE  PipesInv'
<1>1. ASSUME NEW u \in Twins
      PROVE  Right(u)'
  <2>1. CASE u = t
    BY <2>1
  <2>2. CASE u # t
    BY <2>2, OthersStayRight
  <2> QED
    BY <2>1, <2>2
<1> QED
  BY <1>1 DEF PipesInv

(* What a step says of its own implementation.                              *)
LEMMA Known ==
  ASSUME SpawnInv, PipesInv, NEW t \in Twins
  PROVE  /\ Domains /\ length \in Nat
         /\ at[t] \in Places /\ written[t] \in 0..length
         /\ Typed(t) /\ InOrder(t) /\ Gives(t) /\ OutputRight(t)
         /\ child[t].todo \in Seq(Steps) /\ child[t].hand \in Seq(1..length)
         /\ child[t].hand \in Seq(Int)
         /\ child[t].state \in {"none", "running", "exited", "reaped"}
         /\ child[t].out \in BOOLEAN /\ child[t].in \in BOOLEAN
         /\ got[t] \in Seq(Int) /\ output[t] \in Seq(Int) /\ input[t] \in Seq(Int)
         /\ Told(t) \in Seq(Int) /\ Taken(t) \in 0..length
         /\ Len(input[t]) \in Nat
         /\ at[t] # "done" => outcome[t][1] # "ok"
<1>1. Domains /\ Right(t) /\ length \in Nat
  BY LengthIsNat DEF PipesInv
<1>2. at[t] \in Places /\ written[t] \in 0..length
  BY <1>1 DEF Domains
<1>3. Typed(t) /\ InOrder(t) /\ Gives(t) /\ OutputRight(t) /\ child[t] \in Process
  BY <1>1 DEF Right, Typed
<1>4. /\ child[t].todo \in Seq(Steps) /\ child[t].hand \in Seq(1..length)
      /\ child[t].state \in {"none", "running", "exited", "reaped"}
      /\ child[t].out \in BOOLEAN /\ child[t].in \in BOOLEAN
  BY <1>3 DEF Process
<1>5. 0..length \subseteq Int /\ 1..length \subseteq Int
  BY <1>1
<1>6. /\ got[t] \in Seq(Int) /\ output[t] \in Seq(Int) /\ input[t] \in Seq(Int)
      /\ child[t].hand \in Seq(Int)
  BY <1>3, <1>4, <1>5, SeqMonotonic DEF Typed
<1>7. Told(t) \in Seq(Int)
  BY <1>6, ConcatProperties DEF Told
<1>8. Len(input[t]) \in Nat
  BY <1>6, LenProperties
<1>9. Taken(t) \in 0..length
  BY <1>1, <1>2, <1>3, <1>8 DEF Taken, InOrder
<1>10. at[t] # "done" => outcome[t][1] # "ok"
  BY DEF SpawnInv, Answering, Unanswered
<1> QED
  BY <1>1, <1>2, <1>3, <1>4, <1>6, <1>7, <1>8, <1>9, <1>10

(* A program that was started has done nothing yet.                         *)
LEMMA StartsRight ==
  ASSUME Runs
  PROVE  Performs(program, Says, program, <<>>, TRUE, 0, <<>>)
<1>1. Len(program) \in Nat /\ Len(program) - Len(program) = 0
  BY LenProperties DEF Runs
<1>2. Says[0].took = 0 /\ Says[0].said = <<>> /\ Bytes(0, 0) = <<>>
  BY SaysEquation, NoBytes DEF Nothing
<1>3. <<>> \o <<>> = <<>>
  BY EmptySeq, ConcatEmptySeq
<1>4. \A i \in 1..Len(program) : 0 + i = i
  BY <1>1
<1> DEFINE k == Len(program) - Len(program)
<1>5. k = 0 /\ k \in Nat /\ \A i \in 1..Len(program) : program[i] = program[k + i]
  BY <1>1, <1>4
<1> HIDE DEF k
<1>6. /\ Says[k].took = 0 /\ Says[k].said = <<>> /\ 0 <= 0
      /\ Says[k].said \o Bytes(Says[k].took, 0) = <<>>
  BY <1>2, <1>3, <1>5
<1>7. Reached(program, Says, k, <<>>, TRUE, 0, <<>>)
  BY <1>3, <1>6, Zenon DEF Reached
<1> QED
  BY <1>5, <1>7, Zenon DEF Performs, k

(* Fork keeps the invariant: the program starts with both pipes empty.       *)
LEMMA ForkRight ==
  ASSUME SpawnInv, PipesInv, NEW t \in Twins, Fork(t)
  PROVE  PipesInv'
<1>0. /\ Domains /\ Typed(t) /\ Gives(t) /\ length \in Nat
  BY Known
<1>1. /\ at[t] = "start" /\ child[t] = NoChild /\ written[t] = 0 /\ input[t] = <<>>
      /\ output[t] = <<>> /\ got[t] = <<>>
  BY <1>0 DEF Gives, Fork
<1>2. /\ written' = written /\ input' = input /\ output' = output /\ got' = got
      /\ UNCHANGED <<program, length>>
      /\ DOMAIN child = Twins /\ DOMAIN at = Twins /\ DOMAIN outcome = Twins
  BY <1>0 DEF Fork, Domains
<1>3. \/ /\ program # Missing
         /\ child' = [child EXCEPT ![t] = Started]
         /\ at' = [at EXCEPT ![t] = "writing"] /\ outcome' = outcome
      \/ /\ program = Missing /\ t = "c"
         /\ child' = [child EXCEPT ![t] = [Started EXCEPT !.todo = <<>>]]
         /\ at' = [at EXCEPT ![t] = "writing"] /\ outcome' = outcome
      \/ /\ program = Missing /\ child' = child
         /\ at' = [at EXCEPT ![t] = "done"]
         /\ outcome' = [outcome EXCEPT ![t] = <<"error">>]
  BY DEF Fork, Go, End
<1>4. program # Missing => program \in Seq(Steps)
  BY <1>0, RealRuns DEF Runs
<1>5. /\ <<>> \in Seq(Steps) /\ <<>> \in Seq(1..length) /\ Len(<<>>) = 0
  BY EmptySeq
<1>6. \/ /\ program # Missing /\ child'[t] = Started
         /\ at'[t] = "writing" /\ outcome'[t] = outcome[t]
      \/ /\ program = Missing /\ t = "c" /\ child'[t] = [Started EXCEPT !.todo = <<>>]
         /\ at'[t] = "writing" /\ outcome'[t] = outcome[t]
      \/ /\ program = Missing /\ child'[t] = child[t]
         /\ at'[t] = "done" /\ outcome'[t] = <<"error">>
  BY <1>2, <1>3
<1>7. child'[t] \in Process /\ child'[t].hand = <<>>
  <2>1. NoChild \in Process /\ NoChild.hand = <<>>
    BY <1>5 DEF NoChild, Process
  <2>2. program # Missing => Started \in Process /\ Started.hand = <<>>
    BY <1>4, <1>5 DEF Started, Process
  <2>3. LET c == [Started EXCEPT !.todo = <<>>] IN c \in Process /\ c.hand = <<>>
    BY <1>5 DEF Started, Process
  <2> QED
    BY <1>1, <1>6, <2>1, <2>2, <2>3
<1>8. outcome'[t][1] \in {"none", "ok", "error", "killed"}
  <2>1. <<"error">>[1] = "error" /\ outcome[t][1] \in {"none", "ok", "error", "killed"}
    BY <1>0 DEF Typed
  <2> QED
    BY <1>6, <2>1
<1>9. Typed(t)'
  BY <1>0, <1>2, <1>7, <1>8 DEF Typed, Process
<1>10. InOrder(t)'
  <2>1. \A i \in 1..0 : FALSE
    OBVIOUS
  <2> QED
    BY <1>0, <1>1, <1>2, <1>5, <1>6, <1>7, <2>1 DEF InOrder
<1>11. ASSUME program # Missing
       PROVE  Performing(t)' /\ Running(t)'
  <2>1. /\ Runs /\ Says' = Says /\ program' = program
        /\ child'[t] = Started
    BY <1>0, <1>2, <1>6, <1>11, RealRuns, SaysStays
  <2>2. Taken(t)' = 0 /\ Told(t)' = <<>>
    BY <1>1, <1>2, <1>5, ConcatEmptySeq DEF Taken, Told
  <2>3. Performs(program, Says, program, <<>>, TRUE, 0, <<>>)
    BY <2>1, StartsRight
  <2>4. /\ child'[t].todo = program /\ child'[t].hand = <<>>
        /\ child'[t].out = TRUE /\ child'[t].state = "running"
    BY <2>1 DEF Started
  <2> QED
    BY <2>1, <2>2, <2>3, <2>4 DEF Performing, Running
<1>12. Gives(t)'
  <2>1. CASE program # Missing
    BY <1>2, <1>6, <1>11, <2>1 DEF Gives, Running
  <2>2. CASE program = Missing
    BY <1>1, <1>2, <1>6, <2>2 DEF Gives, Running, NoChild, Started
  <2> QED
    BY <2>1, <2>2
<1>13. OutputRight(t)'
  <2>1. outcome'[t][1] # "ok"
    <3>1. outcome[t][1] # "ok" /\ <<"error">>[1] # "ok"
      BY <1>1, Known
    <3> QED
      BY <1>6, <3>1
  <2> QED
    BY <2>1 DEF OutputRight
<1>14. Domains'
  BY <1>0, <1>2, <1>3 DEF Domains, Places
<1>15. \A u \in Twins \ {t} :
         at'[u] = at[u] /\ child'[u] = child[u] /\ outcome'[u] = outcome[u]
  BY <1>2, <1>3
<1> QED
  BY <1>2, <1>9, <1>10, <1>12, <1>13, <1>14, <1>15, OnlyOne DEF Right

----------------------------------------------------------------------------
(* The program goes on as it was when neither what it took nor what it said *)
(* changes.                                                                 *)
LEMMA ProgramStays ==
  ASSUME PipesInv, UNCHANGED <<program, length>>, NEW t \in Twins,
         child'[t] = child[t], Taken(t)' = Taken(t), Told(t)' = Told(t)
  PROVE  Performing(t)' = Performing(t) /\ Says' = Says
BY SaysStays DEF Performing

(* So does a fork that fails.                                                *)
LEMMA ForkFailureRight ==
  ASSUME SpawnInv, PipesInv, NEW t \in Twins, ForkFailure(t)
  PROVE  PipesInv'
<1>1. /\ Domains /\ Typed(t) /\ InOrder(t) /\ Gives(t) /\ at[t] = "start"
      /\ outcome[t][1] # "ok"
  BY Known DEF ForkFailure
<1>2. /\ child[t] = NoChild /\ NoChild.state = "none"
  BY <1>1 DEF Gives, NoChild
<1>3. /\ written' = written /\ input' = input /\ output' = output /\ got' = got
      /\ child' = child /\ UNCHANGED <<program, length>>
      /\ DOMAIN at = Twins /\ DOMAIN outcome = Twins
  BY <1>1 DEF ForkFailure, Domains
<1>4. \/ /\ t = "c" /\ at' = [at EXCEPT ![t] = "writing"] /\ outcome' = outcome
      \/ /\ at' = [at EXCEPT ![t] = "done"]
         /\ outcome' = [outcome EXCEPT ![t] = <<"error">>]
  BY DEF ForkFailure, Go, End
<1>5. /\ \/ t = "c" /\ at'[t] = "writing" /\ outcome'[t] = outcome[t]
         \/ at'[t] = "done" /\ outcome'[t] = <<"error">>
      /\ outcome'[t][1] # "ok"
      /\ outcome'[t][1] \in {"none", "ok", "error", "killed"}
  BY <1>1, <1>3, <1>4 DEF Typed
<1>6. Typed(t)'
  BY <1>1, <1>3, <1>5 DEF Typed, Process
<1>7. InOrder(t)'
  BY <1>1, <1>3, <1>5 DEF InOrder, Taken
<1>8. Gives(t)' /\ OutputRight(t)'
  BY <1>2, <1>3, <1>5 DEF Gives, OutputRight, Running
<1>9. Domains'
  BY <1>1, <1>3, <1>4 DEF Domains, Places
<1>10. \A u \in Twins \ {t} : at'[u] = at[u] /\ outcome'[u] = outcome[u]
  BY <1>3, <1>4
<1> QED
  BY <1>3, <1>6, <1>7, <1>8, <1>9, <1>10, OnlyOne DEF Right

(* A byte written goes to the end of the input pipe.                         *)
LEMMA WriteRight ==
  ASSUME SpawnInv, PipesInv, NEW t \in Twins, Write(t)
  PROVE  PipesInv'
<1>1. /\ Domains /\ Typed(t) /\ InOrder(t) /\ Gives(t) /\ OutputRight(t)
      /\ at[t] = "writing" /\ length \in Nat /\ written[t] \in 0..length
      /\ input[t] \in Seq(0..length) /\ Len(input[t]) \in Nat
  BY Known DEF Write, Typed
<1>2. /\ at' = at /\ output' = output /\ got' = got /\ child' = child
      /\ outcome' = outcome /\ UNCHANGED <<program, length>>
      /\ DOMAIN input = Twins
      /\ written[t] < length /\ Len(input[t]) < Capacity
  BY <1>1 DEF Write, Domains, HasRoom
<1>3. /\ written' = [written EXCEPT ![t] = written[t] + 1]
      /\ input' = [input EXCEPT ![t] = Append(input[t], written[t] + 1)]
  BY DEF Write
<1>4. /\ written'[t] = written[t] + 1 /\ written[t] + 1 \in 0..length
      /\ input'[t] = Append(input[t], written[t] + 1)
  BY <1>1, <1>2, <1>3 DEF Domains
<1>5. /\ input'[t] \in Seq(0..length) /\ Len(input'[t]) = Len(input[t]) + 1
      /\ \A i \in 1..Len(input[t]) : input'[t][i] = input[t][i]
      /\ input'[t][Len(input[t]) + 1] = written[t] + 1
  BY <1>1, <1>4, AppendProperties
<1>6. Taken(t)' = Taken(t) /\ Told(t)' = Told(t)
  BY <1>1, <1>2, <1>4, <1>5 DEF Taken, Told
<1>7. Typed(t)'
  BY <1>1, <1>2, <1>4, <1>5, SpawnAssumption DEF Typed, Process
<1>8. InOrder(t)'
  <2>1. \A i \in 1..Len(input'[t]) : input'[t][i] = Taken(t) + i
    <3> TAKE i \in 1..Len(input'[t])
    <3>0. /\ Len(input'[t]) = Len(input[t]) + 1
          /\ written[t] \in Int /\ Len(input[t]) \in Nat /\ i \in Int
          /\ Taken(t) = written[t] - Len(input[t])
      BY <1>1, <1>5 DEF Taken
    <3>1. i \in 1..Len(input[t]) \/ (i = Len(input[t]) + 1 /\ Taken(t) + i = written[t] + 1)
      BY <3>0
    <3> QED
      BY <1>1, <1>5, <3>1 DEF InOrder
  <2> QED
    BY <1>1, <1>2, <1>4, <1>5, <1>6, <2>1 DEF InOrder
<1>9. Gives(t)' /\ OutputRight(t)'
  <2>1. Performing(t)' = Performing(t) /\ Says' = Says
    BY <1>2, <1>6, ProgramStays
  <2> QED
    BY <1>1, <1>2, <1>6, <2>1 DEF Gives, OutputRight, Running
<1>10. Domains'
  BY <1>1, <1>2, <1>3, <1>4 DEF Domains
<1>11. \A u \in Twins \ {t} : written'[u] = written[u] /\ input'[u] = input[u]
  BY <1>1, <1>2, <1>3 DEF Domains
<1> QED
  BY <1>2, <1>7, <1>8, <1>9, <1>10, <1>11, OnlyOne DEF Right

(* A write nobody can read ends the call or the interpreter.                 *)
LEMMA WriteRefusedRight ==
  ASSUME SpawnInv, PipesInv, NEW t \in Twins, WriteRefused(t)
  PROVE  PipesInv'
<1>1. /\ Domains /\ Typed(t) /\ InOrder(t) /\ Gives(t)
  BY Known
<1>2. /\ written' = written /\ input' = input /\ output' = output /\ got' = got
      /\ child' = child /\ UNCHANGED <<program, length>>
      /\ DOMAIN at = Twins /\ DOMAIN outcome = Twins
  BY <1>1 DEF WriteRefused, Domains
<1>3. PICK how \in {<<"killed">>, <<"error">>} :
        /\ at' = [at EXCEPT ![t] = "done"]
        /\ outcome' = [outcome EXCEPT ![t] = how]
  BY DEF WriteRefused, Go, End
<1>4. /\ at'[t] = "done" /\ outcome'[t][1] \in {"killed", "error"}
  BY <1>2, <1>3
<1>5. Typed(t)'
  BY <1>1, <1>2, <1>4 DEF Typed, Process
<1>6. InOrder(t)'
  BY <1>1, <1>2, <1>4 DEF InOrder, Taken
<1>7. Gives(t)' /\ OutputRight(t)'
  BY <1>1, <1>2, <1>4 DEF Gives, OutputRight, Running
<1>8. Domains'
  BY <1>1, <1>2, <1>3 DEF Domains, Places
<1>9. \A u \in Twins \ {t} : at'[u] = at[u] /\ outcome'[u] = outcome[u]
  BY <1>2, <1>3
<1> QED
  BY <1>2, <1>5, <1>6, <1>7, <1>8, <1>9, OnlyOne DEF Right

(* The interpreter goes on to the next of its places.                       *)
LEMMA MovesRight ==
  ASSUME SpawnInv, PipesInv, NEW t \in Twins, CloseInput(t) \/ OutputEnd(t)
  PROVE  PipesInv'
<1>1. /\ Domains /\ Typed(t) /\ InOrder(t) /\ Gives(t) /\ OutputRight(t)
      /\ child[t].out \in BOOLEAN
  BY Known
<1>2. /\ written' = written /\ input' = input /\ output' = output /\ got' = got
      /\ child' = child /\ outcome' = outcome /\ UNCHANGED <<program, length>>
      /\ DOMAIN at = Twins
  BY <1>1 DEF CloseInput, OutputEnd, Domains
<1>3. \/ /\ at[t] = "writing" /\ written[t] = length
         /\ at' = [at EXCEPT ![t] = "reading"]
      \/ /\ at[t] = "reading" /\ output[t] = <<>> /\ ~HasWriter(t)
         /\ at' = [at EXCEPT ![t] = "waiting"]
  BY DEF CloseInput, OutputEnd, Go
<1>4. \/ at[t] = "writing" /\ written[t] = length /\ at'[t] = "reading"
      \/ at[t] = "reading" /\ output[t] = <<>> /\ ~HasWriter(t) /\ at'[t] = "waiting"
  BY <1>2, <1>3
<1>5. Typed(t)'
  BY <1>1, <1>2 DEF Typed, Process
<1>6. InOrder(t)'
  BY <1>1, <1>2, <1>4 DEF InOrder, Taken
<1>7. Performing(t)' = Performing(t) /\ Says' = Says
  BY <1>2, ProgramStays DEF Taken, Told
<1>8. Gives(t)' /\ OutputRight(t)'
  BY <1>1, <1>2, <1>4, <1>7 DEF Gives, OutputRight, Running, HasWriter, Told
<1>9. Domains'
  BY <1>1, <1>2, <1>3 DEF Domains, Places
<1>10. \A u \in Twins \ {t} : at'[u] = at[u]
  BY <1>2, <1>3
<1> QED
  BY <1>2, <1>5, <1>6, <1>8, <1>9, <1>10, OnlyOne DEF Right

(* A byte read moves from the output pipe to what was got.                   *)
LEMMA ReadRight ==
  ASSUME SpawnInv, PipesInv, NEW t \in Twins, Read(t)
  PROVE  PipesInv'
<1>1. /\ Domains /\ Typed(t) /\ InOrder(t) /\ Gives(t) /\ OutputRight(t)
      /\ at[t] = "reading" /\ output[t] # <<>> /\ length \in Nat
      /\ got[t] \in Seq(Int) /\ output[t] \in Seq(Int)
      /\ got[t] \in Seq(0..length) /\ output[t] \in Seq(0..length)
  BY Known DEF Read, Typed
<1>2. /\ at' = at /\ written' = written /\ input' = input /\ child' = child
      /\ outcome' = outcome /\ UNCHANGED <<program, length>>
      /\ DOMAIN got = Twins /\ DOMAIN output = Twins
  BY <1>1 DEF Read, Domains
<1>3. /\ got' = [got EXCEPT ![t] = Append(got[t], Head(output[t]))]
      /\ output' = [output EXCEPT ![t] = Tail(output[t])]
  BY DEF Read
<1>4. /\ got'[t] = Append(got[t], Head(output[t])) /\ output'[t] = Tail(output[t])
  BY <1>2, <1>3
<1>5. /\ got'[t] \in Seq(0..length) /\ output'[t] \in Seq(0..length)
      /\ Len(output'[t]) <= Len(output[t])
  <2>1. /\ Head(output[t]) \in 0..length /\ Tail(output[t]) \in Seq(0..length)
        /\ Len(Tail(output[t])) = Len(output[t]) - 1 /\ Len(output[t]) \in Nat
    BY <1>1, HeadTailProperties, LenProperties
  <2>2. Append(got[t], Head(output[t])) \in Seq(0..length)
    BY <1>1, <2>1, AppendProperties
  <2> QED
    BY <1>4, <2>1, <2>2
<1>6. Taken(t)' = Taken(t) /\ Told(t)' = Told(t)
  BY <1>1, <1>2, <1>4, HeadMoves DEF Taken, Told
<1>7. Typed(t)'
  <2>1. /\ Len(output[t]) <= Capacity /\ Len(output[t]) \in Nat
        /\ Len(output'[t]) \in Nat /\ Capacity \in Nat
    BY <1>1, <1>5, LenProperties, SpawnAssumption DEF Typed
  <2> QED
    BY <1>1, <1>2, <1>5, <2>1 DEF Typed, Process
<1>8. InOrder(t)'
  BY <1>1, <1>2, <1>6 DEF InOrder
<1>9. Performing(t)' = Performing(t) /\ Says' = Says
  BY <1>2, <1>6, ProgramStays
<1>10. Gives(t)' /\ OutputRight(t)'
  BY <1>1, <1>2, <1>6, <1>9 DEF Gives, OutputRight, Running
<1>11. Domains'
  BY <1>1, <1>2, <1>3 DEF Domains
<1>12. \A u \in Twins \ {t} : got'[u] = got[u] /\ output'[u] = output[u]
  BY <1>2, <1>3
<1> QED
  BY <1>2, <1>7, <1>8, <1>10, <1>11, <1>12, OnlyOne DEF Right

(* What was got when the program is over is all that it said.                *)
LEMMA WaitRight ==
  ASSUME SpawnInv, PipesInv, NEW t \in Twins, Wait(t)
  PROVE  PipesInv'
<1>1. /\ Domains /\ Typed(t) /\ InOrder(t) /\ Gives(t)
      /\ at[t] = "waiting" /\ ~Running(t) /\ got[t] \in Seq(Int)
      /\ child[t].state \in {"none", "running", "exited", "reaped"}
  BY Known DEF Wait, Over
<1>2. /\ written' = written /\ input' = input /\ output' = output /\ got' = got
      /\ UNCHANGED <<program, length>>
      /\ DOMAIN at = Twins /\ DOMAIN outcome = Twins /\ DOMAIN child = Twins
  BY <1>1 DEF Wait, Domains
<1> DEFINE s == IF child[t].state = "exited" THEN "reaped" ELSE child[t].state
<1>3. /\ at' = [at EXCEPT ![t] = "done"]
      /\ outcome' = [outcome EXCEPT ![t] = <<"ok", got[t]>>]
      /\ child' = [child EXCEPT ![t] = [child[t] EXCEPT !.state = s]]
  BY DEF Wait, Go, End
<1>4. /\ at'[t] = "done" /\ outcome'[t] = <<"ok", got[t]>>
      /\ child'[t] = [child[t] EXCEPT !.state = s]
  BY <1>2, <1>3
<1>5. /\ child'[t] \in Process /\ child'[t].hand = child[t].hand
      /\ child'[t].state = s
  BY <1>1, <1>4 DEF Typed, Process
<1>6. outcome'[t][1] = "ok" /\ outcome'[t][2] = got[t]
  BY <1>4
<1>7. Typed(t)'
  BY <1>1, <1>2, <1>5, <1>6 DEF Typed, Process
<1>8. InOrder(t)'
  BY <1>1, <1>2, <1>4, <1>5 DEF InOrder, Taken
<1>9. Gives(t)'
  BY <1>1, <1>2, <1>4, <1>5 DEF Gives, Running
<1>10. OutputRight(t)'
  <2>1. program # Missing /\ child[t].state = "exited" => got[t] = Says[Len(program)].said
    <3>1. output[t] = <<>>
      BY <1>1 DEF Gives
    <3>2. Told(t) = got[t]
      BY <1>1, <3>1, ConcatEmptySeq DEF Told
    <3> QED
      BY <1>1, <3>2 DEF Gives
  <2>2. t = "rust" => program # Missing /\ child[t].state = "exited"
    BY <1>1 DEF Gives, Running
  <2>3. program # Missing /\ s = "reaped" => child[t].state = "exited"
    BY <1>1 DEF Gives
  <2>4. Says' = Says
    BY <1>2, SaysStays
  <2> QED
    BY <1>2, <1>5, <1>6, <2>1, <2>2, <2>3, <2>4 DEF OutputRight
<1>11. Domains'
  BY <1>1, <1>2, <1>3 DEF Domains, Places
<1>12. \A u \in Twins \ {t} :
         at'[u] = at[u] /\ outcome'[u] = outcome[u] /\ child'[u] = child[u]
  BY <1>2, <1>3
<1> QED
  BY <1>2, <1>7, <1>8, <1>9, <1>10, <1>11, <1>12, OnlyOne DEF Right

----------------------------------------------------------------------------
(* A function of the implementations that changes for one of them.          *)
Becomes(g, f, t, e) ==
  /\ DOMAIN g = Twins /\ g[t] = e
  /\ \A u \in Twins \ {t} : g[u] = f[u]

(* EXCEPT at one implementation changes that one only.                       *)
LEMMA ExceptBecomes ==
  ASSUME NEW f, NEW g, NEW t \in Twins, NEW e, DOMAIN f = Twins,
         g = [f EXCEPT ![t] = e]
  PROVE  Becomes(g, f, t, e)
BY DEF Becomes

(* Nothing changed is a change to what it was.                               *)
LEMMA SameBecomes ==
  ASSUME NEW f, NEW g, NEW t \in Twins, DOMAIN f = Twins, g = f
  PROVE  Becomes(g, f, t, f[t])
BY DEF Becomes

(* The empty sequence has length 0.                                          *)
LEMMA NothingIsEmpty ==
  /\ Len(<<>>) = 0 /\ Len(<<>>) <= 1
  /\ \A S : <<>> \in Seq(S)
<1>1. \A S : <<>> \in Seq(S) /\ Len(<<>>) = 0
  BY EmptySeq
<1> QED
  BY <1>1

(* A process that ended.                                                    *)
LEMMA ExitedIsTyped ==
  LET c == [NoChild EXCEPT !.state = "exited"]
  IN  /\ c \in Process /\ c.state = "exited" /\ c.todo = <<>> /\ Len(c.hand) <= 1
      /\ c.out = FALSE
<1> DEFINE a == NoChild
<1>1. /\ <<>> \in Seq(Steps) /\ <<>> \in Seq(1..length)
      /\ "none" \in {"none", "running", "exited", "reaped"} /\ FALSE \in BOOLEAN
  BY NothingIsEmpty
<1>2. a \in Process /\ a.todo = <<>> /\ a.hand = <<>> /\ a.out = FALSE
  BY <1>1 DEF NoChild, Process
<1> HIDE DEF a
<1>3. LET c == [a EXCEPT !.state = "exited"]
      IN  /\ c \in Process /\ c.state = "exited" /\ c.todo = <<>> /\ c.hand = <<>>
          /\ c.out = FALSE
  BY <1>2 DEF Process
<1> QED
  BY <1>3, NothingIsEmpty DEF a

(* What a step of the program has to show.                                  *)
LEMMA ProgramRight ==
  ASSUME SpawnInv, PipesInv, NEW t \in Twins, Running(t),
         UNCHANGED Elsewhere,
         NEW c \in Process, NEW in \in Seq(0..length), NEW out \in Seq(0..length),
         Becomes(child', child, t, c), Becomes(input', input, t, in),
         Becomes(output', output, t, out),
         Len(in) <= Capacity, Len(out) <= Capacity, Len(c.hand) <= 1,
         Len(in) <= written[t],
         \A i \in 1..Len(in) : in[i] = written[t] - Len(in) + i,
         c.state \in {"running", "exited"},
         program = Missing => c.todo = <<>>,
         at[t] = "waiting" => out = <<>> /\ c.out = FALSE,
         program # Missing /\ at[t] # "done" =>
           /\ c.state = "running" =>
                Performs(program, Says, c.todo, c.hand, c.out,
                         written[t] - Len(in), got[t] \o out)
           /\ c.state = "exited" => got[t] \o out = Says[Len(program)].said
  PROVE  PipesInv'
<1>1. /\ Domains /\ Typed(t) /\ InOrder(t) /\ Gives(t) /\ OutputRight(t)
  BY Known
<1>2. /\ at' = at /\ written' = written /\ got' = got /\ outcome' = outcome
      /\ UNCHANGED <<program, length>> /\ Says' = Says
  BY <1>1, SaysStays DEF Elsewhere, Domains
<1>3. child'[t] = c /\ input'[t] = in /\ output'[t] = out
  BY DEF Becomes
<1>4. Taken(t)' = written[t] - Len(in) /\ Told(t)' = got[t] \o out
  BY <1>2, <1>3 DEF Taken, Told
<1>5. Typed(t)'
  BY <1>1, <1>2, <1>3 DEF Typed, Process
<1>6. InOrder(t)'
  BY <1>1, <1>2, <1>3, <1>4 DEF InOrder
<1>7. at[t] # "start" /\ (t = "rust" /\ at[t] # "done" => program # Missing)
  <2>1. at[t] # "start"
    BY <1>1 DEF Gives, NoChild, Running
  <2> QED
    BY <1>1, <2>1, Known DEF Gives, Places
<1>8. Gives(t)'
  BY <1>1, <1>2, <1>3, <1>4, <1>7 DEF Gives, Performing, Running
<1>9. OutputRight(t)'
  BY <1>1, <1>2, <1>3 DEF OutputRight
<1>10. Domains'
  BY <1>1, <1>2 DEF Domains, Becomes
<1>11. \A u \in Twins \ {t} :
         child'[u] = child[u] /\ input'[u] = input[u] /\ output'[u] = output[u]
  BY DEF Becomes
<1> QED
  BY <1>2, <1>5, <1>6, <1>8, <1>9, <1>10, <1>11, OnlyOne DEF Right

(* A program with a step to do exists, and has it open.                     *)
LEMMA DoerExists ==
  ASSUME SpawnInv, PipesInv, NEW t \in Twins, Running(t), child[t].todo # <<>>
  PROVE  /\ program # Missing /\ Runs
         /\ at[t] # "done" => Performing(t)
         /\ at[t] = "waiting" => /\ output[t] = <<>> /\ child[t].out = FALSE
                                 /\ Head(child[t].todo) \notin {"write", "copy"}
<1>1. Domains /\ Gives(t) /\ child[t].todo \in Seq(Steps)
  BY Known
<1>2. program # Missing /\ Runs
  BY <1>1, RealRuns DEF Gives
<1>3. at[t] # "done" => Performing(t)
  BY <1>1, <1>2 DEF Gives
<1>4. at[t] = "waiting" => output[t] = <<>> /\ child[t].out = FALSE
  BY <1>1 DEF Gives
<1>5. ASSUME at[t] = "waiting"
      PROVE  Head(child[t].todo) \notin {"write", "copy"}
  BY <1>1, <1>2, <1>3, <1>4, <1>5, ClosedIsSilent DEF Performing
<1> QED
  BY <1>2, <1>3, <1>4, <1>5

(* Rest(t) drops the step that was done.                                     *)
LEMMA RestIs ==
  ASSUME SpawnInv, PipesInv, NEW t \in Twins, Running(t), child[t].todo # <<>>
  PROVE  /\ Rest(t) \in Process /\ Rest(t).state = "running"
         /\ Rest(t).todo = Tail(child[t].todo) /\ Rest(t).hand = child[t].hand
         /\ Rest(t).in = child[t].in /\ Rest(t).out = child[t].out
<1>1. child[t].todo \in Seq(Steps) /\ child[t] \in Process
  BY Known DEF Typed
<1>2. Tail(child[t].todo) \in Seq(Steps)
  BY <1>1, HeadTailProperties
<1> QED
  BY <1>1, <1>2 DEF Rest, Running, Process

(* The program takes a byte of its input: as read, drain or copy.            *)
LEMMA ChildReadsRight ==
  ASSUME SpawnInv, PipesInv, NEW t \in Twins, ChildReads(t)
  PROVE  PipesInv'
<1> DEFINE todo == child[t].todo
           in == Tail(input[t])
<1>1. /\ Running(t) /\ child[t].todo # <<>> /\ child[t].hand = <<>>
      /\ input[t] # <<>> /\ UNCHANGED Elsewhere
      /\ input' = [input EXCEPT ![t] = in] /\ output' = output
  BY DEF ChildReads, Doing
<1>2. /\ Domains /\ Typed(t) /\ InOrder(t) /\ length \in Nat
      /\ todo \in Seq(Steps) /\ Told(t) \in Seq(Int) /\ Taken(t) \in 0..length
      /\ written[t] \in 0..length /\ Len(input[t]) \in Nat
  BY Known
<1>3. /\ program # Missing /\ Runs /\ (at[t] # "done" => Performing(t))
      /\ at[t] = "waiting" => /\ output[t] = <<>> /\ child[t].out = FALSE
  BY <1>1, DoerExists
<1>4. /\ in \in Seq(0..length) /\ Len(in) = Len(input[t]) - 1
      /\ \A i \in 1..Len(in) : in[i] = input[t][i + 1]
      /\ Head(input[t]) = input[t][1] /\ Len(input[t]) > 0
  <2> DEFINE s == input[t]
  <2>1. s \in Seq(0..length) /\ s # <<>>
    BY <1>1, <1>2 DEF Typed
  <2> HIDE DEF s
  <2>2. /\ Tail(s) \in Seq(0..length) /\ Len(Tail(s)) = Len(s) - 1
        /\ \A i \in 1..Len(Tail(s)) : Tail(s)[i] = s[i + 1]
        /\ Len(s) > 0
    BY <2>1, HeadTailProperties, EmptySeq
  <2>3. Head(s) = s[1]
    BY <2>1
  <2> QED
    BY <2>2, <2>3 DEF s
<1>5. /\ Len(in) <= Capacity /\ Len(in) <= written[t]
      /\ written[t] - Len(in) = Taken(t) + 1 /\ Taken(t) # length
      /\ Taken(t) + 1 \in 1..length
  <2> DEFINE n == Len(input[t])
             m == Len(in)
  <2>1. /\ n \in Nat /\ m = n - 1 /\ n > 0 /\ n <= Capacity /\ Capacity \in Nat
        /\ n <= written[t] /\ written[t] \in 0..length /\ length \in Nat
        /\ Taken(t) = written[t] - n
    BY <1>2, <1>4, SpawnAssumption DEF Typed, InOrder, Taken
  <2> HIDE DEF n, m, in
  <2> QED
    BY <2>1 DEF m
<1>6. \A i \in 1..Len(in) : in[i] = written[t] - Len(in) + i
  <2> TAKE i \in 1..Len(in)
  <2>1. i \in Nat /\ i >= 1 /\ i <= Len(input[t]) - 1
    BY <1>2, <1>4
  <2>2. i + 1 \in 1..Len(input[t]) /\ Taken(t) + (i + 1) = Taken(t) + 1 + i
    BY <1>2, <2>1
  <2> QED
    BY <1>2, <1>4, <1>5, <2>2 DEF InOrder
<1>7. Head(input[t]) = Taken(t) + 1
  <2>1. 1 \in 1..Len(input[t])
    BY <1>2, <1>4
  <2> QED
    BY <1>2, <1>4, <2>1 DEF InOrder
<1>8. /\ Becomes(input', input, t, in) /\ Becomes(output', output, t, output[t])
      /\ Told(t) = got[t] \o output[t]
  <2> HIDE DEF in
  <2> QED
    BY <1>1, <1>2, ExceptBecomes, SameBecomes DEF Domains, Told
<1> DEFINE out == output[t]
<1>12. /\ out \in Seq(0..length) /\ Len(out) <= Capacity
       /\ DOMAIN child = Twins /\ (program = Missing => FALSE)
       /\ Len(<<>>) <= 1
  BY <1>2, <1>3, EmptySeq DEF Typed, Domains
<1>9. CASE Head(todo) = "read" /\ child' = [child EXCEPT ![t] = Rest(t)]
  <2>1. /\ Rest(t) \in Process /\ Rest(t).state = "running" /\ Rest(t).todo = Tail(todo)
        /\ Rest(t).hand = <<>> /\ Rest(t).out = child[t].out
    BY <1>1, RestIs
  <2>2. at[t] # "done" =>
          Performs(program, Says, Tail(todo), <<>>, child[t].out, Taken(t) + 1, Told(t))
    BY <1>1, <1>2, <1>3, <1>5, <1>9, ReadTakes DEF Performing
  <2>3. Becomes(child', child, t, Rest(t))
    BY <1>9, <1>12, ExceptBecomes
  <2> HIDE DEF todo, in, out
  <2> QED
    BY <1>1, <1>3, <1>4, <1>5, <1>6, <1>8, <1>12, <2>1, <2>2, <2>3, ProgramRight DEF out
<1>10. CASE Head(todo) = "drain" /\ child' = child
  <2> DEFINE c == child[t]
  <2>1. Becomes(child', child, t, c) /\ c.state = "running" /\ c \in Process
    BY <1>1, <1>2, <1>10, <1>12, SameBecomes DEF Running, Typed
  <2>2. at[t] # "done" =>
          Performs(program, Says, todo, <<>>, child[t].out, Taken(t) + 1, Told(t))
    BY <1>1, <1>2, <1>3, <1>10, DrainTakes DEF Performing
  <2>3. c.todo = todo /\ c.hand = <<>> /\ c.out = child[t].out
    BY <1>1
  <2> HIDE DEF in, out, c, todo
  <2> QED
    BY <1>1, <1>3, <1>4, <1>5, <1>6, <1>8, <1>12, <2>1, <2>2, <2>3, ProgramRight DEF out
<1>11. CASE /\ Head(todo) = "copy"
            /\ child' = [child EXCEPT ![t] = [child[t] EXCEPT !.hand = <<Head(input[t])>>]]
  <2> DEFINE c == [child[t] EXCEPT !.hand = <<Taken(t) + 1>>]
  <2>1. /\ c \in Process /\ c.state = "running" /\ c.todo = todo
        /\ c.hand = <<Taken(t) + 1>> /\ c.out = child[t].out /\ Len(c.hand) <= 1
    <3> DEFINE h == <<Taken(t) + 1>>
    <3>1. h \in Seq(1..length) /\ Len(h) = 1
      BY <1>5
    <3>2. child[t] \in Process /\ child[t].state = "running"
      BY <1>1, <1>2 DEF Typed, Running
    <3> HIDE DEF h
    <3>3. LET d == [child[t] EXCEPT !.hand = h]
          IN  /\ d \in Process /\ d.state = "running" /\ d.todo = todo
              /\ d.hand = h /\ d.out = child[t].out
      BY <3>1, <3>2 DEF Process
    <3> QED
      BY <3>1, <3>3 DEF h
  <2>2. Becomes(child', child, t, c)
    <3>1. child' = [child EXCEPT ![t] = c]
      BY <1>7, <1>11
    <3> HIDE DEF c
    <3> QED
      BY <1>12, <3>1, ExceptBecomes
  <2>3. at[t] # "done" =>
          Performs(program, Says, todo, <<Taken(t) + 1>>, child[t].out, Taken(t) + 1, Told(t))
    BY <1>1, <1>2, <1>3, <1>11, CopyTakes DEF Performing
  <2> HIDE DEF c, in, todo, out
  <2> QED
    BY <1>1, <1>3, <1>4, <1>5, <1>6, <1>8, <1>12, <2>1, <2>2, <2>3, ProgramRight DEF out
<1> QED
  BY <1>9, <1>10, <1>11 DEF ChildReads, Doing, Become

(* Pipes that a step leaves alone.                                          *)
InputStays(t) ==
  /\ Becomes(input', input, t, input[t])
  /\ input[t] \in Seq(0..length) /\ Len(input[t]) <= Capacity
  /\ Len(input[t]) <= written[t]
  /\ \A i \in 1..Len(input[t]) : input[t][i] = written[t] - Len(input[t]) + i
  /\ Taken(t) = written[t] - Len(input[t])

OutputStays(t) ==
  /\ Becomes(output', output, t, output[t])
  /\ output[t] \in Seq(0..length) /\ Len(output[t]) <= Capacity
  /\ Told(t) = got[t] \o output[t]

(* A pipe that is left alone stays in order.                                 *)
LEMMA PipesDoStay ==
  ASSUME PipesInv, NEW t \in Twins
  PROVE  /\ input' = input => InputStays(t)
         /\ output' = output => OutputStays(t)
<1>1. Domains /\ Typed(t) /\ InOrder(t)
  BY DEF PipesInv, Right
<1> QED
  BY <1>1, SameBecomes DEF Domains, Typed, InOrder, Told, Taken, InputStays, OutputStays

(* The program finds the end of its input.                                   *)
LEMMA ChildAtEndRight ==
  ASSUME SpawnInv, PipesInv, NEW t \in Twins, ChildAtEnd(t)
  PROVE  PipesInv'
<1> DEFINE todo == child[t].todo
<1>1. /\ Running(t) /\ child[t].todo # <<>> /\ child[t].hand = <<>>
      /\ input[t] = <<>> /\ at[t] \in {"reading", "waiting", "done"}
      /\ UNCHANGED Elsewhere
      /\ child' = [child EXCEPT ![t] = Rest(t)]
      /\ input' = input /\ output' = output
      /\ Head(todo) \in {"read", "drain", "copy"}
  BY DEF ChildAtEnd, Doing, InputEnds, Become
<1>2. /\ Domains /\ Typed(t) /\ InOrder(t) /\ length \in Nat
      /\ todo \in Seq(Steps) /\ Told(t) \in Seq(Int) /\ Taken(t) \in 0..length
      /\ written[t] \in 0..length
  BY Known
<1>3. /\ program # Missing /\ Runs /\ (at[t] # "done" => Performing(t))
      /\ at[t] = "waiting" => /\ output[t] = <<>> /\ child[t].out = FALSE
  BY <1>1, DoerExists
<1>4. at[t] # "done" => Taken(t) = length
  BY <1>1, <1>2, EmptySeq DEF InOrder, Taken
<1>5. /\ Rest(t) \in Process /\ Rest(t).state = "running" /\ Rest(t).todo = Tail(todo)
      /\ Rest(t).hand = <<>> /\ Rest(t).out = child[t].out
  BY <1>1, RestIs
<1>6. ASSUME at[t] # "done"
      PROVE  Performs(program, Says, Tail(todo), <<>>, child[t].out, Taken(t), Told(t))
  <2>1. Performs(program, Says, todo, <<>>, child[t].out, Taken(t), Told(t))
    BY <1>1, <1>3, <1>6 DEF Performing
  <2>2. CASE Head(todo) = "read"
    BY <1>1, <1>2, <1>3, <1>4, <1>6, <2>1, <2>2, ReadTakes
  <2>3. CASE Head(todo) = "drain"
    BY <1>1, <1>2, <1>3, <1>4, <1>6, <2>1, <2>3, DrainTakes
  <2>4. CASE Head(todo) = "copy"
    BY <1>1, <1>2, <1>3, <1>4, <1>6, <2>1, <2>4, CopyTakes
  <2> QED
    BY <1>1, <2>2, <2>3, <2>4
<1>7. /\ Becomes(child', child, t, Rest(t)) /\ Len(<<>>) <= 1
      /\ program # Missing
  BY <1>1, <1>2, <1>3, NothingIsEmpty, ExceptBecomes DEF Domains
<1>8. InputStays(t) /\ OutputStays(t)
  BY <1>1, PipesDoStay
<1>9. /\ Rest(t).state = "running" /\ Rest(t).state # "exited"
      /\ program = Missing => Rest(t).todo = <<>>
      /\ at[t] = "waiting" => output[t] = <<>> /\ Rest(t).out = FALSE
  BY <1>3, <1>5, <1>7
<1>10. program # Missing /\ at[t] # "done" =>
         Performs(program, Says, Rest(t).todo, Rest(t).hand, Rest(t).out,
                  written[t] - Len(input[t]), got[t] \o output[t])
  BY <1>5, <1>6 DEF Taken, Told
<1> HIDE DEF todo
<1> QED
  BY <1>1, <1>5, <1>7, <1>8, <1>9, <1>10, ProgramRight DEF InputStays, OutputStays

(* The program writes: what was said and is not yet got grows by it.         *)
LEMMA ChildWritesRight ==
  ASSUME SpawnInv, PipesInv, NEW t \in Twins, ChildWrites(t)
  PROVE  PipesInv'
<1> DEFINE todo == child[t].todo
           hand == child[t].hand
<1>1. /\ Running(t) /\ child[t].todo # <<>> /\ UNCHANGED Elsewhere
      /\ input' = input
      /\ Head(todo) \in {"write", "copy"} /\ (Head(todo) = "copy" => hand # <<>>)
  BY DEF ChildWrites, Doing
<1>2. /\ Domains /\ Typed(t) /\ InOrder(t) /\ length \in Nat
      /\ todo \in Seq(Steps) /\ Told(t) \in Seq(Int) /\ Taken(t) \in 0..length
      /\ hand \in Seq(Int) /\ hand \in Seq(1..length)
      /\ got[t] \in Seq(Int) /\ output[t] \in Seq(Int)
      /\ output[t] \in Seq(0..length) /\ Len(output[t]) \in Nat
  BY Known, LenProperties DEF Typed
<1>3. /\ program # Missing /\ Runs /\ (at[t] # "done" => Performing(t))
      /\ at[t] # "waiting"
  BY <1>1, DoerExists
<1>4. /\ InputStays(t) /\ Told(t) = got[t] \o output[t]
      /\ DOMAIN child = Twins /\ DOMAIN output = Twins
  BY <1>1, <1>2, PipesDoStay DEF Domains, Told
<1>5. CASE at[t] = "done"
  <2> DEFINE c == [NoChild EXCEPT !.state = "exited"]
  <2>1. /\ child' = [child EXCEPT ![t] = c] /\ output' = output
    BY <1>5 DEF ChildWrites, Become
  <2>2. c \in Process /\ c.state = "exited" /\ c.todo = <<>> /\ Len(c.hand) <= 1
    BY ExitedIsTyped
  <2> HIDE DEF c
  <2>3. Becomes(child', child, t, c) /\ OutputStays(t)
    BY <1>4, <2>1, ExceptBecomes, PipesDoStay
  <2> QED
    BY <1>1, <1>4, <1>5, <2>2, <2>3, ProgramRight DEF InputStays, OutputStays
<1>6. CASE at[t] # "done" /\ Head(todo) = "write"
  <2>1. hand = <<>> /\ Performs(program, Says, Tail(todo), <<>>, child[t].out, Taken(t),
                                Append(Told(t), 0))
    <3>1. hand = <<>>
      <4>1. NextStep(program, Len(program) - Len(todo)) = "write"
        BY <1>1, <1>2, <1>3, <1>6, StepIsAt DEF Performing
      <4> QED
        BY <1>3, <1>6, <4>1 DEF Performing, Performs, Reached
    <3> QED
      BY <1>1, <1>2, <1>3, <1>6, <3>1, WriteSays DEF Performing
  <2> DEFINE out == Append(output[t], 0)
  <2>2. /\ HasRoom(output[t]) /\ output' = [output EXCEPT ![t] = out]
        /\ child' = [child EXCEPT ![t] = Rest(t)]
    BY <1>6, <2>1 DEF ChildWrites, Become
  <2>3. out \in Seq(0..length) /\ Len(out) <= Capacity
    <3>1. 0 \in 0..length
      BY <1>2
    <3>2. out \in Seq(0..length) /\ Len(out) = Len(output[t]) + 1
      BY <1>2, <3>1, AppendProperties
    <3> QED
      BY <1>2, <2>2, <3>2, SpawnAssumption DEF HasRoom
  <2>4. Append(Told(t), 0) = got[t] \o out
    <3> DEFINE a == got[t]
               b == output[t]
               z == <<0>>
    <3>1. 0 \in Int /\ a \in Seq(Int) /\ b \in Seq(Int) /\ a \o b \in Seq(Int)
          /\ Told(t) = a \o b
      BY <1>2, <1>4
    <3>2. z \in Seq(Int)
      BY <3>1, SingletonIsASeq
    <3>3. Append(b, 0) = b \o z /\ Append(Told(t), 0) = Told(t) \o z
      <4> HIDE DEF a, b
      <4> QED
        BY <1>2, <3>1, AppendIsConcat
    <3>4. (a \o b) \o z = a \o (b \o z)
      <4>1. a \in Seq(Int) /\ b \in Seq(Int) /\ z \in Seq(Int)
        BY <3>1, <3>2
      <4> HIDE DEF a, b, z
      <4> QED
        BY <4>1, ConcatAssociative
    <3> QED
      BY <3>1, <3>3, <3>4
  <2>5. /\ Rest(t) \in Process /\ Rest(t).state = "running" /\ Rest(t).todo = Tail(todo)
        /\ Rest(t).hand = <<>> /\ Rest(t).out = child[t].out
    BY <1>1, <2>1, RestIs
  <2> HIDE DEF out, todo
  <2>6. /\ Becomes(child', child, t, Rest(t)) /\ Becomes(output', output, t, out)
        /\ Len(<<>>) <= 1
    BY <1>4, <2>2, ExceptBecomes, NothingIsEmpty
  <2> QED
    BY <1>1, <1>3, <1>4, <2>1, <2>3, <2>4, <2>5, <2>6, ProgramRight DEF InputStays
<1>7. CASE at[t] # "done" /\ Head(todo) = "copy"
  <2> DEFINE out == output[t] \o hand
             c == [child[t] EXCEPT !.hand = <<>>]
  <2>1. /\ HasRoom(output[t]) /\ output' = [output EXCEPT ![t] = out]
        /\ child' = [child EXCEPT ![t] = c]
    BY <1>1, <1>7 DEF ChildWrites, Become
  <2>2. out \in Seq(0..length) /\ Len(out) <= Capacity
    <3>1. hand \in Seq(0..length) /\ Len(hand) \in Nat /\ Len(hand) <= 1
      <4>1. 1..length \subseteq 0..length
        BY <1>2
      <4> QED
        BY <1>2, <4>1, SeqMonotonic, LenProperties DEF InOrder
    <3>2. out \in Seq(0..length) /\ Len(out) = Len(output[t]) + Len(hand)
      BY <1>2, <3>1, ConcatProperties
    <3>3. Len(output[t]) < Capacity /\ Capacity \in Nat
      BY <2>1, SpawnAssumption DEF HasRoom
    <3> HIDE DEF out, hand
    <3> QED
      BY <1>2, <3>1, <3>2, <3>3
  <2>3. Told(t) \o hand = got[t] \o out
    <3> DEFINE a == got[t]
               b == output[t]
    <3>1. a \in Seq(Int) /\ b \in Seq(Int) /\ hand \in Seq(Int)
      BY <1>2
    <3>2. (a \o b) \o hand = a \o (b \o hand)
      <4> HIDE DEF a, b, hand
      <4> QED
        BY <3>1, ConcatAssociative
    <3> QED
      BY <1>4, <3>2
  <2>4. Performs(program, Says, todo, <<>>, child[t].out, Taken(t), Told(t) \o hand)
    BY <1>2, <1>3, <1>7, CopyGives DEF Performing
  <2>5. /\ c \in Process /\ c.state = "running" /\ c.todo = todo
        /\ c.hand = <<>> /\ c.out = child[t].out
    BY <1>1, <1>2, EmptySeq DEF Typed, Process, Running
  <2> HIDE DEF out, todo, hand, c
  <2>6. /\ Becomes(child', child, t, c) /\ Becomes(output', output, t, out)
        /\ Len(<<>>) <= 1
    BY <1>4, <2>1, ExceptBecomes, NothingIsEmpty
  <2> QED
    BY <1>1, <1>3, <1>4, <2>2, <2>3, <2>4, <2>5, <2>6, ProgramRight DEF InputStays
<1> QED
  BY <1>1, <1>5, <1>6, <1>7

(* The program closes a descriptor.                                          *)
LEMMA ChildClosesRight ==
  ASSUME SpawnInv, PipesInv, NEW t \in Twins, ChildCloses(t)
  PROVE  PipesInv'
<1> DEFINE todo == child[t].todo
<1>1. /\ Running(t) /\ child[t].todo # <<>> /\ UNCHANGED Elsewhere
      /\ input' = input /\ output' = output
  BY DEF ChildCloses, Doing
<1>2. /\ Domains /\ Typed(t) /\ InOrder(t) /\ length \in Nat
      /\ todo \in Seq(Steps) /\ Told(t) \in Seq(Int) /\ Taken(t) \in 0..length
      /\ child[t].out \in BOOLEAN
  BY Known
<1>3. /\ program # Missing /\ Runs /\ (at[t] # "done" => Performing(t))
      /\ at[t] = "waiting" => /\ output[t] = <<>> /\ child[t].out = FALSE
  BY <1>1, DoerExists
<1>4. InputStays(t) /\ OutputStays(t)
  BY <1>1, PipesDoStay
<1>5. /\ Rest(t) \in Process /\ Rest(t).state = "running" /\ Rest(t).todo = Tail(todo)
      /\ Rest(t).hand = child[t].hand /\ Rest(t).out = child[t].out
  BY <1>1, RestIs
<1>6. PICK c \in {[Rest(t) EXCEPT !.in = FALSE], [Rest(t) EXCEPT !.out = FALSE]} :
        /\ child' = [child EXCEPT ![t] = c]
        /\ Head(todo) \in {"closeIn", "closeOut"}
        /\ Head(todo) = "closeIn" => c = [Rest(t) EXCEPT !.in = FALSE]
        /\ Head(todo) = "closeOut" => c = [Rest(t) EXCEPT !.out = FALSE]
  BY DEF ChildCloses, Doing, Become
<1>7. /\ c \in Process /\ c.state = "running" /\ c.todo = Tail(todo)
      /\ c.hand = child[t].hand
      /\ c.out \in BOOLEAN /\ (child[t].out = FALSE => c.out = FALSE)
      /\ ~c.out => ~child[t].out \/ Head(todo) = "closeOut"
  BY <1>5, <1>6 DEF Process
<1>8. at[t] # "done" =>
        /\ child[t].hand = <<>>
        /\ Performs(program, Says, Tail(todo), <<>>, c.out, Taken(t), Told(t))
  BY <1>1, <1>2, <1>3, <1>6, <1>7, CloseIsSilent DEF Performing
<1>9. Becomes(child', child, t, c) /\ Len(c.hand) <= 1
  BY <1>2, <1>6, <1>7, ExceptBecomes DEF Domains, InOrder
<1>10. program # Missing /\ at[t] # "done" =>
         Performs(program, Says, c.todo, c.hand, c.out,
                  written[t] - Len(input[t]), got[t] \o output[t])
  BY <1>7, <1>8 DEF Taken, Told
<1>11. at[t] = "waiting" => output[t] = <<>> /\ c.out = FALSE
  BY <1>3, <1>7
<1> HIDE DEF todo
<1>12. c.state \in {"running", "exited"} /\ c.state # "exited" /\ program # Missing
  BY <1>3, <1>7
<1> QED
  BY <1>1, <1>4, <1>7, <1>9, <1>10, <1>11, <1>12, ProgramRight
     DEF InputStays, OutputStays

(* The program ends, having said all it had to say.                          *)
LEMMA ChildExitsRight ==
  ASSUME SpawnInv, PipesInv, NEW t \in Twins, ChildExits(t)
  PROVE  PipesInv'
<1> DEFINE c == [NoChild EXCEPT !.state = "exited"]
<1>1. /\ Running(t) /\ child[t].todo = <<>> /\ UNCHANGED Elsewhere
      /\ input' = input /\ output' = output /\ child' = [child EXCEPT ![t] = c]
  BY DEF ChildExits, Become
<1>2. /\ Domains /\ Typed(t) /\ InOrder(t) /\ Gives(t) /\ Told(t) \in Seq(Int)
  BY Known
<1>3. InputStays(t) /\ OutputStays(t)
  BY <1>1, PipesDoStay
<1>4. /\ c \in Process /\ c.state = "exited" /\ c.todo = <<>> /\ Len(c.hand) <= 1
      /\ c.out = FALSE
  BY ExitedIsTyped
<1>5. program # Missing /\ at[t] # "done" => Told(t) = Says[Len(program)].said
  BY <1>1, <1>2, RealRuns, ProgramSaid DEF Gives, Performing
<1>6. at[t] = "waiting" => output[t] = <<>>
  BY <1>2 DEF Gives
<1> HIDE DEF c
<1>7. Becomes(child', child, t, c)
  BY <1>1, <1>2, ExceptBecomes DEF Domains
<1> QED
  BY <1>1, <1>3, <1>4, <1>5, <1>6, <1>7, ProgramRight DEF InputStays, OutputStays

(* A stuttering step keeps the invariant.                                    *)
LEMMA NothingRight ==
  ASSUME SpawnInv, PipesInv, UNCHANGED vars
  PROVE  PipesInv'
<1>1. Domains
  BY DEF PipesInv
<1>2. Domains'
  BY <1>1 DEF vars, Domains
<1>3. ASSUME NEW t \in Twins
      PROVE  Right(t)'
  BY OthersStayRight DEF vars
<1> QED
  BY <1>2, <1>3 DEF PipesInv

(* Every step keeps the invariant.                                           *)
LEMMA StepRight ==
  ASSUME SpawnInv, PipesInv, [Next]_vars
  PROVE  PipesInv'
<1>1. ASSUME NEW t \in Twins, Parent(t)
      PROVE  PipesInv'
  BY <1>1, ForkRight, ForkFailureRight, WriteRight, WriteRefusedRight, MovesRight,
     ReadRight, WaitRight DEF Parent
<1>2. ASSUME NEW t \in Twins, Child(t)
      PROVE  PipesInv'
  BY <1>2, ChildReadsRight, ChildAtEndRight, ChildWritesRight, ChildClosesRight,
     ChildExitsRight DEF Child
<1> QED
  BY <1>1, <1>2, NothingRight DEF Next

(* The invariant holds always.                                               *)
LEMMA InvariantKeeps == Spec => [](SpawnInv /\ PipesInv)
<1>1. SpawnInv /\ PipesInv /\ [Next]_vars => SpawnInv' /\ PipesInv'
  BY StepRight, ChildAnswers, ParentAnswers
  DEF Next, vars, SpawnInv, Shape, Answering
<1> QED
  BY <1>1, InitAnswers, InitRight, PTL DEF Spec

(* The pipes never hold more than they can, nor anything but bytes of the   *)
(* input and what the program wrote, and the process is what the operating  *)
(* system may show, whatever is run.                                        *)
THEOREM TypesHold == Spec => []TypeOK
<1>1. PipesInv => TypeOK
  <2> SUFFICES ASSUME PipesInv PROVE TypeOK
    OBVIOUS
  <2>1. Domains /\ \A t \in Twins : Typed(t)
    BY DEF PipesInv, Right
  <2> QED
    BY <2>1 DEF Domains, Places, Typed, TypeOK
<1> QED
  BY <1>1, InvariantKeeps, PTL

(* A value of io.spawn is everything that the program wrote and nothing     *)
(* else, in the order in which it was written, for every program, input and *)
(* capacity, and however the steps of the two processes interleave.         *)
THEOREM OutputIsRight == Spec => []RightOutput
<1>1. PipesInv => RightOutput
  BY DEF PipesInv, Right, OutputRight, RightOutput
<1> QED
  BY <1>1, InvariantKeeps, PTL
=============================================================================
