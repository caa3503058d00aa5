---------------------------- MODULE Units_proofs ----------------------------
(***************************************************************************)
(* What both loaders' proofs need of texts and of activations, for any set *)
(* of names, urls and texts.                                               *)
(***************************************************************************)
EXTENDS Units, SequenceTheorems, TLAPS

----------------------------------------------------------------------------
(* A sequence without its last element.                                     *)
LEMMA FrontIsShorter ==
  ASSUME NEW S, NEW s \in Seq(S), Len(s) > 0
  PROVE  /\ SubSeq(s, 1, Len(s) - 1) \in Seq(S)
         /\ Len(SubSeq(s, 1, Len(s) - 1)) = Len(s) - 1
         /\ \A i \in 1..Len(s) - 1 : SubSeq(s, 1, Len(s) - 1)[i] = s[i]
  <1>1. Len(s) \in Nat
    BY LenProperties
  <1>2. 1 \in Int /\ Len(s) - 1 \in Int
    BY <1>1
  <1>3. \A i \in 1..Len(s) - 1 : s[i] \in S
    BY <1>1, ElementOfSeq
  <1>4. /\ SubSeq(s, 1, Len(s) - 1) \in Seq(S)
        /\ Len(SubSeq(s, 1, Len(s) - 1)) =
             IF 1 <= Len(s) - 1 THEN Len(s) - 1 - 1 + 1 ELSE 0
        /\ \A i \in 1..Len(s) - 1 - 1 + 1 : SubSeq(s, 1, Len(s) - 1)[i] = s[1 + i - 1]
    BY <1>2, <1>3, SubSeqProperties
  <1>5. \A k \in Nat : k > 0 =>
          /\ k - 1 - 1 + 1 = k - 1
          /\ (IF 1 <= k - 1 THEN k - 1 - 1 + 1 ELSE 0) = k - 1
    OBVIOUS
  <1>6. \A i \in Int : 1 + i - 1 = i
    OBVIOUS
  <1>7. 1..Len(s) - 1 \subseteq Int
    BY <1>2
  <1> QED
    BY <1>1, <1>4, <1>5, <1>6, <1>7, Zenon

(* A sequence with another last element.                                    *)
LEMMA LastIsReplaced ==
  ASSUME NEW S, NEW s \in Seq(S), Len(s) > 0, NEW e \in S
  PROVE  /\ [s EXCEPT ![Len(s)] = e] \in Seq(S)
         /\ Len([s EXCEPT ![Len(s)] = e]) = Len(s)
         /\ \A i \in 1..Len(s) :
              [s EXCEPT ![Len(s)] = e][i] = IF i = Len(s) THEN e ELSE s[i]
  <1>1. Len(s) \in Nat
    BY LenProperties
  <1>2. Len(s) \in 1..Len(s)
    BY <1>1
  <1> QED
    BY <1>2, ExceptSeq

LEMMA SingletonIsASeq ==
  ASSUME NEW S, NEW e \in S
  PROVE  <<e>> \in Seq(S) /\ Len(<<e>>) = 1 /\ <<e>>[1] = e
  OBVIOUS

----------------------------------------------------------------------------
LEMMA TextIsTyped ==
  ASSUME NEW t \in Texts
  PROVE  /\ t.uses \in Seq(UseDecl)
         /\ Len(t.uses) \in Nat
         /\ \A i \in 1..Len(t.uses) : t.uses[i] \in UseDecl
         /\ t.verdict \in Verdicts
  <1>1. t \in AllTexts
    BY UnitsAssumption
  <1>2. t.uses \in Seq(UseDecl) /\ t.verdict \in Verdicts
    BY <1>1 DEF AllTexts
  <1> QED
    BY <1>2, LenProperties, ElementOfSeq

LEMMA ReceiveIsTyped ==
  ASSUME NEW a \in Activation, NEW n \in Names, NEW u \in Unit
  PROVE  /\ Receive(a, n, u) \in Activation
         /\ Receive(a, n, u).name = a.name
         /\ Receive(a, n, u).local = a.local
         /\ Receive(a, n, u).text = a.text
         /\ Receive(a, n, u).phase = a.phase
         /\ Receive(a, n, u).pc = a.pc + 1
  <1>1. /\ a.typed \in [Names -> Nat] /\ a.bound \in [Names -> Nat]
        /\ a.pc + 1 \in Nat \ {0} /\ u.serial \in Nat
    BY DEF Activation, Unit
  <1>2. /\ [a.typed EXCEPT ![n] = u.serial] \in [Names -> Nat]
        /\ [a.bound EXCEPT ![n] = u.serial] \in [Names -> Nat]
    BY <1>1
  <1>3. CASE a.phase = "check"
    BY <1>1, <1>2, <1>3 DEF Receive, Activation
  <1>4. CASE a.phase # "check"
    BY <1>1, <1>2, <1>4 DEF Receive, Activation
  <1> QED
    BY <1>3, <1>4

LEMMA AdvanceIsTyped ==
  ASSUME NEW a \in Activation
  PROVE  /\ [a EXCEPT !.pc = @ + 1] \in Activation
         /\ [a EXCEPT !.pc = @ + 1].name = a.name
         /\ [a EXCEPT !.pc = @ + 1].local = a.local
         /\ [a EXCEPT !.pc = @ + 1].text = a.text
         /\ [a EXCEPT !.pc = @ + 1].phase = a.phase
         /\ [a EXCEPT !.pc = @ + 1].pc = a.pc + 1
         /\ [a EXCEPT !.pc = @ + 1].typed = a.typed
         /\ [a EXCEPT !.pc = @ + 1].bound = a.bound
  BY DEF Activation

LEMMA EvalStartIsTyped ==
  ASSUME NEW a \in Activation
  PROVE  /\ [a EXCEPT !.phase = "eval", !.pc = 1] \in Activation
         /\ [a EXCEPT !.phase = "eval", !.pc = 1].name = a.name
         /\ [a EXCEPT !.phase = "eval", !.pc = 1].local = a.local
  <1>1. 1 \in Nat \ {0} /\ "eval" \in {"check", "eval"}
    OBVIOUS
  <1>2. [a EXCEPT !.phase = "eval"] \in Activation
    BY DEF Activation
  <1> DEFINE b == [a EXCEPT !.phase = "eval"]
  <1>3. /\ [b EXCEPT !.pc = 1] \in Activation
        /\ [b EXCEPT !.pc = 1].name = b.name
        /\ [b EXCEPT !.pc = 1].local = b.local
    <2> HIDE DEF b
    <2> QED
      BY <1>1, <1>2 DEF Activation, b
  <1> QED
    BY <1>3 DEF Activation

LEMMA FreshIsTyped ==
  ASSUME NEW n \in Names \cup {Root}, NEW l \in BOOLEAN, NEW t \in Texts,
         NEW ph \in {"check", "eval"}
  PROVE  /\ Fresh(n, l, t, ph) \in Activation
         /\ Fresh(n, l, t, ph).name = n
         /\ Fresh(n, l, t, ph).local = l
         /\ Fresh(n, l, t, ph).pc = 1
  BY DEF Fresh, Activation

----------------------------------------------------------------------------
(* What is true of an activation a beside what the loader's cache holds, as *)
(* a function c of the name: every top-level import it passed over is in    *)
(* the cache (Passed), and what it noted down is what the cache holds       *)
(* (Noted). Accepted: its text got past the stages behind it.               *)
Passed(a, c) ==
  \A j \in 1..Len(a.text.uses) :
    (j < a.pc /\ a.text.uses[j].place = "top") => c[a.text.uses[j].name].serial # 0

Noted(a, c) ==
  \A n \in Names : /\ a.typed[n] \in {0, c[n].serial}
                   /\ a.bound[n] \in {0, c[n].serial}

Accepted(a) ==
  /\ a.text.verdict # "parse"
  /\ a.phase = "eval" => a.text.verdict # "check"

Sound(a, c) == Passed(a, c) /\ Noted(a, c) /\ Accepted(a)

(* An activation at its first declaration has passed over nothing.          *)
LEMMA FreshIsSound ==
  ASSUME NEW n \in Names \cup {Root}, NEW l \in BOOLEAN, NEW t \in Texts, NEW c,
         t.verdict # "parse"
  PROVE  Sound(Fresh(n, l, t, "check"), c)
  <1> DEFINE a == Fresh(n, l, t, "check")
  <1>1. /\ a.pc = 1 /\ a.text = t /\ a.phase = "check"
        /\ \A m \in Names : a.typed[m] = 0 /\ a.bound[m] = 0
    BY DEF Fresh
  <1>2. Len(t.uses) \in Nat
    BY TextIsTyped
  <1> HIDE DEF a
  <1>3. Passed(a, c)
    BY <1>1, <1>2 DEF Passed
  <1>4. Noted(a, c)
    BY <1>1 DEF Noted
  <1>5. Accepted(a)
    BY <1>1 DEF Accepted
  <1> QED
    BY <1>3, <1>4, <1>5 DEF Sound, a

(* The caller takes what the cache holds under the name it wants.           *)
LEMMA ReceiveIsSound ==
  ASSUME NEW a \in Activation, NEW c \in [Names -> Unit], Sound(a, c), WantsUnit(a),
         c[Declaration(a).name].serial # 0
  PROVE  Sound(Receive(a, Declaration(a).name, c[Declaration(a).name]), c)
  <1> DEFINE n == Declaration(a).name
             b == Receive(a, n, c[n])
  <1>1. /\ a.text \in Texts /\ a.pc \in Nat \ {0} /\ Len(a.text.uses) \in Nat
        /\ \A i \in 1..Len(a.text.uses) : a.text.uses[i] \in UseDecl
        /\ a.typed \in [Names -> Nat] /\ a.bound \in [Names -> Nat]
    BY TextIsTyped DEF Activation
  <1>2. a.pc \in 1..Len(a.text.uses) /\ n = a.text.uses[a.pc].name
    BY <1>1 DEF WantsUnit, Finished, Declaration
  <1>3. n \in Names
    BY <1>1, <1>2 DEF UseDecl
  <1>4. c[n] \in Unit
    BY <1>3
  <1>5. /\ b.text = a.text /\ b.pc = a.pc + 1 /\ b.phase = a.phase
    BY <1>3, <1>4, ReceiveIsTyped
  <1>6. /\ b.typed = a.typed \/ b.typed = [a.typed EXCEPT ![n] = c[n].serial]
        /\ b.bound = a.bound \/ b.bound = [a.bound EXCEPT ![n] = c[n].serial]
    <2> HIDE DEF n
    <2> QED
      BY DEF Receive, Activation
  <1> HIDE DEF b
  <1>7. Passed(b, c)
    <2> SUFFICES ASSUME NEW j \in 1..Len(b.text.uses), j < b.pc,
                        b.text.uses[j].place = "top"
                 PROVE  c[b.text.uses[j].name].serial # 0
      BY DEF Passed
    <2>1. j < a.pc \/ j = a.pc
      BY <1>1, <1>5
    <2> QED
      BY <1>2, <1>5, <2>1 DEF Sound, Passed
  <1> HIDE DEF n
  <1>8. Noted(b, c)
    BY <1>1, <1>3, <1>6 DEF Sound, Noted
  <1> QED
    BY <1>5, <1>7, <1>8 DEF Sound, Accepted, b, n

(* Past a declaration that is not a top-level use, nothing new has to be in *)
(* the cache.                                                               *)
LEMMA SkipIsSound ==
  ASSUME NEW a \in Activation, NEW c, Sound(a, c), ~Finished(a),
         Declaration(a).place # "top"
  PROVE  Sound([a EXCEPT !.pc = @ + 1], c)
  <1> DEFINE b == [a EXCEPT !.pc = @ + 1]
  <1>1. /\ b.text = a.text /\ b.pc = a.pc + 1 /\ b.typed = a.typed
        /\ b.bound = a.bound /\ b.phase = a.phase
    BY AdvanceIsTyped
  <1>2. a.pc \in Nat /\ Len(a.text.uses) \in Nat
    BY TextIsTyped DEF Activation
  <1> HIDE DEF b
  <1>3. Passed(b, c)
    <2> SUFFICES ASSUME NEW j \in 1..Len(b.text.uses), j < b.pc,
                        b.text.uses[j].place = "top"
                 PROVE  c[b.text.uses[j].name].serial # 0
      BY DEF Passed
    <2>1. j < a.pc \/ j = a.pc
      BY <1>1, <1>2
    <2> QED
      BY <1>1, <2>1 DEF Sound, Passed, Declaration
  <1> QED
    BY <1>1, <1>3 DEF Sound, Noted, Accepted, b

(* A text that is not refused at the check goes on to evaluation.           *)
LEMMA EvalStartIsSound ==
  ASSUME NEW a \in Activation, NEW c, Sound(a, c), a.text.verdict # "check"
  PROVE  Sound([a EXCEPT !.phase = "eval", !.pc = 1], c)
  <1> DEFINE b == [a EXCEPT !.phase = "eval", !.pc = 1]
  <1>1. b.text = a.text /\ b.pc = 1 /\ b.typed = a.typed /\ b.bound = a.bound
    BY DEF Activation
  <1>2. Len(a.text.uses) \in Nat
    BY TextIsTyped DEF Activation
  <1> HIDE DEF b
  <1> QED
    BY <1>1, <1>2 DEF Sound, Passed, Noted, Accepted, b

(* What was sound stays so when the cache gains a name it did not hold.     *)
LEMMA StillSound ==
  ASSUME NEW a \in Activation, NEW c \in [Names -> Unit], NEW d \in [Names -> Unit],
         \A n \in Names : c[n].serial # 0 => d[n] = c[n],
         Sound(a, c)
  PROVE  Sound(a, d)
  <1>1. a.text \in Texts /\ Len(a.text.uses) \in Nat
        /\ \A i \in 1..Len(a.text.uses) : a.text.uses[i].name \in Names
    BY TextIsTyped DEF Activation, UseDecl
  <1>2. Passed(a, d)
    BY <1>1 DEF Sound, Passed
  <1>3. Noted(a, d)
    BY DEF Sound, Noted
  <1> QED
    BY <1>2, <1>3 DEF Sound

(* A text that reached its end has had everything it imports at top level.  *)
LEMMA FinishedIsPublishable ==
  ASSUME NEW a \in Activation, NEW c \in [Names -> Unit], Sound(a, c),
         Finished(a), a.phase = "eval", a.text.verdict # "eval"
  PROVE  /\ a.text \in Texts /\ a.text.verdict = "ok"
         /\ \A m \in TopImports(a.text) : m \in Names /\ c[m].serial # 0
  <1>1. /\ a.text \in Texts /\ a.pc \in Nat /\ Len(a.text.uses) \in Nat
        /\ \A i \in 1..Len(a.text.uses) : a.text.uses[i] \in UseDecl
        /\ a.text.verdict \in Verdicts
    BY TextIsTyped DEF Activation
  <1>2. ASSUME NEW m \in TopImports(a.text)
        PROVE  m \in Names /\ c[m].serial # 0
    <2>1. PICK i \in 1..Len(a.text.uses) : /\ a.text.uses[i].place = "top"
                                           /\ m = a.text.uses[i].name
      BY DEF TopImports
    <2>2. i < a.pc
      BY <1>1 DEF Finished
    <2> QED
      BY <1>1, <2>1, <2>2 DEF Sound, Passed, UseDecl
  <1> QED
    BY <1>1, <1>2 DEF Sound, Accepted, Verdicts
============================================================================
