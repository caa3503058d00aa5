------------------------- MODULE CallFrames_proofs --------------------------
(***************************************************************************)
(* Frames that are pooled, shared and copied only when their count says so *)
(* stay apart, for every set of names, values, closures and allocations,   *)
(* every depth of calls and blocks and every size of the pool. The         *)
(* argument is that counts are exact: the count of a tab is the number of  *)
(* places that refer to it, which are entries of the pool, frames of       *)
(* calls, envs of open blocks and reflected values. Hence who finds a      *)
(* count of one is the only one who can see the tab. In C the count is     *)
(* that number and a leak: what is shown of the counts is shown for every  *)
(* leak, and Rust's is none. For each action there is a lemma on what it   *)
(* does (Facts), one that it keeps the invariant (Keeps, Covers) and one   *)
(* that it is a step of PureCalls (IsPure).                                *)
(***************************************************************************)
EXTENDS CallFrames, SequenceTheorems, FiniteSetTheorems, FunctionTheorems,
        WellFoundedInduction, TLAPS

----------------------------------------------------------------------------
(* The least of some natural numbers, from which induction follows for any  *)
(* property that can be written as a set.                                   *)
LEMMA LeastOfNats ==
  ASSUME NEW T, T \subseteq Nat, T # {}
  PROVE  \E m \in T : \A k \in T : m <= k
  <1> DEFINE R == {ss \in Nat \X Nat : ss[1] < ss[2]}
  <1>1. IsWellFoundedOn(R, Nat)
    BY NatLessThanWellFounded DEF OpToRel
  <1>2. \A x, y \in Nat : x < y => <<x, y>> \in R
    OBVIOUS
  <1> HIDE DEF R
  <1>3. PICK x \in T : \A y \in T : ~(<<y, x>> \in R)
    BY <1>1, WFMin
  <1>4. ASSUME NEW k \in T
        PROVE  x <= k
    <2>1. x \in Nat /\ k \in Nat /\ ~(k < x)
      BY <1>2, <1>3
    <2> QED
      BY <2>1
  <1> QED
    BY <1>4

LEMMA NatSetInduction ==
  ASSUME NEW T, 0 \in T, \A n \in Nat : n \in T => n + 1 \in T
  PROVE  Nat \subseteq T
  <1> SUFFICES ASSUME ~(Nat \subseteq T) PROVE FALSE
    OBVIOUS
  <1> DEFINE U == Nat \ T
  <1>1. U \subseteq Nat /\ U # {}
    OBVIOUS
  <1>2. PICK m \in U : \A k \in U : m <= k
    <2> HIDE DEF U
    <2> QED
      BY <1>1, LeastOfNats
  <1>3. m \in Nat /\ m - 1 \in Nat /\ m - 1 + 1 = m
    OBVIOUS
  <1>4. m - 1 \in T
    BY <1>2, <1>3
  <1> QED
    BY <1>3, <1>4

(* A sequence without its last element.                                     *)
LEMMA FrontIsShorter ==
  ASSUME NEW S, NEW s \in Seq(S), Len(s) > 0
  PROVE  /\ SubSeq(s, 1, Len(s) - 1) \in Seq(S)
         /\ Len(SubSeq(s, 1, Len(s) - 1)) = Len(s) - 1
         /\ \A i \in 1..Len(s) - 1 : SubSeq(s, 1, Len(s) - 1)[i] = s[i]
  <1>1. Len(s) \in Nat
    BY LenProperties
  <1>2. 1 \in Int /\ Len(s) - 1 \in Int
    BY <1>1
  <1>3. \A i \in 1..Len(s) - 1 : s[i] \in S
    BY <1>1, ElementOfSeq
  <1>4. /\ SubSeq(s, 1, Len(s) - 1) \in Seq(S)
        /\ Len(SubSeq(s, 1, Len(s) - 1)) =
             IF 1 <= Len(s) - 1 THEN Len(s) - 1 - 1 + 1 ELSE 0
        /\ \A i \in 1..Len(s) - 1 - 1 + 1 : SubSeq(s, 1, Len(s) - 1)[i] = s[1 + i - 1]
    BY <1>2, <1>3, SubSeqProperties
  <1>5. \A k \in Nat : k > 0 =>
          /\ k - 1 - 1 + 1 = k - 1
          /\ (IF 1 <= k - 1 THEN k - 1 - 1 + 1 ELSE 0) = k - 1
    OBVIOUS
  <1>6. \A i \in Int : 1 + i - 1 = i
    OBVIOUS
  <1>7. 1..Len(s) - 1 \subseteq Int
    BY <1>2
  <1> QED
    BY <1>1, <1>4, <1>5, <1>6, <1>7, Zenon

(* A sequence with another last element.                                    *)
LEMMA LastIsReplaced ==
  ASSUME NEW S, NEW s \in Seq(S), Len(s) > 0, NEW e \in S
  PROVE  /\ [s EXCEPT ![Len(s)] = e] \in Seq(S)
         /\ Len([s EXCEPT ![Len(s)] = e]) = Len(s)
         /\ \A i \in 1..Len(s) :
              [s EXCEPT ![Len(s)] = e][i] = IF i = Len(s) THEN e ELSE s[i]
  <1>1. Len(s) \in Nat
    BY LenProperties
  <1>2. Len(s) \in 1..Len(s)
    BY <1>1
  <1> QED
    BY <1>2, ExceptSeq

----------------------------------------------------------------------------
(* An env with one binding each keeps that when a name is bound, and the    *)
(* name is found where bind put it.                                         *)
LEMMA PositionsAreFinite ==
  ASSUME NEW e \in Env, NEW x
  PROVE  /\ Positions(e, x) \subseteq 1..Len(e)
         /\ IsFiniteSet(Positions(e, x))
         /\ Cardinality(Positions(e, x)) \in Nat
  <1>1. Len(e) \in Nat
    BY LenProperties DEF Env
  <1>2. IsFiniteSet(1..Len(e))
    BY <1>1, FS_Interval
  <1>3. Positions(e, x) \subseteq 1..Len(e)
    BY DEF Positions
  <1>4. IsFiniteSet(Positions(e, x))
    BY <1>2, <1>3, FS_Subset
  <1> QED
    BY <1>3, <1>4, FS_CardinalityType

LEMMA OnePosition ==
  ASSUME NEW e \in Env, OneBindingEach(e), NEW x \in Keys(e), x \in Vars
  PROVE  \E i \in 1..Len(e) : /\ Positions(e, x) = {i}
                              /\ First(Positions(e, x)) = i
                              /\ Last(Positions(e, x)) = i
                              /\ e[i] \in Binding /\ e[i].key = x
  <1>1. PICK i \in 1..Len(e) : e[i].key = x
    BY DEF Keys
  <1>2. i \in Positions(e, x)
    BY <1>1 DEF Positions
  <1>3. IsFiniteSet(Positions(e, x)) /\ Cardinality(Positions(e, x)) \in Nat
    BY PositionsAreFinite
  <1>4. Cardinality(Positions(e, x)) <= 1
    BY DEF OneBindingEach
  <1>5. Cardinality(Positions(e, x)) # 0
    BY <1>2, <1>3, FS_EmptySet
  <1>6. Cardinality(Positions(e, x)) = 1
    BY <1>3, <1>4, <1>5
  <1>7. \E j : Positions(e, x) = {j}
    BY <1>3, <1>6, FS_Singleton
  <1>8. Positions(e, x) = {i}
    BY <1>2, <1>7
  <1>9. Len(e) \in Nat
    BY LenProperties DEF Env
  <1>10. i <= i
    BY <1>9
  <1>11. First({i}) = i /\ Last({i}) = i
    BY <1>10 DEF First, Last
  <1>12. e[i] \in Binding
    BY ElementOfSeq DEF Env
  <1> QED
    BY <1>1, <1>8, <1>11, <1>12

LEMMA BindKeepsOneEach ==
  ASSUME NEW e \in Env, OneBindingEach(e), NEW x \in Vars, NEW v \in Vals
  PROVE  Bind(e, x, v) \in Env /\ OneBindingEach(Bind(e, x, v))
  <1>1. Len(e) \in Nat /\ e \in [1..Len(e) -> Binding]
    BY LenProperties DEF Env
  <1>2. CASE x \in Keys(e)
    <2>1. PICK i \in 1..Len(e) : /\ Positions(e, x) = {i}
                                 /\ First(Positions(e, x)) = i
                                 /\ e[i] \in Binding /\ e[i].key = x
      BY <1>2, OnePosition
    <2> DEFINE b == [e[i] EXCEPT !.val = v]
               d == [e EXCEPT ![i] = b]
    <2>2. Bind(e, x, v) = d
      BY <1>1, <1>2, <2>1 DEF Bind
    <2>3. b \in Binding /\ b.key = x
      BY <2>1 DEF Binding
    <2>4. /\ d \in Env /\ Len(d) = Len(e)
          /\ \A j \in 1..Len(e) : d[j] = IF j = i THEN b ELSE e[j]
      <3> HIDE DEF b
      <3> QED
        BY <2>3, ExceptSeq DEF Env
    <2>5. \A y : Positions(d, y) = Positions(e, y)
      <3> HIDE DEF d, b
      <3> QED
        BY <2>1, <2>3, <2>4 DEF Positions
    <2> QED
      BY <2>2, <2>4, <2>5 DEF OneBindingEach
  <1>3. CASE x \notin Keys(e)
    <2> DEFINE b == [key |-> x, val |-> v]
               d == Append(e, b)
    <2>1. Bind(e, x, v) = d
      BY <1>3 DEF Bind
    <2>2. b \in Binding /\ b.key = x
      BY DEF Binding
    <2>3. /\ d \in Env /\ Len(d) = Len(e) + 1
          /\ \A j \in 1..Len(e) : d[j] = e[j]
          /\ d[Len(e) + 1] = b
      <3> HIDE DEF b
      <3> QED
        BY <2>2, AppendProperties DEF Env
    <2>4. Positions(e, x) = {}
      BY <1>3 DEF Keys, Positions
    <2>5. \A y : Positions(d, y) = IF y = x THEN {Len(e) + 1} ELSE Positions(e, y)
      <3> HIDE DEF d, b
      <3> QED
        BY <1>1, <2>2, <2>3, <2>4 DEF Positions
    <2>6. Cardinality({Len(e) + 1}) = 1
      BY FS_Singleton
    <2>7. \A y \in Vars : Cardinality(Positions(d, y)) <= 1
      <3> HIDE DEF d
      <3> QED
        BY <2>5, <2>6 DEF OneBindingEach
    <2> QED
      BY <2>1, <2>3, <2>7 DEF OneBindingEach
  <1> QED
    BY <1>2, <1>3

LEMMA LookupIsTyped ==
  ASSUME NEW e \in Env, OneBindingEach(e), NEW x \in Vars, x \in Keys(e)
  PROVE  [key |-> x, val |-> Lookup(e, x)] \in Binding
  <1>1. PICK i \in 1..Len(e) : Last(Positions(e, x)) = i /\ e[i] \in Binding
    BY OnePosition
  <1> QED
    BY <1>1 DEF Lookup, Binding

LEMMA EmptyIsOneEach ==
  <<>> \in Env /\ OneBindingEach(<<>>)
  <1>1. <<>> \in Env /\ Len(<<>>) = 0
    BY EmptySeq DEF Env
  <1>2. \A x : Positions(<<>>, x) = {}
    BY <1>1 DEF Positions
  <1> QED
    BY <1>1, <1>2, FS_EmptySet DEF OneBindingEach

----------------------------------------------------------------------------
(* The references to a tab: from the pool, from the calls for their frames  *)
(* and for the envs of their open blocks, and from reflected values.        *)
PoolRefs(p, t)  == {i \in 1..Len(p) : p[i] = t}
FrameRefs(cs, t) == {i \in 1..Len(cs) : cs[i].frame = t}
BlockRefs(cs, t) == {r \in (1..Len(cs)) \X (Nat \ {0}) :
                      /\ r[2] <= Len(cs[r[1]].blocks)
                      /\ cs[r[1]].blocks[r[2]] = t}
SlotRefs(hs, t) == {h \in Slots : hs[h] = t}

Finite(p, cs, hs, t) ==
  /\ IsFiniteSet(PoolRefs(p, t)) /\ IsFiniteSet(FrameRefs(cs, t))
  /\ IsFiniteSet(BlockRefs(cs, t)) /\ IsFiniteSet(SlotRefs(hs, t))

Refs(p, cs, hs, t) ==
  Cardinality(PoolRefs(p, t)) + Cardinality(FrameRefs(cs, t))
    + Cardinality(BlockRefs(cs, t)) + Cardinality(SlotRefs(hs, t))

(* The elements of a call are what Call says.                               *)
LEMMA CallsAreTyped ==
  ASSUME NEW cs \in Seq(Call)
  PROVE  /\ Len(cs) \in Nat
         /\ \A i \in 1..Len(cs) :
              /\ cs[i] \in Call /\ cs[i].clo \in Closures /\ cs[i].bound \in Nat
              /\ cs[i].returned \in BOOLEAN /\ cs[i].frame \in Tabs \cup {NoTab}
              /\ cs[i].blocks \in Seq(Tabs) /\ Len(cs[i].blocks) \in Nat
  <1>1. Len(cs) \in Nat /\ \A i \in 1..Len(cs) : cs[i] \in Call
    BY LenProperties, ElementOfSeq
  <1>2. \A c \in Call : /\ c.clo \in Closures /\ c.bound \in Nat
                        /\ c.returned \in BOOLEAN /\ c.frame \in Tabs \cup {NoTab}
                        /\ c.blocks \in Seq(Tabs) /\ Len(c.blocks) \in Nat
    BY LenProperties DEF Call
  <1> QED
    BY <1>1, <1>2

(* One more element, one less.                                              *)
LEMMA OneMore ==
  ASSUME NEW S, IsFiniteSet(S), NEW x, x \notin S
  PROVE  /\ IsFiniteSet(S \cup {x}) /\ Cardinality(S) \in Nat
         /\ Cardinality(S \cup {x}) = Cardinality(S) + 1
  BY FS_AddElement, FS_CardinalityType

LEMMA OneLess ==
  ASSUME NEW S, IsFiniteSet(S), NEW x \in S
  PROVE  /\ IsFiniteSet(S \ {x}) /\ Cardinality(S) \in Nat \ {0}
         /\ Cardinality(S \ {x}) = Cardinality(S) - 1
  <1>1. Cardinality(S) \in Nat /\ Cardinality(S) # 0
    BY FS_CardinalityType, FS_EmptySet
  <1> QED
    BY <1>1, FS_RemoveElement

(* A tab with one reference has it in one place; with none, nowhere.        *)
LEMMA RefsAreCounted ==
  ASSUME NEW p, NEW cs, NEW hs, NEW t, Finite(p, cs, hs, t)
  PROVE  /\ Cardinality(PoolRefs(p, t)) \in Nat
         /\ Cardinality(FrameRefs(cs, t)) \in Nat
         /\ Cardinality(BlockRefs(cs, t)) \in Nat
         /\ Cardinality(SlotRefs(hs, t)) \in Nat
         /\ PoolRefs(p, t) # {} <=> Cardinality(PoolRefs(p, t)) >= 1
         /\ FrameRefs(cs, t) # {} <=> Cardinality(FrameRefs(cs, t)) >= 1
         /\ BlockRefs(cs, t) # {} <=> Cardinality(BlockRefs(cs, t)) >= 1
         /\ SlotRefs(hs, t) # {} <=> Cardinality(SlotRefs(hs, t)) >= 1
         /\ Refs(p, cs, hs, t) \in Nat
  <1>1. \A S : IsFiniteSet(S) => /\ Cardinality(S) \in Nat
                                 /\ S # {} <=> Cardinality(S) >= 1
    <2> SUFFICES ASSUME NEW S, IsFiniteSet(S)
                 PROVE  /\ Cardinality(S) \in Nat
                        /\ S # {} <=> Cardinality(S) >= 1
      OBVIOUS
    <2>1. Cardinality(S) \in Nat /\ (Cardinality(S) = 0 <=> S = {})
      BY FS_CardinalityType, FS_EmptySet
    <2> QED
      BY <2>1
  <1>2. /\ Cardinality(PoolRefs(p, t)) \in Nat
        /\ Cardinality(FrameRefs(cs, t)) \in Nat
        /\ Cardinality(BlockRefs(cs, t)) \in Nat
        /\ Cardinality(SlotRefs(hs, t)) \in Nat
        /\ PoolRefs(p, t) # {} <=> Cardinality(PoolRefs(p, t)) >= 1
        /\ FrameRefs(cs, t) # {} <=> Cardinality(FrameRefs(cs, t)) >= 1
        /\ BlockRefs(cs, t) # {} <=> Cardinality(BlockRefs(cs, t)) >= 1
        /\ SlotRefs(hs, t) # {} <=> Cardinality(SlotRefs(hs, t)) >= 1
    BY <1>1, Zenon DEF Finite
  <1> QED
    BY <1>2 DEF Refs

----------------------------------------------------------------------------
(* How the references change when the calls do.                             *)
LEMMA RefsOfPushed ==
  ASSUME NEW cs \in Seq(Call), NEW c \in Call, c.blocks = <<>>, NEW t
  PROVE  /\ BlockRefs(Append(cs, c), t) = BlockRefs(cs, t)
         /\ Len(cs) + 1 \notin FrameRefs(cs, t)
         /\ FrameRefs(Append(cs, c), t) =
              IF c.frame = t THEN FrameRefs(cs, t) \cup {Len(cs) + 1}
              ELSE FrameRefs(cs, t)
  <1> DEFINE ds == Append(cs, c)
  <1>1. Len(cs) \in Nat /\ Len(c.blocks) = 0
    BY CallsAreTyped
  <1>2. /\ Len(ds) = Len(cs) + 1
        /\ \A i \in 1..Len(cs) : ds[i] = cs[i]
        /\ ds[Len(cs) + 1] = c
    BY AppendProperties
  <1> HIDE DEF ds
  <1>3. BlockRefs(ds, t) = BlockRefs(cs, t)
    <2>1. ASSUME NEW i \in 1..Len(ds), NEW b \in Nat \ {0}
          PROVE  (b <= Len(ds[i].blocks) /\ ds[i].blocks[b] = t) <=>
                 (i \in 1..Len(cs) /\ b <= Len(cs[i].blocks) /\ cs[i].blocks[b] = t)
      BY <1>1, <1>2
    <2>2. 1..Len(cs) \subseteq 1..Len(ds)
      BY <1>1, <1>2
    <2> QED
      BY <2>1, <2>2 DEF BlockRefs
  <1>4. FrameRefs(ds, t) = IF c.frame = t THEN FrameRefs(cs, t) \cup {Len(cs) + 1}
                           ELSE FrameRefs(cs, t)
    BY <1>1, <1>2 DEF FrameRefs
  <1>5. Len(cs) + 1 \notin FrameRefs(cs, t)
    BY <1>1 DEF FrameRefs
  <1> QED
    BY <1>3, <1>4, <1>5 DEF ds

(* Another last call.                                                       *)
LEMMA CallsUpdated ==
  ASSUME NEW cs \in Seq(Call), Len(cs) > 0, NEW c \in Call
  PROVE  LET ds == [cs EXCEPT ![Len(cs)] = c]
         IN  /\ ds \in Seq(Call) /\ Len(ds) = Len(cs)
             /\ \A i \in 1..Len(cs) : ds[i] = IF i = Len(cs) THEN c ELSE cs[i]
             /\ ds[Len(cs)] = c
  <1>1. Len(cs) \in 1..Len(cs)
    BY CallsAreTyped
  <1> QED
    BY <1>1, LastIsReplaced

LEMMA FrameRefsOfUpdated ==
  ASSUME NEW cs \in Seq(Call), Len(cs) > 0, NEW c \in Call, NEW t
  PROVE  LET n == Len(cs)
             ds == [cs EXCEPT ![n] = c]
         IN  /\ FrameRefs(ds, t) = IF c.frame = t THEN FrameRefs(cs, t) \cup {n}
                                   ELSE FrameRefs(cs, t) \ {n}
             /\ n \in FrameRefs(cs, t) <=> cs[n].frame = t
  <1> DEFINE n == Len(cs)
             ds == [cs EXCEPT ![n] = c]
  <1>1. n \in 1..n
    BY CallsAreTyped
  <1>2. Len(ds) = n /\ \A i \in 1..n : ds[i] = IF i = n THEN c ELSE cs[i]
    BY CallsUpdated
  <1> HIDE DEF ds
  <1> QED
    BY <1>1, <1>2 DEF FrameRefs, ds

(* The blocks of the last call stay, grow, change at their end or shrink.   *)
LEMMA BlockRefsOfUpdated ==
  ASSUME NEW cs \in Seq(Call), Len(cs) > 0, NEW c \in Call, NEW t, NEW i, NEW b
  PROVE  LET n == Len(cs)
             ds == [cs EXCEPT ![n] = c]
         IN  <<i, b>> \in BlockRefs(ds, t) <=>
               /\ i \in 1..n /\ b \in Nat \ {0}
               /\ IF i = n THEN b <= Len(c.blocks) /\ c.blocks[b] = t
                  ELSE <<i, b>> \in BlockRefs(cs, t)
  <1> DEFINE n == Len(cs)
             ds == [cs EXCEPT ![n] = c]
  <1>1. n \in 1..n
    BY CallsAreTyped
  <1>2. Len(ds) = n /\ \A j \in 1..n : ds[j] = IF j = n THEN c ELSE cs[j]
    BY CallsUpdated
  <1> HIDE DEF ds
  <1>3. <<i, b>> \in BlockRefs(ds, t) <=>
          /\ i \in 1..n /\ b \in Nat \ {0}
          /\ b <= Len(ds[i].blocks) /\ ds[i].blocks[b] = t
    BY <1>2 DEF BlockRefs
  <1>4. <<i, b>> \in BlockRefs(cs, t) <=>
          /\ i \in 1..n /\ b \in Nat \ {0}
          /\ b <= Len(cs[i].blocks) /\ cs[i].blocks[b] = t
    BY DEF BlockRefs
  <1> QED
    BY <1>1, <1>2, <1>3, <1>4 DEF ds

LEMMA BlockRefsArePairs ==
  ASSUME NEW cs, NEW t
  PROVE  \A r \in BlockRefs(cs, t) : r = <<r[1], r[2]>>
  BY DEF BlockRefs

LEMMA SamePairs ==
  ASSUME NEW S, NEW T,
         \A r \in S : r = <<r[1], r[2]>>, \A r \in T : r = <<r[1], r[2]>>,
         \A i, b : <<i, b>> \in S <=> <<i, b>> \in T
  PROVE  S = T
  <1>1. ASSUME NEW r
        PROVE  r \in S <=> r \in T
    <2>1. CASE r = <<r[1], r[2]>>
      <3>1. <<r[1], r[2]>> \in S <=> <<r[1], r[2]>> \in T
        OBVIOUS
      <3> QED
        BY <2>1, <3>1, Zenon
    <2>2. CASE r # <<r[1], r[2]>>
      BY <2>2, Zenon
    <2> QED
      BY <2>1, <2>2
  <1> QED
    BY <1>1

LEMMA BlocksKept ==
  ASSUME NEW cs \in Seq(Call), Len(cs) > 0, NEW c \in Call, NEW t,
         c.blocks = cs[Len(cs)].blocks
  PROVE  BlockRefs([cs EXCEPT ![Len(cs)] = c], t) = BlockRefs(cs, t)
  <1> DEFINE ds == [cs EXCEPT ![Len(cs)] = c]
  <1>1. \A i, b : <<i, b>> \in BlockRefs(ds, t) <=> <<i, b>> \in BlockRefs(cs, t)
    <2> TAKE i, b
    <2>1. <<i, b>> \in BlockRefs(cs, t) <=>
            /\ i \in 1..Len(cs) /\ b \in Nat \ {0}
            /\ b <= Len(cs[i].blocks) /\ cs[i].blocks[b] = t
      BY DEF BlockRefs
    <2> QED
      BY <2>1, BlockRefsOfUpdated
  <1> HIDE DEF ds
  <1>2. BlockRefs(ds, t) = BlockRefs(cs, t)
    BY <1>1, BlockRefsArePairs, SamePairs, Zenon
  <1> QED
    BY <1>2 DEF ds

LEMMA BlocksGrow ==
  ASSUME NEW cs \in Seq(Call), Len(cs) > 0, NEW c \in Call, NEW t, NEW u \in Tabs,
         c.blocks = Append(cs[Len(cs)].blocks, u)
  PROVE  LET r == <<Len(cs), Len(cs[Len(cs)].blocks) + 1>>
         IN  /\ BlockRefs([cs EXCEPT ![Len(cs)] = c], t) =
                  IF u = t THEN BlockRefs(cs, t) \cup {r} ELSE BlockRefs(cs, t)
             /\ r \notin BlockRefs(cs, t)
  <1> DEFINE n == Len(cs)
             ds == [cs EXCEPT ![n] = c]
             k == Len(cs[n].blocks)
  <1>1. n \in 1..n /\ k \in Nat /\ cs[n].blocks \in Seq(Tabs)
    BY CallsAreTyped
  <1>2. /\ Len(c.blocks) = k + 1
        /\ \A j \in 1..k : c.blocks[j] = cs[n].blocks[j]
        /\ c.blocks[k + 1] = u
    BY <1>1, AppendProperties
  <1>3. \A i, b : <<i, b>> \in BlockRefs(cs, t) <=>
            /\ i \in 1..n /\ b \in Nat \ {0}
            /\ b <= Len(cs[i].blocks) /\ cs[i].blocks[b] = t
    BY DEF BlockRefs
  <1>4. \A i, b : <<i, b>> \in BlockRefs(ds, t) <=>
               /\ i \in 1..n /\ b \in Nat \ {0}
               /\ IF i = n THEN b <= Len(c.blocks) /\ c.blocks[b] = t
                  ELSE <<i, b>> \in BlockRefs(cs, t)
    BY BlockRefsOfUpdated
  <1>5. \A i, b : <<i, b>> \in BlockRefs(ds, t) <=>
                    <<i, b>> \in BlockRefs(cs, t) \/ (u = t /\ i = n /\ b = k + 1)
    <2> HIDE DEF ds, k, n
    <2> TAKE i, b
    <2>1. CASE i = n /\ b \in Nat \ {0}
      <3>1. b <= k + 1 <=> b <= k \/ b = k + 1
        BY <1>1, <2>1
      <3>2. b <= k => b \in 1..k /\ b # k + 1
        BY <1>1, <2>1
      <3>3. <<n, b>> \in BlockRefs(cs, t) <=> b <= k /\ cs[n].blocks[b] = t
        BY <1>1, <1>3, <2>1 DEF k
      <3>4. <<n, b>> \in BlockRefs(ds, t) <=> b <= k + 1 /\ c.blocks[b] = t
        BY <1>1, <1>2, <1>4, <2>1
      <3>5. /\ b <= k => c.blocks[b] = cs[n].blocks[b] /\ b # k + 1
            /\ b = k + 1 => c.blocks[b] = u
        BY <1>2, <3>2
      <3>6. <<n, b>> \in BlockRefs(ds, t) <=>
              <<n, b>> \in BlockRefs(cs, t) \/ (u = t /\ b = k + 1)
        BY <3>1, <3>3, <3>4, <3>5
      <3> QED
        BY <2>1, <3>6
    <2>2. CASE ~(i = n /\ b \in Nat \ {0})
      BY <1>1, <1>3, <1>4, <2>2
    <2> QED
      BY <2>1, <2>2
  <1>6. <<n, k + 1>> \notin BlockRefs(cs, t)
    BY <1>1, <1>3
  <1> HIDE DEF ds, k, n
  <1>7. BlockRefs(ds, t) = IF u = t THEN BlockRefs(cs, t) \cup {<<n, k + 1>>}
                           ELSE BlockRefs(cs, t)
    <2>1. CASE u = t
      <3> DEFINE S == BlockRefs(cs, t) \cup {<<n, k + 1>>}
      <3>1. \A i, b : <<i, b>> \in S <=>
                        <<i, b>> \in BlockRefs(cs, t) \/ (i = n /\ b = k + 1)
        OBVIOUS
      <3>2. \A r \in S : r = <<r[1], r[2]>>
        BY BlockRefsArePairs
      <3>3. \A i, b : <<i, b>> \in BlockRefs(ds, t) <=> <<i, b>> \in S
        BY <1>5, <2>1, <3>1, Zenon
      <3> HIDE DEF S
      <3>4. BlockRefs(ds, t) = S
        BY <3>2, <3>3, BlockRefsArePairs, SamePairs, Zenon
      <3> QED
        BY <2>1, <3>4 DEF S
    <2>2. CASE u # t
      BY <1>5, <2>2, BlockRefsArePairs, SamePairs
    <2> QED
      BY <2>1, <2>2
  <1> QED
    BY <1>6, <1>7 DEF ds, k, n

LEMMA BlocksShrink ==
  ASSUME NEW cs \in Seq(Call), Len(cs) > 0, NEW c \in Call, NEW t,
         Len(cs[Len(cs)].blocks) > 0,
         c.blocks = SubSeq(cs[Len(cs)].blocks, 1, Len(cs[Len(cs)].blocks) - 1)
  PROVE  LET r == <<Len(cs), Len(cs[Len(cs)].blocks)>>
         IN  /\ BlockRefs([cs EXCEPT ![Len(cs)] = c], t) = BlockRefs(cs, t) \ {r}
             /\ r \in BlockRefs(cs, t) <=> cs[Len(cs)].blocks[Len(cs[Len(cs)].blocks)] = t
  <1> DEFINE n == Len(cs)
             ds == [cs EXCEPT ![n] = c]
             k == Len(cs[n].blocks)
  <1>1. n \in 1..n /\ k \in Nat \ {0} /\ cs[n].blocks \in Seq(Tabs)
    BY CallsAreTyped
  <1>2. /\ Len(c.blocks) = k - 1
        /\ \A j \in 1..k - 1 : c.blocks[j] = cs[n].blocks[j]
    BY <1>1, FrontIsShorter
  <1>3. \A i, b : <<i, b>> \in BlockRefs(cs, t) <=>
            /\ i \in 1..n /\ b \in Nat \ {0}
            /\ b <= Len(cs[i].blocks) /\ cs[i].blocks[b] = t
    BY DEF BlockRefs
  <1>4. \A i, b : <<i, b>> \in BlockRefs(ds, t) <=>
               /\ i \in 1..n /\ b \in Nat \ {0}
               /\ IF i = n THEN b <= Len(c.blocks) /\ c.blocks[b] = t
                  ELSE <<i, b>> \in BlockRefs(cs, t)
    BY BlockRefsOfUpdated
  <1>5. \A i, b : <<i, b>> \in BlockRefs(ds, t) <=>
                    <<i, b>> \in BlockRefs(cs, t) /\ ~(i = n /\ b = k)
    <2> HIDE DEF ds, k, n
    <2> TAKE i, b
    <2>1. CASE i = n /\ b \in Nat \ {0}
      <3>1. b <= k - 1 <=> b <= k /\ b # k
        BY <1>1, <2>1
      <3>2. b <= k - 1 => b \in 1..k - 1
        BY <1>1, <2>1
      <3>3. <<i, b>> \in BlockRefs(ds, t) <=> b <= k - 1 /\ c.blocks[b] = t
        BY <1>1, <1>2, <1>4, <2>1
      <3>4. <<i, b>> \in BlockRefs(cs, t) <=> b <= k /\ cs[n].blocks[b] = t
        BY <1>1, <1>3, <2>1 DEF k
      <3>5. b <= k - 1 => c.blocks[b] = cs[n].blocks[b]
        BY <1>2, <3>2
      <3> QED
        BY <2>1, <3>1, <3>3, <3>4, <3>5
    <2>2. CASE ~(i = n /\ b \in Nat \ {0})
      BY <1>1, <1>3, <1>4, <2>2
    <2> QED
      BY <2>1, <2>2
  <1>6. <<n, k>> \in BlockRefs(cs, t) <=> cs[n].blocks[k] = t
    BY <1>1, <1>3
  <1> HIDE DEF ds, k, n
  <1>7. BlockRefs(ds, t) = BlockRefs(cs, t) \ {<<n, k>>}
    BY <1>5, BlockRefsArePairs
  <1> QED
    BY <1>6, <1>7 DEF ds, k, n

(* A sequence with another last element.                                    *)
WithLast(bs, t) == [bs EXCEPT ![Len(bs)] = t]

LEMMA LastBlockRef ==
  ASSUME NEW cs \in Seq(Call), Len(cs) > 0, NEW u, Len(cs[Len(cs)].blocks) > 0
  PROVE  <<Len(cs), Len(cs[Len(cs)].blocks)>> \in BlockRefs(cs, u)
           <=> cs[Len(cs)].blocks[Len(cs[Len(cs)].blocks)] = u
  <1>1. Len(cs) \in 1..Len(cs) /\ Len(cs[Len(cs)].blocks) \in Nat \ {0}
    BY CallsAreTyped
  <1> QED
    BY <1>1 DEF BlockRefs

LEMMA BlocksRenamed ==
  ASSUME NEW cs \in Seq(Call), Len(cs) > 0, NEW c \in Call, NEW t \in Tabs, NEW u,
         Len(cs[Len(cs)].blocks) > 0,
         c.blocks = WithLast(cs[Len(cs)].blocks, t)
  PROVE  LET r == <<Len(cs), Len(cs[Len(cs)].blocks)>>
         IN  /\ t = u => BlockRefs([cs EXCEPT ![Len(cs)] = c], u) =
                           BlockRefs(cs, u) \cup {r}
             /\ t # u => BlockRefs([cs EXCEPT ![Len(cs)] = c], u) =
                           BlockRefs(cs, u) \ {r}
  <1> DEFINE n == Len(cs)
             k == Len(cs[n].blocks)
             ds == [cs EXCEPT ![n] = c]
  <1>1. n \in 1..n /\ k \in Nat \ {0} /\ k > 0 /\ cs[n].blocks \in Seq(Tabs)
    BY CallsAreTyped
  <1>2. /\ Len(c.blocks) = k
        /\ \A j \in 1..k : c.blocks[j] = IF j = k THEN t ELSE cs[n].blocks[j]
    BY <1>1, LastIsReplaced DEF WithLast
  <1>3. \A i, b : <<i, b>> \in BlockRefs(cs, u) <=>
            /\ i \in 1..n /\ b \in Nat \ {0}
            /\ b <= Len(cs[i].blocks) /\ cs[i].blocks[b] = u
    BY DEF BlockRefs
  <1>4. \A i, b : <<i, b>> \in BlockRefs(ds, u) <=>
               /\ i \in 1..n /\ b \in Nat \ {0}
               /\ IF i = n THEN b <= Len(c.blocks) /\ c.blocks[b] = u
                  ELSE <<i, b>> \in BlockRefs(cs, u)
    BY BlockRefsOfUpdated
  <1>5. k = Len(cs[n].blocks)
    OBVIOUS
  <1> HIDE DEF ds, k, n
  <1>6. \A i, b : <<i, b>> \in BlockRefs(ds, u) <=>
                    IF i = n /\ b = k THEN t = u ELSE <<i, b>> \in BlockRefs(cs, u)
    <2> TAKE i, b
    <2>1. CASE i = n /\ b \in Nat \ {0}
      <3>1. b <= k => b \in 1..k
        BY <1>1, <2>1
      <3>2. k <= k
        BY <1>1
      <3> QED
        BY <1>1, <1>2, <1>3, <1>4, <1>5, <2>1, <3>1, <3>2
    <2>2. CASE ~(i = n /\ b \in Nat \ {0})
      BY <1>1, <1>3, <1>4, <2>2
    <2> QED
      BY <2>1, <2>2
  <1>7. IF t = u THEN BlockRefs(ds, u) = BlockRefs(cs, u) \cup {<<n, k>>}
                 ELSE BlockRefs(ds, u) = BlockRefs(cs, u) \ {<<n, k>>}
    BY <1>6, BlockRefsArePairs
  <1>8. /\ t = u => BlockRefs(ds, u) = BlockRefs(cs, u) \cup {<<n, k>>}
        /\ t # u => BlockRefs(ds, u) = BlockRefs(cs, u) \ {<<n, k>>}
    BY <1>7, Zenon
  <1> QED
    BY <1>8, Zenon DEF ds, k, n

(* What the last call refers to through its blocks.                         *)
LastBlocks(cs, t) ==
  {Len(cs)} \X {b \in 1..Len(cs[Len(cs)].blocks) : cs[Len(cs)].blocks[b] = t}

LEMMA RefsOfPopped ==
  ASSUME NEW cs \in Seq(Call), Len(cs) > 0, NEW t
  PROVE  LET n == Len(cs)
             ds == SubSeq(cs, 1, n - 1)
         IN  /\ FrameRefs(ds, t) = FrameRefs(cs, t) \ {n}
             /\ n \in FrameRefs(cs, t) <=> cs[n].frame = t
             /\ BlockRefs(ds, t) = BlockRefs(cs, t) \ LastBlocks(cs, t)
             /\ LastBlocks(cs, t) \subseteq BlockRefs(cs, t)
             /\ IsFiniteSet(LastBlocks(cs, t))
             /\ Cardinality(LastBlocks(cs, t)) = Dropped(t, cs[n].blocks)
             /\ Dropped(t, cs[n].blocks) \in Nat
  <1> DEFINE n == Len(cs)
             ds == SubSeq(cs, 1, n - 1)
             bs == cs[n].blocks
             B == {b \in 1..Len(bs) : bs[b] = t}
             L == {n} \X B
  <1>1. n \in Nat \ {0} /\ n \in 1..n /\ bs \in Seq(Tabs) /\ Len(bs) \in Nat
    BY CallsAreTyped
  <1>2. Len(ds) = n - 1 /\ \A i \in 1..n - 1 : ds[i] = cs[i]
    BY FrontIsShorter
  <1>3. LastBlocks(cs, t) = L
    BY DEF LastBlocks
  <1>4. FrameRefs(ds, t) = FrameRefs(cs, t) \ {n} /\ (n \in FrameRefs(cs, t) <=> cs[n].frame = t)
    <2> HIDE DEF ds
    <2> QED
      BY <1>1, <1>2 DEF FrameRefs
  <1>5. \A i, b : <<i, b>> \in BlockRefs(cs, t) <=>
            /\ i \in 1..n /\ b \in Nat \ {0}
            /\ b <= Len(cs[i].blocks) /\ cs[i].blocks[b] = t
    BY DEF BlockRefs
  <1>6. \A i, b : <<i, b>> \in BlockRefs(ds, t) <=>
            /\ i \in 1..Len(ds) /\ b \in Nat \ {0}
            /\ b <= Len(ds[i].blocks) /\ ds[i].blocks[b] = t
    BY DEF BlockRefs
  <1>7. \A i, b : <<i, b>> \in L <=> i = n /\ b \in B
    OBVIOUS
  <1>8. \A b : b \in B <=> b \in Nat \ {0} /\ b <= Len(cs[n].blocks) /\ cs[n].blocks[b] = t
    BY <1>1
  <1> HIDE DEF ds, B, bs, n
  <1>9. \A i, b : <<i, b>> \in BlockRefs(ds, t) <=>
                    <<i, b>> \in BlockRefs(cs, t) /\ ~(i = n /\ b \in B)
    <2> TAKE i, b
    <2>1. i \in 1..Len(ds) <=> i \in 1..n /\ i # n
      BY <1>1, <1>2
    <2>2. i \in 1..Len(ds) => ds[i] = cs[i]
      BY <1>1, <1>2
    <2>3. CASE i = n
      BY <1>5, <1>6, <1>8, <2>1, <2>3
    <2>4. CASE i # n
      BY <1>5, <1>6, <2>1, <2>2, <2>4
    <2> QED
      BY <2>3, <2>4
  <1>10. \A i, b : <<i, b>> \in L => <<i, b>> \in BlockRefs(cs, t)
    BY <1>1, <1>5, <1>7, <1>8
  <1>11. \A r \in L : r = <<r[1], r[2]>>
    OBVIOUS
  <1>12. \A i, b : <<i, b>> \in BlockRefs(ds, t) <=> <<i, b>> \in BlockRefs(cs, t) \ L
    BY <1>7, <1>9, Zenon
  <1> HIDE DEF L
  <1>13. BlockRefs(ds, t) = BlockRefs(cs, t) \ L
    <2>1. \A r \in BlockRefs(cs, t) \ L : r = <<r[1], r[2]>>
      BY BlockRefsArePairs
    <2> HIDE DEF L
    <2> QED
      BY <1>12, <2>1, BlockRefsArePairs, SamePairs, Zenon
  <1>14. L \subseteq BlockRefs(cs, t)
    <2>1. ASSUME NEW r \in L PROVE r \in BlockRefs(cs, t)
      <3>1. r = <<r[1], r[2]>>
        BY <1>11
      <3>2. <<r[1], r[2]>> \in L => <<r[1], r[2]>> \in BlockRefs(cs, t)
        BY <1>10, Zenon
      <3> QED
        BY <3>1, <3>2, Zenon
    <2> QED
      BY <2>1
  <1>15. IsFiniteSet(B) /\ Cardinality(B) = Dropped(t, bs) /\ Cardinality(B) \in Nat
    <2>1. IsFiniteSet(1..Len(bs))
      BY <1>1, FS_Interval
    <2>2. B \subseteq 1..Len(bs)
      BY DEF B
    <2>3. IsFiniteSet(B)
      BY <2>1, <2>2, FS_Subset
    <2>4. Cardinality(B) \in Nat
      BY <2>3, FS_CardinalityType
    <2> QED
      BY <2>3, <2>4 DEF Dropped, B
  <1>16. ExistsBijection(B, L)
    <2> DEFINE f == [b \in B |-> <<n, b>>]
    <2>1. f \in [B -> L]
      BY DEF L
    <2>2. \A a, b \in B : f[a] = f[b] => a = b
      OBVIOUS
    <2>3. \A r \in L : \E b \in B : f[b] = r
      BY DEF L
    <2>4. f \in Bijection(B, L)
      <3> HIDE DEF f
      <3> QED
        BY <2>1, <2>2, <2>3, Fun_IsBij
    <2> QED
      BY <2>4 DEF ExistsBijection
  <1>17. IsFiniteSet(L) /\ Cardinality(L) = Cardinality(B)
    BY <1>15, <1>16, FS_Bijection
  <1>18. /\ IsFiniteSet(L) /\ Cardinality(L) = Dropped(t, bs)
         /\ Dropped(t, bs) \in Nat
    BY <1>15, <1>17
  <1> QED
    BY <1>3, <1>4, <1>13, <1>14, <1>18 DEF n, ds, bs

----------------------------------------------------------------------------
(* Dropping references.                                                     *)
LEMMA DroppedOne ==
  ASSUME NEW u, NEW t
  PROVE  Dropped(t, <<u>>) = IF u = t THEN 1 ELSE 0
  <1>1. {i \in 1..Len(<<u>>) : <<u>>[i] = t} = IF u = t THEN {1} ELSE {}
    OBVIOUS
  <1>2. Cardinality({1}) = 1 /\ Cardinality({}) = 0
    BY FS_Singleton, FS_EmptySet
  <1> QED
    BY <1>1, <1>2 DEF Dropped

LEMMA DroppedMore ==
  ASSUME NEW ts \in Seq(Tabs), NEW u \in Tabs, NEW t
  PROVE  Dropped(t, Append(ts, u)) = Dropped(t, ts) + (IF u = t THEN 1 ELSE 0)
  <1> DEFINE k == Len(ts)
             us == Append(ts, u)
             S == {i \in 1..k : ts[i] = t}
             R == {i \in 1..Len(us) : us[i] = t}
  <1>1. /\ k \in Nat /\ Len(us) = k + 1
        /\ \A i \in 1..k : us[i] = ts[i]
        /\ us[k + 1] = u
    BY LenProperties, AppendProperties
  <1>2. IsFiniteSet(1..k)
    BY <1>1, FS_Interval
  <1>3. S \subseteq 1..k
    OBVIOUS
  <1> HIDE DEF us
  <1>4. R = IF u = t THEN S \cup {k + 1} ELSE S
    <2> HIDE DEF k
    <2> QED
      BY <1>1 DEF k
  <1>5. k + 1 \notin S
    BY <1>1
  <1> HIDE DEF S, R, k
  <1>6. IsFiniteSet(S)
    BY <1>2, <1>3, FS_Subset
  <1>7. Cardinality(S \cup {k + 1}) = Cardinality(S) + 1 /\ Cardinality(S) \in Nat
    BY <1>5, <1>6, OneMore
  <1>8. Cardinality(R) = Cardinality(S) + (IF u = t THEN 1 ELSE 0)
    BY <1>4, <1>7
  <1> QED
    BY <1>8 DEF Dropped, S, R, k, us

TabType == [rc : Nat, env : Env]

LEMMA Released ==
  ASSUME NEW tb \in [Tabs -> TabType], NEW ts, NEW t \in Tabs,
         tb[t].rc = 0 => tb[t] = Free,
         Dropped(t, ts) \in Nat, Dropped(t, ts) <= tb[t].rc
  PROVE  LET r == Release(tb, ts)[t]
         IN  /\ r \in TabType
             /\ r.rc = tb[t].rc - Dropped(t, ts)
             /\ r.env = IF r.rc = 0 THEN <<>> ELSE tb[t].env
             /\ r.rc = 0 => r = Free
             /\ Dropped(t, ts) = 0 => r = tb[t]
  <1> DEFINE d == Dropped(t, ts)
             q == tb[t]
  <1>1. q \in TabType
    OBVIOUS
  <1>2. Free \in TabType /\ Free.rc = 0 /\ Free.env = <<>>
    BY EmptyIsOneEach DEF Free, TabType
  <1>3. Release(tb, ts)[t] = IF q.rc = 0 \/ q.rc > d THEN [q EXCEPT !.rc = @ - d] ELSE Free
    BY DEF Release
  <1>4. q.rc \in Nat /\ d \in Nat /\ d <= q.rc
    BY <1>1 DEF TabType
  <1> HIDE DEF d, q
  <1>5. CASE q.rc = 0 \/ q.rc > d
    <2> DEFINE r == [q EXCEPT !.rc = @ - d]
    <2>1. q.rc - d \in Nat
      BY <1>4
    <2>2. r \in TabType /\ r.rc = q.rc - d /\ r.env = q.env
      BY <1>1, <2>1 DEF TabType
    <2>3. r.rc = 0 => q.rc = 0
      BY <1>4, <1>5, <2>2
    <2>4. r.rc = 0 => r = q
      BY <1>1, <1>4, <2>2, <2>3 DEF TabType
    <2>5. d = 0 => r = q
      BY <1>1, <1>4, <2>2 DEF TabType
    <2>6. q.rc = 0 => q = Free
      BY DEF q
    <2> HIDE DEF r
    <2>7. r.rc = 0 => r = Free
      BY <2>3, <2>4, <2>6
    <2>8. Release(tb, ts)[t] = r
      BY <1>3, <1>5 DEF r
    <2> QED
      BY <1>2, <2>2, <2>5, <2>7, <2>8 DEF d, q
  <1>6. CASE ~(q.rc = 0 \/ q.rc > d)
    <2>1. q.rc - d = 0 /\ d # 0
      BY <1>4, <1>6
    <2>2. Release(tb, ts)[t] = Free
      BY <1>3, <1>6
    <2> QED
      BY <1>2, <2>1, <2>2 DEF d, q
  <1> QED
    BY <1>5, <1>6

----------------------------------------------------------------------------
(* The invariant: counts are exact, what is free or pooled is empty, a      *)
(* frame is not shared while arguments are bound in it.                     *)
Leaks == [Tabs -> Nat]
NoLeak == [t \in Tabs |-> 0]

Counted(leak) ==
  \A t \in Tabs : /\ Finite(pool, calls, held, t)
                  /\ tab[t].rc = Refs(pool, calls, held, t) + leak[t]

FreeIsEmpty == \A t \in Tabs : tab[t].rc = 0 => tab[t] = Free

PooledIsFresh ==
  \A i \in 1..Len(pool) : tab[pool[i]].rc = 1 /\ tab[pool[i]].env = <<>>

FrameIsThere ==
  \A i \in 1..Len(calls) :
    ~calls[i].returned =>
      /\ calls[i].frame \in Tabs
      /\ calls[i].bound < Len(calls[i].clo.params) => tab[calls[i].frame].rc = 1

FramesInv(leak) ==
  /\ TypeOK
  /\ Counted(leak)
  /\ FreeIsEmpty
  /\ PooledIsFresh
  /\ FrameIsThere
  /\ FramesAreOwn
  /\ KeysUnique

LEMMA CountedIs ==
  ASSUME NEW leak \in Leaks, Counted(leak), NEW t \in Tabs
  PROVE  /\ Finite(pool, calls, held, t) /\ leak[t] \in Nat
         /\ tab[t].rc = Refs(pool, calls, held, t) + leak[t]
         /\ Refs(pool, calls, held, t) \in Nat
  <1>1. Finite(pool, calls, held, t) /\ leak[t] \in Nat
    BY DEF Counted, Leaks
  <1> QED
    BY <1>1, RefsAreCounted DEF Counted

LEMMA NoLeakIsTyped ==
  NoLeak \in Leaks
  BY DEF NoLeak, Leaks

LEMMA ClosuresAreTyped ==
  ASSUME NEW clo \in Closures
  PROVE  /\ clo.params \in Seq(Vars) /\ Len(clo.params) \in Nat
         /\ clo.captured \in Env /\ OneBindingEach(clo.captured)
         /\ \A i \in 1..Len(clo.params) : clo.params[i] \in Vars
  <1>1. clo \in Closure /\ OneBindingEach(clo.captured)
    BY EnvsAssumption
  <1>2. clo.params \in Seq(Vars) /\ clo.captured \in Env
    BY <1>1 DEF Closure
  <1> QED
    BY <1>1, <1>2, LenProperties, ElementOfSeq

LEMMA TopIsTyped ==
  ASSUME TypeOK, FrameIsThere, calls # <<>>
  PROVE  /\ Len(calls) \in Nat \ {0} /\ Len(calls) \in 1..Len(calls)
         /\ Len(calls) > 0
         /\ Top \in Call /\ Top.clo \in Closures /\ Top.bound \in Nat
         /\ Top.returned \in BOOLEAN /\ Top.frame \in Tabs \cup {NoTab}
         /\ Top.blocks \in Seq(Tabs) /\ Len(Top.blocks) \in Nat
         /\ ~Top.returned => Top.frame \in Tabs /\ Scope(Top) \in Tabs
         /\ Top.blocks # <<>> => /\ Len(Top.blocks) > 0
                                 /\ Scope(Top) = Top.blocks[Len(Top.blocks)]
                                 /\ Scope(Top) \in Tabs
  <1>1. calls \in Seq(Call)
    BY DEF TypeOK
  <1>2. Len(calls) \in Nat \ {0}
    BY <1>1, EmptySeq
  <1>3. Len(calls) \in 1..Len(calls) /\ Len(calls) > 0
    BY <1>2
  <1>4. /\ Top \in Call /\ Top.clo \in Closures /\ Top.bound \in Nat
        /\ Top.returned \in BOOLEAN /\ Top.frame \in Tabs \cup {NoTab}
        /\ Top.blocks \in Seq(Tabs) /\ Len(Top.blocks) \in Nat
    BY <1>1, <1>3, CallsAreTyped DEF Top
  <1>5. ~Top.returned => Top.frame \in Tabs
    BY <1>3 DEF Top, FrameIsThere
  <1>6. ASSUME Top.blocks # <<>>
        PROVE  Len(Top.blocks) > 0 /\ Top.blocks[Len(Top.blocks)] \in Tabs
    <2>1. Len(Top.blocks) \in Nat \ {0}
      BY <1>4, <1>6, EmptySeq
    <2> QED
      BY <1>4, <2>1, ElementOfSeq
  <1> QED
    BY <1>2, <1>3, <1>4, <1>5, <1>6 DEF Scope

(* Where a tab is referred to, if anywhere.                                 *)
LEMMA SoleReference ==
  ASSUME NEW leak \in Leaks, FramesInv(leak),
         NEW t \in Tabs, tab[t].rc <= 1
  PROVE  /\ PoolRefs(pool, t) # {} =>
              /\ FrameRefs(calls, t) = {} /\ BlockRefs(calls, t) = {}
              /\ SlotRefs(held, t) = {}
         /\ FrameRefs(calls, t) # {} =>
              /\ PoolRefs(pool, t) = {} /\ BlockRefs(calls, t) = {}
              /\ SlotRefs(held, t) = {}
         /\ BlockRefs(calls, t) # {} =>
              /\ PoolRefs(pool, t) = {} /\ FrameRefs(calls, t) = {}
              /\ SlotRefs(held, t) = {}
         /\ \A i, j \in PoolRefs(pool, t) : i = j
         /\ \A i, j \in BlockRefs(calls, t) : i = j
         /\ tab[t].rc = 0 => /\ PoolRefs(pool, t) = {} /\ FrameRefs(calls, t) = {}
                             /\ BlockRefs(calls, t) = {} /\ SlotRefs(held, t) = {}
         /\ \/ tab[t].rc = 0
            \/ PoolRefs(pool, t) # {} \/ FrameRefs(calls, t) # {}
            \/ BlockRefs(calls, t) # {} \/ SlotRefs(held, t) # {}
            => leak[t] = 0
  <1> DEFINE P == Cardinality(PoolRefs(pool, t))
             F == Cardinality(FrameRefs(calls, t))
             B == Cardinality(BlockRefs(calls, t))
             S == Cardinality(SlotRefs(held, t))
  <1>1. Finite(pool, calls, held, t) /\ tab[t].rc = P + F + B + S + leak[t] /\ leak[t] \in Nat
    BY DEF FramesInv, Counted, Refs, Leaks
  <1>2. /\ P \in Nat /\ F \in Nat /\ B \in Nat /\ S \in Nat
        /\ PoolRefs(pool, t) # {} <=> P >= 1
        /\ FrameRefs(calls, t) # {} <=> F >= 1
        /\ BlockRefs(calls, t) # {} <=> B >= 1
        /\ SlotRefs(held, t) # {} <=> S >= 1
    BY <1>1, RefsAreCounted
  <1>3. \A T : IsFiniteSet(T) /\ Cardinality(T) <= 1 => \A i, j \in T : i = j
    <2> SUFFICES ASSUME NEW T, IsFiniteSet(T), Cardinality(T) <= 1,
                        NEW i \in T, NEW j \in T
                 PROVE  i = j
      OBVIOUS
    <2>1. Cardinality(T) \in Nat /\ Cardinality(T) # 0
      BY FS_CardinalityType, FS_EmptySet
    <2>2. Cardinality(T) = 1
      BY <2>1
    <2> QED
      BY <2>2, FS_Singleton
  <1>4. P <= 1 /\ B <= 1
    <2> HIDE DEF P, F, B, S
    <2> QED
      BY <1>1, <1>2
  <1>5. (\A i, j \in PoolRefs(pool, t) : i = j) /\ (\A i, j \in BlockRefs(calls, t) : i = j)
    BY <1>1, <1>3, <1>4 DEF Finite
  <1> HIDE DEF P, F, B, S
  <1> QED
    BY <1>1, <1>2, <1>5

LEMMA PooledHasRef ==
  ASSUME NEW i \in 1..Len(pool)
  PROVE  i \in PoolRefs(pool, pool[i])
  BY DEF PoolRefs

LEMMA FrameHasRef ==
  ASSUME NEW i \in 1..Len(calls)
  PROVE  i \in FrameRefs(calls, calls[i].frame)
  BY DEF FrameRefs

LEMMA BlockHasRef ==
  ASSUME TypeOK, NEW i \in 1..Len(calls), NEW b \in 1..Len(calls[i].blocks)
  PROVE  <<i, b>> \in BlockRefs(calls, calls[i].blocks[b])
  <1>1. Len(calls[i].blocks) \in Nat
    BY CallsAreTyped DEF TypeOK
  <1> QED
    BY <1>1 DEF BlockRefs

LEMMA HeldHasRef ==
  ASSUME NEW h \in Slots
  PROVE  h \in SlotRefs(held, held[h])
  BY DEF SlotRefs

----------------------------------------------------------------------------
(* The properties of Frames follow.                                         *)
LEMMA InvImpliesClean ==
  ASSUME NEW leak \in Leaks, FramesInv(leak)
  PROVE  PoolIsClean
  <1> SUFFICES ASSUME NEW i \in 1..Len(pool)
               PROVE  /\ tab[pool[i]] = [rc |-> 1, env |-> <<>>]
                      /\ \A j \in 1..Len(pool) : pool[i] = pool[j] => i = j
                      /\ \A k \in 1..Len(calls) : calls[k].frame # pool[i]
                      /\ \A h \in Slots : held[h] # pool[i]
    BY DEF PoolIsClean
  <1> DEFINE t == pool[i]
  <1>1. t \in Tabs
    BY ElementOfSeq DEF FramesInv, TypeOK
  <1>2. tab[t].rc = 1 /\ tab[t].env = <<>> /\ tab[t] \in [rc : Nat, env : Env]
    BY <1>1 DEF FramesInv, PooledIsFresh, TypeOK
  <1>3. i \in PoolRefs(pool, t)
    BY PooledHasRef
  <1>4. tab[t].rc <= 1
    BY <1>2
  <1>5. /\ FrameRefs(calls, t) = {} /\ SlotRefs(held, t) = {}
        /\ \A j, k \in PoolRefs(pool, t) : j = k
    BY <1>1, <1>3, <1>4, SoleReference
  <1>6. \A j \in 1..Len(pool) : t = pool[j] => i = j
    BY <1>3, <1>5, PooledHasRef
  <1>7. \A k \in 1..Len(calls) : calls[k].frame # t
    BY <1>5, FrameHasRef
  <1>8. \A h \in Slots : held[h] # t
    BY <1>5, HeldHasRef
  <1>9. tab[t] = [rc |-> 1, env |-> <<>>]
    BY <1>2
  <1> QED
    BY <1>6, <1>7, <1>8, <1>9

LEMMA InvImpliesNoLeak ==
  FramesInv(NoLeak) => NothingLeaks
  <1> SUFFICES ASSUME FramesInv(NoLeak), calls = <<>>, \A h \in Slots : held[h] = NoTab,
                      NEW t \in Tabs, tab[t].rc # 0
               PROVE  \E i \in 1..Len(pool) : pool[i] = t
    BY DEF NothingLeaks
  <1>1. /\ Finite(pool, calls, held, t)
        /\ tab[t].rc = Refs(pool, calls, held, t) + NoLeak[t] /\ NoLeak[t] = 0
    BY DEF FramesInv, Counted, NoLeak
  <1>2. Len(calls) = 0
    OBVIOUS
  <1>3. FrameRefs(calls, t) = {} /\ BlockRefs(calls, t) = {}
    BY <1>2 DEF FrameRefs, BlockRefs
  <1>4. SlotRefs(held, t) = {}
    BY FramesAssumption DEF SlotRefs
  <1>5. /\ Cardinality(PoolRefs(pool, t)) \in Nat
        /\ PoolRefs(pool, t) # {} <=> Cardinality(PoolRefs(pool, t)) >= 1
    BY <1>1, RefsAreCounted
  <1>6. /\ Cardinality(FrameRefs(calls, t)) = 0
        /\ Cardinality(BlockRefs(calls, t)) = 0
        /\ Cardinality(SlotRefs(held, t)) = 0
    BY <1>3, <1>4, FS_EmptySet
  <1>7. tab[t].rc = Cardinality(PoolRefs(pool, t))
    BY <1>1, <1>5, <1>6 DEF Refs
  <1>8. PoolRefs(pool, t) # {}
    BY <1>5, <1>7
  <1> QED
    BY <1>8 DEF PoolRefs

(* Nothing is counted at the start.                                         *)
LEMMA InitEstablishesInv ==
  FramesInit => FramesInv(NoLeak)
  <1> SUFFICES ASSUME FramesInit PROVE FramesInv(NoLeak)
    OBVIOUS
  <1>1. /\ tab = [t \in Tabs |-> Free] /\ pool = <<>> /\ calls = <<>>
        /\ held = [h \in Slots |-> NoTab] /\ read = NoVal
    BY DEF FramesInit
  <1>2. Len(pool) = 0 /\ Len(calls) = 0
    BY <1>1
  <1>3. Free \in [rc : Nat, env : Env] /\ Free.rc = 0 /\ Free.env = <<>>
    BY EmptyIsOneEach DEF Free
  <1>4. TypeOK
    BY <1>1, <1>2, <1>3, EmptySeq, FramesAssumption DEF TypeOK
  <1>5. ASSUME NEW t \in Tabs
        PROVE  Finite(pool, calls, held, t) /\ tab[t].rc = Refs(pool, calls, held, t) + NoLeak[t]
    <2>1. PoolRefs(pool, t) = {} /\ FrameRefs(calls, t) = {} /\ BlockRefs(calls, t) = {}
      BY <1>2 DEF PoolRefs, FrameRefs, BlockRefs
    <2>2. SlotRefs(held, t) = {}
      BY <1>1, FramesAssumption DEF SlotRefs
    <2>3. tab[t].rc = 0
      BY <1>1, <1>3
    <2> QED
      BY <2>1, <2>2, <2>3, FS_EmptySet DEF Finite, Refs, NoLeak
  <1>6. FreeIsEmpty /\ KeysUnique
    BY <1>1, <1>3, EmptyIsOneEach DEF FreeIsEmpty, KeysUnique
  <1>7. PooledIsFresh /\ FrameIsThere /\ FramesAreOwn
    BY <1>2 DEF PooledIsFresh, FrameIsThere, FramesAreOwn
  <1> QED
    BY <1>4, <1>5, <1>6, <1>7 DEF FramesInv, Counted

----------------------------------------------------------------------------
(* A tab somebody refers to is not in the pool, and is not a frame that     *)
(* arguments are being bound in unless it is the last call's.               *)
LEMMA FrameKept ==
  ASSUME NEW cs \in Seq(Call), Len(cs) > 0, NEW c \in Call, NEW t,
         c.frame = cs[Len(cs)].frame
  PROVE  FrameRefs([cs EXCEPT ![Len(cs)] = c], t) = FrameRefs(cs, t)
  <1> DEFINE n == Len(cs)
             ds == [cs EXCEPT ![n] = c]
  <1>1. /\ FrameRefs(ds, t) = IF c.frame = t THEN FrameRefs(cs, t) \cup {n}
                              ELSE FrameRefs(cs, t) \ {n}
        /\ n \in FrameRefs(cs, t) <=> cs[n].frame = t
    BY FrameRefsOfUpdated
  <1>2. CASE c.frame = t
    BY <1>1, <1>2
  <1>3. CASE c.frame # t
    BY <1>1, <1>3
  <1> QED
    BY <1>2, <1>3

LEMMA ScopeHasRef ==
  ASSUME NEW leak \in Leaks, FramesInv(leak),
         calls # <<>>, ~Top.returned \/ Top.blocks # <<>>
  PROVE  /\ Scope(Top) \in Tabs
         /\ IF Top.blocks = <<>>
            THEN Len(calls) \in FrameRefs(calls, Scope(Top))
            ELSE <<Len(calls), Len(Top.blocks)>> \in BlockRefs(calls, Scope(Top))
  <1>1. /\ TypeOK /\ FrameIsThere
    BY DEF FramesInv
  <1>2. Scope(Top) \in Tabs /\ Len(calls) \in 1..Len(calls) /\ Len(Top.blocks) \in Nat
    BY <1>1, TopIsTyped
  <1>3. CASE Top.blocks = <<>>
    BY <1>2, <1>3, FrameHasRef DEF Scope, Top
  <1>4. CASE Top.blocks # <<>>
    <2>1. Len(Top.blocks) \in 1..Len(Top.blocks) /\ Scope(Top) = Top.blocks[Len(Top.blocks)]
      BY <1>1, <1>2, <1>4, TopIsTyped
    <2> QED
      BY <1>1, <1>2, <1>4, <2>1, BlockHasRef DEF Top
  <1> QED
    BY <1>2, <1>3, <1>4

LEMMA ReferredIsNotPooled ==
  ASSUME NEW leak \in Leaks, FramesInv(leak),
         NEW t \in Tabs,
         FrameRefs(calls, t) # {} \/ BlockRefs(calls, t) # {} \/ SlotRefs(held, t) # {}
  PROVE  \A i \in 1..Len(pool) : pool[i] # t
  <1> SUFFICES ASSUME NEW i \in 1..Len(pool), pool[i] = t
               PROVE  FALSE
    OBVIOUS
  <1>1. tab[t].rc = 1 /\ i \in PoolRefs(pool, t)
    BY PooledHasRef DEF FramesInv, PooledIsFresh
  <1> QED
    BY <1>1, SoleReference

LEMMA ReferredIsNotFree ==
  ASSUME NEW leak \in Leaks, FramesInv(leak),
         NEW t \in Tabs,
         \/ FrameRefs(calls, t) # {} \/ BlockRefs(calls, t) # {}
         \/ SlotRefs(held, t) # {} \/ PoolRefs(pool, t) # {}
  PROVE  tab[t].rc # 0 /\ tab[t].rc \in Nat \ {0}
  <1>1. tab[t].rc \in Nat
    BY DEF FramesInv, TypeOK
  <1>2. tab[t].rc # 0
    BY SoleReference
  <1> QED
    BY <1>1, <1>2

(* A call that is still binding arguments has its frame to itself.          *)
LEMMA BindingFrameIsOwn ==
  ASSUME NEW leak \in Leaks, FramesInv(leak),
         NEW i \in 1..Len(calls), ~calls[i].returned,
         calls[i].bound < Len(calls[i].clo.params), NEW t, t = calls[i].frame
  PROVE  /\ t \in Tabs /\ tab[t].rc = 1
         /\ FrameRefs(calls, t) = {i}
         /\ BlockRefs(calls, t) = {} /\ SlotRefs(held, t) = {} /\ PoolRefs(pool, t) = {}
  <1>1. t \in Tabs /\ tab[t].rc = 1
    BY DEF FramesInv, FrameIsThere
  <1>2. i \in FrameRefs(calls, t)
    BY FrameHasRef
  <1>3. \A j \in FrameRefs(calls, t) : j = i
    BY <1>1, FramesAssumption DEF FrameRefs, FramesInv, FramesAreOwn
  <1>4. BlockRefs(calls, t) = {} /\ SlotRefs(held, t) = {} /\ PoolRefs(pool, t) = {}
    BY <1>1, <1>2, SoleReference
  <1> QED
    BY <1>1, <1>2, <1>3, <1>4

LEMMA ScopeIsNotBinding ==
  ASSUME NEW leak \in Leaks, FramesInv(leak),
         calls # <<>>,
         InBody(Top) \/ Top.blocks # <<>>,
         NEW i \in 1..Len(calls), ~calls[i].returned,
         calls[i].bound < Len(calls[i].clo.params)
  PROVE  calls[i].frame # Scope(Top)
  <1> SUFFICES ASSUME calls[i].frame = Scope(Top)
               PROVE  FALSE
    OBVIOUS
  <1> DEFINE t == calls[i].frame
  <1>1. FrameRefs(calls, t) = {i} /\ BlockRefs(calls, t) = {}
    BY BindingFrameIsOwn
  <1>2. CASE Top.blocks # <<>>
    BY <1>1, <1>2, ScopeHasRef
  <1>3. CASE Top.blocks = <<>>
    <2>1. InBody(Top)
      BY <1>3
    <2>2. Len(calls) \in FrameRefs(calls, t)
      BY <1>3, <2>1, ScopeHasRef DEF InBody
    <2>3. calls[i] = Top
      BY <1>1, <2>2 DEF Top
    <2>4. Top.bound \in Nat
      BY TopIsTyped DEF FramesInv
    <2> QED
      BY <2>1, <2>3, <2>4 DEF InBody
  <1> QED
    BY <1>2, <1>3

(* Where nothing but the references changes, and those add up.              *)
LEMMA StillCounted ==
  ASSUME NEW leak \in Leaks, Counted(leak),
         \A t \in Tabs : /\ PoolRefs(pool', t) = PoolRefs(pool, t)
                         /\ FrameRefs(calls', t) = FrameRefs(calls, t)
                         /\ BlockRefs(calls', t) = BlockRefs(calls, t)
                         /\ SlotRefs(held', t) = SlotRefs(held, t)
                         /\ tab'[t].rc = tab[t].rc
  PROVE  Counted(leak)'
  <1>1. ASSUME NEW t \in Tabs
        PROVE  /\ Finite(pool', calls', held', t)
               /\ tab'[t].rc = Refs(pool', calls', held', t) + leak[t]
    <2>1. /\ Finite(pool, calls, held, t)
          /\ tab[t].rc = Refs(pool, calls, held, t) + leak[t]
      BY DEF Counted
    <2> QED
      BY <2>1, Zenon DEF Finite, Refs
  <1> QED
    BY <1>1 DEF Counted

(* Where the pool stays and the tabs in it are not touched; where no call   *)
(* gets another frame.                                                      *)
LEMMA StillFresh ==
  ASSUME PooledIsFresh, pool' = pool,
         \A i \in 1..Len(pool) : tab'[pool[i]] = tab[pool[i]]
  PROVE  PooledIsFresh'
  BY DEF PooledIsFresh

LEMMA StillThere ==
  ASSUME FrameIsThere, Len(calls') = Len(calls),
         \A i \in 1..Len(calls) :
           ~calls'[i].returned =>
             /\ ~calls[i].returned
             /\ calls'[i].frame = calls[i].frame /\ calls'[i].clo = calls[i].clo
             /\ calls'[i].bound < Len(calls'[i].clo.params)
                  => calls[i].bound < Len(calls[i].clo.params),
         \A i \in 1..Len(calls) :
           ~calls[i].returned /\ calls[i].bound < Len(calls[i].clo.params)
             => tab'[calls[i].frame].rc = tab[calls[i].frame].rc
  PROVE  FrameIsThere'
  <1>1. ASSUME NEW i \in 1..Len(calls), ~calls'[i].returned
        PROVE  /\ calls'[i].frame \in Tabs
               /\ calls'[i].bound < Len(calls'[i].clo.params)
                    => tab'[calls'[i].frame].rc = 1
    <2>1. ~calls[i].returned /\ calls'[i].frame = calls[i].frame
      BY <1>1
    <2>2. calls[i].frame \in Tabs
      BY <2>1 DEF FrameIsThere
    <2>3. ASSUME calls'[i].bound < Len(calls'[i].clo.params)
          PROVE  tab'[calls'[i].frame].rc = 1
      <3>1. calls[i].bound < Len(calls[i].clo.params)
        BY <1>1, <2>3
      <3>2. tab[calls[i].frame].rc = 1
        BY <2>1, <3>1 DEF FrameIsThere
      <3> QED
        BY <2>1, <3>1, <3>2
    <2> QED
      BY <2>1, <2>2, <2>3
  <1> QED
    BY <1>1 DEF FrameIsThere

LEMMA StillOwn ==
  ASSUME FramesAreOwn, Len(calls') = Len(calls),
         \A i \in 1..Len(calls) :
           calls'[i].frame # NoTab => calls'[i].frame = calls[i].frame
  PROVE  FramesAreOwn'
  <1> SUFFICES ASSUME NEW i \in 1..Len(calls), NEW j \in 1..Len(calls),
                      calls'[i].frame = calls'[j].frame, calls'[i].frame # NoTab
               PROVE  i = j
    BY DEF FramesAreOwn
  <1>1. calls[i].frame = calls[j].frame /\ calls[i].frame # NoTab
    OBVIOUS
  <1> QED
    BY <1>1 DEF FramesAreOwn

----------------------------------------------------------------------------
LEMMA BindParamFacts ==
  ASSUME NEW leak \in Leaks, FramesInv(leak),
         NEW v \in Vals, BindParam(v)
  PROVE  LET f == Top.frame
             x == Top.clo.params[Top.bound + 1]
             c == [Top EXCEPT !.bound = @ + 1]
         IN  /\ f \in Tabs /\ x \in Vars /\ tab[f].rc = 1
             /\ tab' \in [Tabs -> TabType]
             /\ \A t \in Tabs : /\ tab'[t].rc = tab[t].rc
                                /\ t # f => tab'[t] = tab[t]
             /\ tab'[f].env = Bind(tab[f].env, x, v)
             /\ OneBindingEach(tab'[f].env)
             /\ c \in Call /\ c.clo = Top.clo /\ c.returned = Top.returned
             /\ c.frame = Top.frame /\ c.blocks = Top.blocks /\ c.bound = Top.bound + 1
             /\ calls' = [calls EXCEPT ![Len(calls)] = c]
             /\ pool' = pool /\ held' = held /\ read' = read
  <1> DEFINE f == Top.frame
             x == Top.clo.params[Top.bound + 1]
             c == [Top EXCEPT !.bound = @ + 1]
  <1>1. /\ calls # <<>> /\ ~Top.returned /\ Top.bound < Len(Top.clo.params)
        /\ tab' = [tab EXCEPT ![f].env = Bind(@, x, v)]
        /\ calls' = [calls EXCEPT ![Len(calls)] = c]
        /\ pool' = pool /\ held' = held /\ read' = read
    BY DEF BindParam, Update
  <1>2. /\ Top \in Call /\ Top.clo \in Closures /\ Top.bound \in Nat
        /\ Len(calls) \in 1..Len(calls)
    BY <1>1, TopIsTyped DEF FramesInv
  <1>3. f \in Tabs /\ tab[f].rc = 1
    BY <1>1, <1>2, BindingFrameIsOwn DEF Top
  <1>4. Len(Top.clo.params) \in Nat
    BY <1>2, ClosuresAreTyped
  <1>5. Top.bound + 1 \in 1..Len(Top.clo.params)
    BY <1>1, <1>2, <1>4
  <1>6. x \in Vars
    BY <1>2, <1>5, ClosuresAreTyped
  <1>7. /\ tab \in [Tabs -> TabType] /\ tab[f] \in TabType /\ tab[f].env \in Env
        /\ OneBindingEach(tab[f].env)
    BY <1>3 DEF FramesInv, TypeOK, KeysUnique, TabType
  <1>8. /\ Bind(tab[f].env, x, v) \in Env
        /\ OneBindingEach(Bind(tab[f].env, x, v))
    BY <1>6, <1>7, BindKeepsOneEach
  <1>9. /\ c \in Call /\ c.clo = Top.clo /\ c.returned = Top.returned
        /\ c.frame = Top.frame /\ c.blocks = Top.blocks /\ c.bound = Top.bound + 1
    BY <1>2 DEF Call
  <1>10. /\ tab' \in [Tabs -> TabType]
         /\ \A t \in Tabs : /\ tab'[t].rc = tab[t].rc
                            /\ t # f => tab'[t] = tab[t]
         /\ tab'[f].env = Bind(tab[f].env, x, v)
    <2> DEFINE e == Bind(tab[f].env, x, v)
    <2>1. tab' = [tab EXCEPT ![f] = [tab[f] EXCEPT !.env = e]]
      BY <1>1
    <2> HIDE DEF e, f
    <2>2. [tab[f] EXCEPT !.env = e] \in TabType
          /\ [tab[f] EXCEPT !.env = e].rc = tab[f].rc
          /\ [tab[f] EXCEPT !.env = e].env = e
      BY <1>7, <1>8 DEF TabType, e
    <2> QED
      BY <1>3, <1>7, <2>1, <2>2 DEF e
  <1> HIDE DEF f, x, c
  <1>11. OneBindingEach(tab'[f].env)
    BY <1>8, <1>10
  <1> QED
    BY <1>1, <1>3, <1>6, <1>9, <1>10, <1>11 DEF f, x, c

LEMMA BindParamKeeps ==
  ASSUME NEW leak \in Leaks, FramesInv(leak),
         NEW v \in Vals, BindParam(v)
  PROVE  FramesInv(leak)'
  <1> DEFINE n == Len(calls)
             f == Top.frame
             c == [Top EXCEPT !.bound = @ + 1]
  <1>1. /\ f \in Tabs /\ tab[f].rc = 1 /\ tab' \in [Tabs -> TabType]
        /\ \A t \in Tabs : /\ tab'[t].rc = tab[t].rc
                           /\ t # f => tab'[t] = tab[t]
        /\ OneBindingEach(tab'[f].env)
        /\ c \in Call /\ c.clo = Top.clo /\ c.returned = Top.returned
        /\ c.frame = Top.frame /\ c.blocks = Top.blocks /\ c.bound = Top.bound + 1
        /\ calls' = [calls EXCEPT ![n] = c]
        /\ pool' = pool /\ held' = held /\ read' = read
    BY BindParamFacts
  <1>2. calls # <<>> /\ ~Top.returned /\ Top.bound < Len(Top.clo.params)
    BY DEF BindParam
  <1>3. n \in 1..n /\ n > 0 /\ Top.bound \in Nat
    BY <1>2, TopIsTyped DEF FramesInv
  <1> HIDE DEF f, c
  <1>4. calls \in Seq(Call) /\ calls[n] = Top
    BY DEF FramesInv, TypeOK, Top
  <1>5. /\ calls' \in Seq(Call) /\ Len(calls') = n
        /\ \A i \in 1..n : calls'[i] = IF i = n THEN c ELSE calls[i]
    BY <1>1, <1>3, <1>4, CallsUpdated
  <1>6. TypeOK'
    BY <1>1, <1>5 DEF FramesInv, TypeOK, TabType
  <1>7. Counted(leak)'
    <2>1. \A t : /\ FrameRefs(calls', t) = FrameRefs(calls, t)
                 /\ BlockRefs(calls', t) = BlockRefs(calls, t)
      BY <1>1, <1>3, <1>4, FrameKept, BlocksKept
    <2> QED
      BY <1>1, <2>1, StillCounted DEF FramesInv
  <1>8. FreeIsEmpty'
    BY <1>1 DEF FramesInv, FreeIsEmpty
  <1>9. PooledIsFresh'
    <2>1. FrameRefs(calls, f) # {}
      BY <1>3, FrameHasRef DEF Top, f
    <2>2. \A i \in 1..Len(pool) : pool[i] # f /\ pool[i] \in Tabs
      BY <1>1, <2>1, ReferredIsNotPooled, ElementOfSeq DEF FramesInv, TypeOK
    <2> QED
      BY <1>1, <2>2 DEF FramesInv, PooledIsFresh
  <1>10. FrameIsThere'
    <2>1. \A i \in 1..n : /\ calls'[i].frame = calls[i].frame
                          /\ calls'[i].returned = calls[i].returned
                          /\ calls'[i].clo = calls[i].clo
                          /\ calls'[i].bound < Len(calls'[i].clo.params)
                               => calls[i].bound < Len(calls[i].clo.params)
      BY <1>1, <1>2, <1>3, <1>4, <1>5
    <2>2. FrameIsThere
      BY DEF FramesInv
    <2>3. ASSUME NEW i \in 1..n, ~calls[i].returned
          PROVE  /\ calls[i].frame \in Tabs
                 /\ calls[i].bound < Len(calls[i].clo.params)
                      => tab'[calls[i].frame].rc = 1
      BY <1>1, <2>2, <2>3 DEF FrameIsThere
    <2> HIDE DEF n
    <2> QED
      BY <1>5, <2>1, <2>3 DEF FrameIsThere
  <1>11. FramesAreOwn'
    <2>1. FramesAreOwn
      BY DEF FramesInv
    <2>2. \A i \in 1..n : calls'[i].frame = calls[i].frame
      BY <1>1, <1>4, <1>5
    <2> HIDE DEF n
    <2>3. n = Len(calls)
      BY DEF n
    <2> QED
      BY <1>5, <2>1, <2>2, <2>3 DEF FramesAreOwn
  <1>12. KeysUnique'
    BY <1>1 DEF FramesInv, KeysUnique
  <1> QED
    BY <1>6, <1>7, <1>8, <1>9, <1>10, <1>11, <1>12 DEF FramesInv

LEMMA ReadKeeps ==
  ASSUME NEW leak \in Leaks, FramesInv(leak),
         NEW x \in Vars, Read(x)
  PROVE  FramesInv(leak)'
  <1>1. /\ calls # <<>> /\ InBody(Top) /\ x \in Keys(tab[Scope(Top)].env)
        /\ read' = [key |-> x, val |-> Lookup(tab[Scope(Top)].env, x)]
        /\ tab' = tab /\ pool' = pool /\ calls' = calls /\ held' = held
    BY DEF Read
  <1>2. Scope(Top) \in Tabs
    BY <1>1, TopIsTyped DEF FramesInv, InBody
  <1>3. tab[Scope(Top)].env \in Env /\ OneBindingEach(tab[Scope(Top)].env)
    BY <1>2 DEF FramesInv, TypeOK, KeysUnique
  <1>4. read' \in Binding
    BY <1>1, <1>3, LookupIsTyped
  <1>5. TypeOK'
    BY <1>1, <1>4 DEF FramesInv, TypeOK
  <1>6. Counted(leak)'
    BY <1>1, StillCounted DEF FramesInv
  <1> QED
    BY <1>1, <1>5, <1>6
       DEF FramesInv, FreeIsEmpty, PooledIsFresh, FrameIsThere, FramesAreOwn, KeysUnique

----------------------------------------------------------------------------
(* One more reference to the env of the last call, by a block or a value.   *)
LEMMA SharedFacts ==
  ASSUME NEW leak \in Leaks, FramesInv(leak),
         calls # <<>>, InBody(Top),
         tab' = [tab EXCEPT ![Scope(Top)].rc = @ + 1]
  PROVE  /\ Scope(Top) \in Tabs
         /\ tab' \in [Tabs -> TabType]
         /\ \A t \in Tabs : /\ tab'[t].env = tab[t].env
                            /\ t # Scope(Top) => tab'[t] = tab[t]
         /\ tab'[Scope(Top)].rc = tab[Scope(Top)].rc + 1
         /\ FreeIsEmpty' /\ KeysUnique'
         /\ \A i \in 1..Len(pool) : tab'[pool[i]] = tab[pool[i]]
         /\ \A i \in 1..Len(calls) :
              ~calls[i].returned /\ calls[i].bound < Len(calls[i].clo.params)
                => tab'[calls[i].frame] = tab[calls[i].frame]
  <1> DEFINE s == Scope(Top)
  <1>1. s \in Tabs
    BY ScopeHasRef DEF InBody
  <1>2. FrameRefs(calls, s) # {} \/ BlockRefs(calls, s) # {}
    BY ScopeHasRef DEF InBody
  <1>3. tab \in [Tabs -> TabType] /\ tab[s] \in TabType
    BY <1>1 DEF FramesInv, TypeOK, TabType
  <1>4. tab' = [tab EXCEPT ![s] = [tab[s] EXCEPT !.rc = tab[s].rc + 1]]
    OBVIOUS
  <1> HIDE DEF s
  <1>5. /\ [tab[s] EXCEPT !.rc = tab[s].rc + 1] \in TabType
        /\ [tab[s] EXCEPT !.rc = tab[s].rc + 1].rc = tab[s].rc + 1
        /\ [tab[s] EXCEPT !.rc = tab[s].rc + 1].env = tab[s].env
    BY <1>3 DEF TabType
  <1>6. /\ tab' \in [Tabs -> TabType]
        /\ \A t \in Tabs : tab'[t].env = tab[t].env /\ (t # s => tab'[t] = tab[t])
        /\ tab'[s].rc = tab[s].rc + 1
    BY <1>1, <1>3, <1>4, <1>5
  <1>7. tab'[s].rc # 0
    BY <1>3, <1>6 DEF TabType
  <1>8. FreeIsEmpty'
    BY <1>6, <1>7 DEF FramesInv, FreeIsEmpty
  <1>9. KeysUnique'
    BY <1>6 DEF FramesInv, KeysUnique
  <1>10. \A i \in 1..Len(pool) : pool[i] # s /\ pool[i] \in Tabs
    BY <1>1, <1>2, ReferredIsNotPooled, ElementOfSeq DEF FramesInv, TypeOK
  <1>11. ASSUME NEW i \in 1..Len(calls), ~calls[i].returned,
                calls[i].bound < Len(calls[i].clo.params)
         PROVE  calls[i].frame # s /\ calls[i].frame \in Tabs
    BY <1>11, ScopeIsNotBinding, BindingFrameIsOwn DEF s
  <1> QED
    BY <1>1, <1>6, <1>8, <1>9, <1>10, <1>11 DEF s

(* When each kind of reference to a table changes in number, their sum does *)
LEMMA RefsMove ==
  ASSUME NEW p, NEW cs, NEW hs, NEW p2, NEW cs2, NEW hs2, NEW t,
         Finite(p, cs, hs, t),
         NEW dp \in Int, NEW df \in Int, NEW db \in Int, NEW dh \in Int,
         Cardinality(PoolRefs(p2, t)) = Cardinality(PoolRefs(p, t)) + dp,
         Cardinality(FrameRefs(cs2, t)) = Cardinality(FrameRefs(cs, t)) + df,
         Cardinality(BlockRefs(cs2, t)) = Cardinality(BlockRefs(cs, t)) + db,
         Cardinality(SlotRefs(hs2, t)) = Cardinality(SlotRefs(hs, t)) + dh
  PROVE  Refs(p2, cs2, hs2, t) = Refs(p, cs, hs, t) + dp + df + db + dh
  <1>1. /\ Cardinality(PoolRefs(p, t)) \in Nat
        /\ Cardinality(FrameRefs(cs, t)) \in Nat
        /\ Cardinality(BlockRefs(cs, t)) \in Nat
        /\ Cardinality(SlotRefs(hs, t)) \in Nat
    BY RefsAreCounted
  <1> QED
    BY <1>1 DEF Refs

LEMMA OpenBlockFacts ==
  ASSUME NEW leak \in Leaks, FramesInv(leak),
         OpenBlock
  PROVE  LET c == [Top EXCEPT !.blocks = Append(@, Scope(Top))]
         IN  /\ calls # <<>> /\ InBody(Top)
             /\ tab' = [tab EXCEPT ![Scope(Top)].rc = @ + 1]
             /\ c \in Call /\ c.clo = Top.clo /\ c.returned = Top.returned
             /\ c.frame = Top.frame /\ c.bound = Top.bound
             /\ c.blocks = Append(Top.blocks, Scope(Top))
             /\ calls' = [calls EXCEPT ![Len(calls)] = c]
             /\ pool' = pool /\ held' = held /\ read' = read
  <1>1. /\ calls # <<>> /\ InBody(Top)
        /\ tab' = [tab EXCEPT ![Scope(Top)].rc = @ + 1]
        /\ calls' = [calls EXCEPT
             ![Len(calls)] = [Top EXCEPT !.blocks = Append(@, Scope(Top))]]
        /\ pool' = pool /\ held' = held /\ read' = read
    BY DEF OpenBlock, Update
  <1>2. Top \in Call /\ Scope(Top) \in Tabs /\ Top.blocks \in Seq(Tabs)
    BY <1>1, TopIsTyped DEF FramesInv, InBody
  <1>3. Append(Top.blocks, Scope(Top)) \in Seq(Tabs)
    BY <1>2, AppendProperties
  <1> QED
    BY <1>1, <1>2, <1>3 DEF Call

LEMMA OpenBlockKeeps ==
  ASSUME NEW leak \in Leaks, FramesInv(leak),
         OpenBlock
  PROVE  FramesInv(leak)'
  <1> DEFINE n == Len(calls)
             s == Scope(Top)
             c == [Top EXCEPT !.blocks = Append(@, s)]
             r == <<n, Len(Top.blocks) + 1>>
  <1>1. /\ calls # <<>> /\ InBody(Top)
        /\ tab' = [tab EXCEPT ![Scope(Top)].rc = @ + 1]
        /\ c \in Call /\ c.clo = Top.clo /\ c.returned = Top.returned
        /\ c.frame = Top.frame /\ c.bound = Top.bound
        /\ c.blocks = Append(Top.blocks, s)
        /\ calls' = [calls EXCEPT ![n] = c]
        /\ pool' = pool /\ held' = held /\ read' = read
    BY OpenBlockFacts
  <1>2. /\ s \in Tabs /\ tab' \in [Tabs -> TabType]
        /\ \A t \in Tabs : t # s => tab'[t] = tab[t]
        /\ tab'[s].rc = tab[s].rc + 1
        /\ FreeIsEmpty' /\ KeysUnique'
        /\ \A i \in 1..Len(pool) : tab'[pool[i]] = tab[pool[i]]
        /\ \A i \in 1..Len(calls) :
              ~calls[i].returned /\ calls[i].bound < Len(calls[i].clo.params)
                => tab'[calls[i].frame] = tab[calls[i].frame]
    BY <1>1, SharedFacts
  <1>3. n \in 1..n /\ n > 0
    BY <1>1, TopIsTyped DEF FramesInv
  <1> HIDE DEF c, s
  <1>4. calls \in Seq(Call) /\ calls[n] = Top
    BY DEF FramesInv, TypeOK, Top
  <1>5. /\ calls' \in Seq(Call) /\ Len(calls') = n
        /\ \A i \in 1..n : calls'[i] = IF i = n THEN c ELSE calls[i]
    BY <1>1, <1>3, <1>4, CallsUpdated
  <1>6. TypeOK'
    BY <1>1, <1>2, <1>5 DEF FramesInv, TypeOK, TabType
  <1>7. Counted(leak)'
    <2>1. ASSUME NEW t \in Tabs
          PROVE  /\ FrameRefs(calls', t) = FrameRefs(calls, t)
                 /\ BlockRefs(calls', t) = IF s = t THEN BlockRefs(calls, t) \cup {r}
                                           ELSE BlockRefs(calls, t)
                 /\ r \notin BlockRefs(calls, t)
      <3>1. c.blocks = Append(calls[n].blocks, s) /\ c.frame = calls[n].frame
        BY <1>1, <1>4
      <3>2. r = <<n, Len(calls[n].blocks) + 1>>
        BY <1>4
      <3> HIDE DEF r
      <3>3. FrameRefs(calls', t) = FrameRefs(calls, t)
        BY <1>1, <1>3, <1>4, <3>1, FrameKept
      <3>4. s \in Tabs /\ c \in Call /\ Len(calls) > 0 /\ c.blocks = Append(calls[Len(calls)].blocks, s)
        BY <1>1, <1>2, <1>3, <3>1
      <3>5. /\ BlockRefs([calls EXCEPT ![Len(calls)] = c], t) =
                 IF s = t THEN BlockRefs(calls, t) \cup {<<Len(calls), Len(calls[Len(calls)].blocks) + 1>>} ELSE BlockRefs(calls, t)
            /\ <<Len(calls), Len(calls[Len(calls)].blocks) + 1>> \notin BlockRefs(calls, t)
        BY <1>4, <3>4, BlocksGrow
      <3>6. calls' = [calls EXCEPT ![Len(calls)] = c]
        BY <1>1
      <3>7. /\ BlockRefs(calls', t) = IF s = t THEN BlockRefs(calls, t) \cup {r}
                                      ELSE BlockRefs(calls, t)
            /\ r \notin BlockRefs(calls, t)
        BY <3>2, <3>5, <3>6, Zenon
      <3> QED
        BY <3>3, <3>7
    <2>2. ASSUME NEW t \in Tabs
          PROVE  /\ Finite(pool', calls', held', t)
                 /\ tab'[t].rc = Refs(pool', calls', held', t) + leak[t]
      <3>1. /\ Finite(pool, calls, held, t) /\ leak[t] \in Nat
            /\ tab[t].rc = Refs(pool, calls, held, t) + leak[t]
            /\ Refs(pool, calls, held, t) \in Nat
        BY CountedIs DEF FramesInv
      <3> HIDE DEF r
      <3>2. CASE s = t
        <4>1. BlockRefs(calls', t) = BlockRefs(calls, t) \cup {r}
          BY <2>1, <3>2
        <4>2. /\ IsFiniteSet(BlockRefs(calls', t)) /\ Cardinality(BlockRefs(calls, t)) \in Nat
              /\ Cardinality(BlockRefs(calls', t)) = Cardinality(BlockRefs(calls, t)) + 1
          BY <2>1, <3>1, <4>1, OneMore DEF Finite
        <4>3. Finite(pool', calls', held', t)
          BY <1>1, <2>1, <3>1, <4>2 DEF Finite
        <4>4. /\ Cardinality(PoolRefs(pool, t)) \in Nat
              /\ Cardinality(FrameRefs(calls, t)) \in Nat
              /\ Cardinality(SlotRefs(held, t)) \in Nat
          BY <3>1, RefsAreCounted
        <4>5. /\ Cardinality(PoolRefs(pool', t)) = Cardinality(PoolRefs(pool, t))
              /\ Cardinality(FrameRefs(calls', t)) = Cardinality(FrameRefs(calls, t))
              /\ Cardinality(SlotRefs(held', t)) = Cardinality(SlotRefs(held, t))
          BY <1>1, <2>1
        <4>6. Refs(pool', calls', held', t) = Refs(pool, calls, held, t) + 0 + 0 + 1 + 0
          <5>1. /\ Cardinality(PoolRefs(pool', t)) = Cardinality(PoolRefs(pool, t)) + 0
                /\ Cardinality(FrameRefs(calls', t)) = Cardinality(FrameRefs(calls, t)) + 0
                /\ Cardinality(SlotRefs(held', t)) = Cardinality(SlotRefs(held, t)) + 0
            BY <4>4, <4>5
          <5> QED
            BY <3>1, <4>2, <5>1, RefsMove
        <4> QED
          BY <1>2, <3>1, <3>2, <4>3, <4>6
      <3>3. CASE s # t
        BY <1>1, <1>2, <2>1, <3>1, <3>3, Zenon DEF Finite, Refs
      <3> QED
        BY <3>2, <3>3
    <2> QED
      BY <2>2 DEF Counted
  <1>8. PooledIsFresh'
    <2>1. PooledIsFresh
      BY DEF FramesInv
    <2> QED
      BY <1>1, <1>2, <2>1, StillFresh
  <1>9. \A i \in 1..n : /\ calls'[i].frame = calls[i].frame
                        /\ calls'[i].returned = calls[i].returned
                        /\ calls'[i].clo = calls[i].clo
                        /\ calls'[i].bound = calls[i].bound
    BY <1>1, <1>4, <1>5
  <1> HIDE DEF n
  <1>10. n = Len(calls)
    BY DEF n
  <1>11. FrameIsThere'
    <2>1. FrameIsThere
      BY DEF FramesInv
    <2>2. \A i \in 1..Len(calls) :
             ~calls[i].returned /\ calls[i].bound < Len(calls[i].clo.params)
               => tab'[calls[i].frame].rc = tab[calls[i].frame].rc
      BY <1>2
    <2> QED
      BY <1>5, <1>9, <1>10, <2>1, <2>2, StillThere
  <1>12. FramesAreOwn'
    <2>1. FramesAreOwn
      BY DEF FramesInv
    <2> QED
      BY <1>5, <1>9, <1>10, <2>1, StillOwn
  <1> QED
    BY <1>2, <1>6, <1>7, <1>8, <1>11, <1>12 DEF FramesInv

LEMMA ReflectKeeps ==
  ASSUME NEW leak \in Leaks, FramesInv(leak),
         NEW h \in Slots, Reflect(h)
  PROVE  FramesInv(leak)'
  <1> DEFINE s == Scope(Top)
  <1>1. /\ calls # <<>> /\ InBody(Top) /\ held[h] = NoTab
        /\ held' = [held EXCEPT ![h] = s]
        /\ tab' = [tab EXCEPT ![Scope(Top)].rc = @ + 1]
        /\ pool' = pool /\ calls' = calls /\ read' = read
    BY DEF Reflect
  <1>2. /\ s \in Tabs /\ tab' \in [Tabs -> TabType]
        /\ \A t \in Tabs : t # s => tab'[t] = tab[t]
        /\ tab'[s].rc = tab[s].rc + 1
        /\ FreeIsEmpty' /\ KeysUnique'
        /\ \A i \in 1..Len(pool) : tab'[pool[i]] = tab[pool[i]]
        /\ \A i \in 1..Len(calls) :
              ~calls[i].returned /\ calls[i].bound < Len(calls[i].clo.params)
                => tab'[calls[i].frame] = tab[calls[i].frame]
    BY <1>1, SharedFacts
  <1> HIDE DEF s
  <1>3. held \in [Slots -> Tabs \cup {NoTab}]
    BY DEF FramesInv, TypeOK
  <1>4. TypeOK'
    BY <1>1, <1>2, <1>3 DEF FramesInv, TypeOK, TabType
  <1>5. Counted(leak)'
    <2>1. ASSUME NEW t \in Tabs
          PROVE  /\ SlotRefs(held', t) = IF s = t THEN SlotRefs(held, t) \cup {h}
                                         ELSE SlotRefs(held, t)
                 /\ h \notin SlotRefs(held, t)
      BY <1>1, <1>3, FramesAssumption DEF SlotRefs
    <2>2. ASSUME NEW t \in Tabs
          PROVE  /\ Finite(pool', calls', held', t)
                 /\ tab'[t].rc = Refs(pool', calls', held', t) + leak[t]
      <3>1. /\ Finite(pool, calls, held, t) /\ leak[t] \in Nat
            /\ tab[t].rc = Refs(pool, calls, held, t) + leak[t]
            /\ Refs(pool, calls, held, t) \in Nat
        BY CountedIs DEF FramesInv
      <3>2. CASE s = t
        <4>1. SlotRefs(held', t) = SlotRefs(held, t) \cup {h}
          BY <2>1, <3>2
        <4>2. /\ IsFiniteSet(SlotRefs(held', t)) /\ Cardinality(SlotRefs(held, t)) \in Nat
              /\ Cardinality(SlotRefs(held', t)) = Cardinality(SlotRefs(held, t)) + 1
          <5>1. IsFiniteSet(SlotRefs(held, t))
            BY <3>1 DEF Finite
          <5>2. h \notin SlotRefs(held, t)
            BY <2>1
          <5> QED
            BY <4>1, <5>1, <5>2, OneMore
        <4>3. Finite(pool', calls', held', t)
          BY <1>1, <3>1, <4>2 DEF Finite
        <4>4. /\ Cardinality(PoolRefs(pool, t)) \in Nat
              /\ Cardinality(FrameRefs(calls, t)) \in Nat
              /\ Cardinality(BlockRefs(calls, t)) \in Nat
          BY <3>1, RefsAreCounted
        <4>5. Refs(pool', calls', held', t) = Refs(pool, calls, held, t) + 1
          BY <1>1, <4>2, <4>4 DEF Refs
        <4>6. tab'[t].rc = tab[t].rc + 1
          BY <1>2, <3>2
        <4> QED
          BY <3>1, <4>3, <4>5, <4>6
      <3>3. CASE s # t
        BY <1>1, <1>2, <2>1, <3>1, <3>3, Zenon DEF Finite, Refs
      <3> QED
        BY <3>2, <3>3
    <2> QED
      BY <2>2 DEF Counted
  <1>6. PooledIsFresh'
    <2>1. PooledIsFresh
      BY DEF FramesInv
    <2> QED
      BY <1>1, <1>2, <2>1, StillFresh
  <1>7. FrameIsThere'
    <2>1. FrameIsThere
      BY DEF FramesInv
    <2> QED
      BY <1>1, <1>2, <2>1, StillThere
  <1>8. FramesAreOwn'
    <2>1. FramesAreOwn
      BY DEF FramesInv
    <2> QED
      BY <1>1, <2>1, StillOwn
  <1> QED
    BY <1>2, <1>4, <1>5, <1>6, <1>7, <1>8 DEF FramesInv

----------------------------------------------------------------------------
(* References dropped: by a block that closes, a value that is forgotten,   *)
(* a call that ends.                                                        *)
LEMMA ReleasedFacts ==
  ASSUME NEW leak \in Leaks, FramesInv(leak),
         NEW ts, tab' = Release(tab, ts),
         \A t \in Tabs : Dropped(t, ts) \in Nat /\ Dropped(t, ts) <= tab[t].rc
  PROVE  /\ tab' \in [Tabs -> TabType]
         /\ FreeIsEmpty' /\ KeysUnique'
         /\ \A t \in Tabs :
              /\ tab'[t].rc = tab[t].rc - Dropped(t, ts)
              /\ tab'[t].env = IF tab'[t].rc = 0 THEN <<>> ELSE tab[t].env
              /\ Dropped(t, ts) = 0 => tab'[t] = tab[t]
  <1>1. /\ tab \in [Tabs -> TabType] /\ \A t \in Tabs : tab[t].rc = 0 => tab[t] = Free
        /\ \A t \in Tabs : OneBindingEach(tab[t].env)
    BY DEF FramesInv, TypeOK, TabType, FreeIsEmpty, KeysUnique
  <1>2. ASSUME NEW t \in Tabs
        PROVE  /\ tab'[t] \in TabType
               /\ tab'[t].rc = 0 => tab'[t] = Free
               /\ tab'[t].rc = tab[t].rc - Dropped(t, ts)
               /\ tab'[t].env = IF tab'[t].rc = 0 THEN <<>> ELSE tab[t].env
               /\ Dropped(t, ts) = 0 => tab'[t] = tab[t]
    <2>1. /\ tab[t].rc = 0 => tab[t] = Free
          /\ Dropped(t, ts) \in Nat /\ Dropped(t, ts) <= tab[t].rc
      BY <1>1
    <2>2. LET r == Release(tab, ts)[t]
          IN  /\ r \in TabType
              /\ r.rc = tab[t].rc - Dropped(t, ts)
              /\ r.env = IF r.rc = 0 THEN <<>> ELSE tab[t].env
              /\ r.rc = 0 => r = Free
              /\ Dropped(t, ts) = 0 => r = tab[t]
      BY <1>1, <2>1, Released
    <2> QED
      BY <2>2
  <1>3. tab' = [t \in Tabs |-> tab'[t]]
    BY DEF Release
  <1>4. tab' \in [Tabs -> TabType]
    BY <1>2, <1>3
  <1>5. FreeIsEmpty'
    BY <1>2 DEF FreeIsEmpty
  <1>6. \A t \in Tabs : OneBindingEach(tab'[t].env)
    BY <1>1, <1>2, EmptyIsOneEach
  <1>7. KeysUnique'
    BY <1>6 DEF KeysUnique
  <1> QED
    BY <1>2, <1>4, <1>5, <1>7

(* The last call's innermost block ends, whatever becomes of its env.       *)
BlockEnds ==
  /\ calls # <<>> /\ Top.blocks # <<>>
  /\ calls' = [calls EXCEPT
       ![Len(calls)] = [Top EXCEPT !.blocks = SubSeq(@, 1, Len(@) - 1)]]
  /\ pool' = pool /\ held' = held /\ read' = read

LEMMA BlockEndsFacts ==
  ASSUME NEW leak \in Leaks, FramesInv(leak), BlockEnds
  PROVE  LET c == [Top EXCEPT !.blocks = SubSeq(@, 1, Len(@) - 1)]
         IN  /\ calls # <<>> /\ Top.blocks # <<>>
             /\ c \in Call /\ c.clo = Top.clo /\ c.returned = Top.returned
             /\ c.frame = Top.frame /\ c.bound = Top.bound
             /\ c.blocks = SubSeq(Top.blocks, 1, Len(Top.blocks) - 1)
             /\ calls' = [calls EXCEPT ![Len(calls)] = c]
             /\ pool' = pool /\ held' = held /\ read' = read
  <1>1. /\ calls # <<>> /\ Top.blocks # <<>>
        /\ calls' = [calls EXCEPT
             ![Len(calls)] = [Top EXCEPT !.blocks = SubSeq(@, 1, Len(@) - 1)]]
        /\ pool' = pool /\ held' = held /\ read' = read
    BY DEF BlockEnds
  <1>2. Top \in Call /\ Top.blocks \in Seq(Tabs) /\ Len(Top.blocks) > 0
    BY <1>1, TopIsTyped DEF FramesInv
  <1>3. SubSeq(Top.blocks, 1, Len(Top.blocks) - 1) \in Seq(Tabs)
    BY <1>2, FrontIsShorter
  <1> QED
    BY <1>1, <1>2, <1>3 DEF Call

LEMMA CloseBlockEndsBlock ==
  CloseBlock => BlockEnds /\ tab' = Release(tab, <<Scope(Top)>>)
  BY DEF CloseBlock, BlockEnds, Update

LEMMA CloseBlockKeeps ==
  ASSUME NEW leak \in Leaks, FramesInv(leak),
         CloseBlock
  PROVE  FramesInv(leak)'
  <1> DEFINE n == Len(calls)
             s == Scope(Top)
             c == [Top EXCEPT !.blocks = SubSeq(@, 1, Len(@) - 1)]
             r == <<n, Len(calls[n].blocks)>>
  <1>1. /\ calls # <<>> /\ Top.blocks # <<>>
        /\ tab' = Release(tab, <<s>>)
        /\ c \in Call /\ c.clo = Top.clo /\ c.returned = Top.returned
        /\ c.frame = Top.frame /\ c.bound = Top.bound
        /\ c.blocks = SubSeq(Top.blocks, 1, Len(Top.blocks) - 1)
        /\ calls' = [calls EXCEPT ![n] = c]
        /\ pool' = pool /\ held' = held /\ read' = read
    BY CloseBlockEndsBlock, BlockEndsFacts
  <1>2. /\ n \in 1..n /\ n > 0 /\ s \in Tabs /\ Len(Top.blocks) > 0
        /\ s = Top.blocks[Len(Top.blocks)]
    BY <1>1, TopIsTyped DEF FramesInv
  <1>3. BlockRefs(calls, s) # {}
    BY <1>1, ScopeHasRef
  <1> HIDE DEF c, s
  <1>4. calls \in Seq(Call) /\ calls[n] = Top
    BY DEF FramesInv, TypeOK, Top
  <1>5. /\ calls' \in Seq(Call) /\ Len(calls') = n
        /\ \A i \in 1..n : calls'[i] = IF i = n THEN c ELSE calls[i]
    BY <1>1, <1>2, <1>4, CallsUpdated
  <1>6. \A t \in Tabs : Dropped(t, <<s>>) = IF s = t THEN 1 ELSE 0
    BY DroppedOne
  <1>7. tab[s].rc \in Nat \ {0}
    BY <1>2, <1>3, ReferredIsNotFree
  <1>8. \A t \in Tabs : Dropped(t, <<s>>) \in Nat /\ Dropped(t, <<s>>) <= tab[t].rc
    <2>1. \A t \in Tabs : tab[t].rc \in Nat
      BY DEF FramesInv, TypeOK
    <2> QED
      BY <1>6, <1>7, <2>1
  <1>9. /\ tab' \in [Tabs -> TabType]
        /\ FreeIsEmpty' /\ KeysUnique'
        /\ \A t \in Tabs : tab'[t].rc = tab[t].rc - (IF s = t THEN 1 ELSE 0)
        /\ \A t \in Tabs : s # t => tab'[t] = tab[t]
    BY <1>1, <1>6, <1>8, ReleasedFacts
  <1>10. TypeOK'
    BY <1>1, <1>5, <1>9 DEF FramesInv, TypeOK, TabType
  <1>11. Counted(leak)'
    <2>1. ASSUME NEW t \in Tabs
          PROVE  /\ Finite(pool', calls', held', t)
                 /\ tab'[t].rc = Refs(pool', calls', held', t) + leak[t]
      <3>1. /\ Finite(pool, calls, held, t) /\ leak[t] \in Nat
            /\ tab[t].rc = Refs(pool, calls, held, t) + leak[t]
            /\ Refs(pool, calls, held, t) \in Nat
        BY CountedIs DEF FramesInv
      <3>2. FrameRefs(calls', t) = FrameRefs(calls, t)
        BY <1>1, <1>2, <1>4, FrameKept
      <3>3. /\ BlockRefs([calls EXCEPT ![Len(calls)] = c], t) = BlockRefs(calls, t) \ {r}
            /\ r \in BlockRefs(calls, t) <=> calls[n].blocks[Len(calls[n].blocks)] = t
        BY <1>1, <1>2, <1>4, BlocksShrink
      <3>4. calls' = [calls EXCEPT ![Len(calls)] = c]
        BY <1>1
      <3> HIDE DEF r
      <3>5. BlockRefs(calls', t) = BlockRefs(calls, t) \ {r} /\ (r \in BlockRefs(calls, t) <=> s = t)
        BY <1>2, <1>4, <3>3, <3>4
      <3>6. /\ Cardinality(PoolRefs(pool, t)) \in Nat
            /\ Cardinality(FrameRefs(calls, t)) \in Nat
            /\ Cardinality(BlockRefs(calls, t)) \in Nat
            /\ Cardinality(SlotRefs(held, t)) \in Nat
        BY <3>1, RefsAreCounted
      <3> DEFINE d == IF s = t THEN -1 ELSE 0
      <3>7. /\ IsFiniteSet(BlockRefs(calls', t))
            /\ Cardinality(BlockRefs(calls', t)) = Cardinality(BlockRefs(calls, t)) + d
        <4>1. CASE s = t
          <5>1. /\ IsFiniteSet(BlockRefs(calls', t))
                /\ Cardinality(BlockRefs(calls', t)) = Cardinality(BlockRefs(calls, t)) - 1
            BY <3>1, <3>5, <4>1, OneLess DEF Finite
          <5> QED
            BY <3>6, <4>1, <5>1
        <4>2. CASE s # t
          <5>1. BlockRefs(calls', t) = BlockRefs(calls, t)
            BY <3>5, <4>2
          <5> QED
            BY <3>1, <3>6, <4>2, <5>1 DEF Finite
        <4> QED
          BY <4>1, <4>2
      <3>8. Finite(pool', calls', held', t)
        BY <1>1, <3>1, <3>2, <3>7 DEF Finite
      <3>9. /\ Cardinality(PoolRefs(pool', t)) = Cardinality(PoolRefs(pool, t)) + 0
            /\ Cardinality(FrameRefs(calls', t)) = Cardinality(FrameRefs(calls, t)) + 0
            /\ Cardinality(SlotRefs(held', t)) = Cardinality(SlotRefs(held, t)) + 0
        BY <1>1, <3>2, <3>6
      <3>10. d \in Int
        OBVIOUS
      <3> HIDE DEF d
      <3>0. Finite(pool, calls, held, t)
        BY <3>1
      <3>11. Refs(pool', calls', held', t) = Refs(pool, calls, held, t) + 0 + 0 + d + 0
        BY <3>0, <3>7, <3>9, <3>10, RefsMove
      <3>12. tab[t].rc \in Nat /\ tab'[t].rc = tab[t].rc - (IF s = t THEN 1 ELSE 0)
        BY <1>9 DEF FramesInv, TypeOK
      <3> QED
        BY <3>1, <3>8, <3>11, <3>12 DEF d
    <2> QED
      BY <2>1 DEF Counted
  <1>12. PooledIsFresh'
    <2>1. PooledIsFresh /\ \A i \in 1..Len(pool) : pool[i] \in Tabs
      BY ElementOfSeq DEF FramesInv, TypeOK
    <2>2. \A i \in 1..Len(pool) : pool[i] # s
      BY <1>2, <1>3, ReferredIsNotPooled
    <2>3. \A i \in 1..Len(pool) : tab'[pool[i]] = tab[pool[i]]
      BY <1>9, <2>1, <2>2
    <2>4. pool' = pool
      BY <1>1
    <2> QED
      BY <2>1, <2>3, <2>4, StillFresh
  <1>13. \A i \in 1..n : /\ calls'[i].frame = calls[i].frame
                         /\ calls'[i].returned = calls[i].returned
                         /\ calls'[i].clo = calls[i].clo
                         /\ calls'[i].bound = calls[i].bound
    BY <1>1, <1>4, <1>5
  <1>14. FrameIsThere'
    <2>1. FrameIsThere
      BY DEF FramesInv
    <2>2. ASSUME NEW i \in 1..Len(calls), ~calls[i].returned,
                 calls[i].bound < Len(calls[i].clo.params)
          PROVE  tab'[calls[i].frame].rc = tab[calls[i].frame].rc
      <3>1. calls[i].frame # s /\ calls[i].frame \in Tabs
        BY <1>1, <2>2, ScopeIsNotBinding, BindingFrameIsOwn DEF s
      <3> QED
        BY <1>9, <3>1
    <2> QED
      BY <1>5, <1>13, <2>1, <2>2, StillThere
  <1>15. FramesAreOwn'
    <2>1. FramesAreOwn
      BY DEF FramesInv
    <2> QED
      BY <1>5, <1>13, <2>1, StillOwn
  <1> QED
    BY <1>9, <1>10, <1>11, <1>12, <1>14, <1>15 DEF FramesInv

LEMMA ForgetKeeps ==
  ASSUME NEW leak \in Leaks, FramesInv(leak),
         NEW h \in Slots, Forget(h)
  PROVE  FramesInv(leak)'
  <1> DEFINE s == held[h]
  <1>1. /\ s # NoTab /\ held' = [held EXCEPT ![h] = NoTab]
        /\ tab' = Release(tab, <<s>>)
        /\ pool' = pool /\ calls' = calls /\ read' = read
    BY DEF Forget
  <1>2. held \in [Slots -> Tabs \cup {NoTab}]
    BY DEF FramesInv, TypeOK
  <1>3. s \in Tabs /\ h \in SlotRefs(held, s)
    BY <1>1, <1>2, HeldHasRef
  <1>4. held[h] = s
    OBVIOUS
  <1> HIDE DEF s
  <1>5. \A t \in Tabs : Dropped(t, <<s>>) = IF s = t THEN 1 ELSE 0
    BY DroppedOne
  <1>6. tab[s].rc \in Nat \ {0}
    BY <1>3, ReferredIsNotFree
  <1>7. \A t \in Tabs : Dropped(t, <<s>>) \in Nat /\ Dropped(t, <<s>>) <= tab[t].rc
    <2>1. \A t \in Tabs : tab[t].rc \in Nat
      BY DEF FramesInv, TypeOK
    <2> QED
      BY <1>5, <1>6, <2>1
  <1>8. /\ tab' \in [Tabs -> TabType]
        /\ FreeIsEmpty' /\ KeysUnique'
        /\ \A t \in Tabs : tab'[t].rc = tab[t].rc - (IF s = t THEN 1 ELSE 0)
        /\ \A t \in Tabs : s # t => tab'[t] = tab[t]
    BY <1>1, <1>5, <1>7, ReleasedFacts
  <1>9. TypeOK'
    BY <1>1, <1>2, <1>8 DEF FramesInv, TypeOK, TabType
  <1>10. Counted(leak)'
    <2>1. ASSUME NEW t \in Tabs
          PROVE  /\ Finite(pool', calls', held', t)
                 /\ tab'[t].rc = Refs(pool', calls', held', t) + leak[t]
      <3>1. /\ Finite(pool, calls, held, t) /\ leak[t] \in Nat
            /\ tab[t].rc = Refs(pool, calls, held, t) + leak[t]
            /\ Refs(pool, calls, held, t) \in Nat
        BY CountedIs DEF FramesInv
      <3>2. SlotRefs(held', t) = SlotRefs(held, t) \ {h} /\ (h \in SlotRefs(held, t) <=> s = t)
        BY <1>1, <1>2, <1>4, FramesAssumption DEF SlotRefs
      <3>3. /\ Cardinality(PoolRefs(pool, t)) \in Nat
            /\ Cardinality(FrameRefs(calls, t)) \in Nat
            /\ Cardinality(BlockRefs(calls, t)) \in Nat
            /\ Cardinality(SlotRefs(held, t)) \in Nat
        BY <3>1, RefsAreCounted
      <3> DEFINE d == IF s = t THEN -1 ELSE 0
      <3>4. /\ IsFiniteSet(SlotRefs(held', t))
            /\ Cardinality(SlotRefs(held', t)) = Cardinality(SlotRefs(held, t)) + d
        <4>1. CASE s = t
          <5>1. /\ IsFiniteSet(SlotRefs(held', t))
                /\ Cardinality(SlotRefs(held', t)) = Cardinality(SlotRefs(held, t)) - 1
            BY <3>1, <3>2, <4>1, OneLess DEF Finite
          <5> QED
            BY <3>3, <4>1, <5>1
        <4>2. CASE s # t
          <5>1. SlotRefs(held', t) = SlotRefs(held, t)
            BY <3>2, <4>2
          <5> QED
            BY <3>1, <3>3, <4>2, <5>1 DEF Finite
        <4> QED
          BY <4>1, <4>2
      <3>5. Finite(pool', calls', held', t)
        BY <1>1, <3>1, <3>4 DEF Finite
      <3>6. /\ Cardinality(PoolRefs(pool', t)) = Cardinality(PoolRefs(pool, t)) + 0
            /\ Cardinality(FrameRefs(calls', t)) = Cardinality(FrameRefs(calls, t)) + 0
            /\ Cardinality(BlockRefs(calls', t)) = Cardinality(BlockRefs(calls, t)) + 0
        BY <1>1, <3>3
      <3>7. d \in Int
        OBVIOUS
      <3> HIDE DEF d
      <3>0. Finite(pool, calls, held, t)
        BY <3>1
      <3>8. Refs(pool', calls', held', t) = Refs(pool, calls, held, t) + 0 + 0 + 0 + d
        BY <3>0, <3>4, <3>6, <3>7, RefsMove
      <3>9. tab[t].rc \in Nat /\ tab'[t].rc = tab[t].rc - (IF s = t THEN 1 ELSE 0)
        BY <1>8 DEF FramesInv, TypeOK
      <3> QED
        BY <3>1, <3>5, <3>8, <3>9 DEF d
    <2> QED
      BY <2>1 DEF Counted
  <1>11. PooledIsFresh'
    <2>1. PooledIsFresh /\ \A i \in 1..Len(pool) : pool[i] \in Tabs
      BY ElementOfSeq DEF FramesInv, TypeOK
    <2>2. \A i \in 1..Len(pool) : pool[i] # s
      BY <1>3, ReferredIsNotPooled
    <2>3. \A i \in 1..Len(pool) : tab'[pool[i]] = tab[pool[i]]
      BY <1>8, <2>1, <2>2
    <2>4. pool' = pool
      BY <1>1
    <2> QED
      BY <2>1, <2>3, <2>4, StillFresh
  <1>12. FrameIsThere'
    <2>1. FrameIsThere
      BY DEF FramesInv
    <2>2. ASSUME NEW i \in 1..Len(calls), ~calls[i].returned,
                 calls[i].bound < Len(calls[i].clo.params)
          PROVE  tab'[calls[i].frame].rc = tab[calls[i].frame].rc
      <3>1. calls[i].frame \in Tabs /\ SlotRefs(held, calls[i].frame) = {}
        BY <2>2, BindingFrameIsOwn
      <3>2. calls[i].frame # s
        BY <1>3, <3>1
      <3> QED
        BY <1>8, <3>1, <3>2
    <2>3. calls' = calls
      BY <1>1
    <2> QED
      BY <2>1, <2>2, <2>3, StillThere
  <1>13. FramesAreOwn'
    <2>1. FramesAreOwn /\ calls' = calls
      BY <1>1 DEF FramesInv
    <2> QED
      BY <2>1, StillOwn
  <1> QED
    BY <1>8, <1>9, <1>10, <1>11, <1>12, <1>13 DEF FramesInv

LEMMA LeaveFacts ==
  ASSUME NEW leak \in Leaks, FramesInv(leak),
         Leave
  PROVE  LET n == Len(calls)
             ts == IF Top.frame = NoTab THEN Top.blocks ELSE Append(Top.blocks, Top.frame)
         IN  /\ n \in 1..n
             /\ calls' = SubSeq(calls, 1, n - 1) /\ calls' \in Seq(Call)
             /\ Len(calls') = n - 1 /\ \A i \in 1..n - 1 : calls'[i] = calls[i]
             /\ pool' = pool /\ held' = held /\ read' = read
             /\ tab' = Release(tab, ts)
             /\ \A t \in Tabs :
                  /\ Finite(pool', calls', held', t)
                  /\ Dropped(t, ts) \in Nat /\ Dropped(t, ts) <= tab[t].rc
                  /\ tab[t].rc - Dropped(t, ts) = Refs(pool', calls', held', t) + leak[t]
                  /\ Dropped(t, ts) # 0 => \/ Len(calls) \in FrameRefs(calls, t)
                                           \/ BlockRefs(calls, t) # {}
  <1> DEFINE n == Len(calls)
             ts == IF Top.frame = NoTab THEN Top.blocks ELSE Append(Top.blocks, Top.frame)
  <1>1. /\ calls # <<>> /\ calls' = SubSeq(calls, 1, n - 1)
        /\ tab' = Release(tab, ts)
        /\ pool' = pool /\ held' = held /\ read' = read
    BY DEF Leave
  <1>2. /\ n \in 1..n /\ n > 0 /\ Top.blocks \in Seq(Tabs)
        /\ Top.frame \in Tabs \cup {NoTab}
    BY <1>1, TopIsTyped DEF FramesInv
  <1>3. calls \in Seq(Call) /\ calls[n] = Top
    BY DEF FramesInv, TypeOK, Top
  <1>4. /\ calls' \in Seq(Call)
        /\ Len(calls') = n - 1 /\ \A i \in 1..n - 1 : calls'[i] = calls[i]
    BY <1>1, <1>2, <1>3, FrontIsShorter
  <1>5. ASSUME NEW t \in Tabs
        PROVE  /\ Finite(pool', calls', held', t)
               /\ Dropped(t, ts) \in Nat /\ Dropped(t, ts) <= tab[t].rc
               /\ tab[t].rc - Dropped(t, ts) = Refs(pool', calls', held', t) + leak[t]
               /\ Dropped(t, ts) # 0 => \/ n \in FrameRefs(calls, t)
                                        \/ BlockRefs(calls, t) # {}
    <2> DEFINE D == Dropped(t, Top.blocks)
               d == IF Top.frame = t THEN 1 ELSE 0
               L == LastBlocks(calls, t)
    <2>1. LET ds == SubSeq(calls, 1, Len(calls) - 1)
          IN  /\ FrameRefs(ds, t) = FrameRefs(calls, t) \ {Len(calls)}
              /\ Len(calls) \in FrameRefs(calls, t) <=> calls[Len(calls)].frame = t
              /\ BlockRefs(ds, t) = BlockRefs(calls, t) \ LastBlocks(calls, t)
              /\ LastBlocks(calls, t) \subseteq BlockRefs(calls, t)
              /\ IsFiniteSet(LastBlocks(calls, t))
              /\ Cardinality(LastBlocks(calls, t)) = Dropped(t, calls[Len(calls)].blocks)
              /\ Dropped(t, calls[Len(calls)].blocks) \in Nat
      BY <1>2, <1>3, RefsOfPopped
    <2> HIDE DEF L
    <2>2. /\ FrameRefs(calls', t) = FrameRefs(calls, t) \ {n}
          /\ n \in FrameRefs(calls, t) <=> Top.frame = t
          /\ BlockRefs(calls', t) = BlockRefs(calls, t) \ L
          /\ L \subseteq BlockRefs(calls, t)
          /\ IsFiniteSet(L) /\ Cardinality(L) = D /\ D \in Nat
      BY <1>1, <1>3, <2>1 DEF L
    <2>3. /\ Finite(pool, calls, held, t) /\ leak[t] \in Nat
          /\ tab[t].rc = Refs(pool, calls, held, t) + leak[t]
          /\ Refs(pool, calls, held, t) \in Nat
      BY CountedIs DEF FramesInv
    <2>4. /\ Cardinality(PoolRefs(pool, t)) \in Nat
          /\ Cardinality(FrameRefs(calls, t)) \in Nat
          /\ Cardinality(BlockRefs(calls, t)) \in Nat
          /\ Cardinality(SlotRefs(held, t)) \in Nat
      BY <2>3, RefsAreCounted
    <2>5. Dropped(t, ts) = D + d
      <3>1. CASE Top.frame = NoTab
        <4>1. d = 0
          BY <3>1, FramesAssumption
        <4>2. Dropped(t, ts) = D
          BY <3>1
        <4> QED
          BY <2>2, <4>1, <4>2
      <3>2. CASE Top.frame # NoTab
        <4>1. Top.frame \in Tabs
          BY <1>2, <3>2
        <4> QED
          BY <1>2, <3>2, <4>1, DroppedMore
      <3> QED
        BY <3>1, <3>2
    <2>6. /\ IsFiniteSet(FrameRefs(calls', t))
          /\ Cardinality(FrameRefs(calls', t)) = Cardinality(FrameRefs(calls, t)) - d
          /\ d <= Cardinality(FrameRefs(calls, t))
      <3>1. CASE Top.frame = t
        <4>1. /\ IsFiniteSet(FrameRefs(calls', t))
              /\ Cardinality(FrameRefs(calls, t)) \in Nat \ {0}
              /\ Cardinality(FrameRefs(calls', t)) = Cardinality(FrameRefs(calls, t)) - 1
          <5>1. IsFiniteSet(FrameRefs(calls, t)) /\ n \in FrameRefs(calls, t)
            BY <2>2, <2>3, <3>1 DEF Finite
          <5> QED
            BY <2>2, <5>1, OneLess
        <4> QED
          BY <3>1, <4>1
      <3>2. CASE Top.frame # t
        <4>1. FrameRefs(calls', t) = FrameRefs(calls, t)
          BY <2>2, <3>2
        <4> QED
          BY <2>3, <2>4, <3>2, <4>1 DEF Finite
      <3> QED
        BY <3>1, <3>2
    <2>7. /\ IsFiniteSet(BlockRefs(calls', t))
          /\ Cardinality(BlockRefs(calls', t)) = Cardinality(BlockRefs(calls, t)) - D
          /\ D <= Cardinality(BlockRefs(calls, t))
      <3>1. IsFiniteSet(BlockRefs(calls, t))
        BY <2>3 DEF Finite
      <3>2. BlockRefs(calls, t) \cap L = L
        BY <2>2
      <3>3. /\ IsFiniteSet(BlockRefs(calls, t) \ L)
            /\ Cardinality(BlockRefs(calls, t) \ L)
                 = Cardinality(BlockRefs(calls, t)) - Cardinality(BlockRefs(calls, t) \cap L)
        BY <3>1, FS_Difference
      <3>4. Cardinality(L) <= Cardinality(BlockRefs(calls, t))
        BY <2>2, <3>1, FS_Subset
      <3> QED
        BY <2>2, <3>2, <3>3, <3>4
    <2>8. D # 0 => BlockRefs(calls, t) # {}
      BY <2>2, FS_EmptySet
    <2>9. Finite(pool', calls', held', t)
      BY <1>1, <2>3, <2>6, <2>7 DEF Finite
    <2>10. d \in Nat /\ (d # 0 => n \in FrameRefs(calls, t))
      BY <2>2
    <2>11. Refs(pool, calls, held, t) - (D + d) \in Nat
           /\ Refs(pool', calls', held', t) = Refs(pool, calls, held, t) - (D + d)
      <3>1. /\ Cardinality(PoolRefs(pool', t)) = Cardinality(PoolRefs(pool, t))
            /\ Cardinality(SlotRefs(held', t)) = Cardinality(SlotRefs(held, t))
        BY <1>1
      <3> HIDE DEF D, d
      <3> QED
        BY <2>2, <2>4, <2>6, <2>7, <2>10, <3>1 DEF Refs
    <2> HIDE DEF D, d, ts
    <2>12. Dropped(t, ts) \in Nat /\ Dropped(t, ts) <= tab[t].rc
      <3>1. tab[t].rc \in Nat /\ tab[t].rc - (D + d) \in Nat
        BY <2>2, <2>3, <2>10, <2>11
      <3> QED
        BY <2>2, <2>5, <2>10, <3>1
    <2>13. Dropped(t, ts) # 0 => D # 0 \/ d # 0
      BY <2>2, <2>5, <2>10
    <2> QED
      BY <2>3, <2>5, <2>8, <2>9, <2>10, <2>11, <2>12, <2>13
  <1> QED
    BY <1>1, <1>2, <1>4, <1>5

LEMMA LeaveKeeps ==
  ASSUME NEW leak \in Leaks, FramesInv(leak),
         Leave
  PROVE  FramesInv(leak)'
  <1> DEFINE n == Len(calls)
             ts == IF Top.frame = NoTab THEN Top.blocks ELSE Append(Top.blocks, Top.frame)
  <1>1. /\ n \in 1..n
        /\ calls' \in Seq(Call)
        /\ Len(calls') = n - 1 /\ \A i \in 1..n - 1 : calls'[i] = calls[i]
        /\ pool' = pool /\ held' = held /\ read' = read
        /\ tab' = Release(tab, ts)
        /\ \A t \in Tabs :
             /\ Finite(pool', calls', held', t)
             /\ Dropped(t, ts) \in Nat /\ Dropped(t, ts) <= tab[t].rc
             /\ tab[t].rc - Dropped(t, ts) = Refs(pool', calls', held', t) + leak[t]
             /\ Dropped(t, ts) # 0 => n \in FrameRefs(calls, t) \/ BlockRefs(calls, t) # {}
    BY LeaveFacts
  <1> HIDE DEF ts
  <1>2. /\ tab' \in [Tabs -> TabType]
        /\ FreeIsEmpty' /\ KeysUnique'
        /\ \A t \in Tabs : /\ tab'[t].rc = tab[t].rc - Dropped(t, ts)
                           /\ Dropped(t, ts) = 0 => tab'[t] = tab[t]
    BY <1>1, ReleasedFacts
  <1>3. TypeOK'
    BY <1>1, <1>2 DEF FramesInv, TypeOK, TabType
  <1>4. Counted(leak)'
    BY <1>1, <1>2 DEF Counted
  <1>5. PooledIsFresh'
    <2>1. PooledIsFresh /\ \A i \in 1..Len(pool) : pool[i] \in Tabs
      BY ElementOfSeq DEF FramesInv, TypeOK
    <2>2. ASSUME NEW i \in 1..Len(pool)
          PROVE  tab'[pool[i]] = tab[pool[i]]
      <3>1. Dropped(pool[i], ts) = 0
        BY <1>1, <2>1, ReferredIsNotPooled
      <3> QED
        BY <1>2, <2>1, <3>1
    <2>3. pool' = pool
      BY <1>1
    <2> QED
      BY <2>1, <2>2, <2>3, StillFresh
  <1>6. FrameIsThere'
    <2>1. FrameIsThere
      BY DEF FramesInv
    <2>2. ASSUME NEW i \in 1..n - 1, ~calls[i].returned
          PROVE  /\ calls[i].frame \in Tabs
                 /\ calls[i].bound < Len(calls[i].clo.params) => tab'[calls[i].frame].rc = 1
      <3>1. i \in 1..Len(calls) /\ i # n
        BY <1>1
      <3>2. calls[i].frame \in Tabs
        BY <2>1, <2>2, <3>1 DEF FrameIsThere
      <3>3. ASSUME calls[i].bound < Len(calls[i].clo.params)
            PROVE  tab'[calls[i].frame].rc = 1
        <4>1. /\ FrameRefs(calls, calls[i].frame) = {i}
              /\ BlockRefs(calls, calls[i].frame) = {}
              /\ tab[calls[i].frame].rc = 1
          BY <2>2, <3>1, <3>3, BindingFrameIsOwn
        <4>2. Dropped(calls[i].frame, ts) = 0
          BY <1>1, <3>1, <3>2, <4>1
        <4> QED
          BY <1>2, <3>2, <4>1, <4>2
      <3> QED
        BY <3>2, <3>3
    <2> HIDE DEF n
    <2> QED
      BY <1>1, <2>2 DEF FrameIsThere
  <1>7. FramesAreOwn'
    <2>1. FramesAreOwn /\ n = Len(calls)
      BY DEF FramesInv
    <2>2. \A i \in 1..n - 1 : i \in 1..n /\ calls'[i].frame = calls[i].frame
      BY <1>1
    <2> HIDE DEF n
    <2> QED
      BY <1>1, <2>1, <2>2 DEF FramesAreOwn
  <1> QED
    BY <1>2, <1>3, <1>4, <1>5, <1>6, <1>7 DEF FramesInv

----------------------------------------------------------------------------
LEMMA ReturnFacts ==
  ASSUME NEW leak \in Leaks, FramesInv(leak),
         Return
  PROVE  LET f == Top.frame
             c == [Top EXCEPT !.returned = TRUE,
                              !.frame = IF Pooled(@) THEN NoTab ELSE @]
         IN  /\ calls # <<>> /\ InBody(Top) /\ Top.blocks = <<>>
             /\ f \in Tabs
             /\ tab' \in [Tabs -> TabType]
             /\ \A t \in Tabs : /\ tab'[t].rc = tab[t].rc
                                /\ t # f => tab'[t] = tab[t]
             /\ tab'[f].env = IF Unshared(f) THEN <<>> ELSE tab[f].env
             /\ pool' = IF Pooled(f) THEN Append(pool, f) ELSE pool
             /\ c \in Call /\ c.clo = Top.clo /\ c.returned = TRUE
             /\ c.frame = (IF Pooled(f) THEN NoTab ELSE f)
             /\ c.bound = Top.bound /\ c.blocks = Top.blocks
             /\ calls' = [calls EXCEPT ![Len(calls)] = c]
             /\ held' = held /\ read' = read
  <1> DEFINE f == Top.frame
             c == [Top EXCEPT !.returned = TRUE,
                              !.frame = IF Pooled(@) THEN NoTab ELSE @]
  <1>1. /\ calls # <<>> /\ InBody(Top) /\ Top.blocks = <<>>
        /\ tab' = IF Unshared(f) THEN [tab EXCEPT ![f].env = <<>>] ELSE tab
        /\ pool' = IF Pooled(f) THEN Append(pool, f) ELSE pool
        /\ calls' = [calls EXCEPT ![Len(calls)] = c]
        /\ held' = held /\ read' = read
    BY DEF Return, Update
  <1>2. Top \in Call /\ f \in Tabs
    BY <1>1, TopIsTyped DEF FramesInv, InBody
  <1>3. tab \in [Tabs -> TabType] /\ tab[f] \in TabType
    BY <1>2 DEF FramesInv, TypeOK, TabType
  <1>4. /\ tab' \in [Tabs -> TabType]
        /\ \A t \in Tabs : /\ tab'[t].rc = tab[t].rc
                           /\ t # f => tab'[t] = tab[t]
        /\ tab'[f].env = IF Unshared(f) THEN <<>> ELSE tab[f].env
    <2> HIDE DEF f
    <2>1. CASE Unshared(f)
      <3>1. tab' = [tab EXCEPT ![f] = [tab[f] EXCEPT !.env = <<>>]]
        BY <1>1, <2>1
      <3>2. /\ [tab[f] EXCEPT !.env = <<>>] \in TabType
            /\ [tab[f] EXCEPT !.env = <<>>].rc = tab[f].rc
            /\ [tab[f] EXCEPT !.env = <<>>].env = <<>>
        BY <1>3, EmptyIsOneEach DEF TabType
      <3> QED
        BY <1>2, <1>3, <2>1, <3>1, <3>2
    <2>2. CASE ~Unshared(f)
      BY <1>1, <1>3, <2>2
    <2> QED
      BY <2>1, <2>2
  <1>5. /\ c \in Call /\ c.clo = Top.clo /\ c.returned = TRUE
        /\ c.frame = (IF Pooled(f) THEN NoTab ELSE f)
        /\ c.bound = Top.bound /\ c.blocks = Top.blocks
    BY <1>2 DEF Call
  <1> QED
    BY <1>1, <1>2, <1>4, <1>5

LEMMA ReturnKeeps ==
  ASSUME NEW leak \in Leaks, FramesInv(leak),
         Return
  PROVE  FramesInv(leak)'
  <1> DEFINE n == Len(calls)
             f == Top.frame
             c == [Top EXCEPT !.returned = TRUE,
                              !.frame = IF Pooled(@) THEN NoTab ELSE @]
  <1>1. /\ calls # <<>> /\ f \in Tabs
        /\ tab' \in [Tabs -> TabType]
        /\ \A t \in Tabs : /\ tab'[t].rc = tab[t].rc
                           /\ t # f => tab'[t] = tab[t]
        /\ tab'[f].env = IF Unshared(f) THEN <<>> ELSE tab[f].env
        /\ pool' = IF Pooled(f) THEN Append(pool, f) ELSE pool
        /\ c \in Call /\ c.clo = Top.clo /\ c.returned = TRUE
        /\ c.frame = (IF Pooled(f) THEN NoTab ELSE f)
        /\ c.blocks = Top.blocks
        /\ calls' = [calls EXCEPT ![n] = c]
        /\ held' = held /\ read' = read
    BY ReturnFacts
  <1>2. n \in 1..n /\ n > 0
    BY <1>1, TopIsTyped DEF FramesInv
  <1> HIDE DEF f, c
  <1>3. calls \in Seq(Call) /\ calls[n] = Top /\ calls[n].frame = f
    BY DEF FramesInv, TypeOK, Top, f
  <1>4. /\ calls' \in Seq(Call) /\ Len(calls') = n
        /\ \A i \in 1..n : calls'[i] = IF i = n THEN c ELSE calls[i]
    BY <1>1, <1>2, <1>3, CallsUpdated
  <1>5. pool \in Seq(Tabs) /\ Len(pool) \in Nat /\ Len(pool) <= PoolMax
    BY LenProperties DEF FramesInv, TypeOK
  <1>6. /\ pool' \in Seq(Tabs) /\ Len(pool') <= PoolMax
        /\ \A i \in 1..Len(pool') : IF i <= Len(pool) THEN pool'[i] = pool[i]
                                    ELSE Pooled(f) /\ pool'[i] = f /\ i = Len(pool) + 1
        /\ Pooled(f) => Len(pool') = Len(pool) + 1 /\ pool'[Len(pool) + 1] = f
        /\ ~Pooled(f) => pool' = pool
    <2>1. CASE Pooled(f)
      <3>1. pool' = Append(pool, f) /\ Len(pool) < PoolMax /\ PoolMax \in Nat
        BY <1>1, <2>1, FramesAssumption DEF Pooled
      <3>2. /\ pool' \in Seq(Tabs) /\ Len(pool') = Len(pool) + 1
            /\ \A i \in 1..Len(pool) : pool'[i] = pool[i]
            /\ pool'[Len(pool) + 1] = f
        BY <1>1, <1>5, <3>1, AppendProperties
      <3>3. Len(pool) + 1 <= PoolMax
        BY <1>5, <3>1
      <3>4. \A i \in 1..Len(pool') : IF i <= Len(pool) THEN i \in 1..Len(pool)
                                     ELSE i = Len(pool) + 1
        BY <1>5, <3>2
      <3> QED
        BY <2>1, <3>2, <3>3, <3>4
    <2>2. CASE ~Pooled(f)
      BY <1>1, <1>5, <2>2
    <2> QED
      BY <2>1, <2>2
  <1>7. TypeOK'
    BY <1>1, <1>4, <1>6 DEF FramesInv, TypeOK, TabType
  <1>8. n \in FrameRefs(calls, f)
    BY <1>2, <1>3 DEF FrameRefs
  <1>9. Counted(leak)'
    <2>1. ASSUME NEW t \in Tabs
          PROVE  /\ Finite(pool', calls', held', t)
                 /\ tab'[t].rc = Refs(pool', calls', held', t) + leak[t]
      <3>1. /\ Finite(pool, calls, held, t) /\ leak[t] \in Nat
            /\ tab[t].rc = Refs(pool, calls, held, t) + leak[t]
            /\ Refs(pool, calls, held, t) \in Nat
        BY CountedIs DEF FramesInv
      <3>2. BlockRefs(calls', t) = BlockRefs(calls, t)
        BY <1>1, <1>2, <1>3, BlocksKept
      <3>3. SlotRefs(held', t) = SlotRefs(held, t)
        BY <1>1
      <3>4. tab'[t].rc = tab[t].rc
        BY <1>1
      <3>5. CASE Pooled(f) /\ t = f
        <4>1. FrameRefs(calls', t) = FrameRefs(calls, t) \ {n}
          <5>1. c.frame # t /\ calls' = [calls EXCEPT ![Len(calls)] = c]
            BY <1>1, <3>5, FramesAssumption
          <5>2. FrameRefs([calls EXCEPT ![Len(calls)] = c], t) =
                  IF c.frame = t THEN FrameRefs(calls, t) \cup {Len(calls)}
                  ELSE FrameRefs(calls, t) \ {Len(calls)}
            BY <1>1, <1>2, <1>3, FrameRefsOfUpdated
          <5> QED
            BY <5>1, <5>2
        <4>2. PoolRefs(pool', t) = PoolRefs(pool, t) \cup {Len(pool) + 1}
          BY <1>5, <1>6, <3>5 DEF PoolRefs
        <4>3. Len(pool) + 1 \notin PoolRefs(pool, t)
          BY <1>5 DEF PoolRefs
        <4>4. /\ IsFiniteSet(PoolRefs(pool', t)) /\ Cardinality(PoolRefs(pool, t)) \in Nat
              /\ Cardinality(PoolRefs(pool', t)) = Cardinality(PoolRefs(pool, t)) + 1
          BY <3>1, <4>2, <4>3, OneMore DEF Finite
        <4>5. /\ IsFiniteSet(FrameRefs(calls', t)) /\ Cardinality(FrameRefs(calls, t)) \in Nat
              /\ Cardinality(FrameRefs(calls', t)) = Cardinality(FrameRefs(calls, t)) - 1
          <5>1. n \in FrameRefs(calls, t) /\ IsFiniteSet(FrameRefs(calls, t))
            BY <1>8, <3>1, <3>5 DEF Finite
          <5> QED
            BY <4>1, <5>1, OneLess
        <4>6. Finite(pool', calls', held', t)
          BY <3>1, <3>2, <3>3, <4>4, <4>5 DEF Finite
        <4>7. /\ Cardinality(BlockRefs(calls, t)) \in Nat
              /\ Cardinality(SlotRefs(held, t)) \in Nat
          BY <3>1, RefsAreCounted
        <4>8. /\ Cardinality(BlockRefs(calls', t)) = Cardinality(BlockRefs(calls, t)) + 0
              /\ Cardinality(SlotRefs(held', t)) = Cardinality(SlotRefs(held, t)) + 0
          BY <3>2, <3>3, <4>7
        <4>9. Cardinality(FrameRefs(calls', t)) = Cardinality(FrameRefs(calls, t)) + (-1)
          BY <4>5
        <4>10. Refs(pool', calls', held', t) = Refs(pool, calls, held, t) + 1 + (-1) + 0 + 0
          BY <3>1, <4>4, <4>8, <4>9, RefsMove
        <4>11. tab[t].rc \in Nat
          BY DEF FramesInv, TypeOK
        <4> QED
          BY <3>1, <3>4, <4>6, <4>10, <4>11
      <3>6. CASE ~(Pooled(f) /\ t = f)
        <4>1. PoolRefs(pool', t) = PoolRefs(pool, t)
          <5>1. CASE ~Pooled(f)
            BY <1>6, <5>1
          <5>2. CASE Pooled(f)
            BY <1>5, <1>6, <3>6, <5>2 DEF PoolRefs
          <5> QED
            BY <5>1, <5>2
        <4>2. FrameRefs(calls', t) = FrameRefs(calls, t)
          <5>1. /\ FrameRefs([calls EXCEPT ![Len(calls)] = c], t) =
                     IF c.frame = t THEN FrameRefs(calls, t) \cup {Len(calls)}
                     ELSE FrameRefs(calls, t) \ {Len(calls)}
                /\ Len(calls) \in FrameRefs(calls, t) <=> calls[Len(calls)].frame = t
            BY <1>1, <1>2, <1>3, FrameRefsOfUpdated
          <5>2. c.frame = t <=> calls[n].frame = t
            BY <1>1, <1>3, <3>6, FramesAssumption
          <5>3. calls' = [calls EXCEPT ![Len(calls)] = c]
            BY <1>1
          <5>4. CASE c.frame = t
            BY <5>1, <5>2, <5>3, <5>4
          <5>5. CASE c.frame # t
            BY <5>1, <5>2, <5>3, <5>5
          <5> QED
            BY <5>4, <5>5
        <4> QED
          BY <3>1, <3>2, <3>3, <3>4, <4>1, <4>2, Zenon DEF Finite, Refs
      <3> QED
        BY <3>5, <3>6
    <2> QED
      BY <2>1 DEF Counted
  <1>10. FreeIsEmpty'
    <2>1. tab[f].rc # 0
      BY <1>1, <1>8, ReferredIsNotFree
    <2> QED
      BY <1>1, <2>1 DEF FramesInv, FreeIsEmpty
  <1>11. PooledIsFresh'
    <2>1. PooledIsFresh /\ \A i \in 1..Len(pool) : pool[i] \in Tabs
      BY ElementOfSeq DEF FramesInv, TypeOK
    <2>2. \A i \in 1..Len(pool) : pool[i] # f
      BY <1>1, <1>8, ReferredIsNotPooled
    <2>3. \A i \in 1..Len(pool) : tab'[pool[i]].rc = 1 /\ tab'[pool[i]].env = <<>>
      BY <1>1, <2>1, <2>2 DEF PooledIsFresh
    <2>4. Pooled(f) => tab'[f].rc = 1 /\ tab'[f].env = <<>>
      BY <1>1 DEF Pooled, Unshared
    <2>5. ASSUME NEW i \in 1..Len(pool')
          PROVE  tab'[pool'[i]].rc = 1 /\ tab'[pool'[i]].env = <<>>
      <3>1. CASE i <= Len(pool)
        <4>1. i \in 1..Len(pool) /\ pool'[i] = pool[i]
          BY <1>5, <1>6, <3>1
        <4> QED
          BY <2>3, <4>1
      <3>2. CASE ~(i <= Len(pool))
        BY <1>6, <2>4, <3>2
      <3> QED
        BY <3>1, <3>2
    <2> QED
      BY <2>5 DEF PooledIsFresh
  <1>12. FrameIsThere'
    <2>1. FrameIsThere
      BY DEF FramesInv
    <2>2. \A i \in 1..n :
            ~calls'[i].returned =>
              /\ ~calls[i].returned
              /\ calls'[i].frame = calls[i].frame /\ calls'[i].clo = calls[i].clo
              /\ calls'[i].bound = calls[i].bound
      BY <1>1, <1>4
    <2>3. \A i \in 1..n : ~calls[i].returned => tab'[calls[i].frame].rc = tab[calls[i].frame].rc
      BY <1>1, <2>1 DEF FrameIsThere
    <2> QED
      BY <1>4, <2>1, <2>2, <2>3, StillThere
  <1>13. FramesAreOwn'
    <2>1. FramesAreOwn
      BY DEF FramesInv
    <2>2. \A i \in 1..n : calls'[i].frame # NoTab => calls'[i].frame = calls[i].frame
      <3> TAKE i \in 1..n
      <3>1. c.frame = NoTab \/ c.frame = f
        BY <1>1
      <3>2. (calls'[i] = c /\ calls[i].frame = f) \/ calls'[i] = calls[i]
        BY <1>3, <1>4
      <3> QED
        BY <3>1, <3>2
    <2> QED
      BY <1>4, <2>1, <2>2, StillOwn
  <1>14. KeysUnique'
    <2>1. KeysUnique
      BY DEF FramesInv
    <2>2. OneBindingEach(tab'[f].env)
      BY <1>1, <2>1, EmptyIsOneEach DEF KeysUnique
    <2> QED
      BY <1>1, <2>1, <2>2 DEF KeysUnique
  <1> QED
    BY <1>7, <1>9, <1>10, <1>11, <1>12, <1>13, <1>14 DEF FramesInv

----------------------------------------------------------------------------
(* The frame a call takes: fresh or pooled, and nobody refers to it.        *)
LEMMA EnterFacts ==
  ASSUME NEW leak \in Leaks, FramesInv(leak),
         NEW clo \in Closures, Enter(clo)
  PROVE  \E t \in Tabs :
           LET c == [clo |-> clo, bound |-> 0, returned |-> FALSE,
                     frame |-> t, blocks |-> <<>>]
           IN  /\ c \in Call
               /\ calls' = Append(calls, c)
               /\ held' = held /\ read' = read
               /\ tab' \in [Tabs -> TabType]
               /\ tab'[t].rc = 1 /\ tab'[t].env = clo.captured
               /\ \A u \in Tabs : u # t => tab'[u] = tab[u]
               /\ FrameRefs(calls, t) = {} /\ BlockRefs(calls, t) = {}
               /\ SlotRefs(held, t) = {} /\ PoolRefs(pool', t) = {} /\ leak[t] = 0
               /\ pool' \in Seq(Tabs) /\ Len(pool') <= Len(pool)
               /\ \A i \in 1..Len(pool') : pool'[i] = pool[i]
               /\ \A u \in Tabs : u # t => PoolRefs(pool', u) = PoolRefs(pool, u)
  <1>1. PICK t \in IF pool = <<>> THEN FreeTabs ELSE {pool[Len(pool)]} :
          /\ tab' = [tab EXCEPT ![t] = [rc  |-> 1, env |-> @.env \o clo.captured]]
          /\ calls' = Append(calls, [clo |-> clo, bound |-> 0, returned |-> FALSE,
                                     frame |-> t, blocks |-> <<>>])
    BY DEF Enter
  <1>2. pool' = FrameGet(pool) /\ held' = held /\ read' = read
    BY DEF Enter
  <1>3. pool \in Seq(Tabs) /\ Len(pool) \in Nat
    BY LenProperties DEF FramesInv, TypeOK
  <1>4. /\ t \in Tabs /\ tab[t].env = <<>> /\ tab[t].rc <= 1
        /\ FrameRefs(calls, t) = {} /\ BlockRefs(calls, t) = {}
        /\ SlotRefs(held, t) = {} /\ PoolRefs(pool', t) = {} /\ leak[t] = 0
        /\ pool' \in Seq(Tabs) /\ Len(pool') <= Len(pool)
        /\ \A i \in 1..Len(pool') : pool'[i] = pool[i]
        /\ \A u \in Tabs : u # t => PoolRefs(pool', u) = PoolRefs(pool, u)
    <2>1. CASE pool = <<>>
      <3>1. t \in Tabs /\ tab[t].rc = 0
        BY <1>1, <2>1 DEF FreeTabs
      <3>2. tab[t] = Free
        BY <3>1 DEF FramesInv, FreeIsEmpty
      <3>3. /\ FrameRefs(calls, t) = {} /\ BlockRefs(calls, t) = {}
            /\ SlotRefs(held, t) = {} /\ PoolRefs(pool, t) = {} /\ leak[t] = 0
        BY <3>1, SoleReference
      <3>4. pool' = pool
        BY <1>2, <2>1 DEF FrameGet
      <3> QED
        BY <1>3, <3>1, <3>2, <3>3, <3>4 DEF Free
    <2>2. CASE pool # <<>>
      <3>1. t = pool[Len(pool)] /\ pool' = SubSeq(pool, 1, Len(pool) - 1)
        BY <1>1, <1>2, <2>2 DEF FrameGet
      <3>2. Len(pool) \in Nat \ {0}
        BY <1>3, <2>2, EmptySeq
      <3>3. Len(pool) \in 1..Len(pool)
        BY <3>2
      <3>4. t \in Tabs /\ Len(pool) \in PoolRefs(pool, t)
        BY <1>3, <3>1, <3>3, ElementOfSeq, PooledHasRef
      <3>5. tab[t].rc = 1 /\ tab[t].env = <<>>
        BY <3>1, <3>3 DEF FramesInv, PooledIsFresh
      <3>6. /\ FrameRefs(calls, t) = {} /\ BlockRefs(calls, t) = {}
            /\ SlotRefs(held, t) = {} /\ leak[t] = 0
            /\ \A i \in PoolRefs(pool, t) : i = Len(pool)
        BY <3>4, <3>5, SoleReference
      <3>7. /\ pool' \in Seq(Tabs) /\ Len(pool') = Len(pool) - 1
            /\ \A i \in 1..Len(pool) - 1 : pool'[i] = pool[i]
        BY <1>3, <3>1, <3>2, FrontIsShorter
      <3>8. PoolRefs(pool', t) = {}
        <4>1. ASSUME NEW i \in 1..Len(pool'), pool'[i] = t
              PROVE  FALSE
          <5>1. i \in 1..Len(pool) /\ i # Len(pool) /\ pool[i] = t
            BY <3>2, <3>7, <4>1
          <5>2. i \in PoolRefs(pool, t)
            BY <5>1 DEF PoolRefs
          <5> QED
            BY <3>6, <5>1, <5>2
        <4> QED
          BY <4>1 DEF PoolRefs
      <3>9. ASSUME NEW u \in Tabs, u # t
            PROVE  PoolRefs(pool', u) = PoolRefs(pool, u)
        <4>1. \A i : i \in 1..Len(pool') <=> i \in 1..Len(pool) /\ i # Len(pool)
          BY <3>2, <3>7
        <4>2. \A i \in 1..Len(pool') : pool'[i] = pool[i]
          BY <3>7
        <4> QED
          BY <3>1, <3>9, <4>1, <4>2 DEF PoolRefs
      <3>10. Len(pool') <= Len(pool) /\ tab[t].rc <= 1
        BY <3>2, <3>5, <3>7
      <3> QED
        BY <3>4, <3>5, <3>6, <3>7, <3>8, <3>9, <3>10
    <2> QED
      BY <2>1, <2>2
  <1>5. clo.captured \in Env
    BY ClosuresAreTyped
  <1>6. tab[t].env \o clo.captured = clo.captured
    BY <1>4, <1>5, ConcatEmptySeq DEF Env
  <1> DEFINE e == [rc |-> 1, env |-> clo.captured]
  <1>7. tab' = [tab EXCEPT ![t] = e]
    BY <1>1, <1>6
  <1>8. e \in TabType /\ e.rc = 1 /\ e.env = clo.captured
    BY <1>5 DEF TabType
  <1>9. tab \in [Tabs -> TabType]
    BY DEF FramesInv, TypeOK, TabType
  <1> HIDE DEF e
  <1>10. /\ tab' \in [Tabs -> TabType] /\ tab'[t].rc = 1 /\ tab'[t].env = clo.captured
         /\ \A u \in Tabs : u # t => tab'[u] = tab[u]
    BY <1>4, <1>7, <1>8, <1>9
  <1>11. [clo |-> clo, bound |-> 0, returned |-> FALSE,
          frame |-> t, blocks |-> <<>>] \in Call
    BY <1>4, EmptySeq DEF Call
  <1> QED
    BY <1>1, <1>2, <1>4, <1>10, <1>11

LEMMA EnterKeeps ==
  ASSUME NEW leak \in Leaks, FramesInv(leak),
         NEW clo \in Closures, Enter(clo)
  PROVE  FramesInv(leak)'
  <1> DEFINE n == Len(calls)
             New(t) == [clo |-> clo, bound |-> 0, returned |-> FALSE,
                        frame |-> t, blocks |-> <<>>]
  <1>1. PICK t \in Tabs :
               /\ New(t) \in Call
               /\ calls' = Append(calls, New(t))
               /\ held' = held /\ read' = read
               /\ tab' \in [Tabs -> TabType]
               /\ tab'[t].rc = 1 /\ tab'[t].env = clo.captured
               /\ \A u \in Tabs : u # t => tab'[u] = tab[u]
               /\ FrameRefs(calls, t) = {} /\ BlockRefs(calls, t) = {}
               /\ SlotRefs(held, t) = {} /\ PoolRefs(pool', t) = {} /\ leak[t] = 0
               /\ pool' \in Seq(Tabs) /\ Len(pool') <= Len(pool)
               /\ \A i \in 1..Len(pool') : pool'[i] = pool[i]
               /\ \A u \in Tabs : u # t => PoolRefs(pool', u) = PoolRefs(pool, u)
    BY EnterFacts
  <1> DEFINE c == New(t)
  <1>2. /\ c \in Call /\ c.clo = clo /\ c.bound = 0 /\ c.returned = FALSE
        /\ c.frame = t /\ c.blocks = <<>>
    BY <1>1
  <1>3. calls \in Seq(Call) /\ n \in Nat
    BY CallsAreTyped DEF FramesInv, TypeOK
  <1>4. calls' = Append(calls, c)
    BY <1>1
  <1> HIDE DEF c
  <1>5. /\ calls' \in Seq(Call) /\ Len(calls') = n + 1
        /\ \A i \in 1..n : calls'[i] = calls[i]
        /\ calls'[n + 1] = c
    BY <1>2, <1>3, <1>4, AppendProperties
  <1>6. Len(pool) \in Nat /\ Len(pool') \in Nat /\ Len(pool) <= PoolMax
    BY <1>1, LenProperties DEF FramesInv, TypeOK
  <1>7. TypeOK'
    <2>1. Len(pool') <= PoolMax
      BY <1>1, <1>6, FramesAssumption
    <2> QED
      BY <1>1, <1>5, <2>1 DEF FramesInv, TypeOK, TabType
  <1>8. Counted(leak)'
    <2>1. ASSUME NEW u \in Tabs
          PROVE  /\ Finite(pool', calls', held', u)
                 /\ tab'[u].rc = Refs(pool', calls', held', u) + leak[u]
      <3>1. /\ Finite(pool, calls, held, u) /\ leak[u] \in Nat
            /\ tab[u].rc = Refs(pool, calls, held, u) + leak[u]
            /\ Refs(pool, calls, held, u) \in Nat
        BY CountedIs DEF FramesInv
      <3>2. /\ BlockRefs(calls', u) = BlockRefs(calls, u)
            /\ FrameRefs(calls', u) =
                 IF t = u THEN FrameRefs(calls, u) \cup {n + 1} ELSE FrameRefs(calls, u)
        BY <1>2, <1>3, <1>4, RefsOfPushed
      <3>3. SlotRefs(held', u) = SlotRefs(held, u)
        BY <1>1
      <3>4. CASE u = t
        <4>1. /\ FrameRefs(calls', u) = {n + 1} /\ BlockRefs(calls', u) = {}
              /\ SlotRefs(held', u) = {} /\ PoolRefs(pool', u) = {}
          BY <1>1, <3>2, <3>3, <3>4
        <4>2. /\ IsFiniteSet({}) /\ Cardinality({}) = 0
              /\ IsFiniteSet({n + 1}) /\ Cardinality({n + 1}) = 1
          BY FS_EmptySet, FS_Singleton
        <4>3. Finite(pool', calls', held', u)
          BY <4>1, <4>2, Zenon DEF Finite
        <4>4. Refs(pool', calls', held', u) = 0 + 1 + 0 + 0
          BY <4>1, <4>2, Zenon DEF Refs
        <4> QED
          BY <1>1, <3>4, <4>3, <4>4
      <3>5. CASE u # t
        <4>1. PoolRefs(pool', u) = PoolRefs(pool, u) /\ tab'[u] = tab[u]
          BY <1>1, <3>5
        <4>2. FrameRefs(calls', u) = FrameRefs(calls, u)
          BY <3>2, <3>5
        <4> QED
          BY <3>1, <3>2, <3>3, <4>1, <4>2, Zenon DEF Finite, Refs
      <3> QED
        BY <3>4, <3>5
    <2> QED
      BY <2>1 DEF Counted
  <1>9. FreeIsEmpty'
    <2>1. FreeIsEmpty
      BY DEF FramesInv
    <2>2. \A u \in Tabs : u = t \/ tab'[u] = tab[u]
      BY <1>1
    <2>3. tab'[t].rc # 0
      BY <1>1
    <2> QED
      BY <2>1, <2>2, <2>3 DEF FreeIsEmpty
  <1>10. PooledIsFresh'
    <2>1. ASSUME NEW i \in 1..Len(pool')
          PROVE  tab'[pool'[i]].rc = 1 /\ tab'[pool'[i]].env = <<>>
      <3>1. i \in 1..Len(pool) /\ pool'[i] = pool[i]
        BY <1>1, <1>6
      <3>2. pool'[i] # t
        BY <1>1, <2>1 DEF PoolRefs
      <3>3. pool'[i] \in Tabs
        BY <1>1, ElementOfSeq
      <3>4. tab'[pool'[i]] = tab[pool[i]]
        BY <1>1, <3>1, <3>2, <3>3
      <3> QED
        BY <3>1, <3>4 DEF FramesInv, PooledIsFresh
    <2> QED
      BY <2>1 DEF PooledIsFresh
  <1>11. FrameIsThere'
    <2>1. FrameIsThere
      BY DEF FramesInv
    <2>2. ASSUME NEW i \in 1..n + 1, ~calls'[i].returned
          PROVE  /\ calls'[i].frame \in Tabs
                 /\ calls'[i].bound < Len(calls'[i].clo.params) => tab'[calls'[i].frame].rc = 1
      <3>1. CASE i \in 1..n
        <4>1. calls'[i] = calls[i]
          BY <1>5, <3>1
        <4>2. calls[i].frame \in Tabs
          BY <2>1, <2>2, <3>1, <4>1 DEF FrameIsThere
        <4>3. calls[i].frame # t
          BY <1>1, <3>1 DEF FrameRefs
        <4>4. tab'[calls[i].frame] = tab[calls[i].frame]
          BY <1>1, <4>2, <4>3
        <4>5. calls[i].bound < Len(calls[i].clo.params) => tab[calls[i].frame].rc = 1
          BY <2>1, <2>2, <3>1, <4>1 DEF FrameIsThere
        <4> QED
          BY <4>1, <4>2, <4>4, <4>5
      <3>2. CASE i \notin 1..n
        <4>1. i = n + 1
          BY <1>3, <3>2
        <4> QED
          BY <1>1, <1>2, <1>5, <4>1
      <3> QED
        BY <3>1, <3>2
    <2> QED
      BY <1>5, <2>2 DEF FrameIsThere
  <1>12. FramesAreOwn'
    <2>1. FramesAreOwn /\ n = Len(calls)
      BY DEF FramesInv
    <2>2. \A i \in 1..n : calls'[i].frame = calls[i].frame /\ calls[i].frame # t
      BY <1>1, <1>5 DEF FrameRefs
    <2>3. calls'[n + 1].frame = t
      BY <1>2, <1>5
    <2>4. \A i \in 1..n + 1 : i \in 1..n \/ i = n + 1
      BY <1>3
    <2> HIDE DEF n
    <2> QED
      BY <1>5, <2>1, <2>2, <2>3, <2>4 DEF FramesAreOwn
  <1>13. KeysUnique'
    <2>1. KeysUnique
      BY DEF FramesInv
    <2>2. OneBindingEach(tab'[t].env)
      BY <1>1, ClosuresAreTyped
    <2>3. \A u \in Tabs : u = t \/ tab'[u] = tab[u]
      BY <1>1
    <2> QED
      BY <2>1, <2>2, <2>3 DEF KeysUnique
  <1> QED
    BY <1>7, <1>8, <1>9, <1>10, <1>11, <1>12, <1>13 DEF FramesInv

----------------------------------------------------------------------------
(* A declaration writes in place, or in a copy, which the block then has.   *)
LetInPlace(e) ==
  LET s == Scope(Top)
  IN  /\ tab[s].rc = 1
      /\ tab' \in [Tabs -> TabType]
      /\ \A t \in Tabs : /\ tab'[t].rc = tab[t].rc
                         /\ t # s => tab'[t] = tab[t]
      /\ tab'[s].env = e
      /\ calls' = calls

LetInCopy(e) ==
  LET s == Scope(Top)
  IN  \E t \in Tabs :
        LET c == [Top EXCEPT !.blocks[Len(Top.blocks)] = t]
        IN  /\ t # s /\ tab[t].rc = 0
            /\ tab[s].rc \in Nat \ {0, 1}
            /\ tab' \in [Tabs -> TabType]
            /\ tab'[s].rc = tab[s].rc - 1 /\ tab'[s].env = tab[s].env
            /\ tab'[t].rc = 1 /\ tab'[t].env = e
            /\ \A u \in Tabs \ {s, t} : tab'[u] = tab[u]
            /\ c \in Call /\ c.clo = Top.clo /\ c.returned = Top.returned
            /\ c.frame = Top.frame /\ c.bound = Top.bound
            /\ c.blocks = [Top.blocks EXCEPT ![Len(Top.blocks)] = t]
            /\ calls' = [calls EXCEPT ![Len(calls)] = c]

LEMMA LetFacts ==
  ASSUME NEW leak \in Leaks, FramesInv(leak),
         NEW x \in Vars, NEW v \in Vals, Let(x, v)
  PROVE  LET s == Scope(Top)
             e == Bind(tab[s].env, x, v)
         IN  /\ calls # <<>> /\ InBody(Top) /\ Top.blocks # <<>>
             /\ s \in Tabs /\ BlockRefs(calls, s) # {}
             /\ e \in Env /\ OneBindingEach(e)
             /\ pool' = pool /\ held' = held /\ read' = read
             /\ LetInPlace(e) \/ LetInCopy(e)
  <1> DEFINE s == Scope(Top)
             e == Bind(tab[s].env, x, v)
  <1>1. /\ calls # <<>> /\ InBody(Top) /\ Top.blocks # <<>>
        /\ pool' = pool /\ held' = held /\ read' = read
        /\ \/ /\ Unshared(s)
              /\ tab' = [tab EXCEPT ![s].env = e] /\ calls' = calls
           \/ /\ ~Unshared(s)
              /\ \E t \in FreeTabs :
                   /\ tab' = [tab EXCEPT ![s].rc = @ - 1, ![t] = [rc |-> 1, env |-> e]]
                   /\ calls' = [calls EXCEPT ![Len(calls)] =
                                  [Top EXCEPT !.blocks[Len(Top.blocks)] = t]]
    BY DEF Let, Update
  <1>2. /\ s \in Tabs /\ BlockRefs(calls, s) # {}
        /\ Top \in Call /\ Top.blocks \in Seq(Tabs) /\ Len(Top.blocks) > 0
    BY <1>1, ScopeHasRef, TopIsTyped DEF FramesInv
  <1>3. /\ tab \in [Tabs -> TabType] /\ tab[s] \in TabType /\ tab[s].env \in Env
        /\ OneBindingEach(tab[s].env)
    BY <1>2 DEF FramesInv, TypeOK, TabType, KeysUnique
  <1>4. e \in Env /\ OneBindingEach(e)
    BY <1>3, BindKeepsOneEach
  <1>5. tab[s].rc \in Nat \ {0}
    BY <1>2, ReferredIsNotFree
  <1> HIDE DEF e
  <1>6. ASSUME Unshared(s), tab' = [tab EXCEPT ![s].env = e], calls' = calls
        PROVE  LetInPlace(e)
    <2> HIDE DEF s
    <2>1. tab' = [tab EXCEPT ![s] = [tab[s] EXCEPT !.env = e]]
      BY <1>6
    <2>2. /\ [tab[s] EXCEPT !.env = e] \in TabType
          /\ [tab[s] EXCEPT !.env = e].rc = tab[s].rc
          /\ [tab[s] EXCEPT !.env = e].env = e
      BY <1>3, <1>4 DEF TabType
    <2>3. /\ tab' \in [Tabs -> TabType]
          /\ \A t \in Tabs : /\ tab'[t].rc = tab[t].rc
                             /\ t # s => tab'[t] = tab[t]
          /\ tab'[s].env = e
      BY <1>2, <1>3, <2>1, <2>2
    <2>4. tab[s].rc = 1
      BY <1>6 DEF Unshared
    <2> QED
      BY <1>6, <2>3, <2>4 DEF LetInPlace, s
  <1>7. ASSUME ~Unshared(s), NEW t \in FreeTabs,
               tab' = [tab EXCEPT ![s].rc = @ - 1, ![t] = [rc |-> 1, env |-> e]],
               calls' = [calls EXCEPT ![Len(calls)] =
                           [Top EXCEPT !.blocks[Len(Top.blocks)] = t]]
        PROVE  LetInCopy(e)
    <2>1. t \in Tabs /\ tab[t].rc = 0 /\ t # s
      BY <1>5, <1>7 DEF FreeTabs
    <2>2. tab[s].rc \in Nat \ {0, 1}
      BY <1>5, <1>7 DEF Unshared
    <2> DEFINE q == [tab[s] EXCEPT !.rc = tab[s].rc - 1]
               b == [rc |-> 1, env |-> e]
    <2>3. q \in TabType /\ q.rc = tab[s].rc - 1 /\ q.env = tab[s].env
      <3>1. tab[s].rc - 1 \in Nat
        BY <2>2
      <3> HIDE DEF s
      <3> QED
        BY <1>3, <3>1 DEF TabType
    <2>4. b \in TabType /\ b.rc = 1 /\ b.env = e
      BY <1>4 DEF TabType
    <2>5. tab' = [[tab EXCEPT ![s] = q] EXCEPT ![t] = b]
      BY <1>7
    <2> HIDE DEF q, b, s
    <2>6. /\ tab' \in [Tabs -> TabType]
          /\ tab'[s] = q /\ tab'[t] = b
          /\ \A u \in Tabs \ {s, t} : tab'[u] = tab[u]
      BY <1>2, <1>3, <2>1, <2>3, <2>4, <2>5
    <2> DEFINE c == [Top EXCEPT !.blocks[Len(Top.blocks)] = t]
               bs == [Top.blocks EXCEPT ![Len(Top.blocks)] = t]
    <2>7. bs \in Seq(Tabs)
      BY <1>2, <2>1, LastIsReplaced
    <2>8. c = [Top EXCEPT !.blocks = bs]
      BY <1>2 DEF Call
    <2> HIDE DEF bs
    <2>9. /\ [Top EXCEPT !.blocks = bs] \in Call
          /\ [Top EXCEPT !.blocks = bs].clo = Top.clo
          /\ [Top EXCEPT !.blocks = bs].returned = Top.returned
          /\ [Top EXCEPT !.blocks = bs].frame = Top.frame
          /\ [Top EXCEPT !.blocks = bs].bound = Top.bound
          /\ [Top EXCEPT !.blocks = bs].blocks = bs
      BY <1>2, <2>7 DEF Call
    <2>10. /\ c \in Call /\ c.clo = Top.clo /\ c.returned = Top.returned
           /\ c.frame = Top.frame /\ c.bound = Top.bound /\ c.blocks = bs
      BY <2>8, <2>9, Zenon
    <2>11. calls' = [calls EXCEPT ![Len(calls)] = c]
      BY <1>7
    <2> HIDE DEF c
    <2>12. /\ t # s /\ tab[t].rc = 0 /\ tab[s].rc \in Nat \ {0, 1}
           /\ tab' \in [Tabs -> TabType]
           /\ tab'[s].rc = tab[s].rc - 1 /\ tab'[s].env = tab[s].env
           /\ tab'[t].rc = 1 /\ tab'[t].env = e
           /\ \A u \in Tabs \ {s, t} : tab'[u] = tab[u]
      BY <2>1, <2>2, <2>3, <2>4, <2>6
    <2> QED
      BY <2>1, <2>10, <2>11, <2>12, Zenon DEF LetInCopy, c, bs, s
  <1>8. LetInPlace(e) \/ LetInCopy(e)
    BY <1>1, <1>6, <1>7
  <1> QED
    BY <1>1, <1>2, <1>4, <1>8 DEF e

LEMMA LetKeeps ==
  ASSUME NEW leak \in Leaks, FramesInv(leak),
         NEW x \in Vars, NEW v \in Vals, Let(x, v)
  PROVE  FramesInv(leak)'
  <1> DEFINE n == Len(calls)
             s == Scope(Top)
             e == Bind(tab[s].env, x, v)
  <1>1. /\ calls # <<>> /\ InBody(Top) /\ Top.blocks # <<>>
        /\ s \in Tabs /\ BlockRefs(calls, s) # {}
        /\ e \in Env /\ OneBindingEach(e)
        /\ pool' = pool /\ held' = held /\ read' = read
        /\ LetInPlace(e) \/ LetInCopy(e)
    BY LetFacts
  <1>2. /\ n \in 1..n /\ n > 0 /\ Len(Top.blocks) > 0
        /\ s = Top.blocks[Len(Top.blocks)]
    BY <1>1, TopIsTyped DEF FramesInv
  <1>3. calls \in Seq(Call) /\ calls[n] = Top
    BY DEF FramesInv, TypeOK, Top
  <1>4. PooledIsFresh /\ FrameIsThere /\ FramesAreOwn /\ KeysUnique /\ FreeIsEmpty
    BY DEF FramesInv
  <1>5. \A i \in 1..Len(pool) : pool[i] \in Tabs /\ pool[i] # s
    BY <1>1, ReferredIsNotPooled, ElementOfSeq DEF FramesInv, TypeOK
  <1>6. \A i \in 1..n :
          ~calls[i].returned /\ calls[i].bound < Len(calls[i].clo.params)
            => /\ calls[i].frame # s /\ calls[i].frame \in Tabs
               /\ tab[calls[i].frame].rc = 1
    BY <1>1, ScopeIsNotBinding, BindingFrameIsOwn
  <1> HIDE DEF e
  <1>7. CASE LetInPlace(e)
    <2>1. /\ tab' \in [Tabs -> TabType] /\ tab[s].rc = 1
          /\ \A t \in Tabs : /\ tab'[t].rc = tab[t].rc
                             /\ t # s => tab'[t] = tab[t]
          /\ tab'[s].env = e
          /\ calls' = calls
      BY <1>7 DEF LetInPlace
    <2> HIDE DEF s
    <2>2. TypeOK'
      BY <1>1, <2>1 DEF FramesInv, TypeOK, TabType
    <2>3. Counted(leak)'
      BY <1>1, <2>1, StillCounted DEF FramesInv
    <2>4. FreeIsEmpty'
      BY <1>4, <2>1 DEF FreeIsEmpty
    <2>5. PooledIsFresh'
      BY <1>1, <1>4, <1>5, <2>1, StillFresh
    <2>6. FrameIsThere'
      BY <1>4, <1>6, <2>1, StillThere
    <2>7. FramesAreOwn'
      BY <1>4, <2>1, StillOwn
    <2>8. KeysUnique'
      BY <1>1, <1>4, <2>1 DEF KeysUnique
    <2> QED
      BY <2>2, <2>3, <2>4, <2>5, <2>6, <2>7, <2>8 DEF FramesInv
  <1>8. CASE LetInCopy(e)
    <2> DEFINE New(t) == [Top EXCEPT !.blocks[Len(Top.blocks)] = t]
    <2>1. PICK t \in Tabs :
            /\ t # s /\ tab[t].rc = 0
            /\ tab[s].rc \in Nat \ {0, 1}
            /\ tab' \in [Tabs -> TabType]
            /\ tab'[s].rc = tab[s].rc - 1 /\ tab'[s].env = tab[s].env
            /\ tab'[t].rc = 1 /\ tab'[t].env = e
            /\ \A u \in Tabs \ {s, t} : tab'[u] = tab[u]
            /\ New(t) \in Call /\ New(t).clo = Top.clo /\ New(t).returned = Top.returned
            /\ New(t).frame = Top.frame /\ New(t).bound = Top.bound
            /\ New(t).blocks = [Top.blocks EXCEPT ![Len(Top.blocks)] = t]
            /\ calls' = [calls EXCEPT ![n] = New(t)]
      BY <1>8 DEF LetInCopy
    <2> DEFINE c == New(t)
               r == <<n, Len(calls[n].blocks)>>
    <2>2. /\ c \in Call /\ c.clo = Top.clo /\ c.returned = Top.returned
          /\ c.frame = calls[n].frame /\ c.bound = Top.bound
          /\ c.blocks = [calls[n].blocks EXCEPT ![Len(calls[n].blocks)] = t]
          /\ calls' = [calls EXCEPT ![Len(calls)] = c]
      BY <1>3, <2>1
    <2> HIDE DEF s, c, New
    <2>3. /\ calls' \in Seq(Call) /\ Len(calls') = n
          /\ \A i \in 1..n : calls'[i] = IF i = n THEN c ELSE calls[i]
      BY <1>2, <1>3, <2>2, CallsUpdated
    <2>4. \A i \in 1..n : /\ calls'[i].frame = calls[i].frame
                          /\ calls'[i].returned = calls[i].returned
                          /\ calls'[i].clo = calls[i].clo
                          /\ calls'[i].bound = calls[i].bound
      BY <1>3, <2>2, <2>3
    <2>5. /\ FrameRefs(calls, t) = {} /\ BlockRefs(calls, t) = {}
          /\ SlotRefs(held, t) = {} /\ PoolRefs(pool, t) = {}
      BY <2>1, SoleReference
    <2>6. TypeOK'
      BY <1>1, <2>1, <2>3 DEF FramesInv, TypeOK, TabType
    <2>7. Counted(leak)'
      <3>1. ASSUME NEW u \in Tabs
            PROVE  /\ Finite(pool', calls', held', u)
                   /\ tab'[u].rc = Refs(pool', calls', held', u) + leak[u]
        <4>1. /\ Finite(pool, calls, held, u) /\ leak[u] \in Nat
              /\ tab[u].rc = Refs(pool, calls, held, u) + leak[u]
              /\ Refs(pool, calls, held, u) \in Nat
          BY CountedIs DEF FramesInv
        <4>2. FrameRefs(calls', u) = FrameRefs(calls, u)
          BY <1>2, <1>3, <2>2, FrameKept
        <4>3. /\ t = u => BlockRefs(calls', u) = BlockRefs(calls, u) \cup {r}
              /\ t # u => BlockRefs(calls', u) = BlockRefs(calls, u) \ {r}
          <5>1. Len(calls) > 0 /\ Len(calls[Len(calls)].blocks) > 0
            BY <1>2, <1>3
          <5>2. calls \in Seq(Call) /\ c \in Call
            BY <1>3, <2>2
          <5>3. c.blocks = WithLast(calls[Len(calls)].blocks, t)
            BY <2>2 DEF WithLast
          <5>4. calls' = [calls EXCEPT ![Len(calls)] = c]
            BY <2>2
          <5>5. t = u => BlockRefs([calls EXCEPT ![Len(calls)] = c], u) =
                           BlockRefs(calls, u) \cup {r}
            BY <5>1, <5>2, <5>3, BlocksRenamed
          <5>6. t # u => BlockRefs([calls EXCEPT ![Len(calls)] = c], u) =
                           BlockRefs(calls, u) \ {r}
            BY <5>1, <5>2, <5>3, BlocksRenamed
          <5> QED
            BY <5>4, <5>5, <5>6, Zenon
        <4>0. r \in BlockRefs(calls, u) <=> calls[n].blocks[Len(calls[n].blocks)] = u
          BY <1>2, <1>3, LastBlockRef
        <4> HIDE DEF r
        <4>4. /\ BlockRefs(calls', u) =
                   IF t = u THEN BlockRefs(calls, u) \cup {r} ELSE BlockRefs(calls, u) \ {r}
              /\ r \in BlockRefs(calls, u) <=> s = u
          BY <1>2, <1>3, <2>2, <4>0, <4>3
        <4>5. /\ Cardinality(PoolRefs(pool, u)) \in Nat
              /\ Cardinality(FrameRefs(calls, u)) \in Nat
              /\ Cardinality(BlockRefs(calls, u)) \in Nat
              /\ Cardinality(SlotRefs(held, u)) \in Nat
          BY <4>1, RefsAreCounted
        <4> DEFINE d == IF u = t THEN 1 ELSE IF u = s THEN -1 ELSE 0
        <4>6. /\ IsFiniteSet(BlockRefs(calls', u))
              /\ Cardinality(BlockRefs(calls', u)) = Cardinality(BlockRefs(calls, u)) + d
          <5>1. IsFiniteSet(BlockRefs(calls, u))
            BY <4>1 DEF Finite
          <5>2. CASE u = t
            <6>1. r \notin BlockRefs(calls, u) /\ BlockRefs(calls', u) = BlockRefs(calls, u) \cup {r}
              BY <2>1, <4>4, <5>2
            <6>2. /\ IsFiniteSet(BlockRefs(calls', u))
                  /\ Cardinality(BlockRefs(calls', u)) = Cardinality(BlockRefs(calls, u)) + 1
              BY <5>1, <6>1, OneMore
            <6> QED
              BY <5>2, <6>2
          <5>3. CASE u # t /\ u = s
            <6>1. r \in BlockRefs(calls, u) /\ BlockRefs(calls', u) = BlockRefs(calls, u) \ {r}
              BY <4>4, <5>3
            <6>2. /\ IsFiniteSet(BlockRefs(calls', u))
                  /\ Cardinality(BlockRefs(calls', u)) = Cardinality(BlockRefs(calls, u)) - 1
              BY <5>1, <6>1, OneLess
            <6> QED
              BY <4>5, <5>3, <6>2
          <5>4. CASE u # t /\ u # s
            <6>1. BlockRefs(calls', u) = BlockRefs(calls, u)
              BY <4>4, <5>4
            <6> QED
              BY <4>5, <5>1, <5>4, <6>1
          <5> QED
            BY <5>2, <5>3, <5>4
        <4>7. Finite(pool', calls', held', u)
          BY <1>1, <4>1, <4>2, <4>6 DEF Finite
        <4>8. /\ Cardinality(PoolRefs(pool', u)) = Cardinality(PoolRefs(pool, u)) + 0
              /\ Cardinality(FrameRefs(calls', u)) = Cardinality(FrameRefs(calls, u)) + 0
              /\ Cardinality(SlotRefs(held', u)) = Cardinality(SlotRefs(held, u)) + 0
          BY <1>1, <4>2, <4>5
        <4>9. d \in Int
          OBVIOUS
        <4> HIDE DEF d
        <4>10. Refs(pool', calls', held', u) = Refs(pool, calls, held, u) + 0 + 0 + d + 0
          BY <4>1, <4>6, <4>8, <4>9, RefsMove
        <4>11. tab[u].rc \in Nat /\ tab'[u].rc = tab[u].rc + d
          <5>1. tab[u].rc \in Nat
            BY DEF FramesInv, TypeOK
          <5>2. CASE u = t
            BY <2>1, <5>1, <5>2 DEF d
          <5>3. CASE u # t /\ u = s
            BY <2>1, <5>1, <5>3 DEF d
          <5>4. CASE u # t /\ u # s
            <6>1. tab'[u] = tab[u] /\ d = 0
              BY <2>1, <5>4 DEF d
            <6> QED
              BY <5>1, <6>1
          <5> QED
            BY <5>2, <5>3, <5>4
        <4> QED
          BY <4>1, <4>7, <4>9, <4>10, <4>11
      <3> QED
        BY <3>1 DEF Counted
    <2>8. FreeIsEmpty'
      <3>1. tab'[s].rc # 0 /\ tab'[t].rc # 0
        BY <2>1
      <3>2. \A u \in Tabs : u = s \/ u = t \/ tab'[u] = tab[u]
        BY <2>1
      <3> QED
        BY <1>4, <3>1, <3>2 DEF FreeIsEmpty
    <2>9. PooledIsFresh'
      <3>1. \A i \in 1..Len(pool) : pool[i] # t
        BY <2>5 DEF PoolRefs
      <3>2. \A i \in 1..Len(pool) : tab'[pool[i]] = tab[pool[i]]
        BY <1>5, <2>1, <3>1
      <3> QED
        BY <1>1, <1>4, <3>2, StillFresh
    <2>10. FrameIsThere'
      <3>1. \A i \in 1..n :
              ~calls[i].returned /\ calls[i].bound < Len(calls[i].clo.params)
                => tab'[calls[i].frame].rc = tab[calls[i].frame].rc
        BY <1>6, <2>1
      <3> QED
        BY <1>4, <2>3, <2>4, <3>1, StillThere
    <2>11. FramesAreOwn'
      BY <1>4, <2>3, <2>4, StillOwn
    <2>12. KeysUnique'
      <3>1. OneBindingEach(tab'[s].env) /\ OneBindingEach(tab'[t].env)
        BY <1>1, <1>4, <2>1 DEF KeysUnique
      <3>2. \A u \in Tabs : u = s \/ u = t \/ tab'[u] = tab[u]
        BY <2>1
      <3> QED
        BY <1>4, <3>1, <3>2 DEF KeysUnique
    <2> QED
      BY <2>6, <2>7, <2>8, <2>9, <2>10, <2>11, <2>12 DEF FramesInv
  <1> QED
    BY <1>1, <1>7, <1>8

----------------------------------------------------------------------------
(* Every action keeps the invariant.                                        *)
LEMMA NextKeepsInv ==
  FramesInv(NoLeak) /\ [Next]_vars => FramesInv(NoLeak)'
  <1> SUFFICES ASSUME FramesInv(NoLeak), [Next]_vars
               PROVE  FramesInv(NoLeak)'
    OBVIOUS
  <1> USE NoLeakIsTyped
  <1>1. ASSUME NEW clo \in Closures, Enter(clo)
        PROVE  FramesInv(NoLeak)'
    BY <1>1, EnterKeeps
  <1>2. ASSUME NEW v \in Vals, BindParam(v)
        PROVE  FramesInv(NoLeak)'
    BY <1>2, BindParamKeeps
  <1>3. ASSUME NEW x \in Vars, Read(x)
        PROVE  FramesInv(NoLeak)'
    BY <1>3, ReadKeeps
  <1>4. ASSUME NEW x \in Vars, NEW v \in Vals, Let(x, v)
        PROVE  FramesInv(NoLeak)'
    BY <1>4, LetKeeps
  <1>5. ASSUME NEW h \in Slots, Reflect(h)
        PROVE  FramesInv(NoLeak)'
    BY <1>5, ReflectKeeps
  <1>6. ASSUME NEW h \in Slots, Forget(h)
        PROVE  FramesInv(NoLeak)'
    BY <1>6, ForgetKeeps
  <1>7. CASE OpenBlock
    BY <1>7, OpenBlockKeeps
  <1>8. CASE CloseBlock
    BY <1>8, CloseBlockKeeps
  <1>9. CASE Return
    BY <1>9, ReturnKeeps
  <1>10. CASE Leave
    BY <1>10, LeaveKeeps
  <1>11. CASE UNCHANGED vars
    <2>1. tab' = tab /\ pool' = pool /\ calls' = calls /\ held' = held /\ read' = read
      BY <1>11 DEF vars, frameVars
    <2>2. Counted(NoLeak)'
      BY <2>1, StillCounted DEF FramesInv
    <2> QED
      BY <2>1, <2>2 DEF FramesInv, TypeOK, FreeIsEmpty, PooledIsFresh, FrameIsThere,
                        FramesAreOwn, KeysUnique
  <1> QED
    BY <1>1, <1>2, <1>3, <1>4, <1>5, <1>6, <1>7, <1>8, <1>9, <1>10, <1>11 DEF Next

(* The invariant holds in every reachable state.                            *)
LEMMA FramesInvHolds ==
  Spec => []FramesInv(NoLeak)
  <1> QED
    BY InitEstablishesInv, NextKeepsInv, PTL DEF Spec, Init

(* Frames, counts, the pool and the calls are typed, and the pool never     *)
(* holds more than PoolMax frames: what frame_put bounds.                   *)
THEOREM FramesAreTyped ==
  Spec => []TypeOK
  <1>1. FramesInv(NoLeak) => TypeOK
    BY DEF FramesInv
  <1> QED
    BY <1>1, FramesInvHolds, PTL

(* What is in the pool is empty, there once, and nobody's: apply's get_mut  *)
(* on the frame it takes cannot fail, nor show an older call's bindings.    *)
THEOREM PooledFramesAreClean ==
  Spec => []PoolIsClean
  <1>1. FramesInv(NoLeak) => PoolIsClean
    BY InvImpliesClean, NoLeakIsTyped
  <1> QED
    BY <1>1, FramesInvHolds, PTL

(* No two calls in progress have the same frame, whatever coercing          *)
(* predicates call between two parameters.                                  *)
THEOREM NoFrameIsShared ==
  Spec => []FramesAreOwn
  <1>1. FramesInv(NoLeak) => FramesAreOwn
    BY DEF FramesInv
  <1> QED
    BY <1>1, FramesInvHolds, PTL

(* No env has a name twice, so that bind, which replaces the first, and     *)
(* lookup, which finds the last, mean the same binding.                     *)
THEOREM NamesAreBoundOnce ==
  Spec => []KeysUnique
  <1>1. FramesInv(NoLeak) => KeysUnique
    BY DEF FramesInv
  <1> QED
    BY <1>1, FramesInvHolds, PTL

(* When no call runs and nothing is reflected every tab is free or in the   *)
(* pool, whichever calls and blocks ended by an error.                      *)
THEOREM EveryFrameComesBack ==
  Spec => []NothingLeaks
  BY InvImpliesNoLeak, FramesInvHolds, PTL

-----------------------------------------------------------------------------
(***************************************************************************)
(* Calls on pooled, shared and copied frames implement calls on immutable  *)
(* environments, for every value of the constants. What the program sees   *)
(* of a call are the envs of its frame and of its open blocks. An action   *)
(* that only moves references changes no env that is still referred to; an *)
(* action that writes a tab has the only reference to it.                  *)
(***************************************************************************)
----------------------------------------------------------------------------
(* Sequences given by their elements.                                       *)
LEMMA FunctionIsASeq ==
  ASSUME NEW S, NEW n \in Nat, NEW f \in [1..n -> S]
  PROVE  f \in Seq(S) /\ Len(f) = n
  <1>1. f \in Seq(S)
    BY SeqDef
  <1>2. Len(f) \in Nat /\ 1..Len(f) = 1..n
    BY <1>1, LenProperties
  <1>3. Len(f) = n
    BY <1>2, SMT
  <1> QED
    BY <1>1, <1>3

LEMMA SeqIsUpdated ==
  ASSUME NEW S, NEW s \in Seq(S), Len(s) > 0, NEW d \in Seq(S), NEW e \in S,
         Len(d) = Len(s), d[Len(s)] = e,
         \A i \in 1..Len(s) : i # Len(s) => d[i] = s[i]
  PROVE  d = [s EXCEPT ![Len(s)] = e]
  <1>1. /\ [s EXCEPT ![Len(s)] = e] \in Seq(S)
        /\ Len([s EXCEPT ![Len(s)] = e]) = Len(s)
        /\ \A i \in 1..Len(s) :
             [s EXCEPT ![Len(s)] = e][i] = IF i = Len(s) THEN e ELSE s[i]
    BY LastIsReplaced
  <1> QED
    BY <1>1, SeqEqual

LEMMA SeqIsExtended ==
  ASSUME NEW S, NEW s \in Seq(S), NEW d \in Seq(S), NEW e \in S,
         Len(d) = Len(s) + 1, d[Len(s) + 1] = e,
         \A i \in 1..Len(s) : d[i] = s[i]
  PROVE  d = Append(s, e)
  <1>1. Len(s) \in Nat
    BY LenProperties
  <1>2. /\ Append(s, e) \in Seq(S) /\ Len(Append(s, e)) = Len(s) + 1
        /\ \A i \in 1..Len(s) : Append(s, e)[i] = s[i]
        /\ Append(s, e)[Len(s) + 1] = e
    BY <1>1
  <1>3. \A i \in 1..Len(s) + 1 : i = Len(s) + 1 \/ i \in 1..Len(s)
    BY <1>1
  <1>4. \A i \in 1..Len(d) : d[i] = Append(s, e)[i]
    BY <1>2, <1>3
  <1> QED
    BY <1>2, <1>4, SeqEqual

LEMMA SeqIsCut ==
  ASSUME NEW S, NEW s \in Seq(S), Len(s) > 0, NEW d \in Seq(S),
         Len(d) = Len(s) - 1, \A i \in 1..Len(s) - 1 : d[i] = s[i]
  PROVE  d = SubSeq(s, 1, Len(s) - 1)
  BY FrontIsShorter, SeqEqual

----------------------------------------------------------------------------
(* What is seen of a call is typed.                                         *)
PureCall == [clo : Closures, bound : Nat, returned : BOOLEAN,
             env : Env, blocks : Seq(Env)]

LEMMA SeenBlocks ==
  ASSUME NEW tb \in [Tabs -> TabType], NEW c \in Call
  PROVE  LET s == SeenCall(tb, c)
         IN  /\ s.blocks \in Seq(Env) /\ Len(s.blocks) = Len(c.blocks)
             /\ Len(c.blocks) \in Nat /\ c.blocks \in Seq(Tabs)
             /\ \A b \in 1..Len(c.blocks) :
                  c.blocks[b] \in Tabs /\ s.blocks[b] = tb[c.blocks[b]].env
  <1> DEFINE f == [b \in 1..Len(c.blocks) |-> tb[c.blocks[b]].env]
  <1>1. c.blocks \in Seq(Tabs)
    BY DEF Call
  <1>2. Len(c.blocks) \in Nat /\ \A b \in 1..Len(c.blocks) : c.blocks[b] \in Tabs
    BY <1>1, LenProperties, ElementOfSeq
  <1>3. f \in [1..Len(c.blocks) -> Env]
    BY <1>2 DEF TabType
  <1>4. SeenCall(tb, c).blocks = f
    BY DEF SeenCall
  <1>5. f \in Seq(Env) /\ Len(f) = Len(c.blocks)
    BY <1>2, <1>3, FunctionIsASeq
  <1>6. \A b \in 1..Len(c.blocks) : f[b] = tb[c.blocks[b]].env
    OBVIOUS
  <1> QED
    BY <1>1, <1>2, <1>4, <1>5, <1>6

LEMMA SeenIsTyped ==
  ASSUME NEW tb \in [Tabs -> TabType], NEW c \in Call,
         ~c.returned => c.frame \in Tabs
  PROVE  LET s == SeenCall(tb, c)
         IN  /\ s \in PureCall
             /\ s.clo = c.clo /\ s.bound = c.bound /\ s.returned = c.returned
             /\ s.env = IF c.returned THEN <<>> ELSE tb[c.frame].env
  <1> DEFINE s == SeenCall(tb, c)
  <1>1. s.blocks \in Seq(Env)
    BY SeenBlocks
  <1>2. /\ s.clo = c.clo /\ s.bound = c.bound /\ s.returned = c.returned
        /\ s.env = IF c.returned THEN <<>> ELSE tb[c.frame].env
        /\ s = [clo |-> s.clo, bound |-> s.bound, returned |-> s.returned,
                env |-> s.env, blocks |-> s.blocks]
    BY DEF SeenCall
  <1>3. s.env \in Env
    BY <1>2, EmptyIsOneEach DEF TabType
  <1>4. c.clo \in Closures /\ c.bound \in Nat /\ c.returned \in BOOLEAN
    BY DEF Call
  <1> HIDE DEF s
  <1>5. s \in PureCall
    BY <1>1, <1>2, <1>3, <1>4 DEF PureCall
  <1> QED
    BY <1>2, <1>5 DEF s

LEMMA SeenCallsAreTyped ==
  ASSUME NEW tb \in [Tabs -> TabType], NEW cs \in Seq(Call), NEW ps,
         \A i \in 1..Len(cs) : ~cs[i].returned => cs[i].frame \in Tabs,
         ps = [i \in 1..Len(cs) |-> SeenCall(tb, cs[i])]
  PROVE  /\ ps \in Seq(PureCall) /\ Len(ps) = Len(cs) /\ Len(cs) \in Nat
         /\ \A i \in 1..Len(cs) : ps[i] = SeenCall(tb, cs[i]) /\ ps[i] \in PureCall
  <1>1. Len(cs) \in Nat /\ \A i \in 1..Len(cs) : cs[i] \in Call
    BY CallsAreTyped
  <1>2. \A i \in 1..Len(cs) : SeenCall(tb, cs[i]) \in PureCall
    BY <1>1, SeenIsTyped
  <1>3. /\ ps \in [1..Len(cs) -> PureCall]
        /\ \A i \in 1..Len(cs) : ps[i] = SeenCall(tb, cs[i])
    BY <1>2
  <1> QED
    BY <1>1, <1>2, <1>3, FunctionIsASeq

(* Before and after a step.                                                 *)
LEMMA SeenTyped ==
  ASSUME NEW leak \in Leaks, FramesInv(leak),
         NEW more \in Leaks, FramesInv(more)'
  PROVE  /\ SeenCalls \in Seq(PureCall) /\ Len(SeenCalls) = Len(calls)
         /\ Len(calls) \in Nat /\ Len(calls') \in Nat
         /\ \A i \in 1..Len(calls) : SeenCalls[i] = SeenCall(tab, calls[i])
         /\ \A i \in 1..Len(calls) : SeenCalls[i] \in PureCall
         /\ SeenCalls' \in Seq(PureCall) /\ Len(SeenCalls') = Len(calls')
         /\ \A i \in 1..Len(calls') : SeenCalls'[i] = SeenCall(tab', calls'[i])
         /\ \A i \in 1..Len(calls') : SeenCalls'[i] \in PureCall
         /\ calls # <<>> => /\ SeenCalls # <<>> /\ Len(calls) > 0
                            /\ Len(calls) \in 1..Len(calls)
                            /\ SeenCalls[Len(SeenCalls)] = SeenCall(tab, Top)
  <1>1. /\ tab \in [Tabs -> TabType] /\ calls \in Seq(Call)
        /\ \A i \in 1..Len(calls) : ~calls[i].returned => calls[i].frame \in Tabs
    BY DEF FramesInv, TypeOK, TabType, FrameIsThere
  <1>2. /\ tab' \in [Tabs -> TabType] /\ calls' \in Seq(Call)
        /\ \A i \in 1..Len(calls') : ~calls'[i].returned => calls'[i].frame \in Tabs
    BY DEF FramesInv, TypeOK, TabType, FrameIsThere
  <1>3. SeenCalls = [i \in 1..Len(calls) |-> SeenCall(tab, calls[i])]
    BY DEF SeenCalls
  <1>4. SeenCalls' = [i \in 1..Len(calls') |-> SeenCall(tab', calls'[i])]
    BY DEF SeenCalls, SeenCall
  <1>5. /\ SeenCalls \in Seq(PureCall) /\ Len(SeenCalls) = Len(calls)
        /\ Len(calls) \in Nat
        /\ \A i \in 1..Len(calls) : SeenCalls[i] = SeenCall(tab, calls[i])
        /\ \A i \in 1..Len(calls) : SeenCalls[i] \in PureCall
    BY <1>1, <1>3, SeenCallsAreTyped
  <1>6. /\ SeenCalls' \in Seq(PureCall) /\ Len(SeenCalls') = Len(calls')
        /\ Len(calls') \in Nat
        /\ \A i \in 1..Len(calls') : SeenCalls'[i] = SeenCall(tab', calls'[i])
        /\ \A i \in 1..Len(calls') : SeenCalls'[i] \in PureCall
    BY <1>2, <1>4, SeenCallsAreTyped
  <1>7. ASSUME calls # <<>>
        PROVE  /\ Len(calls) > 0 /\ Len(calls) \in 1..Len(calls)
               /\ SeenCalls # <<>>
               /\ SeenCalls[Len(SeenCalls)] = SeenCall(tab, Top)
    <2>1. Len(calls) > 0 /\ Len(calls) \in 1..Len(calls)
      BY <1>7, TopIsTyped DEF FramesInv
    <2> QED
      BY <1>5, <2>1, EmptySeq DEF Top
  <1> QED
    BY <1>5, <1>6, <1>7

----------------------------------------------------------------------------
(* A call sees the tabs it refers to, unless its frame is already given     *)
(* back.                                                                    *)
Sees(c, t) == \/ ~c.returned /\ c.frame = t
              \/ \E b \in 1..Len(c.blocks) : c.blocks[b] = t

LEMMA SeenAlike ==
  ASSUME NEW tb \in [Tabs -> TabType], NEW tb2 \in [Tabs -> TabType],
         NEW c \in Call, ~c.returned => c.frame \in Tabs,
         \A t \in Tabs : Sees(c, t) => tb2[t].env = tb[t].env
  PROVE  SeenCall(tb2, c) = SeenCall(tb, c)
  <1>1. /\ Len(c.blocks) \in Nat
        /\ \A b \in 1..Len(c.blocks) : c.blocks[b] \in Tabs
    BY SeenBlocks
  <1>2. \A b \in 1..Len(c.blocks) : tb2[c.blocks[b]].env = tb[c.blocks[b]].env
    BY <1>1 DEF Sees
  <1>3. ~c.returned => tb2[c.frame].env = tb[c.frame].env
    BY DEF Sees
  <1> QED
    BY <1>2, <1>3 DEF SeenCall

LEMMA SeenIsReferred ==
  ASSUME NEW cs \in Seq(Call), NEW i \in 1..Len(cs), NEW t, Sees(cs[i], t)
  PROVE  i \in FrameRefs(cs, t) \/ \E b : <<i, b>> \in BlockRefs(cs, t)
  <1>1. CASE ~cs[i].returned /\ cs[i].frame = t
    BY <1>1 DEF FrameRefs
  <1>2. CASE \E b \in 1..Len(cs[i].blocks) : cs[i].blocks[b] = t
    <2>1. PICK b \in 1..Len(cs[i].blocks) : cs[i].blocks[b] = t
      BY <1>2
    <2>2. b \in Nat \ {0} /\ b <= Len(cs[i].blocks)
      BY <2>1, CallsAreTyped
    <2> QED
      BY <2>1, <2>2 DEF BlockRefs
  <1> QED
    BY <1>1, <1>2 DEF Sees

(* Who only moves references leaves every env that is still referred to.    *)
LEMMA ReferredIsKept ==
  ASSUME NEW leak \in Leaks, FramesInv(leak),
         NEW more \in Leaks, FramesInv(more)',
         \A t \in Tabs : tab'[t].env = tab[t].env \/ tab'[t].rc = 0
  PROVE  /\ \A i \in 1..Len(calls') :
              SeenCall(tab', calls'[i]) = SeenCall(tab, calls'[i])
         /\ \A h \in Slots :
              held'[h] # NoTab => tab'[held'[h]].env = tab[held'[h]].env
  <1>1. /\ tab \in [Tabs -> TabType] /\ tab' \in [Tabs -> TabType]
        /\ calls' \in Seq(Call) /\ held' \in [Slots -> Tabs \cup {NoTab}]
    BY DEF FramesInv, TypeOK, TabType
  <1>2. ASSUME NEW t \in Tabs,
               \/ FrameRefs(calls', t) # {} \/ BlockRefs(calls', t) # {}
               \/ SlotRefs(held', t) # {}
        PROVE  tab'[t].env = tab[t].env
    <2>1. /\ Finite(pool', calls', held', t)
          /\ tab'[t].rc = Refs(pool', calls', held', t) + more[t]
          /\ more[t] \in Nat
      BY DEF FramesInv, Counted, Leaks
    <2>2. Refs(pool', calls', held', t) \in Nat \ {0}
      BY <1>2, <2>1, RefsAreCounted DEF Refs
    <2>3. tab'[t].rc # 0
      BY <2>1, <2>2
    <2> QED
      BY <2>3
  <1>3. ASSUME NEW i \in 1..Len(calls')
        PROVE  SeenCall(tab', calls'[i]) = SeenCall(tab, calls'[i])
    <2>1. calls'[i] \in Call /\ (~calls'[i].returned => calls'[i].frame \in Tabs)
      BY <1>1, CallsAreTyped DEF FramesInv, FrameIsThere
    <2>2. \A t \in Tabs : Sees(calls'[i], t) => tab'[t].env = tab[t].env
      BY <1>1, <1>2, SeenIsReferred
    <2> QED
      BY <1>1, <2>1, <2>2, SeenAlike
  <1>4. ASSUME NEW h \in Slots, held'[h] # NoTab
        PROVE  tab'[held'[h]].env = tab[held'[h]].env
    <2>1. held'[h] \in Tabs /\ h \in SlotRefs(held', held'[h])
      BY <1>1, <1>4 DEF SlotRefs
    <2> QED
      BY <1>2, <2>1
  <1> QED
    BY <1>3, <1>4

(* Who writes one tab is not noticed by a call that does not refer to it.   *)
LEMMA OthersAreKept ==
  ASSUME NEW leak \in Leaks, FramesInv(leak),
         tab' \in [Tabs -> TabType], NEW f \in Tabs,
         \A t \in Tabs : t # f => tab'[t].env = tab[t].env
  PROVE  /\ \A i \in 1..Len(calls) :
              i \notin FrameRefs(calls, f) /\ (\A b : <<i, b>> \notin BlockRefs(calls, f))
                => SeenCall(tab', calls[i]) = SeenCall(tab, calls[i])
         /\ SlotRefs(held, f) = {} /\ held' = held => SeenHeld' = SeenHeld
  <1>1. /\ tab \in [Tabs -> TabType] /\ calls \in Seq(Call)
        /\ held \in [Slots -> Tabs \cup {NoTab}]
    BY DEF FramesInv, TypeOK, TabType
  <1>2. ASSUME NEW i \in 1..Len(calls), i \notin FrameRefs(calls, f),
               \A b : <<i, b>> \notin BlockRefs(calls, f)
        PROVE  SeenCall(tab', calls[i]) = SeenCall(tab, calls[i])
    <2>1. calls[i] \in Call /\ (~calls[i].returned => calls[i].frame \in Tabs)
      BY <1>1, CallsAreTyped DEF FramesInv, FrameIsThere
    <2>2. ~Sees(calls[i], f)
      BY <1>1, <1>2, SeenIsReferred
    <2>3. \A t \in Tabs : Sees(calls[i], t) => tab'[t].env = tab[t].env
      BY <2>2
    <2> QED
      BY <1>1, <2>1, <2>3, SeenAlike
  <1>3. ASSUME SlotRefs(held, f) = {}, held' = held
        PROVE  SeenHeld' = SeenHeld
    <2>1. \A h \in Slots : held[h] # f
      BY <1>3 DEF SlotRefs
    <2>2. \A h \in Slots : held[h] # NoTab => tab'[held[h]].env = tab[held[h]].env
      BY <1>1, <2>1
    <2> QED
      BY <1>3, <2>2 DEF SeenHeld
  <1> QED
    BY <1>2, <1>3

----------------------------------------------------------------------------
(* The actions, one by one.                                                 *)
LEMMA NoBlocksAreSeen ==
  ASSUME NEW tb \in [Tabs -> TabType], NEW c \in Call, c.blocks = <<>>
  PROVE  SeenCall(tb, c).blocks = <<>>
  BY SeenBlocks, EmptySeq

(* The parts of a call that a step changes.                                 *)
LEMMA PartsAreUpdated ==
  ASSUME NEW s \in PureCall, NEW d \in PureCall, d.clo = s.clo
  PROVE  /\ d.returned = s.returned /\ d.blocks = s.blocks
              => d = [s EXCEPT !.bound = d.bound, !.env = d.env]
         /\ d.returned = s.returned /\ d.bound = s.bound /\ d.env = s.env
              => d = [s EXCEPT !.blocks = d.blocks]
         /\ d.bound = s.bound /\ d.blocks = s.blocks
              => d = [s EXCEPT !.returned = d.returned, !.env = d.env]
  BY DEF PureCall

LEMMA SameBinding ==
  /\ \A e, x, v : Pure!Bind(e, x, v) = Bind(e, x, v)
  /\ \A e, x : Pure!Lookup(e, x) = Lookup(e, x)
  /\ \A e : Pure!Keys(e) = Keys(e)
  BY DEF Pure!Bind, Bind, Pure!Lookup, Lookup, Pure!Keys, Keys,
         Pure!Positions, Positions, Pure!First, First, Pure!Last, Last

LEMMA TopIsUpdated ==
  ASSUME NEW leak \in Leaks, FramesInv(leak),
         NEW more \in Leaks, FramesInv(more)',
         calls # <<>>, NEW c \in Call,
         calls' = [calls EXCEPT ![Len(calls)] = c],
         \A i \in 1..Len(calls) :
           i # Len(calls) => SeenCall(tab', calls[i]) = SeenCall(tab, calls[i])
  PROVE  SeenCalls' = [SeenCalls EXCEPT ![Len(SeenCalls)] = SeenCall(tab', c)]
  <1>1. calls \in Seq(Call) /\ Len(calls) > 0 /\ Len(calls) \in 1..Len(calls)
    BY TopIsTyped DEF FramesInv, TypeOK
  <1>2. /\ Len(calls') = Len(calls)
        /\ \A i \in 1..Len(calls) : calls'[i] = IF i = Len(calls) THEN c ELSE calls[i]
    BY <1>1, CallsUpdated
  <1>3. /\ SeenCalls \in Seq(PureCall) /\ Len(SeenCalls) = Len(calls)
        /\ SeenCalls' \in Seq(PureCall) /\ Len(SeenCalls') = Len(calls)
        /\ \A i \in 1..Len(calls) : SeenCalls[i] = SeenCall(tab, calls[i])
        /\ \A i \in 1..Len(calls) : SeenCalls'[i] = SeenCall(tab', calls'[i])
        /\ \A i \in 1..Len(calls) : SeenCalls'[i] \in PureCall
    BY <1>2, SeenTyped
  <1>4. SeenCalls'[Len(calls)] = SeenCall(tab', c) /\ SeenCall(tab', c) \in PureCall
    BY <1>1, <1>2, <1>3
  <1>5. ASSUME NEW i \in 1..Len(calls), i # Len(calls)
        PROVE  SeenCalls'[i] = SeenCalls[i]
    <2>1. calls'[i] = calls[i]
      BY <1>2, <1>5
    <2>2. SeenCall(tab', calls[i]) = SeenCall(tab, calls[i])
      BY <1>5
    <2>3. SeenCalls'[i] = SeenCall(tab', calls[i])
      BY <1>3, <2>1
    <2> QED
      BY <1>3, <2>2, <2>3
  <1> QED
    BY <1>1, <1>3, <1>4, <1>5, SeqIsUpdated

LEMMA EnterIsPure ==
  ASSUME NEW leak \in Leaks, FramesInv(leak),
         NEW more \in Leaks, FramesInv(more)',
         NEW clo \in Closures, Enter(clo)
  PROVE  Pure!Enter(clo)
  <1> DEFINE c(t) == [clo |-> clo, bound |-> 0, returned |-> FALSE,
                      frame |-> t, blocks |-> <<>>]
             e == [clo |-> clo, bound |-> 0, returned |-> FALSE,
                   env |-> clo.captured, blocks |-> <<>>]
  <1>1. PICK t \in Tabs :
               /\ c(t) \in Call
               /\ calls' = Append(calls, c(t))
               /\ held' = held /\ read' = read
               /\ tab' \in [Tabs -> TabType]
               /\ tab'[t].env = clo.captured
               /\ \A u \in Tabs : u # t => tab'[u] = tab[u]
               /\ FrameRefs(calls, t) = {} /\ BlockRefs(calls, t) = {}
               /\ SlotRefs(held, t) = {}
    BY EnterFacts
  <1>2. /\ SeenCalls \in Seq(PureCall) /\ Len(SeenCalls) = Len(calls)
        /\ Len(calls) \in Nat
        /\ \A i \in 1..Len(calls) : SeenCalls[i] = SeenCall(tab, calls[i])
        /\ SeenCalls' \in Seq(PureCall) /\ Len(SeenCalls') = Len(calls')
        /\ \A i \in 1..Len(calls') : SeenCalls'[i] = SeenCall(tab', calls'[i])
        /\ \A i \in 1..Len(calls') : SeenCalls'[i] \in PureCall
    BY SeenTyped
  <1>3. calls \in Seq(Call)
    BY DEF FramesInv, TypeOK
  <1>4. /\ Len(calls') = Len(calls) + 1
        /\ \A i \in 1..Len(calls) : calls'[i] = calls[i]
        /\ calls'[Len(calls) + 1] = c(t)
    <2> HIDE DEF c
    <2> QED
      BY <1>1, <1>2, <1>3
  <1>5. /\ \A i \in 1..Len(calls) : SeenCall(tab', calls[i]) = SeenCall(tab, calls[i])
        /\ SeenHeld' = SeenHeld
    BY <1>1, OthersAreKept
  <1>6. SeenCall(tab', c(t)) = e
    <2>1. SeenCall(tab', c(t)).blocks = <<>>
      BY <1>1, NoBlocksAreSeen
    <2> QED
      BY <1>1, <2>1 DEF SeenCall
  <1>7. Len(calls) + 1 \in 1..Len(calls') /\ 1..Len(calls) \subseteq 1..Len(calls')
    BY <1>2, <1>4
  <1> HIDE DEF c, e
  <1>8. /\ SeenCalls'[Len(SeenCalls) + 1] = e /\ e \in PureCall
        /\ Len(SeenCalls') = Len(SeenCalls) + 1
    BY <1>2, <1>4, <1>6, <1>7
  <1>9. \A i \in 1..Len(SeenCalls) : SeenCalls'[i] = SeenCalls[i]
    BY <1>2, <1>4, <1>5, <1>7
  <1>10. SeenCalls' = Append(SeenCalls, e)
    BY <1>2, <1>8, <1>9, SeqIsExtended
  <1> QED
    BY <1>1, <1>5, <1>10 DEF Pure!Enter, e

LEMMA BindParamIsPure ==
  ASSUME NEW leak \in Leaks, FramesInv(leak),
         NEW more \in Leaks, FramesInv(more)',
         NEW v \in Vals, BindParam(v)
  PROVE  Pure!BindParam(v)
  <1> DEFINE f == Top.frame
             x == Top.clo.params[Top.bound + 1]
             c == [Top EXCEPT !.bound = @ + 1]
             s == SeenCall(tab, Top)
             n == Len(calls)
  <1>1. /\ f \in Tabs
        /\ tab' \in [Tabs -> TabType]
        /\ \A t \in Tabs : t # f => tab'[t] = tab[t]
        /\ tab'[f].env = Bind(tab[f].env, x, v)
        /\ c \in Call /\ c.clo = Top.clo /\ c.returned = Top.returned
        /\ c.frame = Top.frame /\ c.blocks = Top.blocks /\ c.bound = Top.bound + 1
        /\ calls' = [calls EXCEPT ![Len(calls)] = c]
        /\ held' = held /\ read' = read
    BY BindParamFacts
  <1>2. calls # <<>> /\ ~Top.returned /\ Top.bound < Len(Top.clo.params)
    BY DEF BindParam
  <1>3. /\ n \in 1..n /\ Top = calls[n] /\ Top \in Call
        /\ SeenCalls # <<>> /\ SeenCalls[Len(SeenCalls)] = s
    BY <1>2, TopIsTyped, SeenTyped DEF FramesInv, Top
  <1>4. FrameRefs(calls, f) = {n} /\ BlockRefs(calls, f) = {} /\ SlotRefs(held, f) = {}
    BY <1>2, <1>3, BindingFrameIsOwn
  <1>5. /\ \A i \in 1..n : i # n => SeenCall(tab', calls[i]) = SeenCall(tab, calls[i])
        /\ SeenHeld' = SeenHeld
    BY <1>1, <1>4, OthersAreKept
  <1>6. SeenCalls' = [SeenCalls EXCEPT ![Len(SeenCalls)] = SeenCall(tab', c)]
    BY <1>1, <1>2, <1>5, TopIsUpdated
  <1>7. SeenCall(tab', c).blocks = s.blocks
    <2>1. tab \in [Tabs -> TabType] /\ calls \in Seq(Call)
      BY DEF FramesInv, TypeOK, TabType
    <2>2. \A b \in 1..Len(Top.blocks) : Top.blocks[b] \in Tabs /\ Top.blocks[b] # f
      <3>1. \A b \in 1..Len(Top.blocks) : <<n, b>> \in BlockRefs(calls, Top.blocks[b])
        BY <1>3, BlockHasRef DEF FramesInv
      <3> QED
        BY <1>3, <1>4, <2>1, <3>1, SeenBlocks
    <2>3. \A b \in 1..Len(Top.blocks) : tab'[Top.blocks[b]].env = tab[Top.blocks[b]].env
      BY <1>1, <2>2
    <2> QED
      BY <1>1, <2>3 DEF SeenCall
  <1>8. SeenCall(tab', c) = [s EXCEPT !.bound = @ + 1,
                                      !.env = Bind(@, s.clo.params[s.bound + 1], v)]
    <2>1. tab \in [Tabs -> TabType]
      BY DEF FramesInv, TypeOK, TabType
    <2>2. /\ s \in PureCall
          /\ s.clo = Top.clo /\ s.bound = Top.bound /\ s.returned = Top.returned
          /\ s.env = tab[f].env
      BY <1>1, <1>2, <1>3, <2>1, SeenIsTyped
    <2> DEFINE d == SeenCall(tab', c)
    <2>3. /\ d \in PureCall
          /\ d.clo = s.clo /\ d.bound = s.bound + 1 /\ d.returned = s.returned
          /\ d.env = Bind(s.env, s.clo.params[s.bound + 1], v)
      BY <1>1, <1>2, <2>2, SeenIsTyped
    <2> HIDE DEF c, s, d
    <2>4. d = [s EXCEPT !.bound = d.bound, !.env = d.env]
      BY <1>7, <2>2, <2>3, PartsAreUpdated DEF d
    <2> QED
      BY <2>3, <2>4 DEF d
  <1>9. s.returned = Top.returned /\ s.bound = Top.bound /\ s.clo = Top.clo
    BY DEF SeenCall
  <1> HIDE DEF s, c, x, f
  <1>10. Pure!Bind(s.env, s.clo.params[s.bound + 1], v) =
              Bind(s.env, s.clo.params[s.bound + 1], v)
    BY SameBinding
  <1> QED
    BY <1>1, <1>2, <1>3, <1>5, <1>6, <1>8, <1>9, <1>10
       DEF Pure!BindParam, Pure!Update, Pure!Top

(* The env around and the progress of the last call, as they are seen.      *)
LEMMA TopIsSeen ==
  ASSUME NEW leak \in Leaks, FramesInv(leak),
         calls # <<>>, ~Top.returned \/ Top.blocks # <<>>
  PROVE  LET s == SeenCall(tab, Top)
         IN  /\ SeenCalls # <<>> /\ SeenCalls[Len(SeenCalls)] = s
             /\ s \in PureCall /\ Len(SeenCalls) = Len(calls)
             /\ SeenCalls \in Seq(PureCall)
             /\ s.clo = Top.clo /\ s.bound = Top.bound /\ s.returned = Top.returned
             /\ s.env = IF Top.returned THEN <<>> ELSE tab[Top.frame].env
             /\ s.blocks \in Seq(Env) /\ Len(s.blocks) = Len(Top.blocks)
             /\ s.blocks = <<>> <=> Top.blocks = <<>>
             /\ \A b \in 1..Len(Top.blocks) : s.blocks[b] = tab[Top.blocks[b]].env
             /\ Pure!Scope(s) = tab[Scope(Top)].env
             /\ Pure!InBody(s) <=> InBody(Top)
             /\ Scope(Top) \in Tabs /\ tab[Scope(Top)].env \in Env
  <1> DEFINE s == SeenCall(tab, Top)
  <1>1. /\ tab \in [Tabs -> TabType] /\ calls \in Seq(Call)
        /\ \A i \in 1..Len(calls) : ~calls[i].returned => calls[i].frame \in Tabs
    BY DEF FramesInv, TypeOK, TabType, FrameIsThere
  <1>2. /\ Len(calls) \in 1..Len(calls) /\ Top \in Call
        /\ Top.blocks \in Seq(Tabs) /\ Len(Top.blocks) \in Nat
        /\ ~Top.returned => Top.frame \in Tabs /\ Scope(Top) \in Tabs
        /\ Top.blocks # <<>> => /\ Len(Top.blocks) > 0
                                /\ Scope(Top) = Top.blocks[Len(Top.blocks)]
                                /\ Scope(Top) \in Tabs
    BY TopIsTyped DEF FramesInv
  <1>3. SeenCalls = [i \in 1..Len(calls) |-> SeenCall(tab, calls[i])]
    BY DEF SeenCalls
  <1>4. /\ SeenCalls \in Seq(PureCall) /\ Len(SeenCalls) = Len(calls)
        /\ SeenCalls[Len(calls)] = s
    BY <1>1, <1>2, <1>3, SeenCallsAreTyped DEF Top
  <1>5. SeenCalls # <<>>
    BY <1>2, <1>4, EmptySeq
  <1>6. /\ s \in PureCall
        /\ s.clo = Top.clo /\ s.bound = Top.bound /\ s.returned = Top.returned
        /\ s.env = IF Top.returned THEN <<>> ELSE tab[Top.frame].env
    BY <1>1, <1>2, SeenIsTyped
  <1>7. /\ s.blocks \in Seq(Env) /\ Len(s.blocks) = Len(Top.blocks)
        /\ \A b \in 1..Len(Top.blocks) : s.blocks[b] = tab[Top.blocks[b]].env
    BY <1>1, <1>2, SeenBlocks
  <1> HIDE DEF s
  <1>8. s.blocks = <<>> <=> Top.blocks = <<>>
    BY <1>2, <1>7, EmptySeq
  <1>9. Pure!Scope(s) = tab[Scope(Top)].env
    <2>1. CASE Top.blocks = <<>>
      BY <1>6, <1>8, <2>1 DEF Pure!Scope, Scope
    <2>2. CASE Top.blocks # <<>>
      <3>1. Len(Top.blocks) \in 1..Len(Top.blocks)
        BY <1>2, <2>2
      <3> QED
        BY <1>2, <1>7, <1>8, <2>2, <3>1 DEF Pure!Scope
    <2> QED
      BY <2>1, <2>2
  <1>10. Pure!InBody(s) <=> InBody(Top)
    BY <1>6 DEF Pure!InBody, InBody
  <1>11. Scope(Top) \in Tabs /\ tab[Scope(Top)].env \in Env
    BY <1>1, <1>2 DEF TabType
  <1> QED
    BY <1>4, <1>5, <1>6, <1>7, <1>8, <1>9, <1>10, <1>11 DEF s

LEMMA ReadIsPure ==
  ASSUME NEW leak \in Leaks, FramesInv(leak),
         NEW x \in Vars, Read(x)
  PROVE  Pure!Read(x)
  <1> DEFINE s == SeenCall(tab, Top)
  <1>1. /\ calls # <<>> /\ InBody(Top) /\ x \in Keys(tab[Scope(Top)].env)
        /\ read' = [key |-> x, val |-> Lookup(tab[Scope(Top)].env, x)]
        /\ tab' = tab /\ calls' = calls /\ held' = held
    BY DEF Read
  <1>2. /\ SeenCalls # <<>> /\ SeenCalls[Len(SeenCalls)] = s
        /\ Pure!Scope(s) = tab[Scope(Top)].env /\ Pure!InBody(s)
    BY <1>1, TopIsSeen DEF InBody
  <1>3. SeenCalls' = SeenCalls /\ SeenHeld' = SeenHeld
    BY <1>1 DEF SeenCalls, SeenHeld, SeenCall
  <1> HIDE DEF s
  <1> QED
    BY <1>1, <1>2, <1>3, SameBinding DEF Pure!Read, Pure!Top

LEMMA HeldIsKept ==
  ASSUME NEW leak \in Leaks, FramesInv(leak),
         NEW more \in Leaks, FramesInv(more)',
         held' = held,
         \A t \in Tabs : tab'[t].env = tab[t].env \/ tab'[t].rc = 0
  PROVE  SeenHeld' = SeenHeld
  BY ReferredIsKept DEF SeenHeld

LEMMA CallsAreKept ==
  ASSUME NEW leak \in Leaks, FramesInv(leak),
         NEW more \in Leaks, FramesInv(more)',
         calls' = calls,
         \A t \in Tabs : tab'[t].env = tab[t].env \/ tab'[t].rc = 0
  PROVE  SeenCalls' = SeenCalls
  <1>1. /\ SeenCalls \in Seq(PureCall) /\ Len(SeenCalls) = Len(calls)
        /\ \A i \in 1..Len(calls) : SeenCalls[i] = SeenCall(tab, calls[i])
        /\ SeenCalls' \in Seq(PureCall) /\ Len(SeenCalls') = Len(calls)
        /\ \A i \in 1..Len(calls) : SeenCalls'[i] = SeenCall(tab', calls[i])
    BY SeenTyped
  <1>2. \A i \in 1..Len(calls) : SeenCall(tab', calls[i]) = SeenCall(tab, calls[i])
    BY ReferredIsKept
  <1> QED
    BY <1>1, <1>2, SeqEqual

(* Dropping references changes no env but that of a tab it frees.           *)
LEMMA ReleaseKeepsEnvs ==
  ASSUME NEW tb \in [Tabs -> TabType], NEW ts
  PROVE  \A t \in Tabs : \/ Release(tb, ts)[t].env = tb[t].env
                         \/ Release(tb, ts)[t].rc = 0
  BY DEF Release, Free, TabType

LEMMA OpenBlockIsPure ==
  ASSUME NEW leak \in Leaks, FramesInv(leak),
         NEW more \in Leaks, FramesInv(more)',
         OpenBlock
  PROVE  Pure!OpenBlock
  <1> DEFINE s == SeenCall(tab, Top)
             c == [Top EXCEPT !.blocks = Append(@, Scope(Top))]
             d == SeenCall(tab', c)
             n == Len(calls)
  <1>1. /\ calls # <<>> /\ InBody(Top)
        /\ tab' = [tab EXCEPT ![Scope(Top)].rc = @ + 1]
        /\ c \in Call /\ c.clo = Top.clo /\ c.returned = Top.returned
        /\ c.frame = Top.frame /\ c.bound = Top.bound
        /\ c.blocks = Append(Top.blocks, Scope(Top))
        /\ calls' = [calls EXCEPT ![n] = c]
        /\ held' = held /\ read' = read
    BY OpenBlockFacts
  <1>2. /\ tab' \in [Tabs -> TabType]
        /\ \A t \in Tabs : tab'[t].env = tab[t].env
    BY <1>1, SharedFacts
  <1>3. /\ SeenCalls # <<>> /\ SeenCalls[Len(SeenCalls)] = s
        /\ s \in PureCall
        /\ s.clo = Top.clo /\ s.bound = Top.bound /\ s.returned = Top.returned
        /\ s.env = tab[Top.frame].env
        /\ s.blocks \in Seq(Env) /\ Len(s.blocks) = Len(Top.blocks)
        /\ \A b \in 1..Len(Top.blocks) : s.blocks[b] = tab[Top.blocks[b]].env
        /\ Pure!Scope(s) = tab[Scope(Top)].env /\ Pure!InBody(s)
        /\ Scope(Top) \in Tabs /\ tab[Scope(Top)].env \in Env
    BY <1>1, TopIsSeen DEF InBody
  <1>4. /\ calls \in Seq(Call) /\ n > 0 /\ Top.frame \in Tabs
        /\ Top.blocks \in Seq(Tabs) /\ Len(Top.blocks) \in Nat
    BY <1>1, TopIsTyped DEF FramesInv, TypeOK, InBody
  <1> HIDE DEF s, c, d, n
  <1>5. /\ Len(calls') = n
        /\ \A i \in 1..n : calls'[i] = IF i = n THEN c ELSE calls[i]
    BY <1>1, <1>4, CallsUpdated DEF n
  <1>6. \A i \in 1..n : SeenCall(tab', calls'[i]) = SeenCall(tab, calls'[i])
    BY <1>2, <1>5, ReferredIsKept
  <1>7. \A i \in 1..n : i # n => SeenCall(tab', calls[i]) = SeenCall(tab, calls[i])
    <2>1. \A i \in 1..n : i # n => calls'[i] = calls[i]
      BY <1>5
    <2> QED
      BY <1>6, <2>1
  <1>8. SeenCalls' = [SeenCalls EXCEPT ![Len(SeenCalls)] = d]
    BY <1>1, <1>7, TopIsUpdated DEF d, n
  <1>9. /\ d \in PureCall
        /\ d.clo = s.clo /\ d.bound = s.bound /\ d.returned = s.returned
        /\ d.env = s.env
    <2>1. ~c.returned /\ c.frame \in Tabs
      BY <1>1, <1>4 DEF InBody
    <2>2. /\ d \in PureCall
          /\ d.clo = c.clo /\ d.bound = c.bound /\ d.returned = c.returned
          /\ d.env = tab'[c.frame].env
      BY <1>1, <1>2, <2>1, SeenIsTyped DEF d
    <2> QED
      BY <1>1, <1>2, <1>3, <1>4, <2>2
  <1>10. d.blocks = Append(s.blocks, Pure!Scope(s))
    <2>1. /\ d.blocks \in Seq(Env) /\ Len(d.blocks) = Len(c.blocks)
          /\ \A b \in 1..Len(c.blocks) : /\ c.blocks[b] \in Tabs
                                          /\ d.blocks[b] = tab'[c.blocks[b]].env
      BY <1>1, <1>2, SeenBlocks DEF d
    <2>2. /\ Len(c.blocks) = Len(Top.blocks) + 1
          /\ \A b \in 1..Len(Top.blocks) : c.blocks[b] = Top.blocks[b]
          /\ c.blocks[Len(Top.blocks) + 1] = Scope(Top)
      BY <1>1, <1>3, <1>4
    <2>3. /\ Len(s.blocks) + 1 \in 1..Len(c.blocks)
          /\ 1..Len(s.blocks) \subseteq 1..Len(c.blocks)
      BY <1>3, <1>4, <2>2
    <2>4. d.blocks[Len(s.blocks) + 1] = Pure!Scope(s)
      BY <1>2, <1>3, <2>1, <2>2, <2>3
    <2>5. ASSUME NEW b \in 1..Len(s.blocks)
          PROVE  d.blocks[b] = s.blocks[b]
      <3>1. b \in 1..Len(c.blocks) /\ b \in 1..Len(Top.blocks)
        BY <1>3, <2>3
      <3>2. d.blocks[b] = tab'[Top.blocks[b]].env /\ Top.blocks[b] \in Tabs
        BY <2>1, <2>2, <3>1
      <3> QED
        BY <1>2, <1>3, <3>1, <3>2
    <2> QED
      BY <1>3, <2>1, <2>2, <2>4, <2>5, SeqIsExtended
  <1>11. d = [s EXCEPT !.blocks = Append(@, Pure!Scope(s))]
    <2>1. d = [s EXCEPT !.blocks = d.blocks]
      BY <1>3, <1>9, PartsAreUpdated
    <2> QED
      BY <1>10, <2>1
  <1>12. SeenHeld' = SeenHeld
    BY <1>1, <1>2, HeldIsKept
  <1> QED
    BY <1>1, <1>3, <1>8, <1>11, <1>12 DEF Pure!OpenBlock, Pure!Update, Pure!Top

LEMMA BlockEndsIsPure ==
  ASSUME NEW leak \in Leaks, FramesInv(leak),
         NEW more \in Leaks, FramesInv(more)',
         BlockEnds,
         \A t \in Tabs : tab'[t].env = tab[t].env \/ tab'[t].rc = 0
  PROVE  Pure!CloseBlock
  <1> DEFINE s == SeenCall(tab, Top)
             c == [Top EXCEPT !.blocks = SubSeq(@, 1, Len(@) - 1)]
             d == SeenCall(tab, c)
             n == Len(calls)
             k == Len(Top.blocks)
  <1>1. /\ calls # <<>> /\ Top.blocks # <<>>
        /\ c \in Call /\ c.clo = Top.clo /\ c.returned = Top.returned
        /\ c.frame = Top.frame /\ c.bound = Top.bound
        /\ c.blocks = SubSeq(Top.blocks, 1, k - 1)
        /\ calls' = [calls EXCEPT ![n] = c]
        /\ held' = held /\ read' = read
    BY BlockEndsFacts
  <1>2. tab \in [Tabs -> TabType] /\ calls \in Seq(Call)
    BY DEF FramesInv, TypeOK, TabType
  <1>3. \A t \in Tabs : tab'[t].env = tab[t].env \/ tab'[t].rc = 0
    OBVIOUS
  <1>4. /\ SeenCalls # <<>> /\ SeenCalls[Len(SeenCalls)] = s
        /\ s \in PureCall
        /\ s.clo = Top.clo /\ s.bound = Top.bound /\ s.returned = Top.returned
        /\ s.env = IF Top.returned THEN <<>> ELSE tab[Top.frame].env
        /\ s.blocks \in Seq(Env) /\ Len(s.blocks) = k /\ s.blocks # <<>>
        /\ \A b \in 1..k : s.blocks[b] = tab[Top.blocks[b]].env
    BY <1>1, TopIsSeen
  <1>5. /\ n > 0 /\ Top.blocks \in Seq(Tabs) /\ k \in Nat /\ k > 0
        /\ ~Top.returned => Top.frame \in Tabs
    BY <1>1, TopIsTyped DEF FramesInv
  <1> HIDE DEF s, c, d, n, k
  <1>6. /\ n \in 1..n /\ Len(calls') = n
        /\ \A i \in 1..n : calls'[i] = IF i = n THEN c ELSE calls[i]
    BY <1>1, <1>2, <1>5, CallsUpdated, CallsAreTyped DEF n
  <1>7. \A i \in 1..n : SeenCall(tab', calls'[i]) = SeenCall(tab, calls'[i])
    BY <1>3, <1>6, ReferredIsKept
  <1>8. SeenCall(tab', c) = d
    <2>1. calls'[n] = c
      BY <1>6
    <2> QED
      BY <1>6, <1>7, <2>1 DEF d
  <1>9. \A i \in 1..n : i # n => SeenCall(tab', calls[i]) = SeenCall(tab, calls[i])
    <2>1. \A i \in 1..n : i # n => calls'[i] = calls[i]
      BY <1>6
    <2> QED
      BY <1>7, <2>1
  <1>10. SeenCalls' = [SeenCalls EXCEPT ![Len(SeenCalls)] = d]
    BY <1>1, <1>8, <1>9, TopIsUpdated DEF n
  <1>11. /\ d \in PureCall
         /\ d.clo = s.clo /\ d.bound = s.bound /\ d.returned = s.returned
         /\ d.env = s.env
    <2>1. ~c.returned => c.frame \in Tabs
      BY <1>1, <1>5
    <2>2. /\ d \in PureCall
          /\ d.clo = c.clo /\ d.bound = c.bound /\ d.returned = c.returned
          /\ d.env = IF c.returned THEN <<>> ELSE tab[c.frame].env
      BY <1>1, <1>2, <2>1, SeenIsTyped DEF d
    <2> QED
      BY <1>1, <1>4, <2>2
  <1>12. d.blocks = SubSeq(s.blocks, 1, Len(s.blocks) - 1)
    <2>1. /\ d.blocks \in Seq(Env) /\ Len(d.blocks) = Len(c.blocks)
          /\ \A b \in 1..Len(c.blocks) : d.blocks[b] = tab[c.blocks[b]].env
      BY <1>1, <1>2, SeenBlocks DEF d
    <2>2. /\ Len(c.blocks) = k - 1
          /\ \A b \in 1..k - 1 : c.blocks[b] = Top.blocks[b]
      BY <1>1, <1>5, FrontIsShorter DEF k
    <2>3. 1..k - 1 \subseteq 1..k
      BY <1>5
    <2>4. \A b \in 1..Len(s.blocks) - 1 : d.blocks[b] = s.blocks[b]
      BY <1>4, <2>1, <2>2, <2>3
    <2> QED
      BY <1>4, <1>5, <2>1, <2>2, <2>4, SeqIsCut
  <1>13. d = [s EXCEPT !.blocks = SubSeq(@, 1, Len(@) - 1)]
    <2>1. d = [s EXCEPT !.blocks = d.blocks]
      BY <1>4, <1>11, PartsAreUpdated
    <2> QED
      BY <1>12, <2>1
  <1>14. SeenHeld' = SeenHeld
    BY <1>1, <1>3, HeldIsKept
  <1> QED
    BY <1>1, <1>4, <1>10, <1>13, <1>14 DEF Pure!CloseBlock, Pure!Update, Pure!Top

LEMMA CloseBlockIsPure ==
  ASSUME NEW leak \in Leaks, FramesInv(leak),
         NEW more \in Leaks, FramesInv(more)',
         CloseBlock
  PROVE  Pure!CloseBlock
  <1>1. BlockEnds /\ tab' = Release(tab, <<Scope(Top)>>)
    BY CloseBlockEndsBlock
  <1>2. tab \in [Tabs -> TabType]
    BY DEF FramesInv, TypeOK, TabType
  <1> QED
    BY <1>1, <1>2, ReleaseKeepsEnvs, BlockEndsIsPure

LEMMA ReflectIsPure ==
  ASSUME NEW leak \in Leaks, FramesInv(leak),
         NEW more \in Leaks, FramesInv(more)',
         NEW h \in Slots, Reflect(h)
  PROVE  Pure!Reflect(h)
  <1>1. /\ calls # <<>> /\ InBody(Top) /\ held[h] = NoTab
        /\ held' = [held EXCEPT ![h] = Scope(Top)]
        /\ tab' = [tab EXCEPT ![Scope(Top)].rc = @ + 1]
        /\ calls' = calls /\ read' = read
    BY DEF Reflect
  <1>2. \A t \in Tabs : tab'[t].env = tab[t].env
    BY <1>1, SharedFacts
  <1>3. /\ SeenCalls # <<>> /\ SeenCalls[Len(SeenCalls)] = SeenCall(tab, Top)
        /\ Pure!Scope(SeenCall(tab, Top)) = tab[Scope(Top)].env
        /\ Pure!InBody(SeenCall(tab, Top)) /\ Scope(Top) \in Tabs
    BY <1>1, TopIsSeen DEF InBody
  <1>4. SeenCalls' = SeenCalls
    BY <1>1, <1>2, CallsAreKept
  <1>5. /\ held \in [Slots -> Tabs \cup {NoTab}] /\ Scope(Top) # NoTab
        /\ \A g \in Slots : held[g] # NoTab => tab'[held[g]].env = tab[held[g]].env
    BY <1>2, <1>3, FramesAssumption DEF FramesInv, TypeOK
  <1>6. SeenHeld' = [SeenHeld EXCEPT ![h] = <<tab[Scope(Top)].env>>]
    <2>1. held'[h] = Scope(Top) /\ \A g \in Slots : g # h => held'[g] = held[g]
      BY <1>1, <1>5
    <2> QED
      BY <1>2, <1>3, <1>5, <2>1 DEF SeenHeld
  <1>7. SeenHeld[h] = <<>>
    BY <1>1 DEF SeenHeld
  <1> QED
    BY <1>1, <1>3, <1>4, <1>6, <1>7 DEF Pure!Reflect, Pure!Top, Pure!NoEnv

LEMMA ForgetIsPure ==
  ASSUME NEW leak \in Leaks, FramesInv(leak),
         NEW more \in Leaks, FramesInv(more)',
         NEW h \in Slots, Forget(h)
  PROVE  Pure!Forget(h)
  <1>1. /\ held' = [held EXCEPT ![h] = NoTab]
        /\ tab' = Release(tab, <<held[h]>>)
        /\ calls' = calls /\ read' = read
    BY DEF Forget
  <1>2. tab \in [Tabs -> TabType] /\ held \in [Slots -> Tabs \cup {NoTab}]
    BY DEF FramesInv, TypeOK, TabType
  <1>3. \A t \in Tabs : tab'[t].env = tab[t].env \/ tab'[t].rc = 0
    BY <1>1, <1>2, ReleaseKeepsEnvs
  <1>4. SeenCalls' = SeenCalls
    BY <1>1, <1>3, CallsAreKept
  <1>5. \A g \in Slots : held'[g] # NoTab => tab'[held'[g]].env = tab[held'[g]].env
    BY <1>3, ReferredIsKept
  <1>6. /\ held'[h] = NoTab
        /\ \A g \in Slots : g # h => held'[g] = held[g]
    BY <1>1, <1>2
  <1>7. SeenHeld' = [SeenHeld EXCEPT ![h] = <<>>]
    BY <1>5, <1>6 DEF SeenHeld
  <1> QED
    BY <1>1, <1>4, <1>7 DEF Pure!Forget, Pure!NoEnv

(* The last call goes, and the others see what they saw.                    *)
LEMMA LeaveIsSeen ==
  ASSUME NEW leak \in Leaks, FramesInv(leak),
         NEW more \in Leaks, FramesInv(more)',
         calls # <<>>, Len(calls') = Len(calls) - 1,
         \A i \in 1..Len(calls) - 1 : calls'[i] = calls[i],
         \A i \in 1..Len(calls) - 1 :
           SeenCall(tab', calls[i]) = SeenCall(tab, calls[i]),
         SeenHeld' = SeenHeld, read' = read
  PROVE  Pure!Leave
  <1> DEFINE n == Len(calls)
  <1>1. /\ SeenCalls \in Seq(PureCall) /\ Len(SeenCalls) = n /\ n \in Nat /\ n > 0
        /\ \A i \in 1..n : SeenCalls[i] = SeenCall(tab, calls[i])
        /\ SeenCalls' \in Seq(PureCall) /\ Len(SeenCalls') = n - 1
        /\ \A i \in 1..n - 1 : SeenCalls'[i] = SeenCall(tab', calls'[i])
        /\ SeenCalls # <<>>
    BY SeenTyped
  <1>2. 1..n - 1 \subseteq 1..n
    BY <1>1
  <1>3. \A i \in 1..n - 1 : SeenCalls'[i] = SeenCalls[i]
    BY <1>1, <1>2
  <1> HIDE DEF n
  <1>4. SeenCalls' = SubSeq(SeenCalls, 1, Len(SeenCalls) - 1)
    BY <1>1, <1>3, SeqIsCut
  <1> QED
    BY <1>1, <1>4 DEF Pure!Leave, Pure!Drop

LEMMA LeaveIsPure ==
  ASSUME NEW leak \in Leaks, FramesInv(leak),
         NEW more \in Leaks, FramesInv(more)',
         Leave
  PROVE  Pure!Leave
  <1> DEFINE n == Len(calls)
             ts == IF Top.frame = NoTab THEN Top.blocks ELSE Append(Top.blocks, Top.frame)
  <1>1. /\ n \in 1..n
        /\ Len(calls') = n - 1 /\ \A i \in 1..n - 1 : calls'[i] = calls[i]
        /\ held' = held /\ read' = read
        /\ tab' = Release(tab, ts)
    BY LeaveFacts
  <1>2. calls # <<>>
    BY DEF Leave
  <1> HIDE DEF ts
  <1>3. tab \in [Tabs -> TabType]
    BY DEF FramesInv, TypeOK, TabType
  <1>4. \A t \in Tabs : tab'[t].env = tab[t].env \/ tab'[t].rc = 0
    BY <1>1, <1>3, ReleaseKeepsEnvs
  <1>5. \A i \in 1..n - 1 : SeenCall(tab', calls'[i]) = SeenCall(tab, calls'[i])
    BY <1>1, <1>4, ReferredIsKept
  <1>6. SeenHeld' = SeenHeld
    BY <1>1, <1>4, HeldIsKept
  <1> QED
    BY <1>1, <1>2, <1>5, <1>6, LeaveIsSeen

(* A declaration, wherever it was written, is seen in the innermost block.  *)
LEMMA LetIsSeen ==
  ASSUME NEW leak \in Leaks, FramesInv(leak),
         NEW more \in Leaks, FramesInv(more)',
         calls # <<>>, InBody(Top), Top.blocks # <<>>,
         NEW e, NEW c \in Call,
         c.clo = Top.clo, c.returned = Top.returned,
         c.frame = Top.frame, c.bound = Top.bound,
         Len(c.blocks) = Len(Top.blocks),
         \A b \in 1..Len(Top.blocks) :
           tab'[c.blocks[b]].env =
             IF b = Len(Top.blocks) THEN e ELSE tab[Top.blocks[b]].env,
         tab'[Top.frame].env = tab[Top.frame].env,
         calls' = [calls EXCEPT ![Len(calls)] = c],
         \A i \in 1..Len(calls) :
           i # Len(calls) => SeenCall(tab', calls[i]) = SeenCall(tab, calls[i])
  PROVE  LET s == SeenCall(tab, Top)
         IN  SeenCalls' = [SeenCalls EXCEPT
               ![Len(SeenCalls)] =
                 [s EXCEPT !.blocks = [s.blocks EXCEPT ![Len(s.blocks)] = e]]]
  <1> DEFINE s == SeenCall(tab, Top)
             d == SeenCall(tab', c)
             k == Len(Top.blocks)
  <1>1. tab' \in [Tabs -> TabType]
    BY DEF FramesInv, TypeOK, TabType
  <1>2. /\ s \in PureCall
        /\ s.clo = Top.clo /\ s.bound = Top.bound /\ s.returned = Top.returned
        /\ s.env = tab[Top.frame].env
        /\ s.blocks \in Seq(Env) /\ Len(s.blocks) = k
        /\ \A b \in 1..k : s.blocks[b] = tab[Top.blocks[b]].env
    BY TopIsSeen DEF InBody
  <1>3. k \in Nat /\ k > 0 /\ Top.frame \in Tabs
    BY TopIsTyped DEF FramesInv, InBody
  <1>4. SeenCalls' = [SeenCalls EXCEPT ![Len(SeenCalls)] = d]
    BY TopIsUpdated
  <1>5. /\ d \in PureCall
        /\ d.clo = s.clo /\ d.bound = s.bound /\ d.returned = s.returned
        /\ d.env = s.env
    <2>1. ~c.returned /\ c.frame \in Tabs
      BY <1>3 DEF InBody
    <2>2. /\ d \in PureCall
          /\ d.clo = c.clo /\ d.bound = c.bound /\ d.returned = c.returned
          /\ d.env = tab'[c.frame].env
      BY <1>1, <2>1, SeenIsTyped
    <2> HIDE DEF s, d
    <2> QED
      BY <1>2, <2>2
  <1>6. /\ d.blocks \in Seq(Env) /\ Len(d.blocks) = k
        /\ \A b \in 1..k : d.blocks[b] = tab'[c.blocks[b]].env
    BY <1>1, SeenBlocks
  <1> HIDE DEF s, d, k
  <1>7. k \in 1..k
    BY <1>3
  <1>8. d.blocks[k] = e /\ \A b \in 1..k : b # k => d.blocks[b] = s.blocks[b]
    BY <1>2, <1>6, <1>7 DEF k
  <1>9. e \in Env
    BY <1>6, <1>7, <1>8, ElementOfSeq
  <1>10. d.blocks = [s.blocks EXCEPT ![Len(s.blocks)] = e]
    <2>1. /\ s.blocks \in Seq(Env) /\ Len(s.blocks) > 0
          /\ Len(d.blocks) = Len(s.blocks) /\ d.blocks[Len(s.blocks)] = e
          /\ \A b \in 1..Len(s.blocks) : b # Len(s.blocks) => d.blocks[b] = s.blocks[b]
      BY <1>2, <1>3, <1>6, <1>8
    <2> DEFINE a == s.blocks
               f == d.blocks
    <2>2. /\ a \in Seq(Env) /\ Len(a) > 0 /\ f \in Seq(Env)
          /\ Len(f) = Len(a) /\ f[Len(a)] = e
          /\ \A b \in 1..Len(a) : b # Len(a) => f[b] = a[b]
      BY <1>6, <2>1
    <2> HIDE DEF a, f
    <2>3. f = [a EXCEPT ![Len(a)] = e]
      BY <1>9, <2>2, SeqIsUpdated, SMTT(20)
    <2> QED
      BY <2>3 DEF a, f
  <1>11. d = [s EXCEPT !.blocks = d.blocks]
    BY <1>2, <1>5, PartsAreUpdated
  <1> QED
    BY <1>4, <1>10, <1>11 DEF s

LEMMA LetWasCopied ==
  ASSUME NEW e, LetInCopy(e)
  PROVE  \E t \in Tabs :
           LET c == [Top EXCEPT !.blocks[Len(Top.blocks)] = t]
           IN  /\ tab[t].rc = 0 /\ tab'[t].env = e
               /\ \A u \in Tabs : u # t => tab'[u].env = tab[u].env
               /\ c \in Call /\ c.clo = Top.clo /\ c.returned = Top.returned
               /\ c.frame = Top.frame /\ c.bound = Top.bound
               /\ c.blocks = [Top.blocks EXCEPT ![Len(Top.blocks)] = t]
               /\ calls' = [calls EXCEPT ![Len(calls)] = c]
  BY Zenon DEF LetInCopy

LEMMA CopyIsSeen ==
  ASSUME NEW leak \in Leaks, FramesInv(leak),
         NEW more \in Leaks, FramesInv(more)',
         calls # <<>>, InBody(Top), Top.blocks # <<>>, held' = held,
         NEW e,
         \E t \in Tabs :
           LET c == [Top EXCEPT !.blocks[Len(Top.blocks)] = t]
           IN  /\ tab[t].rc = 0 /\ tab'[t].env = e
               /\ \A u \in Tabs : u # t => tab'[u].env = tab[u].env
               /\ c \in Call /\ c.clo = Top.clo /\ c.returned = Top.returned
               /\ c.frame = Top.frame /\ c.bound = Top.bound
               /\ c.blocks = [Top.blocks EXCEPT ![Len(Top.blocks)] = t]
               /\ calls' = [calls EXCEPT ![Len(calls)] = c]
  PROVE  LET s == SeenCall(tab, Top)
         IN  /\ SeenCalls' = [SeenCalls EXCEPT
                  ![Len(SeenCalls)] =
                    [s EXCEPT !.blocks = [s.blocks EXCEPT ![Len(s.blocks)] = e]]]
             /\ SeenHeld' = SeenHeld
  <1> DEFINE n == Len(calls)
             k == Len(Top.blocks)
             New(t) == [Top EXCEPT !.blocks[Len(Top.blocks)] = t]
  <1>1. /\ tab \in [Tabs -> TabType] /\ tab' \in [Tabs -> TabType]
        /\ calls \in Seq(Call)
    BY DEF FramesInv, TypeOK, TabType
  <1>2. /\ n \in 1..n /\ n > 0 /\ Top = calls[n] /\ Top \in Call
        /\ Top.blocks \in Seq(Tabs) /\ k \in Nat /\ k \in 1..k /\ k > 0
        /\ Top.frame \in Tabs
        /\ \A b \in 1..k : Top.blocks[b] \in Tabs
    BY TopIsTyped, ElementOfSeq DEF FramesInv, Top, InBody
  <1>3. \A b \in 1..k : <<n, b>> \in BlockRefs(calls, Top.blocks[b])
    BY <1>2, BlockHasRef DEF FramesInv
  <1>4. n \in FrameRefs(calls, Top.frame)
    BY <1>2, FrameHasRef
  <1>5. PICK t \in Tabs :
          /\ tab[t].rc = 0 /\ tab'[t].env = e
          /\ \A u \in Tabs : u # t => tab'[u].env = tab[u].env
          /\ New(t) \in Call /\ New(t).clo = Top.clo
          /\ New(t).returned = Top.returned
          /\ New(t).frame = Top.frame /\ New(t).bound = Top.bound
          /\ New(t).blocks = [Top.blocks EXCEPT ![k] = t]
          /\ calls' = [calls EXCEPT ![n] = New(t)]
    BY Zenon
  <1> DEFINE c == New(t)
  <1>6. /\ c \in Call /\ c.clo = Top.clo /\ c.returned = Top.returned
        /\ c.frame = Top.frame /\ c.bound = Top.bound
        /\ c.blocks = [Top.blocks EXCEPT ![k] = t]
        /\ calls' = [calls EXCEPT ![n] = c]
    BY <1>5
  <1> HIDE DEF New, c, n
  <1>7. /\ FrameRefs(calls, t) = {} /\ BlockRefs(calls, t) = {}
        /\ SlotRefs(held, t) = {}
    BY <1>5, SoleReference
  <1>8. /\ \A i \in 1..n : i # n => SeenCall(tab', calls[i]) = SeenCall(tab, calls[i])
        /\ SeenHeld' = SeenHeld
    BY <1>1, <1>5, <1>7, OthersAreKept DEF n
  <1>9. /\ Len(c.blocks) = k
        /\ \A b \in 1..k : c.blocks[b] = IF b = k THEN t ELSE Top.blocks[b]
    BY <1>2, <1>6, LastIsReplaced
  <1>10. \A b \in 1..k : Top.blocks[b] # t
    BY <1>3, <1>7
  <1>11. \A b \in 1..k : tab'[c.blocks[b]].env =
                             IF b = k THEN e ELSE tab[Top.blocks[b]].env
    BY <1>2, <1>5, <1>9, <1>10
  <1>12. tab'[Top.frame].env = tab[Top.frame].env
    BY <1>2, <1>4, <1>5, <1>7
  <1> QED
    BY <1>6, <1>8, <1>9, <1>11, <1>12, LetIsSeen DEF n

LEMMA LetIsPure ==
  ASSUME NEW leak \in Leaks, FramesInv(leak),
         NEW more \in Leaks, FramesInv(more)',
         NEW x \in Vars, NEW v \in Vals, Let(x, v)
  PROVE  Pure!Let(x, v)
  <1> DEFINE s == SeenCall(tab, Top)
             cur == Scope(Top)
             e == Bind(tab[cur].env, x, v)
             n == Len(calls)
             k == Len(Top.blocks)
             new == [SeenCalls EXCEPT ![Len(SeenCalls)] =
                      [s EXCEPT !.blocks = [s.blocks EXCEPT ![Len(s.blocks)] = e]]]
  <1>1. /\ calls # <<>> /\ InBody(Top) /\ Top.blocks # <<>>
        /\ cur \in Tabs /\ BlockRefs(calls, cur) # {}
        /\ held' = held /\ read' = read
        /\ LetInPlace(e) \/ LetInCopy(e)
    BY LetFacts
  <1>2. /\ tab \in [Tabs -> TabType] /\ tab' \in [Tabs -> TabType]
        /\ calls \in Seq(Call)
    BY DEF FramesInv, TypeOK, TabType
  <1>3. /\ n \in 1..n /\ n > 0 /\ Top = calls[n] /\ Top \in Call
        /\ Top.blocks \in Seq(Tabs) /\ k \in Nat /\ k \in 1..k
        /\ Top.frame \in Tabs /\ cur = Top.blocks[k]
        /\ \A b \in 1..k : Top.blocks[b] \in Tabs
    BY <1>1, TopIsTyped, ElementOfSeq DEF FramesInv, Top, InBody
  <1>4. \A b \in 1..k : <<n, b>> \in BlockRefs(calls, Top.blocks[b])
    BY <1>3, BlockHasRef DEF FramesInv
  <1>5. n \in FrameRefs(calls, Top.frame)
    BY <1>3, FrameHasRef
  <1> HIDE DEF s, e, n
  <1>6. SeenCalls' = new /\ SeenHeld' = SeenHeld
    <2>1. CASE LetInPlace(e)
      <3>1. /\ tab[cur].rc = 1
            /\ \A t \in Tabs : t # cur => tab'[t] = tab[t]
            /\ tab'[cur].env = e
            /\ calls' = calls
        BY <2>1 DEF LetInPlace
      <3>2. /\ FrameRefs(calls, cur) = {} /\ SlotRefs(held, cur) = {}
            /\ \A i, j \in BlockRefs(calls, cur) : i = j
        BY <1>1, <3>1, SoleReference
      <3>3. <<n, k>> \in BlockRefs(calls, cur)
        BY <1>3, <1>4
      <3>4. /\ \A i \in 1..n : i # n => SeenCall(tab', calls[i]) = SeenCall(tab, calls[i])
            /\ SeenHeld' = SeenHeld
        <4>1. \A i, b : i # n => <<i, b>> \notin BlockRefs(calls, cur)
          BY <3>2, <3>3
        <4> QED
          BY <1>1, <1>2, <3>1, <3>2, <4>1, OthersAreKept DEF n
      <3>5. \A b \in 1..k : b # k => Top.blocks[b] # cur
        BY <1>4, <3>2, <3>3
      <3>6. \A b \in 1..k : tab'[Top.blocks[b]].env =
                                IF b = k THEN e ELSE tab[Top.blocks[b]].env
        BY <1>3, <3>1, <3>5
      <3>7. tab'[Top.frame].env = tab[Top.frame].env
        BY <1>3, <1>5, <3>1, <3>2
      <3>8. calls' = [calls EXCEPT ![n] = Top]
        <4>1. [calls EXCEPT ![n] = calls[n]] = calls
          BY <1>2
        <4> QED
          BY <1>3, <3>1, <4>1
      <3> QED
        BY <1>1, <1>3, <3>4, <3>6, <3>7, <3>8, LetIsSeen DEF s, n
    <2>2. CASE LetInCopy(e)
      <3>1. \E t \in Tabs :
              LET c == [Top EXCEPT !.blocks[Len(Top.blocks)] = t]
              IN  /\ tab[t].rc = 0 /\ tab'[t].env = e
                  /\ \A u \in Tabs : u # t => tab'[u].env = tab[u].env
                  /\ c \in Call /\ c.clo = Top.clo /\ c.returned = Top.returned
                  /\ c.frame = Top.frame /\ c.bound = Top.bound
                  /\ c.blocks = [Top.blocks EXCEPT ![Len(Top.blocks)] = t]
                  /\ calls' = [calls EXCEPT ![Len(calls)] = c]
        BY <2>2, LetWasCopied
      <3> QED
        BY <1>1, <3>1, CopyIsSeen DEF s
    <2> QED
      BY <1>1, <2>1, <2>2
  <1>7. /\ SeenCalls # <<>> /\ SeenCalls[Len(SeenCalls)] = s
        /\ Pure!InBody(s) /\ s.blocks # <<>>
        /\ s.blocks[Len(s.blocks)] = tab[cur].env
    BY <1>1, <1>3, TopIsSeen DEF InBody, s
  <1>8. Pure!Bind(s.blocks[Len(s.blocks)], x, v) = e
    BY <1>7, SameBinding DEF e
  <1> QED
    BY <1>1, <1>6, <1>7, <1>8 DEF Pure!Let, Pure!Update, Pure!Top

(* The last call has its value and no env any more.                         *)
LEMMA ReturnIsSeen ==
  ASSUME NEW leak \in Leaks, FramesInv(leak),
         NEW more \in Leaks, FramesInv(more)',
         calls # <<>>, InBody(Top), Top.blocks = <<>>,
         NEW c \in Call, c.clo = Top.clo, c.returned = TRUE,
         c.bound = Top.bound, c.blocks = Top.blocks,
         calls' = [calls EXCEPT ![Len(calls)] = c],
         \A i \in 1..Len(calls) :
           i # Len(calls) => SeenCall(tab', calls[i]) = SeenCall(tab, calls[i]),
         SeenHeld' = SeenHeld, read' = read
  PROVE  Pure!Return
  <1> DEFINE s == SeenCall(tab, Top)
             d == SeenCall(tab', c)
             n == Len(calls)
  <1>1. tab' \in [Tabs -> TabType]
    BY DEF FramesInv, TypeOK, TabType
  <1>2. /\ SeenCalls # <<>> /\ SeenCalls[Len(SeenCalls)] = s
        /\ s \in PureCall /\ s.clo = Top.clo /\ s.bound = Top.bound
        /\ s.blocks = <<>> /\ Pure!InBody(s)
    BY TopIsSeen DEF InBody
  <1>3. /\ d \in PureCall
        /\ d.clo = c.clo /\ d.bound = c.bound /\ d.returned = TRUE
        /\ d.env = <<>> /\ d.blocks = <<>>
    <2>1. c \in Call /\ c.returned /\ c.blocks = <<>>
      OBVIOUS
    <2>2. /\ d \in PureCall
          /\ d.clo = c.clo /\ d.bound = c.bound /\ d.returned = c.returned
          /\ d.env = <<>>
      BY <1>1, <2>1, SeenIsTyped
    <2>3. d.blocks = <<>>
      BY <1>1, <2>1, NoBlocksAreSeen
    <2> QED
      BY <1>1, <2>2, <2>3
  <1> HIDE DEF s, d
  <1>4. SeenCalls' = [SeenCalls EXCEPT ![Len(SeenCalls)] = d]
    BY TopIsUpdated DEF d
  <1>5. d = [s EXCEPT !.returned = TRUE, !.env = <<>>]
    <2>1. d.clo = s.clo /\ d.bound = s.bound /\ d.blocks = s.blocks
      BY <1>2, <1>3
    <2>2. d = [s EXCEPT !.returned = d.returned, !.env = d.env]
      BY <1>2, <1>3, <2>1, PartsAreUpdated
    <2> QED
      BY <1>3, <2>2
  <1> QED
    BY <1>2, <1>4, <1>5 DEF Pure!Return, Pure!Update, Pure!Top

LEMMA ReturnIsPure ==
  ASSUME NEW leak \in Leaks, FramesInv(leak),
         NEW more \in Leaks, FramesInv(more)',
         Return
  PROVE  Pure!Return
  <1> DEFINE f == Top.frame
             c == [Top EXCEPT !.returned = TRUE,
                              !.frame = IF Pooled(@) THEN NoTab ELSE @]
             n == Len(calls)
  <1>1. /\ calls # <<>> /\ InBody(Top) /\ Top.blocks = <<>>
        /\ f \in Tabs
        /\ tab' \in [Tabs -> TabType]
        /\ \A t \in Tabs : t # f => tab'[t] = tab[t]
        /\ tab'[f].env = IF Unshared(f) THEN <<>> ELSE tab[f].env
        /\ c \in Call /\ c.clo = Top.clo /\ c.returned = TRUE
        /\ c.bound = Top.bound /\ c.blocks = Top.blocks
        /\ calls' = [calls EXCEPT ![n] = c]
        /\ held' = held /\ read' = read
    BY ReturnFacts
  <1>2. n \in 1..n /\ Top = calls[n] /\ n \in FrameRefs(calls, f)
    BY <1>1, TopIsTyped, FrameHasRef DEF FramesInv, Top
  <1> HIDE DEF c
  <1>3. /\ \A i \in 1..n : i # n => SeenCall(tab', calls[i]) = SeenCall(tab, calls[i])
        /\ SeenHeld' = SeenHeld
    <2>1. CASE Unshared(f)
      <3>1. BlockRefs(calls, f) = {} /\ SlotRefs(held, f) = {}
        BY <1>1, <1>2, <2>1, SoleReference DEF Unshared
      <3>2. \A i \in 1..n : i # n => i \notin FrameRefs(calls, f)
        BY <1>1, <1>2, FramesAssumption DEF FramesInv, FramesAreOwn, FrameRefs
      <3> QED
        BY <1>1, <3>1, <3>2, OthersAreKept
    <2>2. CASE ~Unshared(f)
      <3>1. \A t \in Tabs : tab'[t].env = tab[t].env
        BY <1>1, <2>2
      <3>2. /\ Len(calls') = n
            /\ \A i \in 1..n : calls'[i] = IF i = n THEN c ELSE calls[i]
        <4>1. calls \in Seq(Call) /\ n > 0
          BY <1>1, TopIsTyped DEF FramesInv, TypeOK
        <4> QED
          BY <1>1, <4>1, CallsUpdated
      <3>3. \A i \in 1..n : SeenCall(tab', calls'[i]) = SeenCall(tab, calls'[i])
        BY <3>1, <3>2, ReferredIsKept
      <3>4. \A i \in 1..n : i # n => calls'[i] = calls[i]
        BY <3>2
      <3>5. SeenHeld' = SeenHeld
        BY <1>1, <3>1, HeldIsKept
      <3> QED
        BY <3>3, <3>4, <3>5
    <2> QED
      BY <2>1, <2>2
  <1> QED
    BY <1>1, <1>3, ReturnIsSeen

----------------------------------------------------------------------------
(* The program cannot tell the frames from environments that are made anew  *)
(* for every call and block and never written again: every step of apply,   *)
(* decl_step, eval and locals() is the step it should be on those.          *)
THEOREM FramesImplementPureCalls ==
  Spec => ImplementsPureCalls
  <1>1. Init => Pure!PInit
    <2> SUFFICES ASSUME Init PROVE Pure!PInit
      OBVIOUS
    <2>1. calls = <<>> /\ held = [h \in Slots |-> NoTab] /\ read = NoVal
      BY DEF Init, FramesInit
    <2>2. SeenCalls = <<>>
      BY <2>1 DEF SeenCalls
    <2>3. SeenHeld = [h \in Slots |-> <<>>]
      BY <2>1 DEF SeenHeld
    <2> QED
      BY <2>1, <2>2, <2>3 DEF Pure!PInit, Pure!NoEnv
  <1>2. FramesInv(NoLeak) /\ FramesInv(NoLeak)' /\ [Next]_vars => [Pure!PNext]_(Pure!pvars)
    <2> SUFFICES ASSUME FramesInv(NoLeak), FramesInv(NoLeak)', [Next]_vars
                 PROVE  [Pure!PNext]_(Pure!pvars)
      OBVIOUS
    <2> USE NoLeakIsTyped
    <2>1. ASSUME NEW clo \in Closures, Enter(clo)
          PROVE  Pure!PNext
      BY <2>1, EnterIsPure DEF Pure!PNext
    <2>2. ASSUME NEW v \in Vals, BindParam(v)
          PROVE  Pure!PNext
      BY <2>2, BindParamIsPure DEF Pure!PNext
    <2>3. ASSUME NEW x \in Vars, Read(x)
          PROVE  Pure!PNext
      BY <2>3, ReadIsPure DEF Pure!PNext
    <2>4. ASSUME NEW x \in Vars, NEW v \in Vals, Let(x, v)
          PROVE  Pure!PNext
      BY <2>4, LetIsPure DEF Pure!PNext
    <2>5. ASSUME NEW h \in Slots, Reflect(h)
          PROVE  Pure!PNext
      BY <2>5, ReflectIsPure DEF Pure!PNext
    <2>6. ASSUME NEW h \in Slots, Forget(h)
          PROVE  Pure!PNext
      BY <2>6, ForgetIsPure DEF Pure!PNext
    <2>7. CASE OpenBlock
      BY <2>7, OpenBlockIsPure DEF Pure!PNext
    <2>8. CASE CloseBlock
      BY <2>8, CloseBlockIsPure DEF Pure!PNext
    <2>9. CASE Return
      BY <2>9, ReturnIsPure DEF Pure!PNext
    <2>10. CASE Leave
      BY <2>10, LeaveIsPure DEF Pure!PNext
    <2>11. CASE UNCHANGED vars
      <3>1. tab' = tab /\ calls' = calls /\ held' = held /\ read' = read
        BY <2>11 DEF vars, frameVars
      <3> QED
        BY <3>1 DEF Pure!pvars, SeenCalls, SeenHeld, SeenCall
    <2> QED
      BY <2>1, <2>2, <2>3, <2>4, <2>5, <2>6, <2>7, <2>8, <2>9, <2>10, <2>11 DEF Next
  <1> QED
    BY <1>1, <1>2, FramesInvHolds, PTL DEF Spec, ImplementsPureCalls, Pure!PSpec
-----------------------------------------------------------------------------
(***************************************************************************)
(* The C implementation keeps the same promise with counts that leak: a    *)
(* block never drops its reference, so that the count of a tab is the      *)
(* number of places that refer to it and some more. What it does on        *)
(* entering a call, binding a parameter, referring to a name, opening a    *)
(* block and reflecting is what Rust does, and is shown to be; how it      *)
(* declares a name, ends a block and gives back a frame is not.            *)
(***************************************************************************)
CONSTANT MaxCount
VARIABLE slot

C == INSTANCE CallFramesC

LEMMA SameCardinality ==
  \A S : C!Cardinality(S) = Cardinality(S)
  BY DEF C!Cardinality, Cardinality, C!IsFiniteSet, IsFiniteSet

LEMMA SameRelease ==
  \A tb, ts : C!Release(tb, ts) = Release(tb, ts)
  BY SameCardinality DEF C!Release, Release, C!Dropped, Dropped, C!Free, Free

LEMMA SameBind ==
  ASSUME NEW e, NEW x, NEW v
  PROVE  C!Bind(e, x, v) = Bind(e, x, v)
  BY DEF C!Bind, Bind, C!Keys, Keys, C!Positions, Positions, C!First, First

(* The front of an env, and an env that is bound entry by entry.            *)
LEMMA FrontsGrow ==
  ASSUME NEW bs \in Env, OneBindingEach(bs), NEW n \in 1..Len(bs)
  PROVE  /\ n - 1 \in 0..Len(bs)
         /\ Bind(SubSeq(bs, 1, n - 1), bs[n].key, bs[n].val) = SubSeq(bs, 1, n)
  <1> DEFINE e == SubSeq(bs, 1, n - 1)
  <1>1. Len(bs) \in Nat /\ n \in Nat \ {0} /\ n - 1 \in 0..Len(bs) /\ n \in 1..Len(bs)
    BY LenProperties DEF Env
  <1>2. /\ e \in Env /\ Len(e) = n - 1 /\ \A i \in 1..n - 1 : e[i] = bs[i]
    BY <1>1, SubSeqProperties DEF Env
  <1>3. /\ SubSeq(bs, 1, n) \in Env /\ Len(SubSeq(bs, 1, n)) = n
        /\ \A i \in 1..n : SubSeq(bs, 1, n)[i] = bs[i]
    BY <1>1, SubSeqProperties DEF Env
  <1>4. bs[n] \in Binding /\ bs[n].key \in Vars /\ bs[n].val \in Vals
        /\ bs[n] = [key |-> bs[n].key, val |-> bs[n].val]
    <2>1. bs[n] \in Binding
      BY ElementOfSeq DEF Env
    <2> QED
      BY <2>1 DEF Binding
  <1>5. bs[n].key \in Keys(bs)
    BY DEF Keys
  <1>6. PICK j \in 1..Len(bs) : Positions(bs, bs[n].key) = {j}
    BY <1>4, <1>5, OnePosition
  <1>7. j = n
    BY <1>6 DEF Positions
  <1>8. bs[n].key \notin Keys(e)
    <2>1. \A i \in 1..n - 1 : i \in 1..Len(bs) /\ i # n
      BY <1>1
    <2> HIDE DEF e
    <2> QED
      BY <1>2, <1>6, <1>7, <2>1 DEF Keys, Positions
  <1>9. Bind(e, bs[n].key, bs[n].val) = Append(e, bs[n])
    BY <1>4, <1>8 DEF Bind
  <1> HIDE DEF e
  <1>10. /\ Append(e, bs[n]) \in Env /\ Len(Append(e, bs[n])) = n
         /\ \A i \in 1..n - 1 : Append(e, bs[n])[i] = bs[i]
         /\ Append(e, bs[n])[n] = bs[n]
    <2>1. /\ Append(e, bs[n]) \in Env /\ Len(Append(e, bs[n])) = Len(e) + 1
          /\ \A i \in 1..Len(e) : Append(e, bs[n])[i] = e[i]
          /\ Append(e, bs[n])[Len(e) + 1] = bs[n]
      BY <1>2, <1>4, AppendProperties DEF Env
    <2>2. Len(e) + 1 = n
      BY <1>1, <1>2
    <2> QED
      BY <1>2, <2>1, <2>2
  <1>11. \A i \in 1..n : i \in 1..n - 1 \/ i = n
    BY <1>1
  <1>12. Append(e, bs[n]) = SubSeq(bs, 1, n)
    BY <1>3, <1>10, <1>11, SeqEqual DEF Env
  <1> QED
    BY <1>1, <1>9, <1>12 DEF e

LEMMA BindAllIs ==
  ASSUME NEW bs \in Env, OneBindingEach(bs)
  PROVE  C!BindAll(<<>>, bs) = bs
  <1> DEFINE L == Len(bs)
             F(b) == [n \in 0..Len(bs) |->
                        IF n = 0 THEN <<>> ELSE C!Bind(b[n - 1], bs[n].key, bs[n].val)]
             g == [n \in 0..Len(bs) |-> SubSeq(bs, 1, n)]
             b == CHOOSE b : b = F(b)
  <1>1. L \in Nat /\ L \in 0..L /\ 0 \in 0..L
    BY LenProperties DEF Env
  <1>2. g = F(g)
    <2>1. ASSUME NEW n \in 0..L
          PROVE  g[n] = IF n = 0 THEN <<>> ELSE C!Bind(g[n - 1], bs[n].key, bs[n].val)
      <3>1. CASE n = 0
        <4>1. SubSeq(bs, 1, 0) = <<>>
          BY SubSeqProperties, EmptySeq DEF Env
        <4> QED
          BY <3>1, <4>1
      <3>2. CASE n # 0
        <4>1. n \in 1..Len(bs)
          BY <1>1, <3>2
        <4> QED
          BY <3>2, <4>1, FrontsGrow, SameBind
      <3> QED
        BY <3>1, <3>2
    <2> QED
      BY <2>1
  <1>3. b = F(b)
    <2> HIDE DEF g, F
    <2> QED
      BY <1>2
  <1>4. \A n \in 0..L : b[n] = IF n = 0 THEN <<>> ELSE C!Bind(b[n - 1], bs[n].key, bs[n].val)
    <2> HIDE DEF b
    <2> QED
      BY <1>3
  <1>5. \A n \in 0..L : g[n] = IF n = 0 THEN <<>> ELSE C!Bind(g[n - 1], bs[n].key, bs[n].val)
    <2> HIDE DEF g
    <2> QED
      BY <1>2
  <1> HIDE DEF b, F
  <1> DEFINE T == {n \in Nat : n \in 0..L => b[n] = g[n]}
  <1>6. 0 \in T
    BY <1>1, <1>4, <1>5
  <1>7. ASSUME NEW n \in Nat, n \in T
        PROVE  n + 1 \in T
    <2> SUFFICES ASSUME n + 1 \in 0..L PROVE b[n + 1] = g[n + 1]
      OBVIOUS
    <2>1. n \in 0..L /\ n + 1 # 0 /\ n + 1 - 1 = n
      BY <1>1
    <2>2. b[n] = g[n]
      BY <1>7, <2>1
    <2> HIDE DEF g
    <2> QED
      BY <1>4, <1>5, <2>1, <2>2
  <1>8. Nat \subseteq T
    <2> HIDE DEF T
    <2> QED
      BY <1>6, <1>7, NatSetInduction
  <1>9. b[L] = g[L]
    BY <1>1, <1>8
  <1>10. g[L] = bs
    <2>1. SubSeq(bs, 1, Len(bs)) = bs
      <3>1. /\ SubSeq(bs, 1, L) \in Env /\ Len(SubSeq(bs, 1, L)) = L
            /\ \A i \in 1..L : SubSeq(bs, 1, L)[i] = bs[i]
        BY <1>1, SubSeqProperties DEF Env
      <3> QED
        BY <3>1, SeqEqual DEF Env
    <2> QED
      BY <1>1, <2>1
  <1>11. C!BindAll(<<>>, bs) = b[L]
    BY DEF C!BindAll, b, F
  <1> QED
    BY <1>9, <1>10, <1>11

----------------------------------------------------------------------------
(* What C does as Rust does it.                                             *)
LEMMA EnterIsAlike ==
  ASSUME NEW leak \in Leaks, FramesInv(leak),
         NEW clo \in Closures, C!Enter(clo)
  PROVE  Enter(clo) /\ slot' = slot
  <1>1. /\ Len(calls) < MaxCalls
        /\ pool' = FrameGet(pool) /\ held' = held /\ read' = read /\ slot' = slot
    BY DEF C!Enter, C!FrameGet, FrameGet
  <1>2. PICK t \in IF pool = <<>> THEN FreeTabs ELSE {pool[Len(pool)]} :
          /\ tab' = [tab EXCEPT ![t] = [rc  |-> 1, env |-> C!BindAll(@.env, clo.captured)]]
          /\ calls' = Append(calls, [clo |-> clo, bound |-> 0, returned |-> FALSE,
                                     frame |-> t, blocks |-> <<>>])
    BY DEF C!Enter, C!FreeTabs, FreeTabs
  <1>3. tab[t].env = <<>>
    <2>1. CASE pool = <<>>
      <3>1. t \in Tabs /\ tab[t].rc = 0
        BY <1>2, <2>1 DEF FreeTabs
      <3> QED
        BY <3>1 DEF FramesInv, FreeIsEmpty, Free
    <2>2. CASE pool # <<>>
      <3>1. Len(pool) \in 1..Len(pool)
        <4>1. pool \in Seq(Tabs) /\ Len(pool) \in Nat
          BY LenProperties DEF FramesInv, TypeOK
        <4>2. Len(pool) # 0
          BY <2>2, <4>1, EmptySeq
        <4> QED
          BY <4>1, <4>2
      <3>2. t = pool[Len(pool)]
        BY <1>2, <2>2
      <3> QED
        BY <3>1, <3>2 DEF FramesInv, PooledIsFresh
    <2> QED
      BY <2>1, <2>2
  <1>4. clo.captured \in Env /\ OneBindingEach(clo.captured)
    BY ClosuresAreTyped
  <1>5. C!BindAll(tab[t].env, clo.captured) = tab[t].env \o clo.captured
    BY <1>3, <1>4, BindAllIs, ConcatEmptySeq DEF Env
  <1>6. tab' = [tab EXCEPT ![t] = [rc  |-> 1, env |-> @.env \o clo.captured]]
    BY <1>2, <1>5
  <1> QED
    BY <1>1, <1>2, <1>6 DEF Enter

LEMMA BindParamIsAlike ==
  ASSUME NEW v \in Vals, C!BindParam(v)
  PROVE  BindParam(v) /\ slot' = slot
  BY DEF C!BindParam, BindParam, C!Update, C!Top, Update, Top, C!Bind, Bind,
         C!Keys, Keys, C!Positions, Positions, C!First, First

LEMMA OpenBlockIsAlike ==
  ASSUME C!OpenBlock
  PROVE  OpenBlock /\ slot' = slot
  BY DEF C!OpenBlock, OpenBlock, C!Update, C!Top, Update, Top, C!InBody, InBody,
         C!Scope, Scope

LEMMA ReflectIsAlike ==
  ASSUME NEW h \in Slots, C!Reflect(h)
  PROVE  Reflect(h) /\ slot' = slot
  BY DEF C!Reflect, Reflect, C!Top, Top, C!InBody, InBody, C!Scope, Scope

LEMMA ForgetIsAlike ==
  ASSUME NEW h \in Slots, C!Forget(h)
  PROVE  Forget(h) /\ slot' = slot
  BY SameRelease DEF C!Forget, Forget

(* The position a reference remembers is only used while the name is there; *)
(* as no env has a name twice, it is where lookup would have gone.          *)
LEMMA ReadIsAlike ==
  ASSUME NEW leak \in Leaks, FramesInv(leak), slot \in [Vars -> Nat],
         NEW x \in Vars, C!Read(x)
  PROVE  Read(x) /\ slot' \in [Vars -> Nat]
  <1> DEFINE e == tab[Scope(Top)].env
  <1>1. /\ calls # <<>> /\ InBody(Top) /\ x \in Keys(e)
        /\ slot' = IF C!SlotHolds(e, x) THEN slot
                   ELSE [slot EXCEPT ![x] = Last(Positions(e, x))]
        /\ read' = [key |-> x, val |-> e[slot'[x]].val]
        /\ tab' = tab /\ pool' = pool /\ calls' = calls /\ held' = held
    BY DEF C!Read, C!Top, Top, C!InBody, InBody, C!Scope, Scope, C!Keys, Keys,
           C!Positions, Positions, C!Last, Last
  <1>2. Scope(Top) \in Tabs
    BY <1>1, TopIsTyped DEF FramesInv, InBody
  <1>3. e \in Env /\ OneBindingEach(e)
    BY <1>2 DEF FramesInv, TypeOK, KeysUnique
  <1> HIDE DEF e
  <1>4. PICK i \in 1..Len(e) : Positions(e, x) = {i} /\ Last(Positions(e, x)) = i
    BY <1>1, <1>3, OnePosition
  <1>5. i \in Nat
    BY <1>3, LenProperties DEF Env
  <1>6. CASE C!SlotHolds(e, x)
    <2>1. slot[x] \in 1..Len(e) /\ e[slot[x]].key = x
      BY <1>6 DEF C!SlotHolds
    <2>2. slot[x] = i
      BY <1>4, <2>1 DEF Positions
    <2> QED
      BY <1>1, <1>4, <1>6, <2>2 DEF Read, Lookup, e
  <1>7. CASE ~C!SlotHolds(e, x)
    <2>1. slot' = [slot EXCEPT ![x] = i]
      BY <1>1, <1>4, <1>7
    <2>2. slot'[x] = i /\ slot' \in [Vars -> Nat]
      BY <1>5, <2>1
    <2> QED
      BY <1>1, <1>4, <2>2 DEF Read, Lookup, e
  <1> QED
    BY <1>6, <1>7

----------------------------------------------------------------------------
(* Counts that cover the references are exact for some leak.                *)
Covered == \A t \in Tabs : /\ Finite(pool, calls, held, t)
                           /\ Refs(pool, calls, held, t) <= tab[t].rc

CoverInv ==
  /\ TypeOK /\ Covered /\ FreeIsEmpty /\ PooledIsFresh /\ FrameIsThere
  /\ FramesAreOwn /\ KeysUnique

LEMMA CoveredForALeak ==
  CoverInv => \E leak \in Leaks : FramesInv(leak)
  <1> SUFFICES ASSUME CoverInv PROVE \E leak \in Leaks : FramesInv(leak)
    OBVIOUS
  <1> DEFINE leak == [t \in Tabs |-> tab[t].rc - Refs(pool, calls, held, t)]
  <1>1. ASSUME NEW t \in Tabs
        PROVE  /\ tab[t].rc \in Nat /\ Refs(pool, calls, held, t) \in Nat
               /\ Finite(pool, calls, held, t)
               /\ Refs(pool, calls, held, t) <= tab[t].rc
    BY RefsAreCounted DEF CoverInv, TypeOK, Covered
  <1>2. ASSUME NEW t \in Tabs
        PROVE  /\ leak[t] \in Nat /\ Finite(pool, calls, held, t)
               /\ tab[t].rc = Refs(pool, calls, held, t) + leak[t]
    BY <1>1
  <1>3. leak = [t \in Tabs |-> leak[t]]
    OBVIOUS
  <1> HIDE DEF leak
  <1>4. leak \in Leaks
    BY <1>2, <1>3 DEF Leaks
  <1>5. FramesInv(leak)
    BY <1>2 DEF FramesInv, CoverInv, Counted
  <1> QED
    BY <1>4, <1>5

LEMMA CoversEach ==
  ASSUME NEW leak \in Leaks, FramesInv(leak), NEW t \in Tabs
  PROVE  /\ Finite(pool, calls, held, t)
         /\ Refs(pool, calls, held, t) <= tab[t].rc
         /\ Refs(pool, calls, held, t) \in Nat /\ tab[t].rc \in Nat
  <1>1. Counted(leak) /\ tab[t].rc \in Nat
    BY DEF FramesInv, TypeOK
  <1>2. /\ Finite(pool, calls, held, t) /\ leak[t] \in Nat
        /\ tab[t].rc = Refs(pool, calls, held, t) + leak[t]
        /\ Refs(pool, calls, held, t) \in Nat
    BY <1>1, CountedIs
  <1> QED
    BY <1>1, <1>2

LEMMA CountedIsCovered ==
  ASSUME NEW leak \in Leaks, FramesInv(leak)
  PROVE  CoverInv
  <1>1. Covered
    BY CountedIs DEF Covered, FramesInv
  <1> QED
    BY <1>1 DEF CoverInv, FramesInv

(* Where references only go away, and where only one is left.               *)
LEMMA FewerRefs ==
  ASSUME NEW p, NEW cs, NEW hs, NEW p2, NEW cs2, NEW hs2, NEW t,
         Finite(p, cs, hs, t),
         PoolRefs(p2, t) \subseteq PoolRefs(p, t),
         FrameRefs(cs2, t) \subseteq FrameRefs(cs, t),
         BlockRefs(cs2, t) \subseteq BlockRefs(cs, t),
         SlotRefs(hs2, t) \subseteq SlotRefs(hs, t)
  PROVE  /\ Finite(p2, cs2, hs2, t)
         /\ Refs(p2, cs2, hs2, t) <= Refs(p, cs, hs, t)
         /\ FrameRefs(cs2, t) # FrameRefs(cs, t)
              => Refs(p2, cs2, hs2, t) <= Refs(p, cs, hs, t) - 1
  <1>1. \A S, T : IsFiniteSet(S) /\ T \subseteq S =>
                    /\ IsFiniteSet(T) /\ Cardinality(T) \in Nat /\ Cardinality(S) \in Nat
                    /\ Cardinality(T) <= Cardinality(S)
                    /\ T # S => Cardinality(T) <= Cardinality(S) - 1
    <2> SUFFICES ASSUME NEW S, NEW T, IsFiniteSet(S), T \subseteq S
                 PROVE  /\ IsFiniteSet(T) /\ Cardinality(T) \in Nat /\ Cardinality(S) \in Nat
                        /\ Cardinality(T) <= Cardinality(S)
                        /\ T # S => Cardinality(T) <= Cardinality(S) - 1
      OBVIOUS
    <2>1. /\ IsFiniteSet(T) /\ Cardinality(T) <= Cardinality(S)
          /\ Cardinality(T) = Cardinality(S) => T = S
      BY FS_Subset
    <2>2. Cardinality(T) \in Nat /\ Cardinality(S) \in Nat
      BY <2>1, FS_CardinalityType
    <2> QED
      BY <2>1, <2>2
  <1>2. /\ IsFiniteSet(PoolRefs(p2, t)) /\ Cardinality(PoolRefs(p2, t)) \in Nat
        /\ Cardinality(PoolRefs(p, t)) \in Nat
        /\ Cardinality(PoolRefs(p2, t)) <= Cardinality(PoolRefs(p, t))
    BY <1>1 DEF Finite
  <1>3. /\ IsFiniteSet(FrameRefs(cs2, t)) /\ Cardinality(FrameRefs(cs2, t)) \in Nat
        /\ Cardinality(FrameRefs(cs, t)) \in Nat
        /\ Cardinality(FrameRefs(cs2, t)) <= Cardinality(FrameRefs(cs, t))
        /\ FrameRefs(cs2, t) # FrameRefs(cs, t)
             => Cardinality(FrameRefs(cs2, t)) <= Cardinality(FrameRefs(cs, t)) - 1
    BY <1>1 DEF Finite
  <1>4. /\ IsFiniteSet(BlockRefs(cs2, t)) /\ Cardinality(BlockRefs(cs2, t)) \in Nat
        /\ Cardinality(BlockRefs(cs, t)) \in Nat
        /\ Cardinality(BlockRefs(cs2, t)) <= Cardinality(BlockRefs(cs, t))
    BY <1>1 DEF Finite
  <1>5. /\ IsFiniteSet(SlotRefs(hs2, t)) /\ Cardinality(SlotRefs(hs2, t)) \in Nat
        /\ Cardinality(SlotRefs(hs, t)) \in Nat
        /\ Cardinality(SlotRefs(hs2, t)) <= Cardinality(SlotRefs(hs, t))
    BY <1>1 DEF Finite
  <1>6. Finite(p2, cs2, hs2, t)
    BY <1>2, <1>3, <1>4, <1>5 DEF Finite
  <1>7. \A a, b, c, d, e, f, g, h \in Nat :
          a <= e /\ b <= f /\ c <= g /\ d <= h
            => /\ a + b + c + d <= e + f + g + h
               /\ b <= f - 1 => a + b + c + d <= (e + f + g + h) - 1
    OBVIOUS
  <1>8. /\ Refs(p2, cs2, hs2, t) <= Refs(p, cs, hs, t)
        /\ FrameRefs(cs2, t) # FrameRefs(cs, t)
             => Refs(p2, cs2, hs2, t) <= Refs(p, cs, hs, t) - 1
    BY <1>2, <1>3, <1>4, <1>5, <1>7 DEF Refs
  <1> QED
    BY <1>6, <1>8

LEMMA OneRef ==
  ASSUME NEW p, NEW cs, NEW hs, NEW t,
         FrameRefs(cs, t) = {}, SlotRefs(hs, t) = {}
  PROVE  /\ \A r : PoolRefs(p, t) = {} /\ BlockRefs(cs, t) = {r}
                   => Finite(p, cs, hs, t) /\ Refs(p, cs, hs, t) = 1
         /\ \A r : PoolRefs(p, t) = {r} /\ BlockRefs(cs, t) = {}
                   => Finite(p, cs, hs, t) /\ Refs(p, cs, hs, t) = 1
         /\ PoolRefs(p, t) = {} /\ BlockRefs(cs, t) = {}
              => Finite(p, cs, hs, t) /\ Refs(p, cs, hs, t) = 0
  <1>1. /\ IsFiniteSet({}) /\ Cardinality({}) = 0
        /\ \A r : IsFiniteSet({r}) /\ Cardinality({r}) = 1
    BY FS_EmptySet, FS_Singleton
  <1>2. /\ IsFiniteSet(FrameRefs(cs, t)) /\ Cardinality(FrameRefs(cs, t)) = 0
        /\ IsFiniteSet(SlotRefs(hs, t)) /\ Cardinality(SlotRefs(hs, t)) = 0
    BY <1>1
  <1>3. /\ PoolRefs(p, t) = {} => IsFiniteSet(PoolRefs(p, t)) /\ Cardinality(PoolRefs(p, t)) = 0
        /\ BlockRefs(cs, t) = {} => IsFiniteSet(BlockRefs(cs, t)) /\ Cardinality(BlockRefs(cs, t)) = 0
    BY <1>1
  <1>4. \A r : /\ PoolRefs(p, t) = {r}
                  => IsFiniteSet(PoolRefs(p, t)) /\ Cardinality(PoolRefs(p, t)) = 1
             /\ BlockRefs(cs, t) = {r}
                  => IsFiniteSet(BlockRefs(cs, t)) /\ Cardinality(BlockRefs(cs, t)) = 1
    BY <1>1, Zenon
  <1>5. ASSUME NEW a \in {0, 1}, NEW b \in {0, 1},
               IsFiniteSet(PoolRefs(p, t)), Cardinality(PoolRefs(p, t)) = a,
               IsFiniteSet(BlockRefs(cs, t)), Cardinality(BlockRefs(cs, t)) = b
        PROVE  Finite(p, cs, hs, t) /\ Refs(p, cs, hs, t) = a + b
    <2>1. Finite(p, cs, hs, t)
      BY <1>2, <1>5 DEF Finite
    <2>2. Refs(p, cs, hs, t) = a + 0 + b + 0
      BY <1>2, <1>5 DEF Refs
    <2> QED
      BY <2>1, <2>2
  <1>6. ASSUME NEW r, PoolRefs(p, t) = {}, BlockRefs(cs, t) = {r}
        PROVE  Finite(p, cs, hs, t) /\ Refs(p, cs, hs, t) = 1
    <2>1. /\ IsFiniteSet(PoolRefs(p, t)) /\ Cardinality(PoolRefs(p, t)) = 0
          /\ IsFiniteSet(BlockRefs(cs, t)) /\ Cardinality(BlockRefs(cs, t)) = 1
      BY <1>3, <1>4, <1>6, Zenon
    <2>2. Refs(p, cs, hs, t) = 0 + 1 /\ Finite(p, cs, hs, t)
      BY <1>5, <2>1
    <2> QED
      BY <2>2
  <1>7. ASSUME NEW r, PoolRefs(p, t) = {r}, BlockRefs(cs, t) = {}
        PROVE  Finite(p, cs, hs, t) /\ Refs(p, cs, hs, t) = 1
    <2>1. /\ IsFiniteSet(PoolRefs(p, t)) /\ Cardinality(PoolRefs(p, t)) = 1
          /\ IsFiniteSet(BlockRefs(cs, t)) /\ Cardinality(BlockRefs(cs, t)) = 0
      <3>1. IsFiniteSet(PoolRefs(p, t)) /\ Cardinality(PoolRefs(p, t)) = 1
        BY <1>1, <1>7
      <3>2. IsFiniteSet(BlockRefs(cs, t)) /\ Cardinality(BlockRefs(cs, t)) = 0
        BY <1>3, <1>7
      <3> QED
        BY <3>1, <3>2
    <2>2. Refs(p, cs, hs, t) = 1 + 0 /\ Finite(p, cs, hs, t)
      BY <1>5, <2>1
    <2> QED
      BY <2>2
  <1>8. ASSUME PoolRefs(p, t) = {}, BlockRefs(cs, t) = {}
        PROVE  Finite(p, cs, hs, t) /\ Refs(p, cs, hs, t) = 0
    BY <1>3, <1>5, <1>8
  <1> QED
    BY <1>6, <1>7, <1>8, Zenon

----------------------------------------------------------------------------
(* What C does in its own way. A block ends and its reference leaks.        *)
LEMMA CloseBlockIsAlike ==
  ASSUME C!CloseBlock
  PROVE  BlockEnds /\ tab' = tab /\ slot' = slot
  BY DEF C!CloseBlock, BlockEnds, C!Update, C!Top, Top

LEMMA CloseBlockCovers ==
  ASSUME NEW leak \in Leaks, FramesInv(leak), C!CloseBlock
  PROVE  CoverInv'
  <1> DEFINE n == Len(calls)
             c == [Top EXCEPT !.blocks = SubSeq(@, 1, Len(@) - 1)]
             r == <<n, Len(calls[n].blocks)>>
  <1>1. tab' = tab /\ BlockEnds
    BY CloseBlockIsAlike
  <1>2. /\ calls # <<>> /\ Top.blocks # <<>>
        /\ c \in Call /\ c.clo = Top.clo /\ c.returned = Top.returned
        /\ c.frame = Top.frame /\ c.bound = Top.bound
        /\ c.blocks = SubSeq(Top.blocks, 1, Len(Top.blocks) - 1)
        /\ calls' = [calls EXCEPT ![n] = c]
        /\ pool' = pool /\ held' = held /\ read' = read
    BY <1>1, BlockEndsFacts
  <1>3. n \in 1..n /\ n > 0 /\ Len(Top.blocks) > 0
    BY <1>2, TopIsTyped DEF FramesInv
  <1>4. calls \in Seq(Call) /\ calls[n] = Top
    BY DEF FramesInv, TypeOK, Top
  <1> HIDE DEF c
  <1>5. /\ calls' \in Seq(Call) /\ Len(calls') = n
        /\ \A i \in 1..n : calls'[i] = IF i = n THEN c ELSE calls[i]
    BY <1>2, <1>3, <1>4, CallsUpdated
  <1>6. \A i \in 1..n : /\ calls'[i].frame = calls[i].frame
                        /\ calls'[i].returned = calls[i].returned
                        /\ calls'[i].clo = calls[i].clo
                        /\ calls'[i].bound = calls[i].bound
    BY <1>2, <1>4, <1>5
  <1>7. Covered'
    <2>1. ASSUME NEW t \in Tabs
          PROVE  /\ Finite(pool', calls', held', t)
                 /\ Refs(pool', calls', held', t) <= tab'[t].rc
      <3>1. /\ Finite(pool, calls, held, t)
            /\ Refs(pool, calls, held, t) <= tab[t].rc
            /\ Refs(pool, calls, held, t) \in Nat /\ tab[t].rc \in Nat
        BY CoversEach
      <3>2. FrameRefs(calls', t) = FrameRefs(calls, t)
        BY <1>2, <1>3, <1>4, FrameKept
      <3>3. BlockRefs([calls EXCEPT ![Len(calls)] = c], t) = BlockRefs(calls, t) \ {r}
        BY <1>2, <1>3, <1>4, BlocksShrink
      <3> HIDE DEF r
      <3>4. BlockRefs(calls', t) \subseteq BlockRefs(calls, t)
        BY <1>2, <3>3
      <3>5. /\ Finite(pool', calls', held', t)
            /\ Refs(pool', calls', held', t) <= Refs(pool, calls, held, t)
        BY <1>2, <3>1, <3>2, <3>4, FewerRefs
      <3>6. Refs(pool', calls', held', t) \in Nat
        BY <3>5, RefsAreCounted
      <3> QED
        BY <1>1, <3>1, <3>5, <3>6
    <2> QED
      BY <2>1 DEF Covered
  <1>8. FrameIsThere' /\ FramesAreOwn'
    BY <1>1, <1>5, <1>6, StillThere, StillOwn DEF FramesInv
  <1>9. TypeOK' /\ PooledIsFresh' /\ FreeIsEmpty' /\ KeysUnique'
    BY <1>1, <1>2, <1>5
       DEF FramesInv, TypeOK, PooledIsFresh, FreeIsEmpty, KeysUnique
  <1> QED
    BY <1>7, <1>8, <1>9 DEF CoverInv

(* A declaration always copies.                                             *)
LEMMA LetAlwaysCopies ==
  ASSUME NEW leak \in Leaks, FramesInv(leak),
         NEW x \in Vars, NEW v \in Vals, C!Let(x, v)
  PROVE  LET e == Bind(tab[Scope(Top)].env, x, v)
         IN  /\ calls # <<>> /\ InBody(Top) /\ Top.blocks # <<>>
             /\ Scope(Top) \in Tabs /\ e \in Env /\ OneBindingEach(e)
             /\ pool' = pool /\ held' = held /\ read' = read /\ slot' = slot
             /\ \E t \in Tabs :
                  LET c == [Top EXCEPT !.blocks[Len(Top.blocks)] = t]
                  IN  /\ tab[t].rc = 0 /\ tab'[t] = [rc |-> 1, env |-> e]
                      /\ tab' \in [Tabs -> TabType]
                      /\ \A u \in Tabs : u # t => tab'[u] = tab[u]
                      /\ c \in Call /\ c.clo = Top.clo /\ c.returned = Top.returned
                      /\ c.frame = Top.frame /\ c.bound = Top.bound
                      /\ c.blocks = [Top.blocks EXCEPT ![Len(Top.blocks)] = t]
                      /\ calls' = [calls EXCEPT ![Len(calls)] = c]
  <1> DEFINE e == Bind(tab[Scope(Top)].env, x, v)
             New(t) == [Top EXCEPT !.blocks[Len(Top.blocks)] = t]
  <1>1. /\ calls # <<>> /\ InBody(Top) /\ Top.blocks # <<>>
        /\ pool' = pool /\ held' = held /\ read' = read /\ slot' = slot
    BY DEF C!Let, C!Top, Top, C!InBody, InBody
  <1>2. PICK t \in FreeTabs : /\ tab' = [tab EXCEPT ![t] = [rc |-> 1, env |-> e]]
                              /\ calls' = [calls EXCEPT ![Len(calls)] = New(t)]
    BY SameBind DEF C!Let, C!Top, Top, C!Scope, Scope, C!FreeTabs, FreeTabs, C!Update
  <1>3. /\ Scope(Top) \in Tabs /\ Top \in Call /\ Top.blocks \in Seq(Tabs)
        /\ Len(Top.blocks) \in Nat /\ Len(Top.blocks) > 0
    BY <1>1, TopIsTyped DEF FramesInv
  <1>4. tab \in [Tabs -> TabType] /\ tab[Scope(Top)].env \in Env
        /\ OneBindingEach(tab[Scope(Top)].env)
    BY <1>3 DEF FramesInv, TypeOK, TabType, KeysUnique
  <1>5. e \in Env /\ OneBindingEach(e)
    BY <1>4, BindKeepsOneEach
  <1>6. t \in Tabs /\ tab[t].rc = 0
    BY <1>2 DEF FreeTabs
  <1> HIDE DEF e
  <1>7. /\ tab' \in [Tabs -> TabType] /\ tab'[t] = [rc |-> 1, env |-> e]
        /\ \A u \in Tabs : u # t => tab'[u] = tab[u]
    BY <1>2, <1>4, <1>5, <1>6 DEF TabType
  <1>8. [Top.blocks EXCEPT ![Len(Top.blocks)] = t] \in Seq(Tabs)
    BY <1>3, <1>6, LastIsReplaced
  <1>9. /\ New(t) \in Call /\ New(t).clo = Top.clo /\ New(t).returned = Top.returned
        /\ New(t).frame = Top.frame /\ New(t).bound = Top.bound
        /\ New(t).blocks = [Top.blocks EXCEPT ![Len(Top.blocks)] = t]
    BY <1>3, <1>8 DEF Call
  <1> HIDE DEF New
  <1> QED
    BY <1>1, <1>2, <1>3, <1>5, <1>6, <1>7, <1>9, Zenon DEF e, New

LEMMA LetCovers ==
  ASSUME NEW leak \in Leaks, FramesInv(leak),
         NEW x \in Vars, NEW v \in Vals, C!Let(x, v)
  PROVE  CoverInv'
  <1> DEFINE n == Len(calls)
             e == Bind(tab[Scope(Top)].env, x, v)
             r == <<n, Len(calls[n].blocks)>>
             New(t) == [Top EXCEPT !.blocks[Len(Top.blocks)] = t]
  <1>1. /\ calls # <<>> /\ InBody(Top) /\ Top.blocks # <<>>
        /\ e \in Env /\ OneBindingEach(e)
        /\ pool' = pool /\ held' = held /\ read' = read
    BY LetAlwaysCopies
  <1>2. PICK t \in Tabs :
          /\ tab[t].rc = 0 /\ tab'[t] = [rc |-> 1, env |-> e]
          /\ tab' \in [Tabs -> TabType]
          /\ \A u \in Tabs : u # t => tab'[u] = tab[u]
          /\ New(t) \in Call /\ New(t).clo = Top.clo /\ New(t).returned = Top.returned
          /\ New(t).frame = Top.frame /\ New(t).bound = Top.bound
          /\ New(t).blocks = [Top.blocks EXCEPT ![Len(Top.blocks)] = t]
          /\ calls' = [calls EXCEPT ![Len(calls)] = New(t)]
    BY LetAlwaysCopies
  <1> DEFINE c == New(t)
  <1>3. /\ n \in 1..n /\ n > 0 /\ Len(Top.blocks) > 0
        /\ calls \in Seq(Call) /\ calls[n] = Top
    BY <1>1, TopIsTyped DEF FramesInv, TypeOK, Top
  <1>4. /\ c \in Call /\ c.clo = Top.clo /\ c.returned = Top.returned
        /\ c.frame = calls[n].frame /\ c.bound = Top.bound
        /\ c.blocks = [calls[n].blocks EXCEPT ![Len(calls[n].blocks)] = t]
        /\ calls' = [calls EXCEPT ![Len(calls)] = c]
    BY <1>2, <1>3
  <1> HIDE DEF c, New, e
  <1>5. /\ calls' \in Seq(Call) /\ Len(calls') = n
        /\ \A i \in 1..n : calls'[i] = IF i = n THEN c ELSE calls[i]
    BY <1>3, <1>4, CallsUpdated
  <1>6. \A i \in 1..n : /\ calls'[i].frame = calls[i].frame
                        /\ calls'[i].returned = calls[i].returned
                        /\ calls'[i].clo = calls[i].clo
                        /\ calls'[i].bound = calls[i].bound
    BY <1>3, <1>4, <1>5
  <1>7. /\ FrameRefs(calls, t) = {} /\ BlockRefs(calls, t) = {}
        /\ SlotRefs(held, t) = {} /\ PoolRefs(pool, t) = {}
    BY <1>2, SoleReference
  <1>8. tab'[t].rc = 1 /\ tab'[t].env = e
    BY <1>2
  <1>9. Covered'
    <2>1. ASSUME NEW u \in Tabs
          PROVE  /\ Finite(pool', calls', held', u)
                 /\ Refs(pool', calls', held', u) <= tab'[u].rc
      <3>1. /\ Finite(pool, calls, held, u)
            /\ Refs(pool, calls, held, u) <= tab[u].rc
            /\ Refs(pool, calls, held, u) \in Nat /\ tab[u].rc \in Nat
        BY CoversEach
      <3>2. FrameRefs(calls', u) = FrameRefs(calls, u)
        BY <1>3, <1>4, FrameKept
      <3>3. /\ t = u => BlockRefs(calls', u) = BlockRefs(calls, u) \cup {r}
            /\ t # u => BlockRefs(calls', u) = BlockRefs(calls, u) \ {r}
        <4>1. Len(calls) > 0 /\ Len(calls[Len(calls)].blocks) > 0
          BY <1>3
        <4>2. calls \in Seq(Call) /\ c \in Call
          BY <1>3, <1>4
        <4>3. c.blocks = WithLast(calls[Len(calls)].blocks, t)
          BY <1>4 DEF WithLast
        <4>4. calls' = [calls EXCEPT ![Len(calls)] = c]
          BY <1>4
        <4>5. t = u => BlockRefs([calls EXCEPT ![Len(calls)] = c], u) =
                         BlockRefs(calls, u) \cup {r}
          BY <4>1, <4>2, <4>3, BlocksRenamed
        <4>6. t # u => BlockRefs([calls EXCEPT ![Len(calls)] = c], u) =
                         BlockRefs(calls, u) \ {r}
          BY <4>1, <4>2, <4>3, BlocksRenamed
        <4> QED
          BY <4>4, <4>5, <4>6, Zenon
      <3> HIDE DEF r
      <3>4. CASE u = t
        <4>1. FrameRefs(calls', u) = {} /\ SlotRefs(held', u) = {} /\ PoolRefs(pool', u) = {}
          BY <1>1, <1>7, <3>2, <3>4
        <4>2. BlockRefs(calls', u) = {r}
          BY <1>7, <3>3, <3>4
        <4>3. Finite(pool', calls', held', u) /\ Refs(pool', calls', held', u) = 1
          BY <4>1, <4>2, OneRef
        <4> QED
          BY <1>8, <3>4, <4>3
      <3>5. CASE u # t
        <4>1. BlockRefs(calls', u) \subseteq BlockRefs(calls, u)
          BY <3>3, <3>5
        <4>2. /\ Finite(pool', calls', held', u)
              /\ Refs(pool', calls', held', u) <= Refs(pool, calls, held, u)
          BY <1>1, <3>1, <3>2, <4>1, FewerRefs
        <4>3. Refs(pool', calls', held', u) \in Nat
          BY <4>2, RefsAreCounted
        <4>4. tab'[u].rc = tab[u].rc
          BY <1>2, <3>5
        <4> QED
          BY <3>1, <4>2, <4>3, <4>4
      <3> QED
        BY <3>4, <3>5
    <2> QED
      BY <2>1 DEF Covered
  <1>10. FreeIsEmpty /\ PooledIsFresh /\ FrameIsThere /\ FramesAreOwn /\ KeysUnique
    BY DEF FramesInv
  <1>11. \A u \in Tabs : u = t \/ tab'[u] = tab[u]
    BY <1>2
  <1>12. FreeIsEmpty' /\ KeysUnique'
    BY <1>1, <1>8, <1>10, <1>11 DEF FreeIsEmpty, KeysUnique
  <1>13. PooledIsFresh'
    <2>1. \A i \in 1..Len(pool) : pool[i] \in Tabs
      BY ElementOfSeq DEF FramesInv, TypeOK
    <2>2. \A i \in 1..Len(pool) : pool[i] # t
      BY <1>7 DEF PoolRefs
    <2>3. \A i \in 1..Len(pool) : tab'[pool[i]] = tab[pool[i]]
      BY <1>11, <2>1, <2>2
    <2> QED
      BY <1>1, <1>10, <2>3, StillFresh
  <1>14. FrameIsThere'
    <2>1. \A i \in 1..n :
            ~calls[i].returned /\ calls[i].bound < Len(calls[i].clo.params)
              => tab'[calls[i].frame].rc = tab[calls[i].frame].rc
      <3> TAKE i \in 1..n
      <3> HAVE ~calls[i].returned /\ calls[i].bound < Len(calls[i].clo.params)
      <3>1. calls[i].frame \in Tabs /\ tab[calls[i].frame].rc = 1
        BY BindingFrameIsOwn
      <3> QED
        BY <1>2, <1>11, <3>1
    <2> QED
      BY <1>5, <1>6, <1>10, <2>1, StillThere
  <1>15. FramesAreOwn'
    BY <1>5, <1>6, <1>10, StillOwn
  <1>16. TypeOK'
    BY <1>1, <1>2, <1>5 DEF FramesInv, TypeOK, TabType
  <1> QED
    BY <1>9, <1>12, <1>13, <1>14, <1>15, <1>16 DEF CoverInv

(* A frame is given back: it loses one of several references, goes to the   *)
(* pool or is freed, and nothing else changes.                              *)
StaysShared(f) ==
  /\ tab[f].rc \in Nat \ {0, 1} /\ tab'[f].rc = tab[f].rc - 1
  /\ tab'[f].env = tab[f].env /\ pool' = pool
GoesToPool(f) ==
  /\ tab[f].rc = 1 /\ tab'[f].rc = 1 /\ tab'[f].env = <<>>
  /\ Len(pool) < PoolMax /\ pool' = Append(pool, f)
IsFreed(f) == tab[f].rc = 1 /\ tab'[f] = Free /\ pool' = pool

LEMMA GiveBackFacts ==
  ASSUME NEW leak \in Leaks, FramesInv(leak),
         calls # <<>>, ~Top.returned, C!GiveBack(Top.frame)
  PROVE  LET f == Top.frame
         IN  /\ f \in Tabs /\ Len(calls) \in FrameRefs(calls, f)
             /\ tab' \in [Tabs -> TabType]
             /\ FreeIsEmpty' /\ KeysUnique'
             /\ \A t \in Tabs : t # f => tab'[t] = tab[t]
             /\ StaysShared(f) \/ GoesToPool(f) \/ IsFreed(f)
  <1> DEFINE f == Top.frame
  <1>1. f \in Tabs /\ Len(calls) \in 1..Len(calls) /\ Len(calls) > 0
    BY TopIsTyped DEF FramesInv
  <1>2. Len(calls) \in FrameRefs(calls, f)
    BY <1>1 DEF FrameRefs, Top
  <1>3. tab[f].rc \in Nat \ {0}
    BY <1>1, <1>2, ReferredIsNotFree
  <1>4. /\ tab \in [Tabs -> TabType] /\ FreeIsEmpty /\ KeysUnique
        /\ tab[f] \in TabType
    BY <1>1 DEF FramesInv, TypeOK, TabType
  <1>5. C!GiveBack(f)
    OBVIOUS
  <1> HIDE DEF f
  <1>6. CASE tab[f].rc # 1
    <2>1. tab' = Release(tab, <<f>>) /\ pool' = pool
      BY <1>5, <1>6, SameRelease DEF C!GiveBack, C!Shared
    <2>2. \A t \in Tabs : Dropped(t, <<f>>) = IF f = t THEN 1 ELSE 0
      BY DroppedOne
    <2>3. \A t \in Tabs : tab[t].rc \in Nat
      BY <1>4 DEF TabType
    <2>4. ASSUME NEW t \in Tabs
          PROVE  Dropped(t, <<f>>) \in Nat /\ Dropped(t, <<f>>) <= tab[t].rc
      BY <1>3, <2>2, <2>3
    <2>5. /\ tab' \in [Tabs -> TabType]
          /\ FreeIsEmpty' /\ KeysUnique'
          /\ \A t \in Tabs :
               /\ tab'[t].rc = tab[t].rc - Dropped(t, <<f>>)
               /\ tab'[t].env = IF tab'[t].rc = 0 THEN <<>> ELSE tab[t].env
               /\ Dropped(t, <<f>>) = 0 => tab'[t] = tab[t]
      BY <2>1, <2>4, ReleasedFacts
    <2>6. \A t \in Tabs : t # f => tab'[t] = tab[t]
      BY <2>2, <2>5
    <2>7. tab'[f].rc = tab[f].rc - 1 /\ tab'[f].rc # 0
      BY <1>1, <1>3, <1>6, <2>2, <2>5
    <2>8. StaysShared(f)
      BY <1>1, <1>3, <1>6, <2>1, <2>5, <2>7 DEF StaysShared
    <2> QED
      BY <1>1, <1>2, <2>5, <2>6, <2>8 DEF f
  <1>7. CASE tab[f].rc = 1 /\ Len(pool) < PoolMax
    <2>1. tab' = [tab EXCEPT ![f] = [tab[f] EXCEPT !.env = <<>>]] /\ pool' = Append(pool, f)
      BY <1>5, <1>7 DEF C!GiveBack, C!Shared
    <2>2. /\ [tab[f] EXCEPT !.env = <<>>] \in TabType
          /\ [tab[f] EXCEPT !.env = <<>>].rc = 1
          /\ [tab[f] EXCEPT !.env = <<>>].env = <<>>
      BY <1>4, <1>7, EmptyIsOneEach DEF TabType
    <2>3. /\ tab' \in [Tabs -> TabType]
          /\ tab'[f].rc = 1 /\ tab'[f].env = <<>>
          /\ \A t \in Tabs : t # f => tab'[t] = tab[t]
      BY <1>1, <1>4, <2>1, <2>2
    <2>4. FreeIsEmpty' /\ KeysUnique'
      BY <1>4, <2>3, EmptyIsOneEach DEF FreeIsEmpty, KeysUnique
    <2> QED
      BY <1>1, <1>2, <1>7, <2>1, <2>3, <2>4 DEF f, GoesToPool
  <1>8. CASE tab[f].rc = 1 /\ ~(Len(pool) < PoolMax)
    <2>1. tab' = [tab EXCEPT ![f] = Free] /\ pool' = pool
      BY <1>5, <1>8 DEF C!GiveBack, C!Shared, C!Free, Free
    <2>2. Free \in TabType /\ Free.env = <<>>
      BY EmptyIsOneEach DEF TabType, Free
    <2>3. /\ tab' \in [Tabs -> TabType] /\ tab'[f] = Free
          /\ \A t \in Tabs : t # f => tab'[t] = tab[t]
      BY <1>1, <1>4, <2>1, <2>2
    <2>4. FreeIsEmpty' /\ KeysUnique'
      BY <1>4, <2>2, <2>3, EmptyIsOneEach DEF FreeIsEmpty, KeysUnique
    <2> QED
      BY <1>1, <1>2, <1>8, <2>1, <2>3, <2>4 DEF f, IsFreed
  <1> QED
    BY <1>6, <1>7, <1>8

LEMMA GiveBackCovers ==
  ASSUME NEW leak \in Leaks, FramesInv(leak),
         calls # <<>>, ~Top.returned, C!GiveBack(Top.frame), held' = held,
         \A t \in Tabs : /\ FrameRefs(calls', t) = FrameRefs(calls, t) \ {Len(calls)}
                         /\ BlockRefs(calls', t) \subseteq BlockRefs(calls, t)
  PROVE  /\ Covered' /\ PooledIsFresh'
         /\ pool' \in Seq(Tabs) /\ Len(pool') <= PoolMax
  <1> DEFINE f == Top.frame
             n == Len(calls)
  <1>1. /\ f \in Tabs /\ n \in FrameRefs(calls, f)
        /\ tab' \in [Tabs -> TabType]
        /\ \A t \in Tabs : t # f => tab'[t] = tab[t]
        /\ StaysShared(f) \/ GoesToPool(f) \/ IsFreed(f)
    BY GiveBackFacts
  <1>2. /\ \A t \in Tabs : /\ FrameRefs(calls', t) = FrameRefs(calls, t) \ {n}
                           /\ BlockRefs(calls', t) \subseteq BlockRefs(calls, t)
    OBVIOUS
  <1>3. pool \in Seq(Tabs) /\ Len(pool) \in Nat /\ Len(pool) <= PoolMax /\ PoolMax \in Nat
    BY LenProperties, FramesAssumption DEF FramesInv, TypeOK
  <1>4. \A i \in FrameRefs(calls, f) : i = n
    BY <1>1, FramesAssumption DEF FramesInv, FramesAreOwn, FrameRefs
  <1> HIDE DEF f
  <1>5. \A t \in Tabs : f # t => PoolRefs(pool', t) = PoolRefs(pool, t)
    <2>1. CASE GoesToPool(f)
      <3>1. pool' = Append(pool, f)
        BY <2>1 DEF GoesToPool
      <3>2. /\ Len(pool') = Len(pool) + 1
            /\ \A i \in 1..Len(pool) : pool'[i] = pool[i]
            /\ pool'[Len(pool) + 1] = f
        BY <1>1, <1>3, <3>1, AppendProperties
      <3>3. \A i : i \in 1..Len(pool') <=> i \in 1..Len(pool) \/ i = Len(pool) + 1
        BY <1>3, <3>2
      <3> QED
        BY <3>2, <3>3 DEF PoolRefs
    <2>2. CASE ~GoesToPool(f)
      <3>1. pool' = pool
        BY <1>1, <2>2 DEF StaysShared, IsFreed
      <3> QED
        BY <3>1
    <2> QED
      BY <2>1, <2>2
  <1>6. ASSUME NEW t \in Tabs
        PROVE  /\ Finite(pool', calls', held', t)
               /\ Refs(pool', calls', held', t) <= tab'[t].rc
    <2>1. /\ Finite(pool, calls, held, t)
          /\ Refs(pool, calls, held, t) <= tab[t].rc
          /\ Refs(pool, calls, held, t) \in Nat /\ tab[t].rc \in Nat
      BY CoversEach
    <2>2. /\ FrameRefs(calls', t) \subseteq FrameRefs(calls, t)
          /\ BlockRefs(calls', t) \subseteq BlockRefs(calls, t)
      BY <1>2
    <2>3. CASE t # f
      <3>1. PoolRefs(pool', t) = PoolRefs(pool, t) /\ tab'[t] = tab[t]
        BY <1>1, <1>5, <2>3
      <3>2. /\ Finite(pool', calls', held', t)
            /\ Refs(pool', calls', held', t) <= Refs(pool, calls, held, t)
        BY <2>1, <2>2, <3>1, FewerRefs
      <3>3. Refs(pool', calls', held', t) \in Nat
        BY <3>2, RefsAreCounted
      <3> QED
        BY <2>1, <3>1, <3>2, <3>3
    <2>4. CASE t = f /\ StaysShared(f)
      <3>1. pool' = pool /\ tab'[t].rc = tab[t].rc - 1
        BY <2>4 DEF StaysShared
      <3>2. FrameRefs(calls', t) # FrameRefs(calls, t)
        BY <1>1, <1>2, <2>4
      <3>3. /\ Finite(pool', calls', held', t)
            /\ Refs(pool', calls', held', t) <= Refs(pool, calls, held, t) - 1
        BY <2>1, <2>2, <3>1, <3>2, FewerRefs
      <3>4. Refs(pool', calls', held', t) \in Nat
        BY <3>3, RefsAreCounted
      <3> QED
        BY <2>1, <3>1, <3>3, <3>4
    <2>5. CASE t = f /\ (GoesToPool(f) \/ IsFreed(f))
      <3>1. tab[f].rc <= 1
        BY <2>5 DEF GoesToPool, IsFreed
      <3>2. /\ PoolRefs(pool, f) = {} /\ BlockRefs(calls, f) = {} /\ SlotRefs(held, f) = {}
        BY <1>1, <3>1, SoleReference
      <3>3. /\ FrameRefs(calls', f) = {} /\ SlotRefs(held', f) = {}
            /\ BlockRefs(calls', f) = {}
        BY <1>1, <1>2, <1>4, <3>2
      <3>4. CASE GoesToPool(f)
        <4>1. pool' = Append(pool, f) /\ tab'[f].rc = 1
          BY <3>4 DEF GoesToPool
        <4>2. /\ Len(pool') = Len(pool) + 1
              /\ \A i \in 1..Len(pool) : pool'[i] = pool[i]
              /\ pool'[Len(pool) + 1] = f
          BY <1>1, <1>3, <4>1, AppendProperties
        <4>3. \A i : i \in 1..Len(pool') <=> i \in 1..Len(pool) \/ i = Len(pool) + 1
          BY <1>3, <4>2
        <4>4. PoolRefs(pool', f) = {Len(pool) + 1}
          BY <3>2, <4>2, <4>3 DEF PoolRefs
        <4>5. Finite(pool', calls', held', f) /\ Refs(pool', calls', held', f) = 1
          BY <3>3, <4>4, OneRef
        <4> QED
          BY <2>5, <4>1, <4>5
      <3>5. CASE IsFreed(f)
        <4>1. pool' = pool /\ tab'[f].rc = 0
          BY <3>5 DEF IsFreed, Free
        <4>2. Finite(pool', calls', held', f) /\ Refs(pool', calls', held', f) = 0
          BY <3>2, <3>3, <4>1, OneRef
        <4> QED
          BY <2>5, <4>1, <4>2
      <3> QED
        BY <2>5, <3>4, <3>5
    <2> QED
      BY <1>1, <2>3, <2>4, <2>5
  <1>7. Covered'
    BY <1>6 DEF Covered
  <1>8. PooledIsFresh /\ \A i \in 1..Len(pool) : pool[i] \in Tabs /\ pool[i] # f
    BY <1>1, <1>3, ElementOfSeq, ReferredIsNotPooled DEF FramesInv
  <1>9. \A i \in 1..Len(pool) : tab'[pool[i]].rc = 1 /\ tab'[pool[i]].env = <<>>
    BY <1>1, <1>8 DEF PooledIsFresh
  <1>10. CASE GoesToPool(f)
    <2>1. pool' = Append(pool, f) /\ tab'[f].rc = 1 /\ tab'[f].env = <<>> /\ Len(pool) < PoolMax
      BY <1>10 DEF GoesToPool
    <2>2. /\ pool' \in Seq(Tabs) /\ Len(pool') = Len(pool) + 1
          /\ \A i \in 1..Len(pool) : pool'[i] = pool[i]
          /\ pool'[Len(pool) + 1] = f
      BY <1>1, <1>3, <2>1, AppendProperties
    <2>3. \A i : i \in 1..Len(pool') <=> i \in 1..Len(pool) \/ i = Len(pool) + 1
      BY <1>3, <2>2
    <2>4. PooledIsFresh'
      BY <1>9, <2>1, <2>2, <2>3 DEF PooledIsFresh
    <2>5. Len(pool') <= PoolMax
      BY <1>3, <2>1, <2>2
    <2> QED
      BY <1>7, <2>2, <2>4, <2>5
  <1>11. CASE ~GoesToPool(f)
    <2>1. pool' = pool
      BY <1>1, <1>11 DEF StaysShared, IsFreed
    <2>2. PooledIsFresh'
      BY <1>9, <2>1 DEF PooledIsFresh
    <2> QED
      BY <1>3, <1>7, <2>1, <2>2
  <1> QED
    BY <1>10, <1>11

(* Calls that lose a frame, in place or off the end, keep the others.       *)
LEMMA OthersAreThere ==
  ASSUME NEW leak \in Leaks, FramesInv(leak),
         calls # <<>>,
         \A t \in Tabs : t # Top.frame => tab'[t] = tab[t],
         ~Top.returned \/ tab' = tab,
         NEW i \in 1..Len(calls), i # Len(calls), ~calls[i].returned
  PROVE  /\ calls[i].frame \in Tabs
         /\ calls[i].bound < Len(calls[i].clo.params) => tab'[calls[i].frame].rc = 1
  <1>1. calls[i].frame \in Tabs
    BY DEF FramesInv, FrameIsThere
  <1>2. ASSUME calls[i].bound < Len(calls[i].clo.params)
        PROVE  tab'[calls[i].frame].rc = 1
    <2>1. /\ tab[calls[i].frame].rc = 1
          /\ FrameRefs(calls, calls[i].frame) = {i}
      BY <1>2, BindingFrameIsOwn
    <2>2. Len(calls) \in 1..Len(calls)
      BY TopIsTyped DEF FramesInv
    <2>3. calls[i].frame # Top.frame
      BY <2>1, <2>2 DEF FrameRefs, Top
    <2> QED
      BY <1>1, <2>1, <2>3
  <1> QED
    BY <1>1, <1>2

LEMMA ReturnDoes ==
  ASSUME NEW leak \in Leaks, FramesInv(leak), C!Return
  PROVE  LET c == [Top EXCEPT !.returned = TRUE, !.frame = NoTab]
         IN  /\ calls # <<>> /\ InBody(Top) /\ ~Top.returned /\ Top.blocks = <<>>
             /\ C!GiveBack(Top.frame)
             /\ c \in Call /\ c.clo = Top.clo /\ c.returned = TRUE
             /\ c.frame = NoTab /\ c.bound = Top.bound /\ c.blocks = Top.blocks
             /\ calls' = [calls EXCEPT ![Len(calls)] = c]
             /\ held' = held /\ read' = read /\ slot' = slot
  <1>1. /\ calls # <<>> /\ InBody(Top) /\ ~Top.returned /\ Top.blocks = <<>>
        /\ C!GiveBack(Top.frame)
        /\ calls' = [calls EXCEPT
             ![Len(calls)] = [Top EXCEPT !.returned = TRUE, !.frame = NoTab]]
        /\ held' = held /\ read' = read /\ slot' = slot
    BY DEF C!Return, C!Top, Top, C!InBody, InBody, C!Update
  <1>2. Top \in Call
    BY <1>1, TopIsTyped DEF FramesInv
  <1> QED
    BY <1>1, <1>2 DEF Call

LEMMA ReturnCovers ==
  ASSUME NEW leak \in Leaks, FramesInv(leak), C!Return
  PROVE  CoverInv'
  <1> DEFINE n == Len(calls)
             f == Top.frame
             c == [Top EXCEPT !.returned = TRUE, !.frame = NoTab]
  <1>1. /\ calls # <<>> /\ ~Top.returned
        /\ C!GiveBack(Top.frame)
        /\ c \in Call /\ c.clo = Top.clo /\ c.returned = TRUE
        /\ c.frame = NoTab /\ c.bound = Top.bound /\ c.blocks = Top.blocks
        /\ calls' = [calls EXCEPT ![Len(calls)] = c]
        /\ held' = held /\ read' = read
    BY ReturnDoes
  <1>2. /\ n \in 1..n /\ n > 0 /\ calls \in Seq(Call) /\ calls[n] = Top
    BY <1>1, TopIsTyped DEF FramesInv, TypeOK, Top
  <1> HIDE DEF c
  <1>3. /\ calls' \in Seq(Call) /\ Len(calls') = n
        /\ \A i \in 1..n : calls'[i] = IF i = n THEN c ELSE calls[i]
    BY <1>1, <1>2, CallsUpdated
  <1>4. ASSUME NEW t \in Tabs
        PROVE  /\ FrameRefs(calls', t) = FrameRefs(calls, t) \ {Len(calls)}
               /\ BlockRefs(calls', t) \subseteq BlockRefs(calls, t)
    <2>0. c \in Call /\ calls \in Seq(Call) /\ Len(calls) > 0
      BY <1>1, <1>2
    <2>1. FrameRefs([calls EXCEPT ![Len(calls)] = c], t) =
            IF c.frame = t THEN FrameRefs(calls, t) \cup {Len(calls)}
            ELSE FrameRefs(calls, t) \ {Len(calls)}
      BY <2>0, FrameRefsOfUpdated
    <2>2. c.frame # t
      BY <1>1, FramesAssumption
    <2>3. c.blocks = calls[Len(calls)].blocks
      BY <1>1, <1>2
    <2>4. BlockRefs([calls EXCEPT ![Len(calls)] = c], t) = BlockRefs(calls, t)
      BY <1>1, <1>2, <2>3, BlocksKept
    <2>5. FrameRefs([calls EXCEPT ![Len(calls)] = c], t) = FrameRefs(calls, t) \ {Len(calls)}
      BY <2>1, <2>2
    <2>6. calls' = [calls EXCEPT ![Len(calls)] = c]
      BY <1>1
    <2> QED
      BY <2>4, <2>5, <2>6
  <1>5. /\ tab' \in [Tabs -> TabType]
        /\ FreeIsEmpty' /\ KeysUnique'
        /\ \A t \in Tabs : t # f => tab'[t] = tab[t]
    BY <1>1, GiveBackFacts
  <1>6. /\ Covered' /\ PooledIsFresh'
        /\ pool' \in Seq(Tabs) /\ Len(pool') <= PoolMax
    BY <1>1, <1>4, GiveBackCovers
  <1>7. FrameIsThere'
    <2>1. ASSUME NEW i \in 1..n, ~calls'[i].returned
          PROVE  /\ calls'[i].frame \in Tabs
                 /\ calls'[i].bound < Len(calls'[i].clo.params)
                      => tab'[calls'[i].frame].rc = 1
      <3>1. i # n /\ calls'[i] = calls[i]
        BY <1>1, <1>3, <2>1
      <3> QED
        BY <1>1, <1>5, <2>1, <3>1, OthersAreThere
    <2> QED
      BY <1>3, <2>1 DEF FrameIsThere
  <1>8. FramesAreOwn'
    <2>1. FramesAreOwn
      BY DEF FramesInv
    <2>2. \A i \in 1..n : calls'[i].frame # NoTab => calls'[i].frame = calls[i].frame
      BY <1>1, <1>3
    <2> QED
      BY <1>3, <2>1, <2>2, StillOwn
  <1>9. TypeOK'
    BY <1>1, <1>3, <1>5, <1>6 DEF FramesInv, TypeOK, TabType
  <1> QED
    BY <1>5, <1>6, <1>7, <1>8, <1>9 DEF CoverInv

LEMMA LeaveCovers ==
  ASSUME NEW leak \in Leaks, FramesInv(leak), C!Leave
  PROVE  CoverInv'
  <1> DEFINE n == Len(calls)
             f == Top.frame
  <1>1. /\ calls # <<>>
        /\ calls' = SubSeq(calls, 1, n - 1)
        /\ held' = held /\ read' = read
        /\ IF Top.returned THEN tab' = tab /\ pool' = pool ELSE C!GiveBack(f)
    BY DEF C!Leave, C!Top, Top
  <1>2. /\ n \in Nat \ {0} /\ n \in 1..n /\ n > 0
        /\ calls \in Seq(Call) /\ calls[n] = Top
    BY <1>1, TopIsTyped DEF FramesInv, TypeOK, Top
  <1>3. /\ calls' \in Seq(Call) /\ Len(calls') = n - 1
        /\ \A i \in 1..n - 1 : calls'[i] = calls[i]
    BY <1>1, <1>2, FrontIsShorter
  <1>4. ASSUME NEW t \in Tabs
        PROVE  /\ FrameRefs(calls', t) = FrameRefs(calls, t) \ {Len(calls)}
               /\ BlockRefs(calls', t) \subseteq BlockRefs(calls, t)
    <2>1. /\ FrameRefs(SubSeq(calls, 1, n - 1), t) = FrameRefs(calls, t) \ {n}
          /\ BlockRefs(SubSeq(calls, 1, n - 1), t) = BlockRefs(calls, t) \ LastBlocks(calls, t)
      BY <1>2, RefsOfPopped
    <2> QED
      BY <1>1, <2>1
  <1>5. /\ tab' \in [Tabs -> TabType]
        /\ FreeIsEmpty' /\ KeysUnique'
        /\ \A t \in Tabs : t # f => tab'[t] = tab[t]
        /\ ~Top.returned \/ tab' = tab
    <2>1. CASE Top.returned
      BY <1>1, <2>1 DEF FramesInv, TypeOK, TabType, FreeIsEmpty, KeysUnique
    <2>2. CASE ~Top.returned
      BY <1>1, <2>2, GiveBackFacts
    <2> QED
      BY <2>1, <2>2
  <1>6. /\ Covered' /\ PooledIsFresh'
        /\ pool' \in Seq(Tabs) /\ Len(pool') <= PoolMax
    <2>1. CASE Top.returned
      <3>1. tab' = tab /\ pool' = pool
        BY <1>1, <2>1
      <3>2. ASSUME NEW t \in Tabs
            PROVE  /\ Finite(pool', calls', held', t)
                   /\ Refs(pool', calls', held', t) <= tab'[t].rc
        <4>1. /\ Finite(pool, calls, held, t)
              /\ Refs(pool, calls, held, t) <= tab[t].rc
              /\ Refs(pool, calls, held, t) \in Nat /\ tab[t].rc \in Nat
          BY CoversEach
        <4>2. /\ FrameRefs(calls', t) \subseteq FrameRefs(calls, t)
              /\ BlockRefs(calls', t) \subseteq BlockRefs(calls, t)
              /\ PoolRefs(pool', t) \subseteq PoolRefs(pool, t)
              /\ SlotRefs(held', t) \subseteq SlotRefs(held, t)
          BY <1>1, <1>4, <3>1
        <4>3. /\ Finite(pool', calls', held', t)
              /\ Refs(pool', calls', held', t) <= Refs(pool, calls, held, t)
          BY <4>1, <4>2, FewerRefs
        <4>4. Refs(pool', calls', held', t) \in Nat
          BY <4>3, RefsAreCounted
        <4> QED
          BY <3>1, <4>1, <4>3, <4>4
      <3> QED
        BY <3>1, <3>2 DEF Covered, FramesInv, TypeOK, PooledIsFresh
    <2>2. CASE ~Top.returned
      BY <1>1, <1>4, <2>2, GiveBackCovers
    <2> QED
      BY <2>1, <2>2
  <1>7. FrameIsThere'
    <2>1. ASSUME NEW i \in 1..n - 1, ~calls'[i].returned
          PROVE  /\ calls'[i].frame \in Tabs
                 /\ calls'[i].bound < Len(calls'[i].clo.params)
                      => tab'[calls'[i].frame].rc = 1
      <3>1. i \in 1..n /\ i # n /\ calls'[i] = calls[i]
        BY <1>2, <1>3
      <3> QED
        BY <1>1, <1>5, <2>1, <3>1, OthersAreThere
    <2> QED
      BY <1>3, <2>1 DEF FrameIsThere
  <1>8. FramesAreOwn'
    <2>1. FramesAreOwn /\ n = Len(calls)
      BY DEF FramesInv
    <2>2. \A i \in 1..n - 1 : i \in 1..n /\ calls'[i].frame = calls[i].frame
      BY <1>2, <1>3
    <2> HIDE DEF n
    <2> QED
      BY <1>3, <2>1, <2>2 DEF FramesAreOwn
  <1>9. TypeOK'
    BY <1>1, <1>3, <1>5, <1>6 DEF FramesInv, TypeOK, TabType
  <1> QED
    BY <1>5, <1>6, <1>7, <1>8, <1>9 DEF CoverInv

----------------------------------------------------------------------------
(* What the program sees of it: the envs of other calls and what it         *)
(* reflected stay as they are when a frame is given back.                   *)
LEMMA GiveBackIsUnseen ==
  ASSUME NEW leak \in Leaks, FramesInv(leak),
         calls # <<>>, ~Top.returned, C!GiveBack(Top.frame), held' = held
  PROVE  /\ \A i \in 1..Len(calls) :
              i # Len(calls) => SeenCall(tab', calls[i]) = SeenCall(tab, calls[i])
         /\ SeenHeld' = SeenHeld
  <1> DEFINE f == Top.frame
             n == Len(calls)
  <1>1. /\ f \in Tabs /\ n \in FrameRefs(calls, f)
        /\ tab' \in [Tabs -> TabType]
        /\ \A t \in Tabs : t # f => tab'[t] = tab[t]
        /\ StaysShared(f) \/ GoesToPool(f) \/ IsFreed(f)
    BY GiveBackFacts
  <1>2. \A i \in FrameRefs(calls, f) : i = n
    BY <1>1, FramesAssumption DEF FramesInv, FramesAreOwn, FrameRefs
  <1>3. /\ tab \in [Tabs -> TabType] /\ calls \in Seq(Call)
        /\ held \in [Slots -> Tabs \cup {NoTab}]
    BY DEF FramesInv, TypeOK, TabType
  <1> HIDE DEF f
  <1>4. CASE StaysShared(f)
    <2>1. \A t \in Tabs : tab'[t].env = tab[t].env
      BY <1>1, <1>4 DEF StaysShared
    <2>2. ASSUME NEW i \in 1..Len(calls)
          PROVE  SeenCall(tab', calls[i]) = SeenCall(tab, calls[i])
      <3>1. calls[i] \in Call /\ (~calls[i].returned => calls[i].frame \in Tabs)
        BY <1>3, CallsAreTyped DEF FramesInv, FrameIsThere
      <3> QED
        BY <1>1, <1>3, <2>1, <3>1, SeenAlike
    <2>3. \A h \in Slots : held[h] # NoTab => tab'[held[h]].env = tab[held[h]].env
      BY <1>3, <2>1
    <2>4. SeenHeld' = SeenHeld
      BY <2>3 DEF SeenHeld
    <2> QED
      BY <2>2, <2>4
  <1>5. CASE GoesToPool(f) \/ IsFreed(f)
    <2>1. tab[f].rc <= 1
      BY <1>5 DEF GoesToPool, IsFreed
    <2>2. BlockRefs(calls, f) = {} /\ SlotRefs(held, f) = {}
      BY <1>1, <2>1, SoleReference
    <2>3. \A t \in Tabs : t # f => tab'[t].env = tab[t].env
      BY <1>1
    <2>4. /\ \A i \in 1..Len(calls) :
               i \notin FrameRefs(calls, f) /\ (\A b : <<i, b>> \notin BlockRefs(calls, f))
                 => SeenCall(tab', calls[i]) = SeenCall(tab, calls[i])
          /\ SlotRefs(held, f) = {} /\ held' = held => SeenHeld' = SeenHeld
      BY <1>1, <2>3, OthersAreKept
    <2> QED
      BY <1>2, <2>2, <2>4
  <1> QED
    BY <1>1, <1>4, <1>5

LEMMA CReturnIsPure ==
  ASSUME NEW leak \in Leaks, FramesInv(leak),
         NEW more \in Leaks, FramesInv(more)',
         C!Return
  PROVE  Pure!Return
  <1> DEFINE c == [Top EXCEPT !.returned = TRUE, !.frame = NoTab]
  <1>1. /\ calls # <<>> /\ InBody(Top) /\ ~Top.returned /\ Top.blocks = <<>>
        /\ C!GiveBack(Top.frame)
        /\ c \in Call /\ c.clo = Top.clo /\ c.returned = TRUE
        /\ c.bound = Top.bound /\ c.blocks = Top.blocks
        /\ calls' = [calls EXCEPT ![Len(calls)] = c]
        /\ held' = held /\ read' = read
    BY ReturnDoes
  <1> HIDE DEF c
  <1>2. /\ \A i \in 1..Len(calls) :
             i # Len(calls) => SeenCall(tab', calls[i]) = SeenCall(tab, calls[i])
        /\ SeenHeld' = SeenHeld
    BY <1>1, GiveBackIsUnseen
  <1> QED
    BY <1>1, <1>2, ReturnIsSeen

LEMMA CLeaveIsPure ==
  ASSUME NEW leak \in Leaks, FramesInv(leak),
         NEW more \in Leaks, FramesInv(more)',
         C!Leave
  PROVE  Pure!Leave
  <1> DEFINE n == Len(calls)
  <1>1. /\ calls # <<>>
        /\ calls' = SubSeq(calls, 1, n - 1)
        /\ held' = held /\ read' = read
        /\ IF Top.returned THEN tab' = tab /\ pool' = pool ELSE C!GiveBack(Top.frame)
    BY DEF C!Leave, C!Top, Top
  <1>2. n \in Nat \ {0} /\ n > 0 /\ calls \in Seq(Call)
    BY <1>1, TopIsTyped DEF FramesInv, TypeOK
  <1>3. /\ Len(calls') = n - 1
        /\ \A i \in 1..n - 1 : calls'[i] = calls[i]
    BY <1>1, <1>2, FrontIsShorter
  <1>4. /\ \A i \in 1..n : i # n => SeenCall(tab', calls[i]) = SeenCall(tab, calls[i])
        /\ SeenHeld' = SeenHeld
    <2>1. CASE Top.returned
      <3>1. tab' = tab
        BY <1>1, <2>1
      <3> QED
        BY <1>1, <3>1 DEF SeenHeld
    <2>2. CASE ~Top.returned
      BY <1>1, <2>2, GiveBackIsUnseen
    <2> QED
      BY <2>1, <2>2
  <1>5. \A i \in 1..n - 1 : SeenCall(tab', calls[i]) = SeenCall(tab, calls[i])
    <2>1. \A i \in 1..n - 1 : i \in 1..n /\ i # n
      BY <1>2
    <2> HIDE DEF n
    <2> QED
      BY <1>4, <2>1
  <1> QED
    BY <1>1, <1>3, <1>4, <1>5, LeaveIsSeen

LEMMA CLetIsPure ==
  ASSUME NEW leak \in Leaks, FramesInv(leak),
         NEW more \in Leaks, FramesInv(more)',
         NEW x \in Vars, NEW v \in Vals, C!Let(x, v)
  PROVE  Pure!Let(x, v)
  <1> DEFINE s == SeenCall(tab, Top)
             e == Bind(tab[Scope(Top)].env, x, v)
             New(t) == [Top EXCEPT !.blocks[Len(Top.blocks)] = t]
  <1>1. /\ calls # <<>> /\ InBody(Top) /\ Top.blocks # <<>>
        /\ held' = held /\ read' = read
    BY LetAlwaysCopies
  <1>2. PICK t \in Tabs :
          /\ tab[t].rc = 0 /\ tab'[t] = [rc |-> 1, env |-> e]
          /\ tab' \in [Tabs -> TabType]
          /\ \A u \in Tabs : u # t => tab'[u] = tab[u]
          /\ New(t) \in Call /\ New(t).clo = Top.clo /\ New(t).returned = Top.returned
          /\ New(t).frame = Top.frame /\ New(t).bound = Top.bound
          /\ New(t).blocks = [Top.blocks EXCEPT ![Len(Top.blocks)] = t]
          /\ calls' = [calls EXCEPT ![Len(calls)] = New(t)]
    BY LetAlwaysCopies
  <1>3. /\ tab[t].rc = 0 /\ tab'[t].env = e
        /\ \A u \in Tabs : u # t => tab'[u].env = tab[u].env
    BY <1>2
  <1>4. /\ New(t) \in Call /\ New(t).clo = Top.clo /\ New(t).returned = Top.returned
        /\ New(t).frame = Top.frame /\ New(t).bound = Top.bound
        /\ New(t).blocks = [Top.blocks EXCEPT ![Len(Top.blocks)] = t]
        /\ calls' = [calls EXCEPT ![Len(calls)] = New(t)]
    BY <1>2
  <1>5. \E u \in Tabs :
          LET d == [Top EXCEPT !.blocks[Len(Top.blocks)] = u]
          IN  /\ tab[u].rc = 0 /\ tab'[u].env = e
              /\ \A w \in Tabs : w # u => tab'[w].env = tab[w].env
              /\ d \in Call /\ d.clo = Top.clo /\ d.returned = Top.returned
              /\ d.frame = Top.frame /\ d.bound = Top.bound
              /\ d.blocks = [Top.blocks EXCEPT ![Len(Top.blocks)] = u]
              /\ calls' = [calls EXCEPT ![Len(calls)] = d]
    <2> WITNESS t \in Tabs
    <2> QED
      BY <1>3, <1>4
  <1> HIDE DEF e, s
  <1>6. /\ SeenCalls' = [SeenCalls EXCEPT
             ![Len(SeenCalls)] =
               [s EXCEPT !.blocks = [s.blocks EXCEPT ![Len(s.blocks)] = e]]]
        /\ SeenHeld' = SeenHeld
    BY <1>1, <1>5, CopyIsSeen DEF s
  <1>7. /\ SeenCalls # <<>> /\ SeenCalls[Len(SeenCalls)] = s
        /\ Pure!InBody(s) /\ s.blocks # <<>>
        /\ s.blocks[Len(s.blocks)] = tab[Scope(Top)].env
    <2>1. /\ SeenCalls # <<>> /\ SeenCalls[Len(SeenCalls)] = s
          /\ s.blocks = <<>> <=> Top.blocks = <<>>
          /\ Pure!InBody(s) <=> InBody(Top)
          /\ Pure!Scope(s) = tab[Scope(Top)].env
      BY <1>1, TopIsSeen DEF InBody, s
    <2> QED
      BY <1>1, <2>1 DEF Pure!Scope
  <1>8. Pure!Bind(s.blocks[Len(s.blocks)], x, v) = e
    BY <1>7, SameBinding DEF e
  <1> QED
    BY <1>1, <1>6, <1>7, <1>8 DEF Pure!Let, Pure!Update, Pure!Top

LEMMA CCloseBlockIsPure ==
  ASSUME NEW leak \in Leaks, FramesInv(leak),
         NEW more \in Leaks, FramesInv(more)',
         C!CloseBlock
  PROVE  Pure!CloseBlock
  <1>1. BlockEnds /\ tab' = tab
    BY CloseBlockIsAlike
  <1> QED
    BY <1>1, BlockEndsIsPure

----------------------------------------------------------------------------
(* The same of the next state.                                              *)
LEMMA CountedIsCoveredNext ==
  \A leak \in Leaks : FramesInv(leak)' => CoverInv'
  <1>1. \A leak \in Leaks : FramesInv(leak) => CoverInv
    BY CountedIsCovered
  <1>2. (\A leak \in Leaks : FramesInv(leak) => CoverInv)'
    BY <1>1, PTL
  <1> QED
    BY <1>2

LEMMA CoveredForALeakNext ==
  CoverInv' => \E leak \in Leaks : FramesInv(leak)'
  <1>1. CoverInv' => (\E leak \in Leaks : FramesInv(leak))'
    BY CoveredForALeak, PTL
  <1> QED
    BY <1>1

(* Every action keeps counts that cover the references.                     *)
CInv == CoverInv /\ slot \in [Vars -> Nat]

LEMMA CNextKeepsInv ==
  CInv /\ [C!Next]_(C!vars) => CInv'
  <1> SUFFICES ASSUME CInv, [C!Next]_(C!vars)
               PROVE  CInv'
    OBVIOUS
  <1>1. CoverInv /\ slot \in [Vars -> Nat]
    BY DEF CInv
  <1>2. PICK leak \in Leaks : FramesInv(leak)
    BY <1>1, CoveredForALeak
  <1>3. ASSUME NEW clo \in Closures, C!Enter(clo)
        PROVE  CInv'
    <2>1. Enter(clo) /\ slot' = slot
      BY <1>2, <1>3, EnterIsAlike
    <2>2. FramesInv(leak)'
      BY <1>2, <2>1, EnterKeeps
    <2> QED
      BY <1>1, <2>1, <2>2, CountedIsCoveredNext DEF CInv
  <1>4. ASSUME NEW v \in Vals, C!BindParam(v)
        PROVE  CInv'
    <2>1. BindParam(v) /\ slot' = slot
      BY <1>4, BindParamIsAlike
    <2>2. FramesInv(leak)'
      BY <1>2, <2>1, BindParamKeeps
    <2> QED
      BY <1>1, <2>1, <2>2, CountedIsCoveredNext DEF CInv
  <1>5. ASSUME NEW x \in Vars, C!Read(x)
        PROVE  CInv'
    <2>1. Read(x) /\ slot' \in [Vars -> Nat]
      BY <1>1, <1>2, <1>5, ReadIsAlike
    <2>2. FramesInv(leak)'
      BY <1>2, <2>1, ReadKeeps
    <2> QED
      BY <2>1, <2>2, CountedIsCoveredNext DEF CInv
  <1>6. ASSUME NEW x \in Vars, NEW v \in Vals, C!Let(x, v)
        PROVE  CInv'
    <2>1. CoverInv'
      BY <1>2, <1>6, LetCovers
    <2>2. slot' = slot
      BY <1>2, <1>6, LetAlwaysCopies
    <2> QED
      BY <1>1, <2>1, <2>2 DEF CInv
  <1>7. ASSUME NEW h \in Slots, C!Reflect(h)
        PROVE  CInv'
    <2>1. Reflect(h) /\ slot' = slot
      BY <1>7, ReflectIsAlike
    <2>2. FramesInv(leak)'
      BY <1>2, <2>1, ReflectKeeps
    <2> QED
      BY <1>1, <2>1, <2>2, CountedIsCoveredNext DEF CInv
  <1>8. ASSUME NEW h \in Slots, C!Forget(h)
        PROVE  CInv'
    <2>1. Forget(h) /\ slot' = slot
      BY <1>8, ForgetIsAlike
    <2>2. FramesInv(leak)'
      BY <1>2, <2>1, ForgetKeeps
    <2> QED
      BY <1>1, <2>1, <2>2, CountedIsCoveredNext DEF CInv
  <1>9. CASE C!OpenBlock
    <2>1. OpenBlock /\ slot' = slot
      BY <1>9, OpenBlockIsAlike
    <2>2. FramesInv(leak)'
      BY <1>2, <2>1, OpenBlockKeeps
    <2> QED
      BY <1>1, <2>1, <2>2, CountedIsCoveredNext DEF CInv
  <1>10. CASE C!CloseBlock
    <2>1. CoverInv'
      BY <1>2, <1>10, CloseBlockCovers
    <2>2. slot' = slot
      BY <1>10, CloseBlockIsAlike
    <2> QED
      BY <1>1, <2>1, <2>2 DEF CInv
  <1>11. CASE C!Return
    <2>1. CoverInv'
      BY <1>2, <1>11, ReturnCovers
    <2>2. slot' = slot
      BY <1>2, <1>11, ReturnDoes
    <2> QED
      BY <1>1, <2>1, <2>2 DEF CInv
  <1>12. CASE C!Leave
    <2>1. CoverInv'
      BY <1>2, <1>12, LeaveCovers
    <2>2. slot' = slot
      BY <1>12 DEF C!Leave
    <2> QED
      BY <1>1, <2>1, <2>2 DEF CInv
  <1>13. CASE UNCHANGED C!vars
    <2>1. /\ tab' = tab /\ pool' = pool /\ calls' = calls /\ held' = held
          /\ read' = read /\ slot' = slot
      BY <1>13 DEF C!vars, C!frameVars
    <2> QED
      BY <1>1, <2>1 DEF CInv, CoverInv, TypeOK, Covered, FreeIsEmpty, PooledIsFresh,
                        FrameIsThere, FramesAreOwn, KeysUnique
  <1>14. CASE C!CutOff
    BY <1>13, <1>14 DEF C!CutOff
  <1> QED
    BY <1>3, <1>4, <1>5, <1>6, <1>7, <1>8, <1>9, <1>10, <1>11, <1>12, <1>13, <1>14
       DEF C!Next

LEMMA CInvHolds ==
  C!Spec => []CInv
  <1>1. C!Init => CInv
    <2> SUFFICES ASSUME C!Init PROVE CInv
      OBVIOUS
    <2>1. FramesInit /\ slot = [x \in Vars |-> 0]
      BY DEF C!Init, C!FramesInit, FramesInit, C!Free, Free
    <2>2. CoverInv
      BY <2>1, InitEstablishesInv, CountedIsCovered, NoLeakIsTyped
    <2> QED
      BY <2>1, <2>2 DEF CInv
  <1> QED
    BY <1>1, CNextKeepsInv, PTL DEF C!Spec

(* What the counts cover includes what the property counts.                 *)
LEMMA CoveredIsCountsCover ==
  CoverInv => CountsCover
  <1> SUFFICES ASSUME CoverInv, NEW t \in Tabs
               PROVE  LET frames == {i \in 1..Len(calls) : calls[i].frame = t}
                          blocks == {r \in (1..Len(calls)) \X (1..MaxBlocks) :
                                       /\ r[2] <= Len(calls[r[1]].blocks)
                                       /\ calls[r[1]].blocks[r[2]] = t}
                          slots  == {h \in Slots : held[h] = t}
                      IN tab[t].rc >= Cardinality(frames) + Cardinality(blocks)
                                        + Cardinality(slots)
    BY DEF CountsCover
  <1> DEFINE blocks == {r \in (1..Len(calls)) \X (1..MaxBlocks) :
                          /\ r[2] <= Len(calls[r[1]].blocks)
                          /\ calls[r[1]].blocks[r[2]] = t}
  <1>1. /\ Finite(pool, calls, held, t)
        /\ Refs(pool, calls, held, t) <= tab[t].rc /\ tab[t].rc \in Nat
    BY DEF CoverInv, Covered, TypeOK
  <1>2. /\ Cardinality(PoolRefs(pool, t)) \in Nat
        /\ Cardinality(FrameRefs(calls, t)) \in Nat
        /\ Cardinality(BlockRefs(calls, t)) \in Nat
        /\ Cardinality(SlotRefs(held, t)) \in Nat
    BY <1>1, RefsAreCounted
  <1>3. blocks \subseteq BlockRefs(calls, t)
    <2>1. \A b \in 1..MaxBlocks : b \in Nat \ {0}
      BY FramesAssumption
    <2> QED
      BY <2>1 DEF BlockRefs
  <1> HIDE DEF blocks
  <1>4. IsFiniteSet(BlockRefs(calls, t))
    BY <1>1 DEF Finite
  <1>5. Cardinality(blocks) \in Nat /\ Cardinality(blocks) <= Cardinality(BlockRefs(calls, t))
    <2>1. IsFiniteSet(blocks) /\ Cardinality(blocks) <= Cardinality(BlockRefs(calls, t))
      BY <1>3, <1>4, FS_Subset
    <2> QED
      BY <2>1, FS_CardinalityType
  <1>6. tab[t].rc >= Cardinality(FrameRefs(calls, t)) + Cardinality(blocks)
                       + Cardinality(SlotRefs(held, t))
    BY <1>1, <1>2, <1>5 DEF Refs
  <1> QED
    BY <1>6, Zenon DEF FrameRefs, SlotRefs, blocks

(* In C no tab is freed or pooled while a call, a block or a reflected      *)
(* value refers to it, although blocks drop no reference: frame_put and     *)
(* tab_release only ever see counts that are high enough.                   *)
THEOREM CountsAlwaysCover ==
  C!Spec => []CountsCover
  <1>1. CInv => CountsCover
    BY CoveredIsCountsCover DEF CInv
  <1> QED
    BY <1>1, CInvHolds, PTL

(* The frames of C are typed, those in its pool empty and nobody's, those   *)
(* of two calls distinct, and no env has a name twice.                      *)
THEOREM FramesAreSoundInC ==
  C!Spec => [](TypeOK /\ PoolIsClean /\ FramesAreOwn /\ KeysUnique)
  <1>1. CInv => TypeOK /\ PoolIsClean /\ FramesAreOwn /\ KeysUnique
    <2> SUFFICES ASSUME CInv PROVE TypeOK /\ PoolIsClean /\ FramesAreOwn /\ KeysUnique
      OBVIOUS
    <2>1. PICK leak \in Leaks : FramesInv(leak)
      BY CoveredForALeak DEF CInv
    <2>2. PoolIsClean
      BY <2>1, InvImpliesClean
    <2> QED
      BY <2>1, <2>2 DEF FramesInv
  <1> QED
    BY <1>1, CInvHolds, PTL

(* Every step is one of the calls on immutable environments.                *)
LEMMA CNextIsPure ==
  CInv /\ CInv' /\ [C!Next]_(C!vars) => [Pure!PNext]_(Pure!pvars)
  <1> SUFFICES ASSUME CInv, CInv', [C!Next]_(C!vars)
               PROVE  [Pure!PNext]_(Pure!pvars)
    OBVIOUS
  <1>1. CoverInv /\ slot \in [Vars -> Nat] /\ CoverInv'
    BY DEF CInv
  <1>2. PICK leak \in Leaks : FramesInv(leak)
    BY <1>1, CoveredForALeak
  <1>3. PICK more \in Leaks : FramesInv(more)'
    BY <1>1, CoveredForALeakNext
  <1>4. ASSUME NEW clo \in Closures, C!Enter(clo)
        PROVE  Pure!PNext
    <2>1. Enter(clo)
      BY <1>2, <1>4, EnterIsAlike
    <2> QED
      BY <1>2, <1>3, <2>1, EnterIsPure DEF Pure!PNext
  <1>5. ASSUME NEW v \in Vals, C!BindParam(v)
        PROVE  Pure!PNext
    <2>1. BindParam(v)
      BY <1>5, BindParamIsAlike
    <2> QED
      BY <1>2, <1>3, <2>1, BindParamIsPure DEF Pure!PNext
  <1>6. ASSUME NEW x \in Vars, C!Read(x)
        PROVE  Pure!PNext
    <2>1. Read(x)
      BY <1>1, <1>2, <1>6, ReadIsAlike
    <2> QED
      BY <1>2, <2>1, ReadIsPure DEF Pure!PNext
  <1>7. ASSUME NEW x \in Vars, NEW v \in Vals, C!Let(x, v)
        PROVE  Pure!PNext
    BY <1>2, <1>3, <1>7, CLetIsPure DEF Pure!PNext
  <1>8. ASSUME NEW h \in Slots, C!Reflect(h)
        PROVE  Pure!PNext
    <2>1. Reflect(h)
      BY <1>8, ReflectIsAlike
    <2> QED
      BY <1>2, <1>3, <2>1, ReflectIsPure DEF Pure!PNext
  <1>9. ASSUME NEW h \in Slots, C!Forget(h)
        PROVE  Pure!PNext
    <2>1. Forget(h)
      BY <1>9, ForgetIsAlike
    <2> QED
      BY <1>2, <1>3, <2>1, ForgetIsPure DEF Pure!PNext
  <1>10. CASE C!OpenBlock
    <2>1. OpenBlock
      BY <1>10, OpenBlockIsAlike
    <2> QED
      BY <1>2, <1>3, <2>1, OpenBlockIsPure DEF Pure!PNext
  <1>11. CASE C!CloseBlock
    BY <1>2, <1>3, <1>11, CCloseBlockIsPure DEF Pure!PNext
  <1>12. CASE C!Return
    BY <1>2, <1>3, <1>12, CReturnIsPure DEF Pure!PNext
  <1>13. CASE C!Leave
    BY <1>2, <1>3, <1>13, CLeaveIsPure DEF Pure!PNext
  <1>14. CASE UNCHANGED C!vars
    <2>1. tab' = tab /\ calls' = calls /\ held' = held /\ read' = read
      BY <1>14 DEF C!vars, C!frameVars
    <2> QED
      BY <2>1 DEF Pure!pvars, SeenCalls, SeenHeld, SeenCall
  <1>15. CASE C!CutOff
    BY <1>14, <1>15 DEF C!CutOff
  <1> QED
    BY <1>4, <1>5, <1>6, <1>7, <1>8, <1>9, <1>10, <1>11, <1>12, <1>13, <1>14, <1>15
       DEF C!Next

(* In C too the program cannot tell: neither leaked counts nor remembered   *)
(* positions ever show in the value of a name, a call, a block or a         *)
(* reflected env.                                                           *)
THEOREM FramesImplementPureCallsInC ==
  C!Spec => ImplementsPureCalls
  <1>1. C!Init => Pure!PInit
    <2> SUFFICES ASSUME C!Init PROVE Pure!PInit
      OBVIOUS
    <2>1. calls = <<>> /\ held = [h \in Slots |-> NoTab] /\ read = NoVal
      BY DEF C!Init, C!FramesInit
    <2>2. SeenCalls = <<>>
      BY <2>1 DEF SeenCalls
    <2>3. SeenHeld = [h \in Slots |-> <<>>]
      BY <2>1 DEF SeenHeld
    <2> QED
      BY <2>1, <2>2, <2>3 DEF Pure!PInit, Pure!NoEnv
  <1> QED
    BY <1>1, CNextIsPure, CInvHolds, PTL DEF C!Spec, ImplementsPureCalls, Pure!PSpec
=============================================================================
