--------------------------- MODULE InPlace_proofs ---------------------------
(***************************************************************************)
(* Columns are overwritten in place and nobody can tell, for every range   *)
(* of integers, every program and every set of allocations.                *)
(***************************************************************************)
EXTENDS InPlace, SequenceTheorems, FiniteSetTheorems, FunctionTheorems, TLAPS

----------------------------------------------------------------------------
(* A sequence without its last element.                                     *)
LEMMA FrontIsShorter ==
  ASSUME NEW S, NEW s \in Seq(S), Len(s) > 0
  PROVE  /\ SubSeq(s, 1, Len(s) - 1) \in Seq(S)
         /\ Len(SubSeq(s, 1, Len(s) - 1)) = Len(s) - 1
         /\ \A i \in 1..Len(s) - 1 : SubSeq(s, 1, Len(s) - 1)[i] = s[i]
  <1>1. Len(s) \in Nat
    BY LenProperties
  <1>2. 1 \in Int /\ Len(s) - 1 \in Int
    BY <1>1
  <1>3. \A i \in 1..Len(s) - 1 : s[i] \in S
    BY <1>1, ElementOfSeq
  <1>4. /\ SubSeq(s, 1, Len(s) - 1) \in Seq(S)
        /\ Len(SubSeq(s, 1, Len(s) - 1)) =
             IF 1 <= Len(s) - 1 THEN Len(s) - 1 - 1 + 1 ELSE 0
        /\ \A i \in 1..Len(s) - 1 - 1 + 1 : SubSeq(s, 1, Len(s) - 1)[i] = s[1 + i - 1]
    BY <1>2, <1>3, SubSeqProperties
  <1>5. \A k \in Nat : k > 0 =>
          /\ k - 1 - 1 + 1 = k - 1
          /\ (IF 1 <= k - 1 THEN k - 1 - 1 + 1 ELSE 0) = k - 1
    OBVIOUS
  <1>6. \A i \in Int : 1 + i - 1 = i
    OBVIOUS
  <1>7. 1..Len(s) - 1 \subseteq Int
    BY <1>2
  <1> QED
    BY <1>1, <1>4, <1>5, <1>6, <1>7, Zenon

----------------------------------------------------------------------------
(* Arithmetic stays within the integers of its width.                       *)
LEMMA Remainder ==
  ASSUME NEW a \in Int, NEW b \in Nat \ {0}
  PROVE  a % b \in 0..b - 1
  OBVIOUS

LEMMA WrapIsInt ==
  ASSUME NEW n \in Int
  PROVE  Wrap(n) \in Ints
  <1>1. Half \in Nat \ {0}
    BY ColumnsAssumption
  <1>2. 2 * Half \in Nat \ {0} /\ n - MinInt \in Int
    BY <1>1 DEF MinInt
  <1>3. (n - MinInt) % (2 * Half) \in 0..(2 * Half) - 1
    BY <1>2, Remainder
  <1> DEFINE r == (n - MinInt) % (2 * Half)
  <1>4. r \in 0..(2 * Half) - 1
    BY <1>3
  <1> HIDE DEF r
  <1>5. r + MinInt \in Ints
    BY <1>1, <1>4 DEF MinInt, Ints
  <1> QED
    BY <1>5 DEF r, Wrap

LEMMA QuotientOfNats ==
  ASSUME NEW a \in Nat, NEW b \in Nat \ {0}
  PROVE  /\ a \div b \in 0..a
         /\ b * (a \div b) \in 0..a
         /\ b > 1 /\ a > 0 => a \div b < a
  <1> DEFINE q == a \div b
  <1>1. q \in Int /\ b * q <= a /\ a < b * q + b
    OBVIOUS
  <1> HIDE DEF q
  <1>2. q >= 0
    <2>1. SUFFICES ASSUME q <= -1 PROVE FALSE
      BY <1>1
    <2>2. b * (q + 1) <= 0
      BY <1>1, <2>1
    <2> QED
      BY <1>1, <2>2
  <1>3. q <= b * q
    BY <1>1, <1>2
  <1>4. b > 1 /\ a > 0 => q < a
    <2> SUFFICES ASSUME b > 1, a > 0 PROVE q < a
      OBVIOUS
    <2>1. 2 * q <= b * q
      BY <1>1, <1>2
    <2> QED
      BY <1>1, <1>2, <2>1
  <1>5. b * q \in Int /\ b * q >= 0
    BY <1>1, <1>2, <1>3
  <1>6. q \in 0..a /\ b * q \in 0..a
    BY <1>1, <1>2, <1>3, <1>5
  <1> QED
    BY <1>4, <1>6 DEF q

LEMMA QuotientIsInt ==
  ASSUME NEW x \in Ints, NEW y \in Ints, y # 0, ~(x = MinInt /\ y = -1)
  PROVE  Quotient(x, y) \in Ints /\ x - y * Quotient(x, y) \in Ints
  <1> DEFINE m == Magnitude(x)
             n == Magnitude(y)
             q == m \div n
  <1>1. Half \in Nat \ {0} /\ x \in Int /\ y \in Int
    BY ColumnsAssumption DEF Ints, MinInt
  <1>2. /\ m \in Nat /\ n \in Nat \ {0} /\ m <= Half
        /\ x < 0 => m = -x
        /\ x >= 0 => m = x /\ m < Half
        /\ y < 0 => n = -y
        /\ y >= 0 => n = y
    BY <1>1 DEF Magnitude, Ints, MinInt
  <1>3. q \in 0..m /\ n * q \in 0..m /\ (n > 1 /\ m > 0 => q < m)
    <2> HIDE DEF m, n
    <2> QED
      BY <1>2, QuotientOfNats
  <1>4. Quotient(x, y) = IF (x < 0) = (y < 0) THEN q ELSE -q
    BY DEF Quotient
  <1>5. ~(m = Half /\ n = 1 /\ y < 0)
    BY <1>1, <1>2 DEF MinInt
  <1> HIDE DEF m, n, q
  <1>6. q \in Nat /\ q <= Half
    BY <1>1, <1>2, <1>3
  <1>7. x < 0 /\ y < 0 => q < Half
    <2> SUFFICES ASSUME x < 0, y < 0 PROVE q < Half
      OBVIOUS
    <2>1. n = 1 => m < Half
      BY <1>1, <1>2, <1>5
    <2>2. n # 1 => n > 1
      BY <1>2
    <2>3. n # 1 => q < Half
      BY <1>1, <1>2, <1>3, <1>6, <2>2
    <2> QED
      BY <1>1, <1>2, <1>3, <2>1, <2>3
  <1>8. x >= 0 => q < Half
    BY <1>1, <1>2, <1>3
  <1>9. Quotient(x, y) \in Ints
    BY <1>1, <1>4, <1>6, <1>7, <1>8 DEF Ints, MinInt
  <1>10. x - y * Quotient(x, y) = IF x < 0 THEN -(m - n * q) ELSE m - n * q
    <2>1. CASE x < 0 /\ y < 0
      <3>1. y = -n /\ x = -m /\ Quotient(x, y) = q
        BY <1>1, <1>2, <1>4, <2>1
      <3> QED
        BY <1>1, <1>2, <1>6, <2>1, <3>1
    <2>2. CASE x < 0 /\ y >= 0
      <3>1. y = n /\ x = -m /\ Quotient(x, y) = -q
        BY <1>1, <1>2, <1>4, <2>2
      <3> QED
        BY <1>1, <1>2, <1>6, <2>2, <3>1
    <2>3. CASE x >= 0 /\ y < 0
      <3>1. y = -n /\ x = m /\ Quotient(x, y) = -q
        BY <1>1, <1>2, <1>4, <2>3
      <3> QED
        BY <1>1, <1>2, <1>6, <2>3, <3>1
    <2>4. CASE x >= 0 /\ y >= 0
      <3>1. y = n /\ x = m /\ Quotient(x, y) = q
        BY <1>1, <1>2, <1>4, <2>4
      <3> QED
        BY <1>1, <1>2, <1>6, <2>4, <3>1
    <2> QED
      BY <1>1, <2>1, <2>2, <2>3, <2>4
  <1>11. m - n * q \in Nat /\ m - n * q <= m
    BY <1>2, <1>3
  <1> DEFINE r == m - n * q
  <1>12. r \in Nat /\ r <= m
    BY <1>11
  <1>13. x - y * Quotient(x, y) = IF x < 0 THEN -r ELSE r
    BY <1>10
  <1> HIDE DEF r
  <1>14. x - y * Quotient(x, y) \in Ints
    BY <1>1, <1>2, <1>12, <1>13 DEF Ints, MinInt
  <1> QED
    BY <1>9, <1>14

LEMMA ArithIsElem ==
  ASSUME NEW op \in AllOps, NEW x \in Elem, NEW y \in Elem, ~Overflows(op, x, y)
  PROVE  Arith2(op, x, y) \in Elem
  <1>1. CASE x = Nil \/ y = Nil
    BY <1>1 DEF Arith2, Elem
  <1>2. CASE x # Nil /\ y # Nil
    <2>1. x \in Ints /\ y \in Ints /\ x \in Int /\ y \in Int
      BY <1>2, ColumnsAssumption DEF Elem, Ints, MinInt
    <2>2. CASE op = "add"
      <3>1. Wrap(x + y) \in Ints
        BY <2>1, WrapIsInt
      <3> QED
        BY <1>2, <2>2, <3>1 DEF Arith2, Elem
    <2>3. CASE op = "sub"
      <3>1. Wrap(x - y) \in Ints
        BY <2>1, WrapIsInt
      <3> QED
        BY <1>2, <2>3, <3>1 DEF Arith2, Elem
    <2>4. CASE op = "mul"
      <3>1. x * y \in Int
        BY <2>1
      <3>2. Wrap(x * y) \in Ints
        BY <3>1, WrapIsInt
      <3> QED
        BY <1>2, <2>4, <3>2 DEF Arith2, Elem
    <2>5. CASE op \in {"div", "rem"}
      <3>1. y # 0 /\ ~(x = MinInt /\ y = -1)
        BY <1>2, <2>5 DEF Overflows
      <3>2. Quotient(x, y) \in Ints /\ x - y * Quotient(x, y) \in Ints
        BY <2>1, <3>1, QuotientIsInt
      <3>3. Arith2(op, x, y) = Quotient(x, y) \/ Arith2(op, x, y) = x - y * Quotient(x, y)
        BY <1>2, <2>5 DEF Arith2
      <3> QED
        BY <3>2, <3>3 DEF Elem
    <2> QED
      BY <2>2, <2>3, <2>4, <2>5 DEF AllOps
  <1> QED
    BY <1>1, <1>2

LEMMA SameBound ==
  ASSUME NEW m \in Nat, NEW n \in Nat, 1..m = 1..n
  PROVE  m = n
  <1>1. CASE m < n
    <2>1. n \in 1..n /\ n \notin 1..m
      BY <1>1
    <2> QED
      BY <2>1
  <1>2. CASE n < m
    <2>1. m \in 1..m /\ m \notin 1..n
      BY <1>2
    <2> QED
      BY <2>1
  <1> QED
    BY <1>1, <1>2

LEMMA WrittenIsColumn ==
  ASSUME NEW op \in AllOps, NEW x \in Column, NEW y \in Column, NEW o \in Column,
         Len(y) = Len(x), Len(o) = Len(x)
  PROVE  Written(op, x, y, o) \in Column /\ Len(Written(op, x, y, o)) = Len(x)
  <1> DEFINE w == Written(op, x, y, o)
  <1>1. /\ Len(x) \in Nat
        /\ \A i \in 1..Len(x) : x[i] \in Elem /\ y[i] \in Elem /\ o[i] \in Elem
    BY LenProperties, ElementOfSeq DEF Column
  <1>2. \A i \in 1..Len(x) :
          (IF \E j \in Failing(op, x, y) : j <= i THEN o[i]
           ELSE Arith2(op, x[i], y[i])) \in Elem
    <2> TAKE i \in 1..Len(x)
    <2>1. CASE \E j \in Failing(op, x, y) : j <= i
      BY <1>1, <2>1
    <2>2. CASE ~\E j \in Failing(op, x, y) : j <= i
      <3>1. i <= i
        BY <1>1
      <3>2. ~Overflows(op, x[i], y[i])
        BY <2>2, <3>1 DEF Failing
      <3>3. Arith2(op, x[i], y[i]) \in Elem
        BY <1>1, <3>2, ArithIsElem
      <3> QED
        BY <2>2, <3>3
    <2> QED
      BY <2>1, <2>2
  <1>3. w \in [1..Len(x) -> Elem]
    BY <1>2, Zenon DEF Written
  <1>4. w \in Seq(Elem)
    BY <1>1, <1>3, SeqDef
  <1>5. Len(w) \in Nat /\ DOMAIN w = 1..Len(w)
    BY <1>4, LenProperties
  <1>6. DOMAIN w = 1..Len(x)
    BY <1>3
  <1> HIDE DEF w
  <1>7. Len(w) = Len(x)
    BY <1>1, <1>5, <1>6, SameBound
  <1> QED
    BY <1>4, <1>7 DEF w, Column

LEMMA BroadcastIsColumn ==
  ASSUME NEW e \in Elem, NEW n \in Nat
  PROVE  Broadcast(e, n) \in Column /\ Len(Broadcast(e, n)) = n
  <1>1. Broadcast(e, n) \in [1..n -> Elem]
    BY DEF Broadcast
  <1>2. Broadcast(e, n) \in Seq(Elem)
    BY <1>1, SeqDef
  <1>3. Len(Broadcast(e, n)) \in Nat /\ 1..n = 1..Len(Broadcast(e, n))
    BY <1>1, <1>2, LenProperties
  <1> QED
    BY <1>2, <1>3, SameBound DEF Column

----------------------------------------------------------------------------
(* References among values: how many there are in a sequence that grows or  *)
(* is cut in two.                                                           *)
RefAt(c, vs) == {i \in 1..Len(vs) : vs[i] = <<"col", c>>}
One(c, v) == IF v = <<"col", c>> THEN 1 ELSE 0

LEMMA RefsAreCounted ==
  ASSUME NEW vs \in Seq(Value), NEW c
  PROVE  /\ RefAt(c, vs) \subseteq 1..Len(vs)
         /\ IsFiniteSet(RefAt(c, vs))
         /\ Refs(c, vs) = Cardinality(RefAt(c, vs))
         /\ Refs(c, vs) \in Nat
  <1>1. Len(vs) \in Nat
    BY LenProperties
  <1>2. RefAt(c, vs) \subseteq 1..Len(vs)
    BY DEF RefAt
  <1>3. IsFiniteSet(RefAt(c, vs))
    <2>1. IsFiniteSet(1..Len(vs))
      BY <1>1, FS_Interval
    <2> QED
      BY <1>2, <2>1, FS_Subset
  <1>4. Refs(c, vs) = Cardinality(RefAt(c, vs))
    BY DEF Refs, RefAt
  <1> QED
    BY <1>2, <1>3, <1>4, FS_CardinalityType

LEMMA RefsOfNone ==
  ASSUME NEW c
  PROVE  Refs(c, <<>>) = 0
  <1>1. RefAt(c, <<>>) = {}
    BY DEF RefAt
  <1> QED
    BY <1>1, FS_EmptySet DEF Refs, RefAt

LEMMA RefsOfAppended ==
  ASSUME NEW vs \in Seq(Value), NEW v \in Value, NEW c
  PROVE  Refs(c, Append(vs, v)) = Refs(c, vs) + One(c, v)
  <1> DEFINE ws == Append(vs, v)
             n == Len(vs)
  <1>1. /\ ws \in Seq(Value) /\ Len(ws) = n + 1 /\ n \in Nat
        /\ \A i \in 1..n : ws[i] = vs[i]
        /\ ws[n + 1] = v
    BY AppendProperties, LenProperties
  <1>2. IsFiniteSet(RefAt(c, vs)) /\ Refs(c, vs) = Cardinality(RefAt(c, vs))
        /\ Refs(c, ws) = Cardinality(RefAt(c, ws)) /\ Refs(c, vs) \in Nat
    BY <1>1, RefsAreCounted
  <1> HIDE DEF ws, n
  <1>3. n + 1 \notin RefAt(c, vs)
    BY <1>1 DEF RefAt, n
  <1>4. RefAt(c, ws) = IF v = <<"col", c>> THEN RefAt(c, vs) \cup {n + 1}
                       ELSE RefAt(c, vs)
    <2>1. 1..n + 1 = 1..n \cup {n + 1}
      BY <1>1
    <2>2. \A i : i \in RefAt(c, ws) <=>
                   i \in RefAt(c, vs) \/ (i = n + 1 /\ v = <<"col", c>>)
      <3> TAKE i
      <3>1. i \in RefAt(c, ws) <=> i \in 1..n + 1 /\ ws[i] = <<"col", c>>
        BY <1>1 DEF RefAt
      <3>2. i \in RefAt(c, vs) <=> i \in 1..n /\ vs[i] = <<"col", c>>
        BY DEF RefAt, n
      <3>3. n + 1 \notin 1..n
        BY <1>1
      <3> QED
        BY <1>1, <2>1, <3>1, <3>2, <3>3
    <2> QED
      BY <2>2
  <1>5. Cardinality(RefAt(c, vs) \cup {n + 1}) = Cardinality(RefAt(c, vs)) + 1
    BY <1>2, <1>3, FS_AddElement
  <1>6. Refs(c, ws) = Refs(c, vs) + One(c, v)
    BY <1>2, <1>4, <1>5 DEF One
  <1> QED
    BY <1>6 DEF ws

LEMMA RefsOfOne ==
  ASSUME NEW v \in Value, NEW c
  PROVE  <<v>> \in Seq(Value) /\ Refs(c, <<v>>) = One(c, v)
  <1>1. Append(<<>>, v) = <<v>>
    OBVIOUS
  <1>2. <<>> \in Seq(Value)
    BY EmptySeq
  <1>3. Refs(c, Append(<<>>, v)) = Refs(c, <<>>) + One(c, v)
    BY <1>2, RefsOfAppended
  <1>4. One(c, v) \in Nat
    BY DEF One
  <1>5. <<v>> \in Seq(Value)
    OBVIOUS
  <1> QED
    BY <1>1, <1>3, <1>4, <1>5, RefsOfNone

LEMMA RefsOfTwo ==
  ASSUME NEW v \in Value, NEW w \in Value, NEW c
  PROVE  <<v, w>> \in Seq(Value) /\ Refs(c, <<v, w>>) = One(c, v) + One(c, w)
  <1>1. Append(<<v>>, w) = <<v, w>>
    <2>1. <<v>> \in Seq(Value) /\ Len(<<v>>) = 1 /\ <<v>>[1] = v
      OBVIOUS
    <2>2. /\ Append(<<v>>, w) \in Seq(Value) /\ Len(Append(<<v>>, w)) = 2
          /\ Append(<<v>>, w)[1] = v /\ Append(<<v>>, w)[2] = w
      BY <2>1, AppendProperties
    <2>3. /\ <<v, w>> \in Seq(Value) /\ Len(<<v, w>>) = 2
          /\ <<v, w>>[1] = v /\ <<v, w>>[2] = w
      OBVIOUS
    <2>4. \A i \in 1..2 : i = 1 \/ i = 2
      OBVIOUS
    <2> QED
      BY <2>2, <2>3, <2>4, SeqEqual, Zenon
  <1>2. <<v>> \in Seq(Value) /\ Refs(c, <<v>>) = One(c, v)
    BY RefsOfOne
  <1>3. Refs(c, Append(<<v>>, w)) = Refs(c, <<v>>) + One(c, w)
    BY <1>2, RefsOfAppended
  <1>4. <<v, w>> \in Seq(Value)
    OBVIOUS
  <1> QED
    BY <1>1, <1>2, <1>3, <1>4

LEMMA RefsOfThree ==
  ASSUME NEW u \in Value, NEW v \in Value, NEW w \in Value, NEW c
  PROVE  /\ <<u, v, w>> \in Seq(Value)
         /\ Refs(c, <<u, v, w>>) = One(c, u) + One(c, v) + One(c, w)
  <1>1. Append(<<u, v>>, w) = <<u, v, w>>
    <2>1. /\ <<u, v>> \in Seq(Value) /\ Len(<<u, v>>) = 2
          /\ <<u, v>>[1] = u /\ <<u, v>>[2] = v
      OBVIOUS
    <2>2. /\ Append(<<u, v>>, w) \in Seq(Value) /\ Len(Append(<<u, v>>, w)) = 3
          /\ Append(<<u, v>>, w)[1] = u /\ Append(<<u, v>>, w)[2] = v
          /\ Append(<<u, v>>, w)[3] = w
      BY <2>1, AppendProperties
    <2>3. /\ <<u, v, w>> \in Seq(Value) /\ Len(<<u, v, w>>) = 3
          /\ <<u, v, w>>[1] = u /\ <<u, v, w>>[2] = v /\ <<u, v, w>>[3] = w
      OBVIOUS
    <2>4. \A i \in 1..3 : i = 1 \/ i = 2 \/ i = 3
      OBVIOUS
    <2> QED
      BY <2>2, <2>3, <2>4, SeqEqual, Zenon
  <1>2. <<u, v>> \in Seq(Value) /\ Refs(c, <<u, v>>) = One(c, u) + One(c, v)
    BY RefsOfTwo
  <1>3. Refs(c, Append(<<u, v>>, w)) = Refs(c, <<u, v>>) + One(c, w)
    BY <1>2, RefsOfAppended
  <1>4. <<u, v, w>> \in Seq(Value)
    OBVIOUS
  <1> QED
    BY <1>1, <1>2, <1>3, <1>4

(* The first k of a sequence, and the rest.                                 *)
LEMMA PartsOfASeq ==
  ASSUME NEW S, NEW s \in Seq(S), NEW k \in 0..Len(s)
  PROVE  /\ SubSeq(s, 1, k) \in Seq(S) /\ Len(SubSeq(s, 1, k)) = k
         /\ \A i \in 1..k : SubSeq(s, 1, k)[i] = s[i]
         /\ SubSeq(s, k + 1, Len(s)) \in Seq(S)
         /\ Len(SubSeq(s, k + 1, Len(s))) = Len(s) - k
         /\ \A i \in 1..Len(s) - k : SubSeq(s, k + 1, Len(s))[i] = s[k + i]
  <1> DEFINE n == Len(s)
  <1>1. n \in Nat /\ k \in Int /\ k + 1 \in Int /\ 1 \in Int /\ n \in Int
    BY LenProperties
  <1>2. (\A i \in 1..k : s[i] \in S) /\ (\A i \in k + 1..n : s[i] \in S)
    BY <1>1, ElementOfSeq
  <1>3. /\ SubSeq(s, 1, k) \in Seq(S)
        /\ Len(SubSeq(s, 1, k)) = IF 1 <= k THEN k - 1 + 1 ELSE 0
        /\ \A i \in 1..k - 1 + 1 : SubSeq(s, 1, k)[i] = s[1 + i - 1]
    BY <1>1, <1>2, SubSeqProperties
  <1>4. /\ SubSeq(s, k + 1, n) \in Seq(S)
        /\ Len(SubSeq(s, k + 1, n)) = IF k + 1 <= n THEN n - (k + 1) + 1 ELSE 0
        /\ \A i \in 1..n - (k + 1) + 1 : SubSeq(s, k + 1, n)[i] = s[k + 1 + i - 1]
    <2> HIDE DEF n
    <2> QED
      BY <1>1, <1>2, SubSeqProperties
  <1> DEFINE a == SubSeq(s, 1, k)
             b == SubSeq(s, k + 1, n)
  <1> HIDE DEF a, b, n
  <1>5. k <= n
    BY <1>1 DEF n
  <1>6. Len(a) = k /\ \A i \in 1..k : a[i] = s[i]
    BY <1>1, <1>3, <1>5 DEF a
  <1>7. Len(b) = n - k /\ \A i \in 1..n - k : b[i] = s[k + i]
    BY <1>1, <1>4, <1>5 DEF b
  <1> QED
    BY <1>3, <1>4, <1>6, <1>7 DEF a, b, n

LEMMA RefsOfParts ==
  ASSUME NEW vs \in Seq(Value), NEW k \in 0..Len(vs), NEW c
  PROVE  Refs(c, vs) = Refs(c, SubSeq(vs, 1, k)) + Refs(c, SubSeq(vs, k + 1, Len(vs)))
  <1> DEFINE n == Len(vs)
             a == SubSeq(vs, 1, k)
             b == SubSeq(vs, k + 1, n)
             T == {k + i : i \in RefAt(c, b)}
             F == [i \in RefAt(c, b) |-> k + i]
  <1>1. /\ n \in Nat /\ k \in Nat /\ k <= n
        /\ a \in Seq(Value) /\ Len(a) = k /\ \A i \in 1..k : a[i] = vs[i]
        /\ b \in Seq(Value) /\ Len(b) = n - k
        /\ \A i \in 1..n - k : b[i] = vs[k + i]
    BY PartsOfASeq, LenProperties
  <1>2. /\ IsFiniteSet(RefAt(c, a)) /\ Refs(c, a) = Cardinality(RefAt(c, a))
        /\ IsFiniteSet(RefAt(c, b)) /\ Refs(c, b) = Cardinality(RefAt(c, b))
        /\ Refs(c, vs) = Cardinality(RefAt(c, vs))
        /\ RefAt(c, b) \subseteq 1..n - k /\ RefAt(c, a) \subseteq 1..k
        /\ Refs(c, a) \in Nat /\ Refs(c, b) \in Nat
    <2> HIDE DEF a, b
    <2> QED
      BY <1>1, RefsAreCounted
  <1> HIDE DEF a, b, n
  <1>3. IsFiniteSet(T) /\ Cardinality(T) = Cardinality(RefAt(c, b))
    <2>1. \A i, j \in RefAt(c, b) : k + i = k + j => i = j
      BY <1>1, <1>2
    <2>2. F \in Injection(RefAt(c, b), T)
      BY <2>1 DEF Injection, IsInjective
    <2>3. F \in Surjection(RefAt(c, b), T)
      BY DEF Surjection
    <2>4. ExistsBijection(RefAt(c, b), T)
      BY <2>2, <2>3 DEF ExistsBijection, Bijection
    <2> QED
      BY <1>2, <2>4, FS_Bijection
  <1>4. RefAt(c, vs) = RefAt(c, a) \cup T
    <2>1. \A i \in 1..n : i \in 1..k \/ (i - k \in 1..n - k /\ k + (i - k) = i)
      BY <1>1
    <2>2. 1..k \subseteq 1..n /\ \A i \in 1..n - k : k + i \in 1..n
      BY <1>1
    <2>3. \A i \in RefAt(c, vs) : i \in RefAt(c, a) \cup T
      <3> TAKE i \in RefAt(c, vs)
      <3>1. i \in 1..n /\ vs[i] = <<"col", c>>
        BY DEF RefAt, n
      <3>2. CASE i \in 1..k
        BY <1>1, <3>1, <3>2 DEF RefAt
      <3>3. CASE i - k \in 1..n - k /\ k + (i - k) = i
        <4>1. i - k \in RefAt(c, b)
          BY <1>1, <3>1, <3>3 DEF RefAt
        <4> QED
          BY <3>3, <4>1
      <3> QED
        BY <2>1, <3>1, <3>2, <3>3
    <2>4. \A i \in RefAt(c, a) : i \in RefAt(c, vs)
      BY <1>1, <2>2 DEF RefAt, n
    <2>5. \A i \in RefAt(c, b) : k + i \in RefAt(c, vs)
      BY <1>1, <2>2 DEF RefAt, n
    <2> QED
      BY <2>3, <2>4, <2>5
  <1>5. RefAt(c, a) \cap T = {}
    BY <1>1, <1>2
  <1> HIDE DEF T
  <1>6. Cardinality(RefAt(c, a) \cup T) = Cardinality(RefAt(c, a)) + Cardinality(T)
    <2>1. Cardinality(RefAt(c, a) \cap T) = 0
      BY <1>5, FS_EmptySet
    <2>2. Cardinality(RefAt(c, a) \cup T) =
            Cardinality(RefAt(c, a)) + Cardinality(T) - Cardinality(RefAt(c, a) \cap T)
      BY <1>2, <1>3, FS_Union
    <2> QED
      BY <1>2, <1>3, <2>1, <2>2
  <1> QED
    BY <1>2, <1>3, <1>4, <1>6 DEF a, b, n

(* A value among others counts.                                             *)
LEMMA HeldIsCounted ==
  ASSUME NEW vs \in Seq(Value), NEW i \in 1..Len(vs), NEW c, vs[i] = <<"col", c>>
  PROVE  Refs(c, vs) > 0
  <1>1. i \in RefAt(c, vs)
    BY DEF RefAt
  <1>2. IsFiniteSet(RefAt(c, vs)) /\ Refs(c, vs) = Cardinality(RefAt(c, vs))
        /\ Refs(c, vs) \in Nat
    BY RefsAreCounted
  <1>3. Cardinality(RefAt(c, vs)) # 0
    BY <1>1, <1>2, FS_EmptySet
  <1> QED
    BY <1>2, <1>3

----------------------------------------------------------------------------
(* Who holds a column: values of the stack, names, nodes of literals.       *)
NamesOf(nm, c) == {n \in Names : nm[n] = <<"col", c>>}
NodesOf(c) == {l \in Literals : lit[l] = c}
Holding(vs, nm) ==
  [c \in Cols |-> Refs(c, vs) + Cardinality(NamesOf(nm, c)) + Cardinality(NodesOf(c))]

LEMMA NamesAreCounted ==
  ASSUME NEW nm, NEW c
  PROVE  /\ IsFiniteSet(NamesOf(nm, c)) /\ Cardinality(NamesOf(nm, c)) \in Nat
         /\ IsFiniteSet(NodesOf(c)) /\ Cardinality(NodesOf(c)) \in Nat
  <1>1. NamesOf(nm, c) \subseteq Names /\ NodesOf(c) \subseteq Literals
    BY DEF NamesOf, NodesOf
  <1>2. IsFiniteSet(Names) /\ IsFiniteSet(Literals)
    BY InPlaceAssumption
  <1>3. IsFiniteSet(NamesOf(nm, c)) /\ IsFiniteSet(NodesOf(c))
    BY <1>1, <1>2, FS_Subset
  <1> QED
    BY <1>3, FS_CardinalityType

LEMMA NamesOfRebound ==
  ASSUME NEW nm \in [Names -> Value], NEW n \in Names, NEW v \in Value, NEW c
  PROVE  Cardinality(NamesOf([nm EXCEPT ![n] = v], c)) + One(c, nm[n]) =
           Cardinality(NamesOf(nm, c)) + One(c, v)
  <1> DEFINE A == NamesOf(nm, c) \ {n}
  <1>1. IsFiniteSet(A) /\ Cardinality(A) \in Nat /\ n \notin A
    BY NamesAreCounted, FS_RemoveElement, FS_CardinalityType
  <1>2. NamesOf(nm, c) = IF nm[n] = <<"col", c>> THEN A \cup {n} ELSE A
    BY DEF NamesOf
  <1>3. NamesOf([nm EXCEPT ![n] = v], c) = IF v = <<"col", c>> THEN A \cup {n} ELSE A
    BY DEF NamesOf
  <1>4. Cardinality(A \cup {n}) = Cardinality(A) + 1
    BY <1>1, FS_AddElement
  <1> QED
    BY <1>1, <1>2, <1>3, <1>4 DEF One

LEMMA HoldingIsCounted ==
  ASSUME NEW vs \in Seq(Value), NEW nm
  PROVE  /\ Holding(vs, nm) \in [Cols -> Nat]
         /\ \A c \in Cols :
              /\ \A i \in 1..Len(vs) : vs[i] = <<"col", c>> => Holding(vs, nm)[c] > 0
              /\ \A n \in Names : nm[n] = <<"col", c>> => Holding(vs, nm)[c] > 0
              /\ \A l \in Literals : lit[l] = c => Holding(vs, nm)[c] > 0
  <1>1. \A c : /\ Refs(c, vs) \in Nat /\ Cardinality(NamesOf(nm, c)) \in Nat
               /\ Cardinality(NodesOf(c)) \in Nat
    BY RefsAreCounted, NamesAreCounted
  <1>2. ASSUME NEW c \in Cols, NEW i \in 1..Len(vs), vs[i] = <<"col", c>>
        PROVE  Holding(vs, nm)[c] > 0
    <2>1. Refs(c, vs) > 0
      BY <1>2, HeldIsCounted
    <2> QED
      BY <1>1, <2>1 DEF Holding
  <1>3. ASSUME NEW c \in Cols, NEW n \in Names, nm[n] = <<"col", c>>
        PROVE  Holding(vs, nm)[c] > 0
    <2>1. NamesOf(nm, c) # {} /\ IsFiniteSet(NamesOf(nm, c))
      BY <1>3, NamesAreCounted DEF NamesOf
    <2>2. Cardinality(NamesOf(nm, c)) # 0
      BY <2>1, FS_EmptySet
    <2> QED
      BY <1>1, <2>2 DEF Holding
  <1>4. ASSUME NEW c \in Cols, NEW l \in Literals, lit[l] = c
        PROVE  Holding(vs, nm)[c] > 0
    <2>1. NodesOf(c) # {} /\ IsFiniteSet(NodesOf(c))
      BY <1>4, NamesAreCounted DEF NodesOf
    <2>2. Cardinality(NodesOf(c)) # 0
      BY <2>1, FS_EmptySet
    <2> QED
      BY <1>1, <2>2 DEF Holding
  <1>5. Holding(vs, nm) \in [Cols -> Nat]
    BY <1>1 DEF Holding
  <1> QED
    BY <1>2, <1>3, <1>4, <1>5

----------------------------------------------------------------------------
(* The count of each column covers the references in n, in Rust exactly.    *)
Heap == [Cols -> [rc : Nat, data : Column]]
Tracks(hp, n) ==
  \A c \in Cols : hp[c].rc >= n[c] /\ (twin = "rust" => hp[c].rc = n[c])

(* The columns that n refers to hold the same elements in both heaps.       *)
Kept(hp, new, n) == \A c \in Cols : n[c] > 0 => new[c].data = hp[c].data

LEMMA Retained ==
  ASSUME NEW hp \in Heap, NEW v \in Value, NEW n \in [Cols -> Nat],
         NEW m \in [Cols -> Nat], \A c \in Cols : m[c] = n[c] + One(c, v),
         Tracks(hp, n)
  PROVE  /\ Retain(hp, v) \in Heap
         /\ Tracks(Retain(hp, v), m)
         /\ \A c \in Cols : Retain(hp, v)[c].data = hp[c].data
  <1>1. CASE IsCol(v)
    <2>1. PICK d \in Cols : v = <<"col", d>>
      BY <1>1 DEF IsCol, Value
    <2>2. Retain(hp, v) = [hp EXCEPT ![d] = [hp[d] EXCEPT !.rc = @ + 1]]
      BY <1>1, <2>1 DEF Retain
    <2>3. hp[d] \in [rc : Nat, data : Column]
      BY DEF Heap
    <2> DEFINE r == [hp[d] EXCEPT !.rc = @ + 1]
    <2>4. r \in [rc : Nat, data : Column] /\ r.rc = hp[d].rc + 1 /\ r.data = hp[d].data
      BY <2>3
    <2>5. \A c \in Cols : One(c, v) = IF c = d THEN 1 ELSE 0
      BY <2>1 DEF One
    <2> HIDE DEF r
    <2>6. /\ Retain(hp, v) \in Heap
          /\ \A c \in Cols : Retain(hp, v)[c] = IF c = d THEN r ELSE hp[c]
      BY <2>2, <2>4 DEF Heap, r
    <2>7. \A c \in Cols : hp[c].rc \in Nat
      BY DEF Heap
    <2> QED
      BY <2>4, <2>5, <2>6, <2>7 DEF Tracks
  <1>2. CASE ~IsCol(v)
    <2>1. Retain(hp, v) = hp
      BY <1>2 DEF Retain
    <2>2. \A c \in Cols : One(c, v) = 0
      BY <1>2 DEF IsCol, One
    <2> QED
      BY <2>1, <2>2 DEF Tracks
  <1> QED
    BY <1>1, <1>2

LEMMA Released ==
  ASSUME NEW hp \in Heap, NEW vs \in Seq(Value), NEW n \in [Cols -> Nat],
         NEW m \in [Cols -> Nat], \A c \in Cols : n[c] = m[c] + Refs(c, vs),
         Tracks(hp, n)
  PROVE  /\ Release(hp, vs) \in Heap
         /\ Tracks(Release(hp, vs), m)
         /\ Kept(hp, Release(hp, vs), m)
  <1> DEFINE new == Release(hp, vs)
  <1>1. \A c \in Cols : hp[c] \in [rc : Nat, data : Column] /\ Refs(c, vs) \in Nat
    BY RefsAreCounted DEF Heap
  <1>2. Free \in [rc : Nat, data : Column] /\ Free.rc = 0
    BY EmptySeq DEF Free, Column
  <1>3. new = [c \in Cols |-> IF hp[c].rc > Refs(c, vs)
                              THEN [hp[c] EXCEPT !.rc = @ - Refs(c, vs)]
                              ELSE Free]
    BY DEF Release
  <1>4. ASSUME NEW c \in Cols
        PROVE  /\ new[c] \in [rc : Nat, data : Column]
               /\ new[c].rc >= m[c] /\ (twin = "rust" => new[c].rc = m[c])
               /\ m[c] > 0 => new[c].data = hp[c].data
    <2> DEFINE k == Refs(c, vs)
               r == [hp[c] EXCEPT !.rc = @ - k]
    <2>1. k \in Nat /\ hp[c].rc \in Nat /\ n[c] = m[c] + k /\ m[c] \in Nat
      BY <1>1
    <2>2. hp[c].rc >= n[c] /\ (twin = "rust" => hp[c].rc = n[c])
      BY DEF Tracks
    <2>3. CASE hp[c].rc > k
      <3>1. new[c] = r
        BY <1>3, <2>3
      <3> HIDE DEF k
      <3>2. hp[c].rc - k \in Nat
        BY <2>1, <2>3
      <3>3. /\ r \in [rc : Nat, data : Column]
            /\ r.rc = hp[c].rc - k /\ r.data = hp[c].data
        BY <1>1, <3>2
      <3> HIDE DEF r, new
      <3> QED
        BY <2>1, <2>2, <3>1, <3>3
    <2>4. CASE ~(hp[c].rc > k)
      <3>1. new[c] = Free
        BY <1>3, <2>4
      <3> HIDE DEF k, new
      <3>2. m[c] = 0
        BY <2>1, <2>2, <2>4
      <3> QED
        BY <1>2, <3>1, <3>2
    <2> QED
      BY <2>3, <2>4
  <1>5. new \in Heap
    BY <1>3, <1>4 DEF Heap
  <1> HIDE DEF new
  <1>6. Tracks(new, m) /\ Kept(hp, new, m)
    BY <1>4 DEF Tracks, Kept
  <1> QED
    BY <1>5, <1>6 DEF new

(* One more reference.                                                      *)
Plus(n, v) == [c \in Cols |-> n[c] + One(c, v)]

LEMMA PlusOne ==
  ASSUME NEW n \in [Cols -> Nat], NEW v
  PROVE  /\ Plus(n, v) \in [Cols -> Nat]
         /\ \A c \in Cols : Plus(n, v)[c] = n[c] + One(c, v) /\ One(c, v) \in Nat
  <1>1. \A c : One(c, v) \in Nat
    BY DEF One
  <1> QED
    BY <1>1 DEF Plus

LEMMA HoldingOneMore ==
  ASSUME NEW vs \in Seq(Value), NEW v \in Value, NEW nm
  PROVE  Holding(Append(vs, v), nm) = Plus(Holding(vs, nm), v)
  <1>1. Append(vs, v) \in Seq(Value)
    BY AppendProperties
  <1>2. \A c : /\ Refs(c, Append(vs, v)) = Refs(c, vs) + One(c, v)
               /\ Refs(c, vs) \in Nat /\ One(c, v) \in Nat
               /\ Cardinality(NamesOf(nm, c)) \in Nat
               /\ Cardinality(NodesOf(c)) \in Nat
    BY RefsOfAppended, RefsAreCounted, NamesAreCounted DEF One
  <1>3. \A c \in Cols :
          Refs(c, Append(vs, v)) + Cardinality(NamesOf(nm, c)) + Cardinality(NodesOf(c)) =
          Refs(c, vs) + Cardinality(NamesOf(nm, c)) + Cardinality(NodesOf(c)) + One(c, v)
    <2> TAKE c \in Cols
    <2> QED
      BY <1>2
  <1>4. \A c \in Cols : Plus(Holding(vs, nm), v)[c] = Holding(Append(vs, v), nm)[c]
    BY <1>3 DEF Plus, Holding
  <1> QED
    BY <1>4 DEF Plus, Holding

----------------------------------------------------------------------------
(* The stack: its last value, its two operands and what is below them.      *)
LEMMA LastIsApart ==
  ASSUME NEW vs \in Seq(Value), Len(vs) > 0
  PROVE  LET ws == SubSeq(vs, 1, Len(vs) - 1)
         IN  /\ ws \in Seq(Value) /\ Len(ws) = Len(vs) - 1
             /\ vs[Len(vs)] \in Value
             /\ vs = Append(ws, vs[Len(vs)])
  <1> DEFINE n == Len(vs)
             ws == SubSeq(vs, 1, n - 1)
             us == Append(ws, vs[n])
  <1>1. n \in Nat /\ n \in 1..n /\ vs[n] \in Value /\ n - 1 + 1 = n
    BY LenProperties, ElementOfSeq
  <1>2. ws \in Seq(Value) /\ Len(ws) = n - 1 /\ \A i \in 1..n - 1 : ws[i] = vs[i]
    BY FrontIsShorter
  <1> HIDE DEF ws, n
  <1>3. /\ us \in Seq(Value) /\ Len(us) = n - 1 + 1
        /\ \A i \in 1..n - 1 : us[i] = ws[i]
        /\ us[n - 1 + 1] = vs[n]
    BY <1>1, <1>2, AppendProperties
  <1> HIDE DEF us
  <1>4. \A i \in 1..n : us[i] = vs[i]
    <2>1. \A i \in 1..n : i \in 1..n - 1 \/ i = n
      BY <1>1
    <2> QED
      BY <1>1, <1>2, <1>3, <2>1
  <1>5. Len(us) = Len(vs) /\ \A i \in 1..Len(us) : us[i] = vs[i]
    BY <1>1, <1>3, <1>4 DEF n
  <1>6. us = vs
    BY <1>3, <1>5, SeqEqual
  <1> QED
    BY <1>1, <1>2, <1>6 DEF us, ws, n

LEMMA OperandsAreApart ==
  ASSUME stack \in Seq(Value), Len(stack) >= 2
  PROVE  /\ Below \in Seq(Value) /\ First \in Value /\ Second \in Value
         /\ Len(Below) = Len(stack) - 2
         /\ \A i \in 1..Len(Below) : Below[i] = stack[i]
         /\ \A nm : Holding(stack, nm) = Plus(Plus(Holding(Below, nm), First), Second)
  <1> DEFINE n == Len(stack)
             ws == SubSeq(stack, 1, n - 1)
  <1>1. n \in Nat /\ n - 1 \in 1..n /\ n - 1 - 1 = n - 2 /\ n - 2 \in 0..n
    BY LenProperties
  <1>2. /\ ws \in Seq(Value) /\ Len(ws) = n - 1
        /\ stack[n] \in Value /\ stack = Append(ws, stack[n])
    BY LastIsApart
  <1>3. \A i \in 1..n - 1 : ws[i] = stack[i]
    BY FrontIsShorter
  <1>4. /\ Below \in Seq(Value) /\ Len(Below) = n - 2
        /\ \A i \in 1..n - 2 : Below[i] = stack[i]
    BY <1>1, PartsOfASeq DEF Below
  <1> HIDE DEF ws, n
  <1>5. ws[n - 1] = First /\ stack[n] = Second
    BY <1>1, <1>3 DEF First, Second, n
  <1>6. LET us == SubSeq(ws, 1, n - 1 - 1)
        IN  /\ us \in Seq(Value) /\ Len(us) = n - 2
            /\ ws[n - 1] \in Value /\ ws = Append(us, ws[n - 1])
            /\ \A i \in 1..n - 2 : us[i] = ws[i]
    BY <1>1, <1>2, LastIsApart, FrontIsShorter
  <1> DEFINE us == SubSeq(ws, 1, n - 1 - 1)
  <1>7. us = Below
    <2>1. us \in Seq(Value) /\ Len(us) = n - 2 /\ \A i \in 1..n - 2 : us[i] = ws[i]
      BY <1>6
    <2> HIDE DEF us
    <2>2. 1..n - 2 \subseteq 1..n - 1
      BY <1>1
    <2>3. Len(us) = Len(Below) /\ \A i \in 1..Len(us) : us[i] = Below[i]
      BY <1>3, <1>4, <2>1, <2>2
    <2> QED
      BY <1>4, <2>1, <2>3, SeqEqual
  <1>8. ws = Append(Below, First) /\ First \in Value
    BY <1>5, <1>6, <1>7
  <1>9. \A nm : Holding(ws, nm) = Plus(Holding(Below, nm), First)
    BY <1>4, <1>8, HoldingOneMore
  <1>10. \A nm : Holding(stack, nm) = Plus(Holding(ws, nm), Second)
    BY <1>2, <1>5, HoldingOneMore
  <1> QED
    BY <1>2, <1>4, <1>5, <1>8, <1>9, <1>10 DEF n

LEMMA HoldingLess ==
  ASSUME NEW vs \in Seq(Value), NEW k \in 0..Len(vs), NEW nm, NEW c \in Cols
  PROVE  Holding(vs, nm)[c] = Holding(SubSeq(vs, 1, k), nm)[c]
                                + Refs(c, SubSeq(vs, k + 1, Len(vs)))
  <1> DEFINE a == SubSeq(vs, 1, k)
             b == SubSeq(vs, k + 1, Len(vs))
  <1>1. a \in Seq(Value) /\ b \in Seq(Value)
    BY PartsOfASeq
  <1>2. Refs(c, vs) = Refs(c, a) + Refs(c, b)
    BY RefsOfParts
  <1> HIDE DEF a, b
  <1>3. /\ Refs(c, a) \in Nat /\ Refs(c, b) \in Nat
        /\ Cardinality(NamesOf(nm, c)) \in Nat /\ Cardinality(NodesOf(c)) \in Nat
    BY <1>1, RefsAreCounted, NamesAreCounted
  <1>4. Holding(vs, nm)[c] = Holding(a, nm)[c] + Refs(c, b)
    BY <1>2, <1>3 DEF Holding
  <1> QED
    BY <1>4 DEF a, b

(* The two ends of an operation: it fails and drops its operands and what   *)
(* is below them, or its column takes their place.                          *)
Fails ==
  \E k \in 0..Len(stack) - 2 :
    /\ stack' = SubSeq(stack, 1, k)
    /\ heap' \in Heap
    /\ Tracks(heap', Holding(SubSeq(stack, 1, k), named))
    /\ Kept(heap, heap', Holding(SubSeq(stack, 1, k), named))
Gives(x) ==
  \E c \in Cols :
    /\ stack' = Append(Below, <<"col", c>>)
    /\ heap' \in Heap /\ heap'[c].data = x
    /\ Tracks(heap', Plus(Holding(Below, named), <<"col", c>>))
    /\ Kept(heap, heap', Holding(Below, named))

LEMMA UnwindFacts ==
  ASSUME stack \in Seq(Value), Len(stack) >= 2, NEW hp \in Heap,
         Tracks(hp, Holding(Below, named)), Kept(heap, hp, Holding(Below, named)),
         Unwind(hp)
  PROVE  Fails
  <1>1. PICK k \in 0..Len(Below) :
          /\ stack' = SubSeq(stack, 1, k)
          /\ heap' = Release(hp, SubSeq(Below, k + 1, Len(Below)))
    BY DEF Unwind
  <1> DEFINE a == SubSeq(Below, 1, k)
             b == SubSeq(Below, k + 1, Len(Below))
             s == SubSeq(stack, 1, k)
             m == Holding(s, named)
  <1>2. /\ Below \in Seq(Value) /\ Len(Below) = Len(stack) - 2
        /\ \A i \in 1..Len(Below) : Below[i] = stack[i]
        /\ Len(stack) \in Nat
    BY OperandsAreApart, LenProperties
  <1>3. k \in 0..Len(stack) - 2 /\ k \in 0..Len(stack) /\ 1..k \subseteq 1..Len(Below)
    BY <1>2
  <1>4. /\ a \in Seq(Value) /\ Len(a) = k /\ \A i \in 1..k : a[i] = Below[i]
        /\ s \in Seq(Value) /\ Len(s) = k /\ \A i \in 1..k : s[i] = stack[i]
        /\ b \in Seq(Value)
    BY <1>2, <1>3, PartsOfASeq
  <1>5. a = s
    <2> HIDE DEF a, s
    <2>1. Len(a) = Len(s) /\ \A i \in 1..Len(a) : a[i] = s[i]
      BY <1>2, <1>3, <1>4
    <2> QED
      BY <1>4, <2>1, SeqEqual
  <1>6. \A c \in Cols : Holding(Below, named)[c] = m[c] + Refs(c, b)
    BY <1>2, <1>5, HoldingLess
  <1>7. Holding(Below, named) \in [Cols -> Nat] /\ m \in [Cols -> Nat]
    BY <1>2, <1>4, HoldingIsCounted
  <1>8. heap' \in Heap /\ Tracks(heap', m) /\ Kept(hp, heap', m)
    <2>1. heap' = Release(hp, b)
      BY <1>1
    <2> HIDE DEF m, b
    <2> QED
      BY <1>4, <1>6, <1>7, <2>1, Released
  <1>9. Kept(heap, heap', m)
    <2>1. \A c \in Cols : Refs(c, b) \in Nat
      BY <1>4, RefsAreCounted
    <2> HIDE DEF m, b
    <2>2. \A c \in Cols : m[c] > 0 => Holding(Below, named)[c] > 0
      BY <1>6, <1>7, <2>1
    <2> QED
      BY <1>8, <2>2 DEF Kept
  <1> QED
    BY <1>1, <1>3, <1>8, <1>9 DEF Fails

Ref(c) == <<"col", c>>

(* What is overwritten is held by nobody but the operands, and is then held *)
(* by the result too.                                                       *)
Result(op, hp, a, b, c) ==
  Written(op, hp[a].data, hp[b].data, IF hp[c].rc = 0 THEN hp[a].data ELSE hp[c].data)
Overwritten(op, hp, a, b, c) ==
  [hp EXCEPT ![c] = [rc |-> @.rc + 1, data |-> Result(op, hp, a, b, c)]]

LEMMA OverwrittenFacts ==
  ASSUME NEW hp \in Heap, NEW a \in Cols, NEW b \in Cols, NEW n \in [Cols -> Nat],
         Tracks(hp, Plus(Plus(n, Ref(a)), Ref(b))),
         NEW op \in Ops, Len(hp[a].data) = Len(hp[b].data),
         NEW c \in Targets(hp, a, b)
  PROVE  LET new == Overwritten(op, hp, a, b, c)
         IN  /\ c \in Cols /\ n[c] = 0
             /\ new \in Heap
             /\ Tracks(new, Plus(Plus(Plus(n, Ref(a)), Ref(b)), Ref(c)))
             /\ new[c].data = Result(op, hp, a, b, c)
             /\ \A d \in Cols : d # c => new[d] = hp[d]
  <1> DEFINE x == hp[a].data
             y == hp[b].data
             o == IF hp[c].rc = 0 THEN x ELSE hp[c].data
             r == [rc |-> hp[c].rc + 1, data |-> Written(op, x, y, o)]
             new == [hp EXCEPT ![c] = r]
             A == Ref(a)
             B == Ref(b)
             C == Ref(c)
             m == Plus(Plus(n, A), B)
  <1>1. \A d \in Cols : hp[d] \in [rc : Nat, data : Column]
    BY DEF Heap
  <1>2. /\ m \in [Cols -> Nat]
        /\ \A d \in Cols : /\ m[d] = n[d] + One(d, A) + One(d, B)
                           /\ One(d, A) \in Nat /\ One(d, B) \in Nat
    <2> HIDE DEF A, B
    <2>1. /\ Plus(n, A) \in [Cols -> Nat]
          /\ \A d \in Cols : Plus(n, A)[d] = n[d] + One(d, A) /\ One(d, A) \in Nat
      BY PlusOne
    <2>2. /\ m \in [Cols -> Nat]
          /\ \A d \in Cols : m[d] = Plus(n, A)[d] + One(d, B) /\ One(d, B) \in Nat
      BY <2>1, PlusOne
    <2> HIDE DEF m
    <2> QED
      BY <2>1, <2>2
  <1>3. \A d, e : One(d, Ref(e)) = IF e = d THEN 1 ELSE 0
    BY DEF One, Ref
  <1>4. /\ c \in Cols
        /\ \/ c \in {a, b} /\ hp[c].rc = 1
           \/ hp[c].rc = 0
    BY DEF Targets, Unique
  <1>5. hp[c].rc >= m[c] /\ hp[c].rc \in Nat
    BY <1>1, <1>4 DEF Tracks
  <1>6. n[c] = 0
    <2>1. n[c] \in Nat /\ m[c] = n[c] + One(c, A) + One(c, B)
          /\ One(c, A) \in Nat /\ One(c, B) \in Nat
      BY <1>2, <1>4
    <2>2. CASE hp[c].rc = 0
      BY <1>5, <2>1, <2>2
    <2>3. CASE c \in {a, b} /\ hp[c].rc = 1
      <3>1. One(c, A) = 1 \/ One(c, B) = 1
        BY <1>3, <2>3
      <3> QED
        BY <1>5, <2>1, <2>3, <3>1
    <2> QED
      BY <1>4, <2>2, <2>3
  <1>7. /\ x \in Column /\ y \in Column /\ o \in Column
        /\ Len(y) = Len(x) /\ Len(o) = Len(x)
    <2>1. hp[c].rc # 0 => c \in {a, b}
      BY <1>4
    <2> QED
      BY <1>1, <1>4, <2>1
  <1>8. op \in AllOps
    BY ColumnsAssumption
  <1>9. Written(op, x, y, o) \in Column
    <2> HIDE DEF x, y, o
    <2> QED
      BY <1>7, <1>8, WrittenIsColumn
  <1> HIDE DEF o, x, y, m
  <1>10. /\ r \in [rc : Nat, data : Column]
         /\ r.rc = hp[c].rc + 1 /\ r.data = Written(op, x, y, o)
    BY <1>5, <1>9
  <1> HIDE DEF r
  <1>11. /\ new \in Heap
         /\ \A d \in Cols : new[d] = IF d = c THEN r ELSE hp[d]
    BY <1>4, <1>10 DEF Heap
  <1>12. Tracks(new, Plus(m, C))
    <2>1. \A d \in Cols : Plus(m, C)[d] = IF d = c THEN m[d] + 1 ELSE m[d]
      <3> TAKE d \in Cols
      <3>1. Plus(m, C)[d] = m[d] + One(d, C) /\ m[d] \in Nat
        BY <1>2, PlusOne
      <3>2. One(d, C) = IF c = d THEN 1 ELSE 0
        BY <1>3
      <3> QED
        BY <3>1, <3>2
    <2>2. \A d \in Cols : hp[d].rc >= m[d] /\ (twin = "rust" => hp[d].rc = m[d])
      BY DEF Tracks, m
    <2>3. \A d \in Cols : m[d] \in Nat /\ hp[d].rc \in Nat
      BY <1>1, <1>2
    <2> HIDE DEF new
    <2>4. ASSUME NEW d \in Cols
          PROVE  /\ new[d].rc >= Plus(m, C)[d]
                 /\ twin = "rust" => new[d].rc = Plus(m, C)[d]
      <3>1. CASE d = c
        <4>1. new[d].rc = hp[d].rc + 1 /\ Plus(m, C)[d] = m[d] + 1
          BY <1>10, <1>11, <2>1, <3>1
        <4> QED
          BY <2>2, <2>3, <4>1
      <3>2. CASE d # c
        <4>1. new[d].rc = hp[d].rc /\ Plus(m, C)[d] = m[d]
          BY <1>11, <2>1, <3>2
        <4> QED
          BY <2>2, <4>1
      <3> QED
        BY <3>1, <3>2
    <2> QED
      BY <2>4 DEF Tracks
  <1>13. new = Overwritten(op, hp, a, b, c) /\ r.data = Result(op, hp, a, b, c)
    BY <1>4, <1>10 DEF r, x, y, o, Overwritten, Result
  <1> HIDE DEF new
  <1> QED
    BY <1>4, <1>6, <1>11, <1>12, <1>13 DEF m

LEMMA VecArithFacts ==
  ASSUME stack \in Seq(Value), Len(stack) >= 2,
         NEW hp \in Heap, NEW a \in Cols, NEW b \in Cols,
         Tracks(hp, Plus(Plus(Holding(Below, named), Ref(a)), Ref(b))),
         Kept(heap, hp, Holding(Below, named)),
         NEW op \in Ops, Len(hp[a].data) = Len(hp[b].data),
         VecArith(op, hp, a, b)
  PROVE  LET x == hp[a].data
             y == hp[b].data
         IN  IF Failing(op, x, y) # {} THEN Fails
             ELSE Gives([i \in 1..Len(x) |-> Arith2(op, x[i], y[i])])
  <1> DEFINE x == hp[a].data
             y == hp[b].data
             A == Ref(a)
             B == Ref(b)
             m == Holding(Below, named)
  <1>1. PICK c \in Targets(hp, a, b) :
          LET new == Overwritten(op, hp, a, b, c)
          IN  IF Failing(op, x, y) # {}
              THEN Unwind(Release(new, <<A, B, Ref(c)>>))
              ELSE /\ stack' = Append(Below, Ref(c))
                   /\ heap' = Release(new, <<A, B>>)
    BY DEF VecArith, Overwritten, Result, Ref
  <1> DEFINE C == Ref(c)
             new == Overwritten(op, hp, a, b, c)
             all == Plus(Plus(Plus(m, A), B), C)
  <1>2. /\ Below \in Seq(Value) /\ m \in [Cols -> Nat]
        /\ Tracks(hp, Plus(Plus(m, A), B)) /\ Kept(heap, hp, m)
    BY OperandsAreApart, HoldingIsCounted
  <1> HIDE DEF m
  <1>3. /\ c \in Cols /\ m[c] = 0 /\ new \in Heap /\ Tracks(new, all)
        /\ new[c].data = Result(op, hp, a, b, c)
        /\ \A d \in Cols : d # c => new[d] = hp[d]
    BY <1>2, OverwrittenFacts
  <1>4. A \in Value /\ B \in Value /\ C \in Value
    BY <1>3 DEF Value, Ref
  <1>5. /\ all \in [Cols -> Nat] /\ Plus(m, C) \in [Cols -> Nat]
        /\ \A d \in Cols :
             /\ all[d] = m[d] + One(d, A) + One(d, B) + One(d, C)
             /\ Plus(m, C)[d] = m[d] + One(d, C)
             /\ One(d, A) \in Nat /\ One(d, B) \in Nat /\ One(d, C) \in Nat
    <2> HIDE DEF A, B, C
    <2>1. /\ Plus(m, A) \in [Cols -> Nat]
          /\ \A d \in Cols : Plus(m, A)[d] = m[d] + One(d, A) /\ One(d, A) \in Nat
      BY <1>2, PlusOne
    <2>2. /\ Plus(Plus(m, A), B) \in [Cols -> Nat]
          /\ \A d \in Cols : /\ Plus(Plus(m, A), B)[d] = Plus(m, A)[d] + One(d, B)
                             /\ One(d, B) \in Nat
      BY <2>1, PlusOne
    <2>3. /\ all \in [Cols -> Nat]
          /\ \A d \in Cols : /\ all[d] = Plus(Plus(m, A), B)[d] + One(d, C)
                             /\ One(d, C) \in Nat
      BY <2>2, PlusOne
    <2>4. /\ Plus(m, C) \in [Cols -> Nat]
          /\ \A d \in Cols : Plus(m, C)[d] = m[d] + One(d, C)
      BY <1>2, PlusOne
    <2> HIDE DEF all
    <2> QED
      BY <2>1, <2>2, <2>3, <2>4
  <1>6. IF Failing(op, x, y) # {}
        THEN Unwind(Release(new, <<A, B, C>>))
        ELSE stack' = Append(Below, C) /\ heap' = Release(new, <<A, B>>)
    BY <1>1
  <1>7. CASE Failing(op, x, y) # {}
    <2> DEFINE after == Release(new, <<A, B, C>>)
    <2>1. /\ <<A, B, C>> \in Seq(Value)
          /\ \A d \in Cols : Refs(d, <<A, B, C>>) = One(d, A) + One(d, B) + One(d, C)
      <3> HIDE DEF A, B, C
      <3> QED
        BY <1>4, RefsOfThree
    <2>2. \A d \in Cols : all[d] = m[d] + Refs(d, <<A, B, C>>)
      <3> HIDE DEF A, B, C, all
      <3> TAKE d \in Cols
      <3>1. m[d] \in Nat
        BY <1>2
      <3>2. Refs(d, <<A, B, C>>) = One(d, A) + One(d, B) + One(d, C)
        BY <2>1
      <3>3. /\ all[d] = m[d] + One(d, A) + One(d, B) + One(d, C)
            /\ One(d, A) \in Nat /\ One(d, B) \in Nat /\ One(d, C) \in Nat
        BY <1>5
      <3> QED
        BY <3>1, <3>2, <3>3
    <2>3. after \in Heap /\ Tracks(after, m) /\ Kept(new, after, m)
      <3> HIDE DEF A, B, C, all, new
      <3> QED
        BY <1>2, <1>3, <1>5, <2>1, <2>2, Released
    <2>4. Kept(heap, after, m)
      <3> HIDE DEF new, after
      <3>1. ASSUME NEW d \in Cols, m[d] > 0
            PROVE  new[d].data = hp[d].data
        <4>1. d # c
          BY <1>3, <3>1
        <4> QED
          BY <1>3, <4>1
      <3> QED
        BY <1>2, <2>3, <3>1 DEF Kept
    <2>5. Unwind(after)
      BY <1>6, <1>7
    <2> HIDE DEF after
    <2>6. Fails
      BY <2>3, <2>4, <2>5, UnwindFacts DEF m
    <2> QED
      BY <1>7, <2>6
  <1>8. CASE Failing(op, x, y) = {}
    <2> DEFINE after == Release(new, <<A, B>>)
    <2>1. /\ <<A, B>> \in Seq(Value)
          /\ \A d \in Cols : Refs(d, <<A, B>>) = One(d, A) + One(d, B)
      BY <1>4, RefsOfTwo
    <2>2. \A d \in Cols : all[d] = Plus(m, C)[d] + Refs(d, <<A, B>>)
      <3> HIDE DEF A, B, C
      <3> TAKE d \in Cols
      <3>1. m[d] \in Nat
        BY <1>2
      <3>2. Refs(d, <<A, B>>) = One(d, A) + One(d, B)
        BY <2>1
      <3>3. /\ all[d] = m[d] + One(d, A) + One(d, B) + One(d, C)
            /\ Plus(m, C)[d] = m[d] + One(d, C)
            /\ One(d, A) \in Nat /\ One(d, B) \in Nat /\ One(d, C) \in Nat
        BY <1>5
      <3> HIDE DEF all
      <3> QED
        BY <3>1, <3>2, <3>3
    <2>3. after \in Heap /\ Tracks(after, Plus(m, C)) /\ Kept(new, after, Plus(m, C))
      <3> HIDE DEF A, B, C, all, new
      <3> QED
        BY <1>3, <1>5, <2>1, <2>2, Released
    <2>4. Kept(heap, after, m)
      <3> HIDE DEF new, after, C, all
      <3>1. ASSUME NEW d \in Cols, m[d] > 0
            PROVE  Plus(m, C)[d] > 0 /\ new[d].data = hp[d].data
        <4>1. m[d] \in Nat /\ One(d, C) \in Nat /\ Plus(m, C)[d] = m[d] + One(d, C)
          BY <1>2, <1>5
        <4>2. d # c
          BY <1>3, <3>1
        <4> QED
          BY <1>3, <3>1, <4>1, <4>2
      <3> QED
        BY <1>2, <2>3, <3>1 DEF Kept
    <2>5. after[c].data = Result(op, hp, a, b, c)
      <3>1. One(c, C) = 1
        BY DEF One, Ref
      <3> HIDE DEF new, after, A, B, C, x, y, all
      <3>2. Plus(m, C)[c] > 0
        <4>1. c \in Cols /\ m[c] = 0 /\ Plus(m, C)[c] = m[c] + One(c, C)
          BY <1>3, <1>5
        <4> QED
          BY <3>1, <4>1
      <3>3. \A d \in Cols : Plus(m, C)[d] > 0 => after[d].data = new[d].data
        BY <2>3 DEF Kept
      <3>4. after[c].data = new[c].data
        BY <1>3, <3>2, <3>3
      <3> QED
        BY <1>3, <3>4
    <2>6. Result(op, hp, a, b, c) = [i \in 1..Len(x) |-> Arith2(op, x[i], y[i])]
      BY <1>8 DEF Result, Written
    <2>7. stack' = Append(Below, C) /\ heap' = after
      BY <1>6, <1>8
    <2> HIDE DEF after, x, y
    <2>8. Gives([i \in 1..Len(x) |-> Arith2(op, x[i], y[i])])
      BY <1>3, <2>3, <2>4, <2>5, <2>6, <2>7 DEF Gives, m, Ref
    <2> QED
      BY <1>8, <2>8 DEF x, y
  <1> QED
    BY <1>7, <1>8

----------------------------------------------------------------------------
(* The invariant: counts, and the columns that literals stand for.          *)
LiteralsKept == \A l \in Literals : heap[lit[l]].data = l
InPlaceInv == TypeOK /\ Tracks(heap, Holding(stack, named)) /\ LiteralsKept

LEMMA InvIsTyped ==
  ASSUME InPlaceInv
  PROVE  /\ heap \in Heap /\ lit \in [Literals -> Cols]
         /\ stack \in Seq(Value \ {<<>>}) /\ stack \in Seq(Value)
         /\ Len(stack) \in Nat
         /\ named \in [Names -> Value]
         /\ Holding(stack, named) \in [Cols -> Nat]
         /\ Tracks(heap, Holding(stack, named))
  <1>1. /\ heap \in Heap /\ lit \in [Literals -> Cols]
        /\ stack \in Seq(Value \ {<<>>}) /\ named \in [Names -> Value]
    BY DEF InPlaceInv, TypeOK, Heap
  <1>2. Value \ {<<>>} \subseteq Value
    OBVIOUS
  <1>3. stack \in Seq(Value) /\ Len(stack) \in Nat
    BY <1>1, <1>2, SeqMonotonic, LenProperties
  <1> QED
    BY <1>1, <1>3, HoldingIsCounted DEF InPlaceInv

(* A step that drops references or adds some, and writes nothing.           *)
Moved ==
  /\ heap' \in Heap
  /\ Tracks(heap', Holding(stack', named'))
  /\ Kept(heap, heap', Holding(stack', named'))

LEMMA InvIsKept ==
  ASSUME InPlaceInv, UNCHANGED <<twin, lit>>,
         stack' \in Seq(Value \ {<<>>}), named' \in [Names -> Value],
         heap' \in Heap, Tracks(heap', Holding(stack', named')),
         \A l \in Literals : heap'[lit[l]].data = heap[lit[l]].data
  PROVE  InPlaceInv'
  <1>1. TypeOK'
    BY DEF InPlaceInv, TypeOK, Heap
  <1>2. LiteralsKept'
    BY DEF InPlaceInv, LiteralsKept
  <1>3. Tracks(heap, Holding(stack, named))'
    BY DEF Tracks, Holding, NodesOf, NamesOf, Refs
  <1> QED
    BY <1>1, <1>2, <1>3 DEF InPlaceInv

LEMMA LiteralsStay ==
  ASSUME InPlaceInv, NEW vs \in Seq(Value), NEW nm, Kept(heap, heap', Holding(vs, nm))
  PROVE  \A l \in Literals : heap'[lit[l]].data = heap[lit[l]].data
  <1> TAKE l \in Literals
  <1>1. lit[l] \in Cols
    BY InvIsTyped
  <1>2. Holding(vs, nm)[lit[l]] > 0
    BY <1>1, HoldingIsCounted
  <1> QED
    BY <1>1, <1>2 DEF Kept

LEMMA MovedKeepsInv ==
  ASSUME InPlaceInv, UNCHANGED <<twin, lit>>, Moved,
         stack' \in Seq(Value \ {<<>>}), named' \in [Names -> Value]
  PROVE  InPlaceInv'
  <1>1. Value \ {<<>>} \subseteq Value
    OBVIOUS
  <1>2. stack' \in Seq(Value)
    BY <1>1, SeqMonotonic
  <1>3. \A l \in Literals : heap'[lit[l]].data = heap[lit[l]].data
    BY <1>2, LiteralsStay DEF Moved
  <1> QED
    BY <1>3, InvIsKept DEF Moved

----------------------------------------------------------------------------
(* The steps that move references.                                          *)
LEMMA PushMoves ==
  ASSUME InPlaceInv, NEW v \in Value \ {<<>>}, Push(v)
  PROVE  /\ Moved /\ UNCHANGED <<twin, lit, named>>
         /\ stack' = Append(stack, v) /\ stack' \in Seq(Value \ {<<>>})
  <1> DEFINE n == Holding(stack, named)
  <1>1. /\ heap' = Retain(heap, v) /\ stack' = Append(stack, v)
        /\ twin' = twin /\ lit' = lit /\ named' = named
    BY DEF Push
  <1>2. v \in Value /\ stack' \in Seq(Value \ {<<>>})
    BY <1>1, InvIsTyped, AppendProperties
  <1>3. Holding(stack', named') = Plus(n, v)
    BY <1>1, <1>2, InvIsTyped, HoldingOneMore
  <1>4. n \in [Cols -> Nat] /\ heap \in Heap /\ Tracks(heap, n)
    BY InvIsTyped
  <1> HIDE DEF n
  <1>5. /\ Plus(n, v) \in [Cols -> Nat]
        /\ \A c \in Cols : Plus(n, v)[c] = n[c] + One(c, v)
    BY <1>4, PlusOne
  <1>6. /\ heap' \in Heap /\ Tracks(heap', Plus(n, v))
        /\ \A c \in Cols : heap'[c].data = heap[c].data
    BY <1>1, <1>2, <1>4, <1>5, Retained
  <1>7. Moved
    BY <1>3, <1>6 DEF Moved, Kept
  <1> QED
    BY <1>1, <1>2, <1>7

LEMMA LetGoFacts ==
  ASSUME NEW hp \in Heap, NEW v \in Value, NEW n \in [Cols -> Nat],
         NEW m \in [Cols -> Nat], \A c \in Cols : n[c] = m[c] + One(c, v),
         Tracks(hp, n), NEW new \in LetGo(hp, v)
  PROVE  new \in Heap /\ Tracks(new, m) /\ Kept(hp, new, m)
  <1>1. CASE new = Release(hp, <<v>>)
    <2>1. <<v>> \in Seq(Value) /\ \A c \in Cols : n[c] = m[c] + Refs(c, <<v>>)
      BY RefsOfOne
    <2> QED
      BY <1>1, <2>1, Released
  <1>2. CASE twin = "c" /\ new = hp
    <2>1. twin # "rust"
      BY <1>2
    <2>2. \A c \in Cols : n[c] >= m[c] /\ hp[c].rc >= n[c] /\ hp[c].rc \in Nat
      BY DEF One, Tracks, Heap
    <2>3. \A c \in Cols : hp[c].rc >= m[c]
      BY <2>2
    <2> QED
      BY <1>2, <2>1, <2>3 DEF Tracks, Kept
  <1> QED
    BY <1>1, <1>2 DEF LetGo

LEMMA HoldingRebound ==
  ASSUME NEW vs \in Seq(Value), NEW nm \in [Names -> Value], NEW n \in Names,
         NEW v \in Value, NEW c \in Cols
  PROVE  Holding(vs, nm)[c] + One(c, v) =
           Holding(vs, [nm EXCEPT ![n] = v])[c] + One(c, nm[n])
  <1> DEFINE new == [nm EXCEPT ![n] = v]
  <1>1. Cardinality(NamesOf(new, c)) + One(c, nm[n]) = Cardinality(NamesOf(nm, c)) + One(c, v)
    BY NamesOfRebound
  <1> HIDE DEF new
  <1>2. /\ Cardinality(NamesOf(new, c)) \in Nat /\ Cardinality(NamesOf(nm, c)) \in Nat
        /\ Cardinality(NodesOf(c)) \in Nat /\ Refs(c, vs) \in Nat
        /\ One(c, v) \in Nat /\ One(c, nm[n]) \in Nat
    BY NamesAreCounted, RefsAreCounted DEF One
  <1>3. Holding(vs, nm)[c] + One(c, v) = Holding(vs, new)[c] + One(c, nm[n])
    BY <1>1, <1>2 DEF Holding
  <1> QED
    BY <1>3 DEF new

LEMMA BindMoves ==
  ASSUME InPlaceInv, NEW n \in Names, Bind(n)
  PROVE  /\ Moved /\ UNCHANGED <<twin, lit, stack>>
         /\ stack # <<>> /\ named' = [named EXCEPT ![n] = stack[Len(stack)]]
         /\ named' \in [Names -> Value]
  <1> DEFINE v == stack[Len(stack)]
             h == Holding(stack, named)
             hp == Retain(heap, v)
             m == Holding(stack, named')
  <1>1. /\ stack # <<>> /\ named' = [named EXCEPT ![n] = v]
        /\ heap' \in LetGo(hp, named[n])
        /\ twin' = twin /\ lit' = lit /\ stack' = stack
    BY DEF Bind
  <1>2. /\ stack \in Seq(Value) /\ Len(stack) \in Nat \ {0}
        /\ heap \in Heap /\ named \in [Names -> Value] /\ h \in [Cols -> Nat]
        /\ Tracks(heap, h)
    BY <1>1, InvIsTyped, EmptySeq
  <1>3. v \in Value /\ named[n] \in Value /\ named' \in [Names -> Value]
    <2>1. Len(stack) \in 1..Len(stack)
      BY <1>2
    <2>2. v \in Value
      BY <1>2, <2>1, ElementOfSeq
    <2> QED
      BY <1>1, <1>2, <2>2
  <1>4. \A c \in Cols : h[c] + One(c, v) = m[c] + One(c, named[n])
    <2> HIDE DEF v
    <2> TAKE c \in Cols
    <2>0. stack \in Seq(Value) /\ named \in [Names -> Value] /\ v \in Value
      BY <1>2, <1>3
    <2>1. Holding(stack, named)[c] + One(c, v) =
            Holding(stack, [named EXCEPT ![n] = v])[c] + One(c, named[n])
      BY <2>0, HoldingRebound
    <2>2. named' = [named EXCEPT ![n] = v]
      BY <1>1
    <2>3. m = Holding(stack, [named EXCEPT ![n] = v])
      BY <2>2
    <2> HIDE DEF m
    <2> QED
      BY <2>1, <2>3
  <1>5. m \in [Cols -> Nat]
    BY <1>2, HoldingIsCounted
  <1> HIDE DEF h, m, v, hp
  <1>6. /\ Plus(h, v) \in [Cols -> Nat]
        /\ \A c \in Cols : Plus(h, v)[c] = h[c] + One(c, v)
    BY <1>2, PlusOne
  <1>7. /\ hp \in Heap /\ Tracks(hp, Plus(h, v))
        /\ \A c \in Cols : hp[c].data = heap[c].data
    BY <1>2, <1>3, <1>6, Retained DEF hp
  <1>8. \A c \in Cols : Plus(h, v)[c] = m[c] + One(c, named[n])
    BY <1>4, <1>6
  <1>9. heap' \in Heap /\ Tracks(heap', m) /\ Kept(hp, heap', m)
    BY <1>1, <1>3, <1>5, <1>6, <1>7, <1>8, LetGoFacts
  <1>10. Moved
    BY <1>1, <1>7, <1>9 DEF Moved, Kept, m
  <1> QED
    BY <1>1, <1>3, <1>10 DEF v

LEMMA ForgetMoves ==
  ASSUME InPlaceInv, NEW n \in Names, Forget(n)
  PROVE  /\ Moved /\ UNCHANGED <<twin, lit, stack>>
         /\ named' = [named EXCEPT ![n] = <<>>]
         /\ named' \in [Names -> Value]
  <1> DEFINE h == Holding(stack, named)
             m == Holding(stack, named')
  <1>1. /\ named' = [named EXCEPT ![n] = <<>>]
        /\ heap' \in LetGo(heap, named[n])
        /\ twin' = twin /\ lit' = lit /\ stack' = stack
    BY DEF Forget
  <1>2. /\ stack \in Seq(Value) /\ heap \in Heap /\ named \in [Names -> Value]
        /\ h \in [Cols -> Nat] /\ m \in [Cols -> Nat] /\ Tracks(heap, h)
    BY InvIsTyped, HoldingIsCounted
  <1>3. <<>> \in Value /\ named[n] \in Value /\ named' \in [Names -> Value]
    BY <1>1, <1>2 DEF Value
  <1>4. \A c \in Cols : h[c] + One(c, <<>>) = m[c] + One(c, named[n])
    <2> TAKE c \in Cols
    <2>1. Holding(stack, named)[c] + One(c, <<>>) =
            Holding(stack, [named EXCEPT ![n] = <<>>])[c] + One(c, named[n])
      BY <1>2, <1>3, HoldingRebound
    <2> QED
      BY <1>1, <2>1
  <1>5. \A c \in Cols : One(c, <<>>) = 0
    BY DEF One
  <1> HIDE DEF h, m
  <1>6. \A c \in Cols : h[c] = m[c] + One(c, named[n])
    <2> TAKE c \in Cols
    <2>1. h[c] \in Nat /\ h[c] + One(c, <<>>) = m[c] + One(c, named[n]) /\ One(c, <<>>) = 0
      BY <1>2, <1>4, <1>5
    <2> QED
      BY <2>1
  <1>7. heap' \in Heap /\ Tracks(heap', m) /\ Kept(heap, heap', m)
    BY <1>1, <1>2, <1>3, <1>6, LetGoFacts
  <1>8. Moved
    BY <1>1, <1>7 DEF Moved, m
  <1> QED
    BY <1>1, <1>3, <1>8

LEMMA PopMoves ==
  ASSUME InPlaceInv, Pop
  PROVE  /\ Moved /\ UNCHANGED <<twin, lit, named>>
         /\ Len(stack) > 0 /\ stack' = SubSeq(stack, 1, Len(stack) - 1)
         /\ stack' \in Seq(Value \ {<<>>})
  <1> DEFINE v == stack[Len(stack)]
             ws == SubSeq(stack, 1, Len(stack) - 1)
             h == Holding(stack, named)
             m == Holding(ws, named)
  <1>1. /\ stack # <<>> /\ stack' = ws /\ heap' = Release(heap, <<v>>)
        /\ twin' = twin /\ lit' = lit /\ named' = named
    BY DEF Pop
  <1>2. /\ stack \in Seq(Value) /\ stack \in Seq(Value \ {<<>>}) /\ Len(stack) > 0
        /\ heap \in Heap /\ h \in [Cols -> Nat] /\ Tracks(heap, h)
    BY <1>1, InvIsTyped, EmptySeq
  <1>3. ws \in Seq(Value) /\ v \in Value /\ stack = Append(ws, v)
    BY <1>2, LastIsApart
  <1>4. ws \in Seq(Value \ {<<>>})
    BY <1>2, FrontIsShorter
  <1>5. m \in [Cols -> Nat]
    BY <1>3, HoldingIsCounted
  <1>6. h = Plus(m, v)
    <2> HIDE DEF ws, v
    <2> QED
      BY <1>3, HoldingOneMore
  <1> HIDE DEF h, m, v, ws
  <1>7. <<v>> \in Seq(Value) /\ \A c \in Cols : h[c] = m[c] + Refs(c, <<v>>)
    BY <1>3, <1>5, <1>6, PlusOne, RefsOfOne
  <1>8. heap' \in Heap /\ Tracks(heap', m) /\ Kept(heap, heap', m)
    BY <1>1, <1>2, <1>5, <1>7, Released
  <1>9. Moved
    BY <1>1, <1>8 DEF Moved, m
  <1> QED
    BY <1>1, <1>2, <1>4, <1>9 DEF ws

----------------------------------------------------------------------------
(* The steps that take operands.                                            *)
LEMMA OperandForms ==
  ASSUME InPlaceInv, Len(stack) >= 2
  PROVE  \A v \in {First, Second} :
           /\ v \in Value /\ v # <<>>
           /\ IsCol(v) => v[2] \in Cols /\ v = Ref(v[2])
           /\ ~IsCol(v) => v[2] \in Elem /\ v = <<"num", v[2]>>
  <1>1. Len(stack) - 1 \in 1..Len(stack) /\ Len(stack) \in 1..Len(stack)
    BY InvIsTyped
  <1>2. First \in Value \ {<<>>} /\ Second \in Value \ {<<>>}
    BY <1>1, InvIsTyped, ElementOfSeq DEF First, Second
  <1>3. \A v \in Value \ {<<>>} :
          \/ \E e \in Elem : v = <<"num", e>>
          \/ \E c \in Cols : v = <<"col", c>>
    BY DEF Value
  <1>4. \A v \in Value \ {<<>>} :
          /\ IsCol(v) => v[2] \in Cols /\ v = Ref(v[2])
          /\ ~IsCol(v) => v[2] \in Elem /\ v = <<"num", v[2]>>
    <2> TAKE v \in Value \ {<<>>}
    <2>1. CASE \E e \in Elem : v = <<"num", e>>
      BY <2>1 DEF IsCol
    <2>2. CASE \E c \in Cols : v = <<"col", c>>
      BY <2>2 DEF IsCol, Ref
    <2> QED
      BY <1>3, <2>1, <2>2
  <1> QED
    BY <1>2, <1>4

LEMMA NumsAreNotCounted ==
  ASSUME NEW n \in [Cols -> Nat], NEW v, ~IsCol(v)
  PROVE  Plus(n, v) = n
  <1>1. \A c \in Cols : One(c, v) = 0 /\ n[c] \in Nat
    BY DEF One, IsCol
  <1>2. \A c \in Cols : n[c] + One(c, v) = n[c]
    BY <1>1
  <1>3. Plus(n, v) = [c \in Cols |-> n[c]]
    BY <1>2 DEF Plus
  <1> QED
    BY <1>3

LEMMA OrderOfCounts ==
  ASSUME NEW n \in [Cols -> Nat], NEW v, NEW w
  PROVE  Plus(Plus(n, v), w) = Plus(Plus(n, w), v)
  <1>1. /\ Plus(n, v) \in [Cols -> Nat] /\ Plus(n, w) \in [Cols -> Nat]
        /\ \A c \in Cols : /\ Plus(n, v)[c] = n[c] + One(c, v)
                           /\ Plus(n, w)[c] = n[c] + One(c, w)
                           /\ One(c, v) \in Nat /\ One(c, w) \in Nat
    BY PlusOne
  <1>2. /\ Plus(Plus(n, v), w) \in [Cols -> Nat]
        /\ Plus(Plus(n, w), v) \in [Cols -> Nat]
        /\ \A c \in Cols : /\ Plus(Plus(n, v), w)[c] = Plus(n, v)[c] + One(c, w)
                           /\ Plus(Plus(n, w), v)[c] = Plus(n, w)[c] + One(c, v)
    BY <1>1, PlusOne
  <1>3. \A c \in Cols : Plus(Plus(n, v), w)[c] = Plus(Plus(n, w), v)[c]
    <2> TAKE c \in Cols
    <2>1. n[c] \in Nat
      OBVIOUS
    <2> QED
      BY <1>1, <1>2, <2>1
  <1> DEFINE f == Plus(Plus(n, v), w)
             g == Plus(Plus(n, w), v)
  <1>4. f \in [Cols -> Nat] /\ g \in [Cols -> Nat] /\ \A c \in Cols : f[c] = g[c]
    BY <1>2, <1>3
  <1> HIDE DEF f, g
  <1>5. f = g
    BY <1>4
  <1> QED
    BY <1>5 DEF f, g

LEMMA OperandsAreTracked ==
  ASSUME InPlaceInv, Len(stack) >= 2
  PROVE  LET m == Holding(Below, named)
         IN  /\ m \in [Cols -> Nat] /\ Kept(heap, heap, m)
             /\ Tracks(heap, Plus(Plus(m, First), Second))
             /\ IsCol(First) /\ ~IsCol(Second) => Tracks(heap, Plus(m, First))
             /\ ~IsCol(First) /\ IsCol(Second) => Tracks(heap, Plus(m, Second))
             /\ ~IsCol(First) /\ ~IsCol(Second) => Tracks(heap, m)
  <1> DEFINE m == Holding(Below, named)
  <1>1. /\ Below \in Seq(Value)
        /\ Holding(stack, named) = Plus(Plus(m, First), Second)
    BY InvIsTyped, OperandsAreApart
  <1>2. m \in [Cols -> Nat]
    BY <1>1, HoldingIsCounted
  <1>3. Tracks(heap, Plus(Plus(m, First), Second))
    BY <1>1, InvIsTyped
  <1>4. Kept(heap, heap, m)
    BY DEF Kept
  <1> HIDE DEF m
  <1>5. /\ ~IsCol(Second) => Plus(Plus(m, First), Second) = Plus(m, First)
        /\ ~IsCol(First) => Plus(m, First) = m
    BY <1>2, PlusOne, NumsAreNotCounted
  <1> QED
    BY <1>2, <1>3, <1>4, <1>5 DEF m

LEMMA ScalarFacts ==
  ASSUME InPlaceInv, NEW op \in Ops, ScalarArith(op)
  PROVE  /\ Len(stack) >= 2 /\ ~IsCol(First) /\ ~IsCol(Second)
         /\ UNCHANGED <<twin, lit, named>>
         /\ IF Overflows(op, First[2], Second[2]) THEN Fails
            ELSE /\ stack' = Append(Below, <<"num", Arith2(op, First[2], Second[2])>>)
                 /\ Arith2(op, First[2], Second[2]) \in Elem
                 /\ Moved
  <1> DEFINE e == Arith2(op, First[2], Second[2])
             m == Holding(Below, named)
  <1>1. /\ Len(stack) >= 2 /\ ~IsCol(First) /\ ~IsCol(Second)
        /\ twin' = twin /\ lit' = lit /\ named' = named
        /\ IF Overflows(op, First[2], Second[2]) THEN Unwind(heap)
           ELSE stack' = Append(Below, <<"num", e>>) /\ heap' = heap
    BY DEF ScalarArith
  <1>2. /\ Tracks(heap, m) /\ Kept(heap, heap, m) /\ m \in [Cols -> Nat]
        /\ heap \in Heap /\ stack \in Seq(Value)
    BY <1>1, OperandsAreTracked, InvIsTyped
  <1>3. CASE Overflows(op, First[2], Second[2])
    <2>1. Fails
      BY <1>1, <1>2, <1>3, UnwindFacts
    <2> QED
      BY <1>1, <1>3, <2>1
  <1>4. CASE ~Overflows(op, First[2], Second[2])
    <2>1. First[2] \in Elem /\ Second[2] \in Elem /\ op \in AllOps
      BY <1>1, OperandForms, ColumnsAssumption
    <2>2. e \in Elem
      BY <1>4, <2>1, ArithIsElem
    <2>3. stack' = Append(Below, <<"num", e>>) /\ heap' = heap
      BY <1>1, <1>4
    <2>4. <<"num", e>> \in Value /\ Below \in Seq(Value) /\ ~IsCol(<<"num", e>>)
      BY <1>1, <1>2, <2>2, OperandsAreApart DEF Value, IsCol
    <2> DEFINE v == <<"num", e>>
    <2>5. v \in Value /\ ~IsCol(v) /\ stack' = Append(Below, v)
      BY <2>3, <2>4
    <2> HIDE DEF v
    <2>6. Holding(stack', named) = Plus(m, v)
      BY <2>4, <2>5, HoldingOneMore
    <2>7. Plus(m, v) = m
      BY <1>2, <2>5, NumsAreNotCounted
    <2> HIDE DEF m
    <2>8. Moved
      BY <1>1, <1>2, <2>3, <2>6, <2>7 DEF Moved
    <2> QED
      BY <1>1, <1>4, <2>2, <2>3, <2>8
  <1> QED
    BY <1>3, <1>4

LEMMA MismatchFacts ==
  ASSUME InPlaceInv, LengthMismatch
  PROVE  /\ Len(stack) >= 2 /\ IsCol(First) /\ IsCol(Second)
         /\ Len(heap[First[2]].data) # Len(heap[Second[2]].data)
         /\ UNCHANGED <<twin, lit, named>>
         /\ Fails
  <1> DEFINE m == Holding(Below, named)
             hp == Release(heap, <<First, Second>>)
             n == Plus(Plus(m, First), Second)
  <1>1. /\ Len(stack) >= 2 /\ IsCol(First) /\ IsCol(Second)
        /\ Len(heap[First[2]].data) # Len(heap[Second[2]].data)
        /\ Unwind(hp)
        /\ twin' = twin /\ lit' = lit /\ named' = named
    BY DEF LengthMismatch
  <1>2. /\ Tracks(heap, n) /\ m \in [Cols -> Nat]
        /\ heap \in Heap /\ stack \in Seq(Value)
        /\ First \in Value /\ Second \in Value
    BY <1>1, OperandsAreTracked, OperandForms, InvIsTyped
  <1>3. <<First, Second>> \in Seq(Value)
        /\ \A c \in Cols : Refs(c, <<First, Second>>) = One(c, First) + One(c, Second)
    BY <1>2, RefsOfTwo
  <1> HIDE DEF m
  <1>4. /\ n \in [Cols -> Nat]
        /\ \A c \in Cols : n[c] = m[c] + Refs(c, <<First, Second>>)
    <2>1. /\ Plus(m, First) \in [Cols -> Nat]
          /\ \A c \in Cols : /\ Plus(m, First)[c] = m[c] + One(c, First)
                             /\ One(c, First) \in Nat
      BY <1>2, PlusOne
    <2>2. /\ n \in [Cols -> Nat]
          /\ \A c \in Cols : /\ n[c] = Plus(m, First)[c] + One(c, Second)
                             /\ One(c, Second) \in Nat
      BY <2>1, PlusOne
    <2> HIDE DEF n
    <2>3. \A c \in Cols : n[c] = m[c] + Refs(c, <<First, Second>>)
      <3> TAKE c \in Cols
      <3>1. m[c] \in Nat
        BY <1>2
      <3> QED
        BY <1>3, <2>1, <2>2, <3>1
    <2> QED
      BY <2>2, <2>3
  <1> HIDE DEF n
  <1>5. hp \in Heap /\ Tracks(hp, m) /\ Kept(heap, hp, m)
    BY <1>2, <1>3, <1>4, Released
  <1> HIDE DEF hp
  <1>6. Fails
    BY <1>1, <1>2, <1>5, UnwindFacts DEF m
  <1> QED
    BY <1>1, <1>6

LEMMA ColumnFacts ==
  ASSUME InPlaceInv, NEW op \in Ops, ColumnArith(op)
  PROVE  LET x == heap[First[2]].data
             y == heap[Second[2]].data
         IN  /\ Len(stack) >= 2 /\ IsCol(First) /\ IsCol(Second)
             /\ Len(x) = Len(y)
             /\ UNCHANGED <<twin, lit, named>>
             /\ IF Failing(op, x, y) # {} THEN Fails
                ELSE Gives([i \in 1..Len(x) |-> Arith2(op, x[i], y[i])])
  <1> DEFINE a == First[2]
             b == Second[2]
             m == Holding(Below, named)
  <1>1. /\ Len(stack) >= 2 /\ IsCol(First) /\ IsCol(Second)
        /\ Len(heap[a].data) = Len(heap[b].data)
        /\ VecArith(op, heap, a, b)
        /\ twin' = twin /\ lit' = lit /\ named' = named
    BY DEF ColumnArith
  <1>2. a \in Cols /\ b \in Cols /\ First = Ref(a) /\ Second = Ref(b)
    BY <1>1, OperandForms
  <1>3. /\ Tracks(heap, Plus(Plus(m, First), Second)) /\ Kept(heap, heap, m)
        /\ heap \in Heap /\ stack \in Seq(Value)
    BY <1>1, OperandsAreTracked, InvIsTyped
  <1> HIDE DEF a, b
  <1>4. Tracks(heap, Plus(Plus(m, Ref(a)), Ref(b)))
    BY <1>2, <1>3
  <1>5. LET x == heap[a].data
            y == heap[b].data
        IN  IF Failing(op, x, y) # {} THEN Fails
            ELSE Gives([i \in 1..Len(x) |-> Arith2(op, x[i], y[i])])
    BY <1>1, <1>2, <1>3, <1>4, VecArithFacts
  <1> QED
    BY <1>1, <1>5 DEF a, b

(* A fresh column holds the elements of a broadcast operand.                *)
WithFresh(c, x) == [heap EXCEPT ![c] = [rc |-> 1, data |-> x]]

LEMMA FreshFacts ==
  ASSUME heap \in Heap, NEW c \in FreeCols, NEW x \in Column,
         NEW a \in Cols, NEW m \in [Cols -> Nat], Tracks(heap, Plus(m, Ref(a)))
  PROVE  LET new == WithFresh(c, x)
         IN  /\ c \in Cols /\ a # c /\ new \in Heap
             /\ new[a] = heap[a] /\ new[c].data = x
             /\ Kept(heap, new, m)
             /\ Tracks(new, Plus(Plus(m, Ref(a)), Ref(c)))
             /\ Tracks(new, Plus(Plus(m, Ref(c)), Ref(a)))
  <1> DEFINE r == [rc |-> 1, data |-> x]
             new == [heap EXCEPT ![c] = r]
             n == Plus(m, Ref(a))
             k == Plus(n, Ref(c))
  <1>1. c \in Cols /\ heap[c].rc = 0
    BY DEF FreeCols
  <1>2. \A d \in Cols : heap[d] \in [rc : Nat, data : Column]
    BY DEF Heap
  <1>3. r \in [rc : Nat, data : Column] /\ r.rc = 1 /\ r.data = x
    OBVIOUS
  <1>4. \A d, e : One(d, Ref(e)) = IF e = d THEN 1 ELSE 0
    BY DEF One, Ref
  <1>5. /\ n \in [Cols -> Nat]
        /\ \A d \in Cols : n[d] = m[d] + One(d, Ref(a)) /\ One(d, Ref(a)) \in Nat
    BY PlusOne
  <1>6. \A d \in Cols : heap[d].rc >= n[d] /\ (twin = "rust" => heap[d].rc = n[d])
    BY DEF Tracks
  <1> HIDE DEF r, n
  <1>7. n[c] = 0 /\ m[c] = 0 /\ a # c
    <2>1. n[c] \in Nat /\ m[c] \in Nat /\ n[c] = 0
      BY <1>1, <1>5, <1>6
    <2>2. m[c] = 0 /\ One(c, Ref(a)) = 0
      BY <1>1, <1>5, <2>1
    <2> QED
      BY <1>4, <2>1, <2>2
  <1>8. k \in [Cols -> Nat] /\ \A d \in Cols : k[d] = IF d = c THEN 1 ELSE n[d]
    <2>1. k \in [Cols -> Nat] /\ \A d \in Cols : k[d] = n[d] + One(d, Ref(c))
      BY <1>5, PlusOne
    <2> HIDE DEF k
    <2>2. ASSUME NEW d \in Cols PROVE k[d] = IF d = c THEN 1 ELSE n[d]
      <3>1. n[d] \in Nat
        BY <1>5
      <3> QED
        BY <1>4, <1>7, <2>1, <3>1
    <2> QED
      BY <2>1, <2>2
  <1> HIDE DEF k
  <1>9. /\ new \in Heap
        /\ \A d \in Cols : new[d] = IF d = c THEN r ELSE heap[d]
    BY <1>1, <1>3 DEF Heap
  <1> HIDE DEF new
  <1>10. Tracks(new, k)
    <2>1. ASSUME NEW d \in Cols
          PROVE  new[d].rc >= k[d] /\ (twin = "rust" => new[d].rc = k[d])
      BY <1>3, <1>6, <1>8, <1>9
    <2> QED
      BY <2>1 DEF Tracks
  <1>11. Kept(heap, new, m)
    BY <1>7, <1>9 DEF Kept
  <1>12. k = Plus(Plus(m, Ref(c)), Ref(a))
    <2> DEFINE v == Ref(a)
               w == Ref(c)
    <2> HIDE DEF v, w
    <2>1. Plus(Plus(m, v), w) = Plus(Plus(m, w), v)
      BY OrderOfCounts
    <2> QED
      BY <2>1 DEF v, w, k, n
  <1>13. new = WithFresh(c, x) /\ new[a] = heap[a] /\ new[c].data = x
    BY <1>1, <1>3, <1>7, <1>9 DEF WithFresh, new, r
  <1>14. Tracks(new, Plus(Plus(m, Ref(a)), Ref(c)))
    BY <1>10 DEF k, n
  <1> QED
    BY <1>1, <1>7, <1>9, <1>10, <1>11, <1>12, <1>13, <1>14

LEMMA BroadcastFacts ==
  ASSUME InPlaceInv, NEW op \in Ops, BroadcastArith(op)
  PROVE  LET x == IF IsCol(First) THEN heap[First[2]].data
                  ELSE Broadcast(First[2], Len(heap[Second[2]].data))
             y == IF IsCol(First) THEN Broadcast(Second[2], Len(heap[First[2]].data))
                  ELSE heap[Second[2]].data
         IN  /\ Len(stack) >= 2 /\ IsCol(First) # IsCol(Second)
             /\ UNCHANGED <<twin, lit, named>>
             /\ IF Failing(op, x, y) # {} THEN Fails
                ELSE Gives([i \in 1..Len(x) |-> Arith2(op, x[i], y[i])])
  <1> DEFINE m == Holding(Below, named)
  <1>1. PICK c \in FreeCols :
          IF IsCol(First)
          THEN VecArith(op, WithFresh(c, Broadcast(Second[2], Len(heap[First[2]].data))),
                        First[2], c)
          ELSE VecArith(op, WithFresh(c, Broadcast(First[2], Len(heap[Second[2]].data))),
                        c, Second[2])
    BY DEF BroadcastArith, WithFresh
  <1>2. /\ Len(stack) >= 2 /\ IsCol(First) # IsCol(Second)
        /\ twin' = twin /\ lit' = lit /\ named' = named
    BY DEF BroadcastArith
  <1>3. heap \in Heap /\ stack \in Seq(Value)
    BY InvIsTyped
  <1>4. m \in [Cols -> Nat]
    BY <1>2, OperandsAreTracked
  <1>5. CASE IsCol(First)
    <2> DEFINE a == First[2]
               x == heap[a].data
               y == Broadcast(Second[2], Len(x))
    <2>0. ~IsCol(Second)
      BY <1>2, <1>5 DEF IsCol
    <2>1. /\ a \in Cols /\ First = Ref(a) /\ Second[2] \in Elem /\ ~IsCol(Second)
      BY <1>2, <1>5, <2>0, OperandForms
    <2>2. Tracks(heap, Plus(m, Ref(a)))
      BY <1>2, <1>5, <2>1, OperandsAreTracked
    <2>3. x \in Column /\ Len(x) \in Nat
      BY <1>3, <2>1, LenProperties DEF Heap, Column
    <2>4. y \in Column /\ Len(y) = Len(x)
      BY <2>1, <2>3, BroadcastIsColumn
    <2>5. VecArith(op, WithFresh(c, y), a, c)
      BY <1>1, <1>5
    <2> HIDE DEF a, y
    <2> DEFINE hp == WithFresh(c, y)
    <2>6. /\ c \in Cols /\ hp \in Heap /\ hp[a] = heap[a] /\ hp[c].data = y
          /\ Kept(heap, hp, m) /\ Tracks(hp, Plus(Plus(m, Ref(a)), Ref(c)))
      BY <1>3, <1>4, <2>1, <2>2, <2>4, FreshFacts
    <2>7. VecArith(op, hp, a, c) /\ hp[a].data = x /\ Len(hp[a].data) = Len(hp[c].data)
      BY <2>4, <2>5, <2>6
    <2> HIDE DEF hp
    <2>8. IF Failing(op, hp[a].data, hp[c].data) # {} THEN Fails
          ELSE Gives([i \in 1..Len(hp[a].data) |->
                        Arith2(op, hp[a].data[i], hp[c].data[i])])
      BY <1>2, <1>3, <2>1, <2>6, <2>7, VecArithFacts
    <2>9. IF Failing(op, x, y) # {} THEN Fails
          ELSE Gives([i \in 1..Len(x) |-> Arith2(op, x[i], y[i])])
      BY <2>6, <2>7, <2>8
    <2> QED
      BY <1>2, <1>5, <2>9 DEF a, y
  <1>6. CASE ~IsCol(First)
    <2> DEFINE b == Second[2]
               y == heap[b].data
               x == Broadcast(First[2], Len(y))
    <2>0. IsCol(Second)
      BY <1>2, <1>6 DEF IsCol
    <2>1. /\ b \in Cols /\ Second = Ref(b) /\ First[2] \in Elem /\ IsCol(Second)
      BY <1>2, <1>6, <2>0, OperandForms
    <2>2. Tracks(heap, Plus(m, Ref(b)))
      BY <1>2, <1>6, <2>1, OperandsAreTracked
    <2>3. y \in Column /\ Len(y) \in Nat
      BY <1>3, <2>1, LenProperties DEF Heap, Column
    <2>4. x \in Column /\ Len(x) = Len(y)
      BY <2>1, <2>3, BroadcastIsColumn
    <2>5. VecArith(op, WithFresh(c, x), c, b)
      BY <1>1, <1>6
    <2> HIDE DEF b, x
    <2> DEFINE hp == WithFresh(c, x)
    <2>6. /\ c \in Cols /\ hp \in Heap /\ hp[b] = heap[b] /\ hp[c].data = x
          /\ Kept(heap, hp, m) /\ Tracks(hp, Plus(Plus(m, Ref(c)), Ref(b)))
      BY <1>3, <1>4, <2>1, <2>2, <2>4, FreshFacts
    <2>7. VecArith(op, hp, c, b) /\ hp[b].data = y /\ Len(hp[c].data) = Len(hp[b].data)
      BY <2>4, <2>5, <2>6
    <2> HIDE DEF hp
    <2>8. IF Failing(op, hp[c].data, hp[b].data) # {} THEN Fails
          ELSE Gives([i \in 1..Len(hp[c].data) |->
                        Arith2(op, hp[c].data[i], hp[b].data[i])])
      BY <1>2, <1>3, <2>1, <2>6, <2>7, VecArithFacts
    <2>9. IF Failing(op, x, y) # {} THEN Fails
          ELSE Gives([i \in 1..Len(x) |-> Arith2(op, x[i], y[i])])
      BY <2>6, <2>7, <2>8
    <2> QED
      BY <1>2, <1>6, <2>9 DEF b, x
  <1> QED
    BY <1>5, <1>6

----------------------------------------------------------------------------
(* Either end of an operation keeps the invariant.                          *)
LEMMA FailsKeepsInv ==
  ASSUME InPlaceInv, Len(stack) >= 2, UNCHANGED <<twin, lit, named>>, Fails
  PROVE  /\ InPlaceInv'
         /\ \E k \in 0..Len(stack) - 2 : stack' = SubSeq(stack, 1, k)
         /\ Moved
  <1>1. PICK k \in 0..Len(stack) - 2 :
          /\ stack' = SubSeq(stack, 1, k)
          /\ heap' \in Heap
          /\ Tracks(heap', Holding(SubSeq(stack, 1, k), named))
          /\ Kept(heap, heap', Holding(SubSeq(stack, 1, k), named))
    BY DEF Fails
  <1>2. stack \in Seq(Value \ {<<>>}) /\ Len(stack) \in Nat /\ named \in [Names -> Value]
    BY InvIsTyped
  <1>3. k \in 0..Len(stack)
    BY <1>2
  <1>4. stack' \in Seq(Value \ {<<>>})
    BY <1>1, <1>2, <1>3, PartsOfASeq
  <1>5. Moved
    BY <1>1 DEF Moved
  <1>6. InPlaceInv'
    BY <1>2, <1>4, <1>5, MovedKeepsInv
  <1> QED
    BY <1>1, <1>5, <1>6

LEMMA BelowIsTyped ==
  ASSUME InPlaceInv, Len(stack) >= 2
  PROVE  Below \in Seq(Value \ {<<>>}) /\ Below \in Seq(Value)
  <1>1. stack \in Seq(Value \ {<<>>}) /\ Len(stack) - 2 \in 0..Len(stack)
        /\ stack \in Seq(Value)
    BY InvIsTyped
  <1> QED
    BY <1>1, PartsOfASeq DEF Below

LEMMA GivesKeepsInv ==
  ASSUME InPlaceInv, Len(stack) >= 2, UNCHANGED <<twin, lit, named>>, NEW x, Gives(x)
  PROVE  /\ InPlaceInv'
         /\ \E c \in Cols : stack' = Append(Below, Ref(c)) /\ heap'[c].data = x
  <1> DEFINE m == Holding(Below, named)
  <1>1. PICK c \in Cols :
          /\ stack' = Append(Below, Ref(c))
          /\ heap' \in Heap /\ heap'[c].data = x
          /\ Tracks(heap', Plus(m, Ref(c)))
          /\ Kept(heap, heap', m)
    BY DEF Gives, Ref
  <1>2. Below \in Seq(Value \ {<<>>}) /\ Below \in Seq(Value)
        /\ named \in [Names -> Value]
    BY BelowIsTyped, InvIsTyped
  <1>3. Ref(c) \in Value /\ Ref(c) # <<>>
    BY DEF Value, Ref
  <1> DEFINE v == Ref(c)
  <1> HIDE DEF v
  <1>4. stack' \in Seq(Value \ {<<>>})
    BY <1>1, <1>2, <1>3, AppendProperties DEF v
  <1>5. Holding(Append(Below, v), named) = Plus(m, v)
    BY <1>2, <1>3, HoldingOneMore DEF v
  <1>6. Tracks(heap', Holding(stack', named'))
    BY <1>1, <1>5 DEF v
  <1>7. \A l \in Literals : heap'[lit[l]].data = heap[lit[l]].data
    BY <1>1, <1>2, LiteralsStay
  <1>8. InPlaceInv'
    BY <1>1, <1>2, <1>4, <1>6, <1>7, InvIsKept
  <1> QED
    BY <1>1, <1>8

LEMMA InitIsInv ==
  ASSUME Init
  PROVE  InPlaceInv
  <1>1. /\ lit \in [Literals -> Cols]
        /\ \A l, k \in Literals : lit[l] = lit[k] => l = k
        /\ stack = <<>> /\ named = [n \in Names |-> <<>>]
        /\ heap = [c \in Cols |->
                     IF \E l \in Literals : lit[l] = c
                     THEN [rc |-> 1, data |-> CHOOSE l \in Literals : lit[l] = c]
                     ELSE Free]
    BY DEF Init
  <1>2. Literals \subseteq Column
    BY InPlaceAssumption
  <1>3. \A c \in Cols : heap[c] = IF \E l \in Literals : lit[l] = c
                                  THEN [rc |-> 1, data |-> CHOOSE l \in Literals : lit[l] = c]
                                  ELSE Free
    BY <1>1
  <1>4. \A l \in Literals : /\ heap[lit[l]] = [rc |-> 1, data |-> l]
                            /\ heap[lit[l]].rc = 1 /\ heap[lit[l]].data = l
    <2> TAKE l \in Literals
    <2> DEFINE w == CHOOSE k \in Literals : lit[k] = lit[l]
    <2>1. lit[l] \in Cols
      BY <1>1
    <2>2. w \in Literals /\ lit[w] = lit[l]
      OBVIOUS
    <2>3. heap[lit[l]] = [rc |-> 1, data |-> w]
      BY <1>3, <2>1
    <2> HIDE DEF w
    <2>4. w = l
      BY <1>1, <2>2
    <2> QED
      BY <2>3, <2>4
  <1>5. \A c \in Cols : (\E l \in Literals : lit[l] = c) \/ heap[c] = Free
    BY <1>3
  <1>6. \A c \in Cols : heap[c] \in [rc : Nat, data : Column]
    <2>1. Free \in [rc : Nat, data : Column]
      BY EmptySeq DEF Free, Column
    <2>2. \A l \in Literals : [rc |-> 1, data |-> l] \in [rc : Nat, data : Column]
      BY <1>2
    <2>3. \A l \in Literals : heap[lit[l]] \in [rc : Nat, data : Column]
      <3> TAKE l \in Literals
      <3>1. heap[lit[l]] = [rc |-> 1, data |-> l]
        BY <1>4
      <3> QED
        BY <2>2, <3>1
    <2> TAKE c \in Cols
    <2>4. ASSUME NEW l \in Literals, lit[l] = c
          PROVE  heap[c] \in [rc : Nat, data : Column]
      BY <2>3, <2>4
    <2> QED
      BY <1>5, <2>1, <2>4
  <1>7. DOMAIN heap = Cols /\ heap = [c \in Cols |-> heap[c]]
    BY <1>1
  <1>8. heap \in Heap
    BY <1>6, <1>7 DEF Heap
  <1>9. stack \in Seq(Value) /\ stack \in Seq(Value \ {<<>>}) /\ named \in [Names -> Value]
    BY <1>1, EmptySeq DEF Value
  <1>10. \A c \in Cols : Holding(stack, named)[c] = Cardinality(NodesOf(c))
    <2> TAKE c \in Cols
    <2>1. Refs(c, stack) = 0
      BY <1>1, RefsOfNone
    <2>2. NamesOf(named, c) = {}
      BY <1>1 DEF NamesOf
    <2>3. Cardinality(NamesOf(named, c)) = 0
      BY <2>2, FS_EmptySet
    <2>4. Cardinality(NodesOf(c)) \in Nat
      BY NamesAreCounted
    <2> QED
      BY <2>1, <2>3, <2>4 DEF Holding
  <1>11. \A c \in Cols : heap[c].rc = Cardinality(NodesOf(c))
    <2> TAKE c \in Cols
    <2>1. CASE \E l \in Literals : lit[l] = c
      <3>1. PICK l \in Literals : lit[l] = c
        BY <2>1
      <3>2. NodesOf(c) = {l}
        BY <1>1, <3>1 DEF NodesOf
      <3>3. Cardinality(NodesOf(c)) = 1
        BY <3>2, FS_Singleton
      <3>4. heap[lit[l]].rc = 1
        BY <1>4
      <3> QED
        BY <3>1, <3>3, <3>4
    <2>2. CASE ~\E l \in Literals : lit[l] = c
      <3>1. NodesOf(c) = {}
        BY <2>2 DEF NodesOf
      <3>2. Cardinality(NodesOf(c)) = 0
        BY <3>1, FS_EmptySet
      <3>3. heap[c].rc = 0
        BY <1>5, <2>2 DEF Free
      <3> QED
        BY <3>2, <3>3
    <2> QED
      BY <2>1, <2>2
  <1>12. Tracks(heap, Holding(stack, named))
    <2> DEFINE n == Holding(stack, named)
    <2>1. \A c \in Cols : n[c] = heap[c].rc /\ heap[c].rc \in Nat
      BY <1>6, <1>10, <1>11
    <2> HIDE DEF n
    <2>2. Tracks(heap, n)
      BY <2>1 DEF Tracks
    <2> QED
      BY <2>2 DEF n
  <1>13. LiteralsKept
    BY <1>4 DEF LiteralsKept
  <1>14. TypeOK
    BY <1>1, <1>8, <1>9 DEF TypeOK, Heap
  <1> QED
    BY <1>12, <1>13, <1>14 DEF InPlaceInv

LEMMA NextKeepsInv ==
  ASSUME InPlaceInv, Next
  PROVE  InPlaceInv'
  <1>1. /\ lit \in [Literals -> Cols] /\ stack \in Seq(Value \ {<<>>})
        /\ named \in [Names -> Value]
    BY InvIsTyped
  <1>2. CASE \E l \in Literals : Push(<<"col", lit[l]>>)
    <2>1. PICK l \in Literals : Push(<<"col", lit[l]>>)
      BY <1>2
    <2> DEFINE v == <<"col", lit[l]>>
    <2>2. v \in Value \ {<<>>} /\ Push(v)
      BY <1>1, <2>1 DEF Value
    <2> HIDE DEF v
    <2> QED
      BY <1>1, <2>2, PushMoves, MovedKeepsInv
  <1>3. CASE \E e \in Scalars : Push(<<"num", e>>)
    <2>1. PICK e \in Scalars : Push(<<"num", e>>)
      BY <1>3
    <2> DEFINE v == <<"num", e>>
    <2>2. v \in Value \ {<<>>} /\ Push(v)
      BY <2>1, InPlaceAssumption DEF Value
    <2> HIDE DEF v
    <2> QED
      BY <1>1, <2>2, PushMoves, MovedKeepsInv
  <1>4. CASE \E n \in Names : named[n] # <<>> /\ Push(named[n])
    <2>1. PICK n \in Names : named[n] # <<>> /\ Push(named[n])
      BY <1>4
    <2>2. named[n] \in Value \ {<<>>}
      BY <1>1, <2>1
    <2> QED
      BY <1>1, <2>1, <2>2, PushMoves, MovedKeepsInv
  <1>5. CASE \E n \in Names : Bind(n)
    BY <1>1, <1>5, BindMoves, MovedKeepsInv
  <1>6. CASE \E n \in Names : Forget(n)
    BY <1>1, <1>6, ForgetMoves, MovedKeepsInv
  <1>7. CASE Pop
    BY <1>1, <1>7, PopMoves, MovedKeepsInv
  <1>8. CASE LengthMismatch
    BY <1>8, MismatchFacts, FailsKeepsInv
  <1>9. ASSUME NEW op \in Ops, ScalarArith(op)
        PROVE  InPlaceInv'
    <2> DEFINE e == Arith2(op, First[2], Second[2])
               v == <<"num", e>>
    <2>1. /\ Len(stack) >= 2 /\ twin' = twin /\ lit' = lit /\ named' = named
          /\ \/ Fails
             \/ stack' = Append(Below, v) /\ e \in Elem /\ Moved
      BY <1>9, ScalarFacts
    <2>2. CASE Fails
      BY <2>1, <2>2, FailsKeepsInv
    <2>3. CASE stack' = Append(Below, v) /\ e \in Elem /\ Moved
      <3>1. Below \in Seq(Value \ {<<>>}) /\ v \in Value \ {<<>>}
        BY <2>1, <2>3, BelowIsTyped DEF Value
      <3> HIDE DEF v
      <3>2. stack' \in Seq(Value \ {<<>>})
        BY <2>3, <3>1, AppendProperties
      <3> QED
        BY <1>1, <2>1, <2>3, <3>2, MovedKeepsInv
    <2> QED
      BY <2>1, <2>2, <2>3
  <1>10. ASSUME NEW op \in Ops, ColumnArith(op)
         PROVE  InPlaceInv'
    <2>1. /\ Len(stack) >= 2 /\ twin' = twin /\ lit' = lit /\ named' = named
          /\ Fails \/ \E x : Gives(x)
      BY <1>10, ColumnFacts
    <2> QED
      BY <2>1, FailsKeepsInv, GivesKeepsInv
  <1>11. ASSUME NEW op \in Ops, BroadcastArith(op)
         PROVE  InPlaceInv'
    <2>1. /\ Len(stack) >= 2 /\ twin' = twin /\ lit' = lit /\ named' = named
          /\ Fails \/ \E x : Gives(x)
      BY <1>11, BroadcastFacts
    <2> QED
      BY <2>1, FailsKeepsInv, GivesKeepsInv
  <1> QED
    BY <1>2, <1>3, <1>4, <1>5, <1>6, <1>7, <1>8, <1>9, <1>10, <1>11 DEF Next

LEMMA StutterKeepsInv ==
  ASSUME InPlaceInv, UNCHANGED vars
  PROVE  InPlaceInv'
  <1>1. /\ twin' = twin /\ heap' = heap /\ lit' = lit /\ stack' = stack /\ named' = named
    BY DEF vars
  <1>2. heap' \in Heap /\ Tracks(heap', Holding(stack', named'))
    BY <1>1, InvIsTyped
  <1> QED
    BY <1>1, <1>2, InvIsTyped, InvIsKept

LEMMA Invariant == Spec => []InPlaceInv
  <1>1. InPlaceInv /\ [Next]_vars => InPlaceInv'
    BY NextKeepsInv, StutterKeepsInv
  <1> QED
    BY <1>1, InitIsInv, PTL DEF Spec

----------------------------------------------------------------------------
(* Every value is one of the program, and every count is kept for a column. *)
THEOREM TypesAreKept == Spec => []TypeOK
  <1>1. InPlaceInv => TypeOK
    BY DEF InPlaceInv
  <1> QED
    BY <1>1, Invariant, PTL

LEMMA HoldersAreHolding ==
  ASSUME NEW c \in Cols
  PROVE  Holders(c) = Holding(stack, named)[c]
  BY DEF Holders, Holding, NamesOf, NodesOf

(* In Rust the count of a column is the number of references to it, whatever *)
(* was overwritten and whatever failed halfway: nothing leaks, and a column  *)
(* nobody else can reach is always overwritten.                              *)
THEOREM RustCountsAreExact == Spec => []CountsExact
  <1>1. InPlaceInv => CountsExact
    BY HoldersAreHolding DEF InPlaceInv, Tracks, CountsExact
  <1> QED
    BY <1>1, Invariant, PTL

(* In neither implementation does a count fall short: no column is freed or  *)
(* overwritten while somebody else can reach it, though C leaks counts.      *)
THEOREM CountsNeverFallShort == Spec => []CountsCover
  <1>1. InPlaceInv => CountsCover
    BY HoldersAreHolding DEF InPlaceInv, Tracks, CountsCover
  <1> QED
    BY <1>1, Invariant, PTL

----------------------------------------------------------------------------
(* What a program sees of its values: the elements of their columns.        *)
SeenIn(hp, v) == IF IsCol(v) THEN <<"col", hp[v[2]].data>> ELSE v
ShownIn(hp, vs) == [i \in 1..Len(vs) |-> SeenIn(hp, vs[i])]
NamedIn(hp, nm) == [n \in Names |-> SeenIn(hp, nm[n])]
PureValue == {<<>>} \cup {<<"num", e>> : e \in Elem} \cup {<<"col", x>> : x \in Column}

LEMMA SeenIsPure ==
  ASSUME NEW hp \in Heap, NEW v \in Value
  PROVE  SeenIn(hp, v) \in PureValue
  <1>1. \A c \in Cols : hp[c].data \in Column
    BY DEF Heap
  <1>2. ASSUME NEW c \in Cols, v = <<"col", c>>
        PROVE  SeenIn(hp, v) = <<"col", hp[c].data>>
    BY <1>2 DEF SeenIn, IsCol
  <1>3. ASSUME v = <<>> \/ \E e \in Elem : v = <<"num", e>>
        PROVE  SeenIn(hp, v) = v /\ v \in PureValue
    BY <1>3 DEF SeenIn, IsCol, PureValue
  <1>4. \A x \in Column : <<"col", x>> \in PureValue
    BY DEF PureValue
  <1> QED
    BY <1>1, <1>2, <1>3, <1>4 DEF Value

LEMMA ShownIsASeq ==
  ASSUME NEW hp \in Heap, NEW vs \in Seq(Value)
  PROVE  /\ ShownIn(hp, vs) \in Seq(PureValue)
         /\ Len(ShownIn(hp, vs)) = Len(vs)
         /\ \A i \in 1..Len(vs) : ShownIn(hp, vs)[i] = SeenIn(hp, vs[i])
  <1> DEFINE f == ShownIn(hp, vs)
  <1>1. Len(vs) \in Nat /\ \A i \in 1..Len(vs) : vs[i] \in Value
    BY LenProperties, ElementOfSeq
  <1>2. \A i \in 1..Len(vs) : SeenIn(hp, vs[i]) \in PureValue
    BY <1>1, SeenIsPure
  <1>3. f \in [1..Len(vs) -> PureValue]
    BY <1>2 DEF ShownIn
  <1>4. f \in Seq(PureValue)
    BY <1>1, <1>3, SeqDef
  <1>5. Len(f) \in Nat /\ 1..Len(f) = 1..Len(vs)
    BY <1>3, <1>4, LenProperties
  <1>6. \A i \in 1..Len(vs) : f[i] = SeenIn(hp, vs[i])
    BY DEF ShownIn
  <1> HIDE DEF f
  <1>7. Len(f) = Len(vs)
    BY <1>1, <1>5, SameBound
  <1> QED
    BY <1>4, <1>6, <1>7 DEF f

LEMMA ShownOneMore ==
  ASSUME NEW hp \in Heap, NEW vs \in Seq(Value), NEW v \in Value
  PROVE  ShownIn(hp, Append(vs, v)) = Append(ShownIn(hp, vs), SeenIn(hp, v))
  <1> DEFINE ws == Append(vs, v)
             f == ShownIn(hp, ws)
             g == ShownIn(hp, vs)
             h == Append(g, SeenIn(hp, v))
             n == Len(vs)
  <1>1. /\ ws \in Seq(Value) /\ Len(ws) = n + 1 /\ n \in Nat
        /\ \A i \in 1..n : ws[i] = vs[i]
        /\ ws[n + 1] = v
    BY AppendProperties, LenProperties
  <1>2. /\ f \in Seq(PureValue) /\ Len(f) = Len(ws)
        /\ \A i \in 1..Len(ws) : f[i] = SeenIn(hp, ws[i])
    <2> HIDE DEF ws
    <2> QED
      BY <1>1, ShownIsASeq
  <1>3. /\ g \in Seq(PureValue) /\ Len(g) = n
        /\ \A i \in 1..n : g[i] = SeenIn(hp, vs[i])
    BY ShownIsASeq
  <1>4. SeenIn(hp, v) \in PureValue
    BY SeenIsPure
  <1> HIDE DEF f, g, ws, n
  <1>5. /\ h \in Seq(PureValue) /\ Len(h) = n + 1
        /\ \A i \in 1..n : h[i] = g[i]
        /\ h[n + 1] = SeenIn(hp, v)
    BY <1>3, <1>4, AppendProperties
  <1> HIDE DEF h
  <1>6. \A i \in 1..n + 1 : i \in 1..n \/ i = n + 1
    BY <1>1
  <1>7. Len(f) = Len(h) /\ \A i \in 1..Len(f) : f[i] = h[i]
    BY <1>1, <1>2, <1>3, <1>5, <1>6
  <1>8. f = h
    BY <1>2, <1>5, <1>7, SeqEqual
  <1> QED
    BY <1>8 DEF f, h, g, ws

LEMMA ShownLess ==
  ASSUME NEW hp \in Heap, NEW vs \in Seq(Value), NEW k \in 0..Len(vs)
  PROVE  ShownIn(hp, SubSeq(vs, 1, k)) = SubSeq(ShownIn(hp, vs), 1, k)
  <1> DEFINE ws == SubSeq(vs, 1, k)
             f == ShownIn(hp, ws)
             g == ShownIn(hp, vs)
             h == SubSeq(g, 1, k)
  <1>1. /\ ws \in Seq(Value) /\ Len(ws) = k /\ \A i \in 1..k : ws[i] = vs[i]
        /\ Len(vs) \in Nat
    BY PartsOfASeq, LenProperties
  <1>2. /\ g \in Seq(PureValue) /\ Len(g) = Len(vs)
        /\ \A i \in 1..Len(vs) : g[i] = SeenIn(hp, vs[i])
    BY ShownIsASeq
  <1> HIDE DEF g, ws
  <1>3. /\ f \in Seq(PureValue) /\ Len(f) = k
        /\ \A i \in 1..k : f[i] = SeenIn(hp, ws[i])
    BY <1>1, ShownIsASeq
  <1>4. /\ h \in Seq(PureValue) /\ Len(h) = k /\ \A i \in 1..k : h[i] = g[i]
    BY <1>2, PartsOfASeq
  <1> HIDE DEF f, h
  <1>5. 1..k \subseteq 1..Len(vs)
    BY <1>1
  <1>6. Len(f) = Len(h) /\ \A i \in 1..Len(f) : f[i] = h[i]
    BY <1>1, <1>2, <1>3, <1>4, <1>5
  <1>7. f = h
    BY <1>3, <1>4, <1>6, SeqEqual
  <1> QED
    BY <1>7 DEF f, h, g, ws

(* Who still holds a value sees what it saw.                                *)
LEMMA SeenStays ==
  ASSUME NEW vs \in Seq(Value), NEW nm \in [Names -> Value], NEW new,
         Kept(heap, new, Holding(vs, nm))
  PROVE  ShownIn(new, vs) = ShownIn(heap, vs) /\ NamedIn(new, nm) = NamedIn(heap, nm)
  <1>1. ASSUME NEW v \in Value,
               \A c \in Cols : v = <<"col", c>> => new[c].data = heap[c].data
        PROVE  SeenIn(new, v) = SeenIn(heap, v)
    <2>1. CASE \E c \in Cols : v = <<"col", c>>
      <3>1. PICK c \in Cols : v = <<"col", c>>
        BY <2>1
      <3>2. v[2] = c /\ new[c].data = heap[c].data
        BY <1>1, <3>1
      <3> QED
        BY <3>2 DEF SeenIn
    <2>2. CASE ~\E c \in Cols : v = <<"col", c>>
      <3>1. ~IsCol(v)
        BY <2>2 DEF Value, IsCol
      <3> QED
        BY <3>1 DEF SeenIn
    <2> QED
      BY <2>1, <2>2
  <1>2. \A i \in 1..Len(vs) : SeenIn(new, vs[i]) = SeenIn(heap, vs[i])
    <2> TAKE i \in 1..Len(vs)
    <2>1. vs[i] \in Value
      BY ElementOfSeq
    <2>2. \A c \in Cols : vs[i] = <<"col", c>> => new[c].data = heap[c].data
      BY HoldingIsCounted DEF Kept
    <2> QED
      BY <1>1, <2>1, <2>2
  <1>3. \A n \in Names : SeenIn(new, nm[n]) = SeenIn(heap, nm[n])
    <2> TAKE n \in Names
    <2>1. nm[n] \in Value
      OBVIOUS
    <2>2. \A c \in Cols : nm[n] = <<"col", c>> => new[c].data = heap[c].data
      BY HoldingIsCounted DEF Kept
    <2> QED
      BY <1>1, <2>1, <2>2
  <1> QED
    BY <1>2, <1>3 DEF ShownIn, NamedIn

----------------------------------------------------------------------------
(* Steps of the pure columns, in terms of what is seen.                     *)
LEMMA SameArith ==
  /\ \A op, x, y : Pure!Arith2(op, x, y) = Arith2(op, x, y)
  /\ \A op, x, y : Pure!Overflows(op, x, y) <=> Overflows(op, x, y)
  /\ \A op, x, y : Pure!Failing(op, x, y) = Failing(op, x, y)
  /\ \A e, n : Pure!Broadcast(e, n) = Broadcast(e, n)
  <1>1. \A op, x, y : Pure!Overflows(op, x, y) <=> Overflows(op, x, y)
    BY DEF Pure!Overflows, Overflows, Pure!MinInt, MinInt
  <1>2. \A op, x, y : Pure!Failing(op, x, y) = Failing(op, x, y)
    BY DEF Pure!Failing, Failing, Pure!Overflows, Overflows, Pure!MinInt, MinInt
  <1>3. \A op, x, y : Pure!Arith2(op, x, y) = Arith2(op, x, y)
    BY DEF Pure!Arith2, Arith2, Pure!Wrap, Wrap, Pure!Quotient, Quotient,
           Pure!Magnitude, Magnitude, Pure!MinInt, MinInt
  <1>4. \A e, n : Pure!Broadcast(e, n) = Broadcast(e, n)
    BY DEF Pure!Broadcast, Broadcast
  <1> QED
    BY <1>1, <1>2, <1>3, <1>4

LEMMA PureOfScalars ==
  ASSUME NEW op, NEW d, NEW e
  PROVE  LET a == <<"num", d>>
             b == <<"num", e>>
         IN  /\ Pure!Refused(op, a, b) <=> Overflows(op, d, e)
             /\ Pure!Answer(op, a, b) = <<"num", Arith2(op, d, e)>>
  BY SameArith DEF Pure!Refused, Pure!Answer, Pure!Mismatch, Pure!IsCol, Pure!Num

LEMMA PureOfMismatch ==
  ASSUME NEW op, NEW x, NEW y, Len(x) # Len(y)
  PROVE  Pure!Refused(op, <<"col", x>>, <<"col", y>>)
  BY DEF Pure!Refused, Pure!Mismatch, Pure!IsCol

(* The operation on each pair of elements.                                  *)
Each(op, x, y) == [i \in 1..Len(x) |-> Arith2(op, x[i], y[i])]

(* The elements that the operand v stands for, next to those of another.    *)
ColumnOf(v, x) == v = <<"col", x>>
Stands(v, x, y) ==
  ColumnOf(v, x) \/ (v = <<"num", v[2]>> /\ x = Broadcast(v[2], Len(y)))

LEMMA PureOfColumns ==
  ASSUME NEW op, NEW a, NEW b, NEW x, NEW y,
         ColumnOf(a, x) \/ ColumnOf(b, y), Stands(a, x, y), Stands(b, y, x),
         Len(x) = Len(y)
  PROVE  /\ Pure!Refused(op, a, b) <=> Failing(op, x, y) # {}
         /\ Pure!Answer(op, a, b) = <<"col", Each(op, x, y)>>
  <1>1. Pure!IsCol(a) \/ Pure!IsCol(b)
    BY DEF Pure!IsCol, ColumnOf
  <1>2. Pure!Length(a, b) = Len(x)
    BY DEF Pure!Length, Pure!IsCol, ColumnOf, Stands
  <1>3. Pure!Elements(a, Len(x)) = x /\ Pure!Elements(b, Len(x)) = y
    BY SameArith DEF Pure!Elements, Pure!IsCol, ColumnOf, Stands
  <1>4. ~Pure!Mismatch(a, b)
    BY DEF Pure!Mismatch, Pure!IsCol, ColumnOf, Stands
  <1>5. Pure!Refused(op, a, b) <=> Failing(op, x, y) # {}
    BY <1>1, <1>2, <1>3, <1>4, SameArith DEF Pure!Refused
  <1>6. Pure!Answer(op, a, b) = <<"col", Each(op, x, y)>>
    BY <1>1, <1>2, <1>3, SameArith DEF Pure!Answer, Pure!Col, Each
  <1> QED
    BY <1>5, <1>6

(* The pure stack and names.                                                *)
Shown == ShownIn(heap, stack)
ShownNames == NamedIn(heap, named)

LEMMA PurePush ==
  ASSUME NEW v, Shown' = Append(Shown, v), ShownNames' = ShownNames
  PROVE  Pure!Push(v)
  BY DEF Pure!Push, Shown, ShownNames, ShownIn, NamedIn, SeenIn, Seen

LEMMA PureBind ==
  ASSUME NEW n, Shown # <<>>, Shown' = Shown,
         ShownNames' = [ShownNames EXCEPT ![n] = Shown[Len(Shown)]]
  PROVE  Pure!Bind(n)
  BY DEF Pure!Bind, Shown, ShownNames, ShownIn, NamedIn, SeenIn, Seen

LEMMA PureForget ==
  ASSUME NEW n, Shown' = Shown, ShownNames' = [ShownNames EXCEPT ![n] = <<>>]
  PROVE  Pure!Forget(n)
  BY DEF Pure!Forget, Shown, ShownNames, ShownIn, NamedIn, SeenIn, Seen

LEMMA PurePop ==
  ASSUME Shown # <<>>, Shown' = SubSeq(Shown, 1, Len(Shown) - 1), ShownNames' = ShownNames
  PROVE  Pure!Pop
  BY DEF Pure!Pop, Shown, ShownNames, ShownIn, NamedIn, SeenIn, Seen

LEMMA PureOperate ==
  ASSUME NEW op, Len(Shown) >= 2, ShownNames' = ShownNames,
         LET a == Shown[Len(Shown) - 1]
             b == Shown[Len(Shown)]
         IN  IF Pure!Refused(op, a, b)
             THEN \E k \in 0..Len(Shown) - 2 : Shown' = SubSeq(Shown, 1, k)
             ELSE Shown' = Append(SubSeq(Shown, 1, Len(Shown) - 2), Pure!Answer(op, a, b))
  PROVE  Pure!Operate(op)
  BY DEF Pure!Operate, Shown, ShownNames, ShownIn, NamedIn, SeenIn, Seen

----------------------------------------------------------------------------
(* The steps of the columns are steps of the pure ones.                     *)
LEMMA ShownAfter ==
  ASSUME NEW new \in Seq(Value), named' \in [Names -> Value], stack' = new,
         Kept(heap, heap', Holding(new, named'))
  PROVE  Shown' = ShownIn(heap, new) /\ ShownNames' = NamedIn(heap, named')
  <1>1. ShownIn(heap', new) = ShownIn(heap, new) /\ NamedIn(heap', named') = NamedIn(heap, named')
    BY SeenStays
  <1>2. Shown' = ShownIn(heap', stack') /\ ShownNames' = NamedIn(heap', named')
    BY DEF Shown, ShownNames, ShownIn, NamedIn, SeenIn
  <1> QED
    BY <1>1, <1>2

LEMMA ShownOperands ==
  ASSUME InPlaceInv, Len(stack) >= 2
  PROVE  /\ Len(Shown) = Len(stack) /\ Len(Shown) >= 2
         /\ Shown[Len(Shown) - 1] = SeenIn(heap, First)
         /\ Shown[Len(Shown)] = SeenIn(heap, Second)
         /\ SubSeq(Shown, 1, Len(Shown) - 2) = ShownIn(heap, Below)
  <1>1. heap \in Heap /\ stack \in Seq(Value) /\ Len(stack) \in Nat
    BY InvIsTyped
  <1>2. Len(Shown) = Len(stack) /\ \A i \in 1..Len(stack) : Shown[i] = SeenIn(heap, stack[i])
    BY <1>1, ShownIsASeq DEF Shown
  <1>3. Len(stack) - 1 \in 1..Len(stack) /\ Len(stack) \in 1..Len(stack)
        /\ Len(stack) - 2 \in 0..Len(stack)
    BY <1>1
  <1>4. SubSeq(Shown, 1, Len(stack) - 2) = ShownIn(heap, Below)
    BY <1>1, <1>3, ShownLess DEF Shown, Below
  <1> QED
    BY <1>2, <1>3, <1>4 DEF First, Second

LEMMA FailsIsPure ==
  ASSUME InPlaceInv, Len(stack) >= 2, UNCHANGED named, Fails,
         NEW op, Pure!Refused(op, SeenIn(heap, First), SeenIn(heap, Second))
  PROVE  Pure!Operate(op)
  <1>1. PICK k \in 0..Len(stack) - 2 :
          /\ stack' = SubSeq(stack, 1, k)
          /\ Kept(heap, heap', Holding(SubSeq(stack, 1, k), named))
    BY DEF Fails
  <1>2. /\ heap \in Heap /\ stack \in Seq(Value) /\ Len(stack) \in Nat
        /\ named \in [Names -> Value]
    BY InvIsTyped
  <1>3. k \in 0..Len(stack) /\ SubSeq(stack, 1, k) \in Seq(Value)
    BY <1>2, PartsOfASeq
  <1>4. Shown' = ShownIn(heap, SubSeq(stack, 1, k)) /\ ShownNames' = NamedIn(heap, named)
    BY <1>1, <1>2, <1>3, ShownAfter
  <1>5. Shown' = SubSeq(Shown, 1, k) /\ ShownNames' = ShownNames
    BY <1>2, <1>3, <1>4, ShownLess DEF Shown, ShownNames
  <1>6. \E j \in 0..Len(Shown) - 2 : Shown' = SubSeq(Shown, 1, j)
    BY <1>5, ShownOperands
  <1> QED
    BY <1>5, <1>6, ShownOperands, PureOperate

LEMMA TakenIsPure ==
  ASSUME InPlaceInv, Len(stack) >= 2, ShownNames' = ShownNames, NEW op,
         ~Pure!Refused(op, SeenIn(heap, First), SeenIn(heap, Second)),
         NEW w, Pure!Answer(op, SeenIn(heap, First), SeenIn(heap, Second)) = w,
         Shown' = Append(ShownIn(heap, Below), w)
  PROVE  Pure!Operate(op)
  BY ShownOperands, PureOperate

LEMMA GivesIsPure ==
  ASSUME InPlaceInv, Len(stack) >= 2, UNCHANGED named, NEW x, Gives(x),
         NEW op, ~Pure!Refused(op, SeenIn(heap, First), SeenIn(heap, Second)),
         Pure!Answer(op, SeenIn(heap, First), SeenIn(heap, Second)) = <<"col", x>>
  PROVE  Pure!Operate(op)
  <1>1. PICK c \in Cols :
          /\ stack' = Append(Below, <<"col", c>>)
          /\ heap' \in Heap /\ heap'[c].data = x
          /\ Kept(heap, heap', Holding(Below, named))
    BY DEF Gives
  <1> DEFINE v == <<"col", c>>
             w == <<"col", x>>
  <1>2. Below \in Seq(Value) /\ named \in [Names -> Value]
    BY BelowIsTyped, InvIsTyped
  <1>3. v \in Value /\ SeenIn(heap', v) = w
    BY <1>1 DEF Value, SeenIn, IsCol
  <1>4. /\ ShownIn(heap', Below) = ShownIn(heap, Below)
        /\ NamedIn(heap', named) = NamedIn(heap, named)
    BY <1>1, <1>2, SeenStays
  <1>5. stack' = Append(Below, v) /\ Pure!Answer(op, SeenIn(heap, First), SeenIn(heap, Second)) = w
    BY <1>1
  <1> HIDE DEF v, w
  <1>6. ShownIn(heap', Append(Below, v)) = Append(ShownIn(heap, Below), w)
    BY <1>1, <1>2, <1>3, <1>4, ShownOneMore
  <1>7. Shown' = ShownIn(heap', stack') /\ ShownNames' = NamedIn(heap', named')
    BY DEF Shown, ShownNames, ShownIn, NamedIn, SeenIn
  <1>8. Shown' = Append(ShownIn(heap, Below), w) /\ ShownNames' = ShownNames
    BY <1>4, <1>5, <1>6, <1>7 DEF ShownNames
  <1> QED
    BY <1>5, <1>8, TakenIsPure

LEMMA ScalarIsPure ==
  ASSUME InPlaceInv, NEW op \in Ops, ScalarArith(op)
  PROVE  Pure!Operate(op)
  <1> DEFINE d == First[2]
             e == Second[2]
             v == <<"num", Arith2(op, d, e)>>
  <1>1. /\ Len(stack) >= 2 /\ ~IsCol(First) /\ ~IsCol(Second)
        /\ named' = named
        /\ IF Overflows(op, d, e) THEN Fails
           ELSE stack' = Append(Below, v) /\ Arith2(op, d, e) \in Elem /\ Moved
    BY ScalarFacts
  <1>2. SeenIn(heap, First) = <<"num", d>> /\ SeenIn(heap, Second) = <<"num", e>>
    BY <1>1, OperandForms DEF SeenIn
  <1>3. /\ Pure!Refused(op, <<"num", d>>, <<"num", e>>) <=> Overflows(op, d, e)
        /\ Pure!Answer(op, <<"num", d>>, <<"num", e>>) = v
    BY PureOfScalars
  <1>4. /\ Pure!Refused(op, SeenIn(heap, First), SeenIn(heap, Second)) <=> Overflows(op, d, e)
        /\ Pure!Answer(op, SeenIn(heap, First), SeenIn(heap, Second)) = v
    BY <1>2, <1>3
  <1>5. CASE Overflows(op, d, e)
    BY <1>1, <1>4, <1>5, FailsIsPure
  <1>6. CASE ~Overflows(op, d, e)
    <2>1. /\ Below \in Seq(Value) /\ named \in [Names -> Value] /\ v \in Value
          /\ heap \in Heap /\ SeenIn(heap, v) = v
      BY <1>1, <1>6, BelowIsTyped, InvIsTyped DEF Value, SeenIn, IsCol
    <2>2. stack' = Append(Below, v) /\ Moved
      BY <1>1, <1>6
    <2> HIDE DEF v
    <2>3. stack' \in Seq(Value)
      BY <2>1, <2>2, AppendProperties
    <2>4. Shown' = ShownIn(heap, Append(Below, v)) /\ ShownNames' = NamedIn(heap, named)
      BY <1>1, <2>1, <2>2, <2>3, ShownAfter DEF Moved
    <2>5. ShownIn(heap, Append(Below, v)) = Append(ShownIn(heap, Below), v)
      BY <2>1, ShownOneMore
    <2>6. Shown' = Append(ShownIn(heap, Below), v) /\ ShownNames' = ShownNames
      BY <2>4, <2>5 DEF ShownNames
    <2> QED
      BY <1>1, <1>4, <1>6, <2>6, TakenIsPure
  <1> QED
    BY <1>5, <1>6

LEMMA ColumnIsPure ==
  ASSUME InPlaceInv, NEW op \in Ops, ColumnArith(op)
  PROVE  Pure!Operate(op)
  <1> DEFINE x == heap[First[2]].data
             y == heap[Second[2]].data
             A == SeenIn(heap, First)
             B == SeenIn(heap, Second)
             z == Each(op, x, y)
  <1>1. /\ Len(stack) >= 2 /\ IsCol(First) /\ IsCol(Second)
        /\ Len(x) = Len(y) /\ named' = named
        /\ IF Failing(op, x, y) # {} THEN Fails ELSE Gives(z)
    BY ColumnFacts DEF Each
  <1>2. ColumnOf(A, x) /\ Stands(A, x, y) /\ Stands(B, y, x)
    BY <1>1 DEF SeenIn, ColumnOf, Stands
  <1> HIDE DEF x, y, A, B
  <1>3. /\ Pure!Refused(op, A, B) <=> Failing(op, x, y) # {}
        /\ Pure!Answer(op, A, B) = <<"col", z>>
    BY <1>1, <1>2, PureOfColumns
  <1> HIDE DEF z
  <1>4. CASE Failing(op, x, y) # {}
    BY <1>1, <1>3, <1>4, FailsIsPure DEF A, B
  <1>5. CASE Failing(op, x, y) = {}
    BY <1>1, <1>3, <1>5, GivesIsPure DEF A, B
  <1> QED
    BY <1>4, <1>5

LEMMA BroadcastIsPure ==
  ASSUME InPlaceInv, NEW op \in Ops, BroadcastArith(op)
  PROVE  Pure!Operate(op)
  <1> DEFINE x == IF IsCol(First) THEN heap[First[2]].data
                  ELSE Broadcast(First[2], Len(heap[Second[2]].data))
             y == IF IsCol(First) THEN Broadcast(Second[2], Len(heap[First[2]].data))
                  ELSE heap[Second[2]].data
             A == SeenIn(heap, First)
             B == SeenIn(heap, Second)
             z == Each(op, x, y)
  <1>1. /\ Len(stack) >= 2 /\ IsCol(First) # IsCol(Second) /\ named' = named
        /\ IF Failing(op, x, y) # {} THEN Fails ELSE Gives(z)
    BY BroadcastFacts DEF Each
  <1>2. heap \in Heap
    BY InvIsTyped
  <1>3. /\ ColumnOf(A, x) \/ ColumnOf(B, y)
        /\ Stands(A, x, y) /\ Stands(B, y, x) /\ Len(x) = Len(y)
    <2>1. CASE IsCol(First)
      <3>1. ~IsCol(Second)
        BY <1>1, <2>1 DEF IsCol
      <3>2. /\ First[2] \in Cols /\ Second[2] \in Elem
            /\ Second = <<"num", Second[2]>>
        BY <1>1, <2>1, <3>1, OperandForms
      <3>3. A = <<"col", heap[First[2]].data>> /\ B = Second
        BY <2>1, <3>1 DEF SeenIn
      <3>4. /\ x = heap[First[2]].data
            /\ y = Broadcast(Second[2], Len(heap[First[2]].data))
        BY <2>1
      <3>5. Len(heap[First[2]].data) \in Nat
        BY <1>2, <3>2, LenProperties DEF Heap, Column
      <3> HIDE DEF x, y, A, B
      <3>6. Len(y) = Len(x)
        BY <3>2, <3>4, <3>5, BroadcastIsColumn
      <3> QED
        BY <3>2, <3>3, <3>4, <3>6 DEF ColumnOf, Stands
    <2>2. CASE ~IsCol(First)
      <3>1. IsCol(Second)
        BY <1>1, <2>2 DEF IsCol
      <3>2. /\ Second[2] \in Cols /\ First[2] \in Elem
            /\ First = <<"num", First[2]>>
        BY <1>1, <2>2, <3>1, OperandForms
      <3>3. B = <<"col", heap[Second[2]].data>> /\ A = First
        BY <2>2, <3>1 DEF SeenIn
      <3>4. /\ y = heap[Second[2]].data
            /\ x = Broadcast(First[2], Len(heap[Second[2]].data))
        BY <2>2
      <3>5. Len(heap[Second[2]].data) \in Nat
        BY <1>2, <3>2, LenProperties DEF Heap, Column
      <3> HIDE DEF x, y, A, B
      <3>6. Len(x) = Len(y)
        BY <3>2, <3>4, <3>5, BroadcastIsColumn
      <3> QED
        BY <3>2, <3>3, <3>4, <3>6 DEF ColumnOf, Stands
    <2> QED
      BY <2>1, <2>2
  <1> HIDE DEF x, y, A, B
  <1>4. /\ Pure!Refused(op, A, B) <=> Failing(op, x, y) # {}
        /\ Pure!Answer(op, A, B) = <<"col", z>>
    BY <1>3, PureOfColumns
  <1> HIDE DEF z
  <1>5. CASE Failing(op, x, y) # {}
    BY <1>1, <1>4, <1>5, FailsIsPure DEF A, B
  <1>6. CASE Failing(op, x, y) = {}
    BY <1>1, <1>4, <1>6, GivesIsPure DEF A, B
  <1> QED
    BY <1>5, <1>6

LEMMA MismatchIsPure ==
  ASSUME InPlaceInv, LengthMismatch, NEW op
  PROVE  Pure!Operate(op)
  <1> DEFINE x == heap[First[2]].data
             y == heap[Second[2]].data
  <1>1. /\ Len(stack) >= 2 /\ IsCol(First) /\ IsCol(Second)
        /\ Len(x) # Len(y) /\ named' = named /\ Fails
    BY MismatchFacts
  <1>2. SeenIn(heap, First) = <<"col", x>> /\ SeenIn(heap, Second) = <<"col", y>>
    BY <1>1 DEF SeenIn
  <1> HIDE DEF x, y
  <1>3. Pure!Refused(op, SeenIn(heap, First), SeenIn(heap, Second))
    BY <1>1, <1>2, PureOfMismatch
  <1> QED
    BY <1>1, <1>3, FailsIsPure

LEMMA PushIsPure ==
  ASSUME InPlaceInv, NEW v \in Value \ {<<>>}, Push(v)
  PROVE  Pure!Push(SeenIn(heap, v))
  <1>1. Moved /\ named' = named /\ stack' = Append(stack, v)
    BY PushMoves
  <1>2. /\ heap \in Heap /\ stack \in Seq(Value) /\ named \in [Names -> Value]
        /\ Append(stack, v) \in Seq(Value)
    BY InvIsTyped, AppendProperties
  <1>3. /\ Shown' = ShownIn(heap, Append(stack, v))
        /\ ShownNames' = NamedIn(heap, named)
    BY <1>1, <1>2, ShownAfter DEF Moved
  <1>4. Shown' = Append(Shown, SeenIn(heap, v)) /\ ShownNames' = ShownNames
    BY <1>2, <1>3, ShownOneMore DEF Shown, ShownNames
  <1> QED
    BY <1>4, PurePush

LEMMA BindIsPure ==
  ASSUME InPlaceInv, NEW n \in Names, Bind(n)
  PROVE  Pure!Bind(n)
  <1> DEFINE v == stack[Len(stack)]
  <1>1. /\ Moved /\ stack' = stack /\ stack # <<>>
        /\ named' = [named EXCEPT ![n] = v] /\ named' \in [Names -> Value]
    BY BindMoves
  <1>2. heap \in Heap /\ stack \in Seq(Value) /\ Len(stack) \in Nat /\ named \in [Names -> Value]
    BY InvIsTyped
  <1>3. Len(stack) \in 1..Len(stack) /\ Len(stack) # 0
    BY <1>1, <1>2, EmptySeq
  <1>4. Len(Shown) = Len(stack) /\ Shown[Len(Shown)] = SeenIn(heap, v) /\ Shown # <<>>
    <2>1. Len(Shown) = Len(stack) /\ \A i \in 1..Len(stack) : Shown[i] = SeenIn(heap, stack[i])
      BY <1>2, ShownIsASeq DEF Shown
    <2>2. Shown # <<>>
      BY <1>3, <2>1
    <2> QED
      BY <1>3, <2>1, <2>2
  <1> HIDE DEF v
  <1>5. Shown' = Shown /\ ShownNames' = NamedIn(heap, [named EXCEPT ![n] = v])
    BY <1>1, <1>2, ShownAfter DEF Moved, Shown
  <1>6. NamedIn(heap, [named EXCEPT ![n] = v]) = [ShownNames EXCEPT ![n] = SeenIn(heap, v)]
    BY <1>2 DEF NamedIn, ShownNames
  <1> QED
    BY <1>4, <1>5, <1>6, PureBind

LEMMA ForgetIsPure ==
  ASSUME InPlaceInv, NEW n \in Names, Forget(n)
  PROVE  Pure!Forget(n)
  <1>1. /\ Moved /\ stack' = stack
        /\ named' = [named EXCEPT ![n] = <<>>] /\ named' \in [Names -> Value]
    BY ForgetMoves
  <1>2. heap \in Heap /\ stack \in Seq(Value) /\ named \in [Names -> Value]
    BY InvIsTyped
  <1>3. Shown' = Shown /\ ShownNames' = NamedIn(heap, [named EXCEPT ![n] = <<>>])
    BY <1>1, <1>2, ShownAfter DEF Moved, Shown
  <1>4. SeenIn(heap, <<>>) = <<>>
    BY DEF SeenIn, IsCol
  <1>5. NamedIn(heap, [named EXCEPT ![n] = <<>>]) = [ShownNames EXCEPT ![n] = <<>>]
    BY <1>2, <1>4 DEF NamedIn, ShownNames
  <1> QED
    BY <1>3, <1>5, PureForget

LEMMA PopIsPure ==
  ASSUME InPlaceInv, Pop
  PROVE  Pure!Pop
  <1> DEFINE ws == SubSeq(stack, 1, Len(stack) - 1)
  <1>1. Moved /\ named' = named /\ Len(stack) > 0 /\ stack' = ws
    BY PopMoves
  <1>2. heap \in Heap /\ stack \in Seq(Value) /\ Len(stack) \in Nat /\ named \in [Names -> Value]
    BY InvIsTyped
  <1>3. Len(stack) - 1 \in 0..Len(stack)
    BY <1>1, <1>2
  <1>4. ws \in Seq(Value)
    BY <1>2, <1>3, PartsOfASeq
  <1>5. Len(Shown) = Len(stack)
    BY <1>2, ShownIsASeq DEF Shown
  <1>6. ShownIn(heap, ws) = SubSeq(Shown, 1, Len(stack) - 1)
    BY <1>2, <1>3, ShownLess DEF Shown
  <1> HIDE DEF ws
  <1>7. Shown' = ShownIn(heap, ws) /\ ShownNames' = NamedIn(heap, named)
    BY <1>1, <1>2, <1>4, ShownAfter DEF Moved
  <1>8. Shown' = SubSeq(Shown, 1, Len(Shown) - 1) /\ ShownNames' = ShownNames
    BY <1>5, <1>6, <1>7 DEF ShownNames
  <1>9. Shown # <<>>
    BY <1>1, <1>5
  <1> QED
    BY <1>8, <1>9, PurePop

LEMMA InitIsPure ==
  ASSUME Init
  PROVE  Pure!PInit
  <1>1. stack = <<>> /\ named = [n \in Names |-> <<>>]
    BY DEF Init
  <1>2. [i \in 1..Len(stack) |-> Seen(stack[i])] = <<>>
    BY <1>1
  <1>3. Seen(<<>>) = <<>>
    BY DEF Seen, IsCol
  <1>4. [n \in Names |-> Seen(named[n])] = [n \in Names |-> <<>>]
    BY <1>1, <1>3
  <1> QED
    BY <1>2, <1>4 DEF Pure!PInit

LEMMA StepIsPure ==
  ASSUME InPlaceInv, Next
  PROVE  Pure!PNext
  <1>1. /\ lit \in [Literals -> Cols] /\ named \in [Names -> Value] /\ heap \in Heap
        /\ \A l \in Literals : heap[lit[l]].data = l
    BY InvIsTyped DEF InPlaceInv, LiteralsKept
  <1>2. CASE \E l \in Literals : Push(<<"col", lit[l]>>)
    <2>1. PICK l \in Literals : Push(<<"col", lit[l]>>)
      BY <1>2
    <2> DEFINE v == <<"col", lit[l]>>
    <2>2. v \in Value \ {<<>>} /\ Push(v)
      BY <1>1, <2>1 DEF Value
    <2>3. SeenIn(heap, v) = Pure!Col(l)
      BY <1>1 DEF SeenIn, IsCol, Pure!Col
    <2> HIDE DEF v
    <2>4. Pure!Push(Pure!Col(l))
      BY <2>2, <2>3, PushIsPure
    <2> QED
      BY <2>4 DEF Pure!PNext
  <1>3. CASE \E e \in Scalars : Push(<<"num", e>>)
    <2>1. PICK e \in Scalars : Push(<<"num", e>>)
      BY <1>3
    <2> DEFINE v == <<"num", e>>
    <2>2. v \in Value \ {<<>>} /\ Push(v)
      BY <2>1, InPlaceAssumption DEF Value
    <2>3. SeenIn(heap, v) = Pure!Num(e)
      BY DEF SeenIn, IsCol, Pure!Num
    <2> HIDE DEF v
    <2>4. Pure!Push(Pure!Num(e))
      BY <2>2, <2>3, PushIsPure
    <2> QED
      BY <2>4 DEF Pure!PNext
  <1>4. CASE \E n \in Names : named[n] # <<>> /\ Push(named[n])
    <2>1. PICK n \in Names : named[n] # <<>> /\ Push(named[n])
      BY <1>4
    <2> DEFINE v == named[n]
    <2>2. v \in Value \ {<<>>} /\ Push(v)
      BY <1>1, <2>1
    <2>3. SeenIn(heap, v) # <<>> /\ SeenIn(heap, v) = Seen(named[n])
      BY <2>2 DEF SeenIn, Seen, IsCol
    <2> DEFINE w == Seen(named[n])
    <2>4. Pure!Push(w) /\ w # <<>>
      BY <2>2, <2>3, PushIsPure
    <2>5. [k \in Names |-> Seen(named[k])][n] = w
      OBVIOUS
    <2> HIDE DEF w
    <2> QED
      BY <2>4, <2>5 DEF Pure!PNext
  <1>5. CASE \E n \in Names : Bind(n)
    BY <1>5, BindIsPure DEF Pure!PNext
  <1>6. CASE \E n \in Names : Forget(n)
    BY <1>6, ForgetIsPure DEF Pure!PNext
  <1>7. CASE Pop
    BY <1>7, PopIsPure DEF Pure!PNext
  <1>8. CASE LengthMismatch
    <2>1. PICK op \in Ops : TRUE
      BY ColumnsAssumption
    <2>2. Pure!Operate(op)
      BY <1>8, MismatchIsPure
    <2> QED
      BY <2>2 DEF Pure!PNext
  <1>9. CASE \E op \in Ops : ScalarArith(op) \/ ColumnArith(op) \/ BroadcastArith(op)
    <2>1. PICK op \in Ops : ScalarArith(op) \/ ColumnArith(op) \/ BroadcastArith(op)
      BY <1>9
    <2>2. Pure!Operate(op)
      BY <2>1, ScalarIsPure, ColumnIsPure, BroadcastIsPure
    <2> QED
      BY <2>2 DEF Pure!PNext
  <1> QED
    BY <1>2, <1>3, <1>4, <1>5, <1>6, <1>7, <1>8, <1>9 DEF Next

LEMMA StutterIsPure ==
  ASSUME UNCHANGED vars
  PROVE  UNCHANGED Pure!pvars
  BY DEF vars, Pure!pvars, Seen

(* Overwriting is "safe and unobservable" (SPEC section 10.2): whatever is   *)
(* overwritten, every name and every operand shows what it would show if     *)
(* each operation made a new column.                                         *)
THEOREM OverwritingIsUnobservable == Spec => ImplementsPureColumns
  <1>1. Init => Pure!PInit
    BY InitIsPure
  <1>2. InPlaceInv /\ [Next]_vars => [Pure!PNext]_(Pure!pvars)
    BY StepIsPure, StutterIsPure
  <1> QED
    BY <1>1, <1>2, Invariant, PTL DEF Spec, ImplementsPureColumns, Pure!PSpec
=============================================================================
