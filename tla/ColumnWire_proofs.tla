-------------------------- MODULE ColumnWire_proofs --------------------------
(***************************************************************************)
(* What is written of a column of scalars is read back, chunk by chunk,    *)
(* for any columns and any length of chunk, run, word and byte. The writer *)
(* has no choice, so where it will be after n steps is a function of the   *)
(* column, Way, and the reader is, between any two chunks, where the       *)
(* writer once was: that is the invariant.                                 *)
(***************************************************************************)
EXTENDS ColumnWire, SequenceTheorems, WellFoundedInduction, TLAPS

----------------------------------------------------------------------------
(* Induction over the natural numbers, for any property that can be written *)
(* as a set.                                                                *)
LEMMA LeastOfNats ==
  ASSUME NEW T, T \subseteq Nat, T # {}
  PROVE  \E m \in T : \A k \in T : m <= k
  <1> DEFINE R == {ss \in Nat \X Nat : ss[1] < ss[2]}
  <1>1. IsWellFoundedOn(R, Nat)
    BY NatLessThanWellFounded DEF OpToRel
  <1>2. \A x, y \in Nat : x < y => <<x, y>> \in R
    OBVIOUS
  <1> HIDE DEF R
  <1>3. PICK x \in T : \A y \in T : ~(<<y, x>> \in R)
    BY <1>1, WFMin
  <1>4. ASSUME NEW k \in T
        PROVE  x <= k
    <2>1. x \in Nat /\ k \in Nat /\ ~(k < x)
      BY <1>2, <1>3
    <2> QED
      BY <2>1
  <1> QED
    BY <1>4

LEMMA NatSetInduction ==
  ASSUME NEW T, 0 \in T, \A n \in Nat : n \in T => n + 1 \in T
  PROVE  Nat \subseteq T
  <1> SUFFICES ASSUME ~(Nat \subseteq T) PROVE FALSE
    OBVIOUS
  <1> DEFINE U == Nat \ T
  <1>1. U \subseteq Nat /\ U # {}
    OBVIOUS
  <1>2. PICK m \in U : \A k \in U : m <= k
    <2> HIDE DEF U
    <2> QED
      BY <1>1, LeastOfNats
  <1>3. m \in Nat /\ m - 1 \in Nat /\ m - 1 + 1 = m
    OBVIOUS
  <1>4. m - 1 \in T
    BY <1>2, <1>3
  <1> QED
    BY <1>3, <1>4

(* Recursion over them, with a function for the step.                       *)
Recurs(f, n, x0, F) == f[0] = x0 /\ \A k \in 1..n : f[k] = F[<<k - 1, f[k - 1]>>]

LEMMA RecursionUpTo ==
  ASSUME NEW S, NEW x0 \in S, NEW F \in [Nat \X S -> S]
  PROVE  \A n \in Nat : \E f \in [0..n -> S] : Recurs(f, n, x0, F)
  <1> DEFINE Good(f, n) == Recurs(f, n, x0, F)
             T == {n \in Nat : \E f \in [0..n -> S] : Good(f, n)}
  <1>1. 0 \in T
    <2> DEFINE f == [k \in 0..0 |-> x0]
    <2>1. f \in [0..0 -> S] /\ Good(f, 0)
      BY DEF Recurs
    <2> QED
      BY <2>1
  <1>2. ASSUME NEW n \in Nat, n \in T
        PROVE  n + 1 \in T
    <2>1. PICK f \in [0..n -> S] : Good(f, n)
      BY <1>2
    <2> DEFINE g == [k \in 0..n + 1 |-> IF k = n + 1 THEN F[<<n, f[n]>>] ELSE f[k]]
    <2>2. F[<<n, f[n]>>] \in S
      OBVIOUS
    <2>3. g \in [0..n + 1 -> S]
      BY <2>2
    <2>4. g[0] = x0
      BY <2>1 DEF Recurs
    <2>5. ASSUME NEW k \in 1..n + 1
          PROVE  g[k] = F[<<k - 1, g[k - 1]>>]
      <3>1. CASE k = n + 1
        <4>1. n + 1 - 1 = n /\ n \in 0..n + 1 /\ n # n + 1 /\ n + 1 \in 0..n + 1
          OBVIOUS
        <4>2. g[n + 1] = F[<<n, f[n]>>] /\ g[n] = f[n]
          BY <4>1
        <4> HIDE DEF g
        <4> QED
          BY <3>1, <4>1, <4>2
      <3>2. CASE k # n + 1
        <4>1. k \in 1..n /\ k - 1 \in 0..n /\ k - 1 # n + 1
          BY <3>2
        <4> QED
          BY <2>1, <4>1 DEF Recurs
      <3> QED
        BY <3>1, <3>2
    <2>6. Good(g, n + 1)
      BY <2>4, <2>5 DEF Recurs
    <2> HIDE DEF Good, g
    <2> QED
      BY <2>3, <2>6
  <1> HIDE DEF T
  <1>3. Nat \subseteq T
    BY <1>1, <1>2, NatSetInduction
  <1> QED
    BY <1>3 DEF T

RecursOn(f, x0, F) == f[0] = x0 /\ \A n \in Nat : f[n + 1] = F[<<n, f[n]>>]

LEMMA RecursionOnNat ==
  ASSUME NEW S, NEW x0 \in S, NEW F \in [Nat \X S -> S]
  PROVE  \E f \in [Nat -> S] : RecursOn(f, x0, F)
  <1> DEFINE Good(f, n) == Recurs(f, n, x0, F)
             g(n) == CHOOSE f \in [0..n -> S] : Good(f, n)
             h == [n \in Nat |-> g(n)[n]]
  <1>1. ASSUME NEW n \in Nat
        PROVE  g(n) \in [0..n -> S] /\ Good(g(n), n)
    <2>1. \E f \in [0..n -> S] : Good(f, n)
      BY RecursionUpTo
    <2> HIDE DEF Good
    <2> QED
      BY <2>1
  <1>2. ASSUME NEW n \in Nat
        PROVE  \A k \in 0..n : g(n + 1)[k] = g(n)[k]
    <2> DEFINE T == {k \in Nat : k <= n => g(n + 1)[k] = g(n)[k]}
    <2>0. n + 1 \in Nat
      OBVIOUS
    <2>1. Good(g(n), n) /\ Good(g(n + 1), n + 1)
      BY <1>1, <2>0
    <2> HIDE DEF g
    <2>2. 0 \in T
      BY <2>1 DEF Recurs
    <2>3. ASSUME NEW k \in Nat, k \in T
          PROVE  k + 1 \in T
      <3>1. SUFFICES ASSUME k + 1 <= n PROVE g(n + 1)[k + 1] = g(n)[k + 1]
        OBVIOUS
      <3>2. k + 1 \in 1..n /\ k + 1 \in 1..n + 1 /\ k + 1 - 1 = k /\ k <= n
        BY <3>1
      <3>3. g(n + 1)[k] = g(n)[k]
        BY <2>3, <3>2
      <3>4. g(n)[k + 1] = F[<<k + 1 - 1, g(n)[k + 1 - 1]>>]
        BY <2>1, <3>2 DEF Recurs
      <3>5. g(n + 1)[k + 1] = F[<<k + 1 - 1, g(n + 1)[k + 1 - 1]>>]
        BY <2>1, <3>2 DEF Recurs
      <3> QED
        BY <3>2, <3>3, <3>4, <3>5, Zenon
    <2> HIDE DEF T
    <2>4. Nat \subseteq T
      BY <2>2, <2>3, NatSetInduction
    <2> QED
      BY <2>4 DEF T
  <1>3. h \in [Nat -> S]
    <2>1. \A n \in Nat : g(n)[n] \in S
      <3> HIDE DEF g
      <3> QED
        BY <1>1
    <2> QED
      BY <2>1
  <1>4. h[0] = x0
    <2>1. Good(g(0), 0)
      BY <1>1
    <2> HIDE DEF g
    <2> QED
      BY <2>1 DEF Recurs
  <1>5. ASSUME NEW n \in Nat
        PROVE  h[n + 1] = F[<<n, h[n]>>]
    <2>1. n + 1 \in Nat /\ n + 1 \in 1..n + 1 /\ n + 1 - 1 = n /\ n \in 0..n
      OBVIOUS
    <2>2. Good(g(n + 1), n + 1) /\ g(n + 1)[n] = g(n)[n]
      BY <1>1, <1>2, <2>1
    <2> HIDE DEF g
    <2>3. g(n + 1)[n + 1] = F[<<n, g(n + 1)[n]>>]
      BY <2>1, <2>2 DEF Recurs
    <2> QED
      BY <2>1, <2>2, <2>3
  <1> HIDE DEF h
  <1> QED
    BY <1>3, <1>4, <1>5 DEF RecursOn

----------------------------------------------------------------------------
(* Products, quotients and remainders.                                      *)
LEMMA ProductsGrow ==
  \A a, b, c \in Nat :
    /\ a * c \in Nat /\ a * c = c * a
    /\ a <= b => a * c <= b * c /\ c * a <= c * b
    /\ (a + 1) * c = a * c + c /\ c * (a + 1) = c * a + c
  OBVIOUS

LEMMA DivMod ==
  ASSUME NEW a \in Int, NEW b \in Nat, b > 0
  PROVE  /\ a \div b \in Int /\ a % b \in 0..b - 1
         /\ a = b * (a \div b) + (a % b)
         /\ a >= 0 => a \div b >= 0 /\ a \div b <= a
  OBVIOUS

LEMMA DivModOf ==
  ASSUME NEW q \in Int, NEW b \in Nat, b > 0, NEW r \in 0..b - 1
  PROVE  (b * q + r) \div b = q /\ (b * q + r) % b = r
  OBVIOUS

LEMMA FunctionIsASeq ==
  ASSUME NEW S, NEW n \in Nat, NEW s \in [1..n -> S]
  PROVE  s \in Seq(S) /\ Len(s) = n
  OBVIOUS

----------------------------------------------------------------------------
(* Shifts, powers and digits, by the equations that define them.            *)
LEMMA ShiftSteps ==
  ASSUME NEW n \in Nat, NEW b \in Nat, b > 0
  PROVE  /\ Shift(n, b, 0) = n
         /\ \A k \in Nat : /\ Shift(n, b, k) \in Nat
                           /\ Shift(n, b, k + 1) = Shift(n, b, k) \div b
  <1> DEFINE F == [a \in Nat \X Nat |-> a[2] \div b]
             Is(s) == s = [j \in Nat |-> IF j = 0 THEN n ELSE s[j - 1] \div b]
             sh == CHOOSE s : Is(s)
  <1>1. F \in [Nat \X Nat -> Nat]
    <2>1. \A a \in Nat \X Nat : a[2] \in Nat
      OBVIOUS
    <2>2. \A a \in Nat \X Nat : a[2] \div b \in Nat
      BY <2>1, DivMod
    <2> QED
      BY <2>2
  <1>2. \A m, k \in Nat : F[<<k, m>>] = m \div b
    OBVIOUS
  <1> HIDE DEF F
  <1>0. PICK f \in [Nat -> Nat] : RecursOn(f, n, F)
    BY <1>1, RecursionOnNat
  <1>3. f[0] = n /\ \A k \in Nat : f[k + 1] = F[<<k, f[k]>>]
    BY <1>0 DEF RecursOn
  <1>4. Is(f)
    <2>1. ASSUME NEW j \in Nat
          PROVE  f[j] = IF j = 0 THEN n ELSE f[j - 1] \div b
      <3>1. CASE j = 0
        BY <1>3, <3>1
      <3>2. CASE j # 0
        <4>1. j - 1 \in Nat /\ j - 1 + 1 = j
          BY <3>2
        <4>2. f[j - 1 + 1] = F[<<j - 1, f[j - 1]>>]
          BY <1>3, <4>1
        <4> QED
          BY <1>2, <3>2, <4>1, <4>2
      <3> QED
        BY <3>1, <3>2
    <2> QED
      BY <2>1
  <1>5. Is(sh)
    <2> HIDE DEF Is
    <2> QED
      BY <1>4
  <1>6. \A k \in Nat : Shift(n, b, k) = sh[k]
    BY DEF Shift
  <1> HIDE DEF sh
  <1>7. sh[0] = n /\ \A k \in Nat : sh[k + 1] = sh[k] \div b
    <2>1. sh[0] = n
      BY <1>5
    <2>2. ASSUME NEW k \in Nat
          PROVE  sh[k + 1] = sh[k] \div b
      <3>1. k + 1 \in Nat /\ k + 1 # 0 /\ k + 1 - 1 = k
        OBVIOUS
      <3> QED
        BY <1>5, <3>1
    <2> QED
      BY <2>1, <2>2
  <1>8. \A k \in Nat : sh[k] \in Nat
    <2> DEFINE T == {k \in Nat : sh[k] \in Nat}
    <2>1. 0 \in T
      BY <1>7
    <2>2. \A k \in Nat : k \in T => k + 1 \in T
      BY <1>7, DivMod
    <2> HIDE DEF T
    <2>3. Nat \subseteq T
      BY <2>1, <2>2, NatSetInduction
    <2> QED
      BY <2>3 DEF T
  <1>9. \A k \in Nat : k + 1 \in Nat
    OBVIOUS
  <1> QED
    BY <1>6, <1>7, <1>8, <1>9

LEMMA PowerSteps ==
  ASSUME NEW b \in Nat, b > 0
  PROVE  /\ Power(b, 0) = 1
         /\ \A k \in Nat : /\ Power(b, k) \in Nat /\ Power(b, k) > 0
                           /\ Power(b, k + 1) = b * Power(b, k)
  <1> DEFINE F == [a \in Nat \X Nat |-> b * a[2]]
             Is(s) == s = [j \in Nat |-> IF j = 0 THEN 1 ELSE b * s[j - 1]]
             p == CHOOSE s : Is(s)
  <1>1. F \in [Nat \X Nat -> Nat]
    <2>1. \A a \in Nat \X Nat : a[2] \in Nat
      OBVIOUS
    <2>2. \A a \in Nat \X Nat : b * a[2] \in Nat
      BY <2>1, ProductsGrow
    <2> QED
      BY <2>2
  <1>2. \A m, k \in Nat : F[<<k, m>>] = b * m
    OBVIOUS
  <1> HIDE DEF F
  <1>0. PICK f \in [Nat -> Nat] : RecursOn(f, 1, F)
    BY <1>1, RecursionOnNat
  <1>3. f[0] = 1 /\ \A k \in Nat : f[k + 1] = F[<<k, f[k]>>]
    BY <1>0 DEF RecursOn
  <1>4. Is(f)
    <2>1. ASSUME NEW j \in Nat
          PROVE  f[j] = IF j = 0 THEN 1 ELSE b * f[j - 1]
      <3>1. CASE j = 0
        BY <1>3, <3>1
      <3>2. CASE j # 0
        <4>1. j - 1 \in Nat /\ j - 1 + 1 = j
          BY <3>2
        <4>2. f[j - 1 + 1] = F[<<j - 1, f[j - 1]>>]
          BY <1>3, <4>1
        <4> QED
          BY <1>2, <3>2, <4>1, <4>2
      <3> QED
        BY <3>1, <3>2
    <2> QED
      BY <2>1
  <1>5. Is(p)
    <2> HIDE DEF Is
    <2> QED
      BY <1>4
  <1>6. \A k \in Nat : Power(b, k) = p[k]
    BY DEF Power
  <1> HIDE DEF p
  <1>7. p[0] = 1 /\ \A k \in Nat : p[k + 1] = b * p[k]
    <2>1. p[0] = 1
      BY <1>5
    <2>2. ASSUME NEW k \in Nat
          PROVE  p[k + 1] = b * p[k]
      <3>1. k + 1 \in Nat /\ k + 1 # 0 /\ k + 1 - 1 = k
        OBVIOUS
      <3> QED
        BY <1>5, <3>1
    <2> QED
      BY <2>1, <2>2
  <1>8. \A k \in Nat : p[k] \in Nat /\ p[k] > 0
    <2> DEFINE T == {k \in Nat : p[k] \in Nat /\ p[k] > 0}
    <2>1. 0 \in T
      BY <1>7
    <2>2. ASSUME NEW k \in Nat, k \in T
          PROVE  k + 1 \in T
      <3>1. p[k] \in Nat /\ p[k] > 0 /\ p[k + 1] = b * p[k]
        BY <1>7, <2>2
      <3>2. \A x \in Nat : x > 0 => b * x \in Nat /\ b * x > 0
        OBVIOUS
      <3> QED
        BY <3>1, <3>2
    <2> HIDE DEF T
    <2>3. Nat \subseteq T
      BY <2>1, <2>2, NatSetInduction
    <2> QED
      BY <2>3 DEF T
  <1>9. \A k \in Nat : k + 1 \in Nat
    OBVIOUS
  <1> QED
    BY <1>6, <1>7, <1>8, <1>9

LEMMA ShiftsToZero ==
  ASSUME NEW n \in Nat, NEW b \in Nat, b > 0, NEW k \in Nat, n < Power(b, k)
  PROVE  Shift(n, b, k) = 0
  <1> DEFINE T == {j \in Nat : Shift(n, b, j) * Power(b, j) <= n}
  <1>1. 0 \in T
    BY ShiftSteps, PowerSteps
  <1>2. ASSUME NEW j \in Nat, j \in T
        PROVE  j + 1 \in T
    <2> DEFINE x == Shift(n, b, j)
               p == Power(b, j)
    <2>1. x \in Nat /\ p \in Nat /\ x * p <= n
      BY <1>2, ShiftSteps, PowerSteps
    <2>2. Shift(n, b, j + 1) = x \div b /\ Power(b, j + 1) = b * p
      BY ShiftSteps, PowerSteps
    <2> HIDE DEF x, p
    <2>3. x \div b \in Nat /\ x % b \in 0..b - 1 /\ x = b * (x \div b) + (x % b)
      BY <2>1, DivMod
    <2>4. (x \div b) * (b * p) <= x * p
      <3>1. \A q \in Nat, y \in Nat : b * q <= y => q * (b * p) <= y * p
        BY <2>1
      <3> QED
        BY <2>1, <2>3, <3>1
    <2>5. (x \div b) * (b * p) \in Nat /\ x * p \in Nat
      BY <2>1, <2>3, ProductsGrow
    <2> QED
      BY <2>1, <2>2, <2>4, <2>5
  <1> HIDE DEF T
  <1>3. k \in T
    BY <1>1, <1>2, NatSetInduction
  <1>4. Shift(n, b, k) \in Nat /\ Power(b, k) \in Nat
    BY ShiftSteps, PowerSteps
  <1>5. \A x, p \in Nat : x * p <= n /\ n < p => x = 0
    <2> SUFFICES ASSUME NEW x \in Nat, NEW p \in Nat, x * p <= n, n < p, x # 0
                 PROVE  FALSE
      OBVIOUS
    <2>1. p <= x * p
      <3>1. x - 1 \in Nat /\ (x - 1) * p \in Nat /\ x * p = (x - 1) * p + p
        OBVIOUS
      <3> QED
        BY <3>1
    <2> QED
      BY <2>1
  <1> QED
    BY <1>3, <1>4, <1>5 DEF T

(* The numbers that FromDigits goes through, the last digit first.          *)
Adds(v, ds, b, n) ==
  v[0] = 0 /\ \A j \in 1..n : v[j] = ds[n + 1 - j] + b * v[j - 1]

LEMMA DigitSteps ==
  ASSUME NEW b \in Nat, b > 0, NEW n \in Nat, NEW ds \in [1..n -> 0..b - 1]
  PROVE  \E v \in [0..n -> Nat] : Adds(v, ds, b, n) /\ FromDigits(ds, b) = v[n]
  <1>0. ds \in Seq(0..b - 1) /\ Len(ds) = n
    BY FunctionIsASeq
  <1> DEFINE F == [a \in Nat \X Nat |-> IF a[1] < n THEN ds[n - a[1]] + b * a[2] ELSE 0]
             Is(s) == s = [j \in 0..Len(ds) |->
                             IF j = 0 THEN 0 ELSE ds[Len(ds) + 1 - j] + b * s[j - 1]]
             v == CHOOSE s : Is(s)
  <1>1. F \in [Nat \X Nat -> Nat]
    <2>1. ASSUME NEW a \in Nat \X Nat
          PROVE  (IF a[1] < n THEN ds[n - a[1]] + b * a[2] ELSE 0) \in Nat
      <3>1. a[1] \in Nat /\ a[2] \in Nat /\ b * a[2] \in Nat
        BY ProductsGrow
      <3>2. CASE a[1] < n
        <4>1. n - a[1] \in 1..n
          BY <3>1, <3>2
        <4>2. ds[n - a[1]] \in Nat
          BY <4>1
        <4> QED
          BY <3>1, <3>2, <4>2
      <3> QED
        BY <3>2
    <2> QED
      BY <2>1
  <1>2. \A k, m \in Nat : k < n => F[<<k, m>>] = ds[n - k] + b * m
    OBVIOUS
  <1> HIDE DEF F
  <1>3. PICK f \in [0..n -> Nat] : Recurs(f, n, 0, F)
    BY <1>1, RecursionUpTo
  <1>4. Is(f)
    <2>1. ASSUME NEW j \in 0..n
          PROVE  f[j] = IF j = 0 THEN 0 ELSE ds[n + 1 - j] + b * f[j - 1]
      <3>1. CASE j = 0
        BY <1>3, <3>1 DEF Recurs
      <3>2. CASE j # 0
        <4>1. j - 1 \in Nat /\ j - 1 < n /\ n - (j - 1) = n + 1 - j /\ j \in 1..n
          BY <3>2
        <4>2. f[j - 1] \in Nat
          BY <4>1
        <4>3. f[j] = F[<<j - 1, f[j - 1]>>]
          BY <1>3, <4>1 DEF Recurs
        <4> QED
          BY <1>2, <3>2, <4>1, <4>2, <4>3
      <3> QED
        BY <3>1, <3>2
    <2> QED
      BY <1>0, <2>1
  <1>5. Is(v)
    <2> HIDE DEF Is
    <2> QED
      BY <1>4
  <1>6. FromDigits(ds, b) = v[n]
    BY <1>0 DEF FromDigits
  <1> HIDE DEF v
  <1>7. v = [j \in 0..n |-> IF j = 0 THEN 0 ELSE ds[n + 1 - j] + b * v[j - 1]]
    BY <1>0, <1>5
  <1>8. v[0] = 0 /\ \A j \in 1..n : v[j] = ds[n + 1 - j] + b * v[j - 1]
    <2>1. 0 \in 0..n /\ \A j \in 1..n : j \in 0..n /\ j # 0
      OBVIOUS
    <2> QED
      BY <1>7, <2>1
  <1>9. \A j \in 0..n : v[j] \in Nat
    <2> DEFINE T == {j \in Nat : j <= n => v[j] \in Nat}
    <2>1. 0 \in T
      BY <1>8
    <2>2. ASSUME NEW j \in Nat, j \in T
          PROVE  j + 1 \in T
      <3>1. SUFFICES ASSUME j + 1 <= n PROVE v[j + 1] \in Nat
        OBVIOUS
      <3>2. j + 1 \in 1..n /\ j + 1 - 1 = j /\ v[j] \in Nat /\ n + 1 - (j + 1) \in 1..n
        BY <2>2, <3>1
      <3>3. v[j + 1] = ds[n + 1 - (j + 1)] + b * v[j]
        BY <1>8, <3>2
      <3>4. ds[n + 1 - (j + 1)] \in Nat /\ b * v[j] \in Nat
        BY <3>2, ProductsGrow
      <3>5. \A x, y \in Nat : x + y \in Nat
        OBVIOUS
      <3> QED
        BY <3>3, <3>4, <3>5, Zenon
    <2> HIDE DEF T
    <2>3. Nat \subseteq T
      BY <2>1, <2>2, NatSetInduction
    <2> QED
      BY <2>3 DEF T
  <1>10. v \in [0..n -> Nat]
    BY <1>7, <1>9
  <1> QED
    BY <1>6, <1>8, <1>10 DEF Adds

(* A number is had back from enough of its digits.                          *)
LEMMA DigitsBack ==
  ASSUME NEW m \in Nat, NEW b \in Nat, b > 0, NEW n \in Nat, Shift(m, b, n) = 0
  PROVE  /\ Digits(m, b, n) \in [1..n -> 0..b - 1]
         /\ FromDigits(Digits(m, b, n), b) = m
  <1> DEFINE ds == Digits(m, b, n)
  <1>1. \A k \in Nat : Shift(m, b, k) \in Nat /\ Shift(m, b, k + 1) = Shift(m, b, k) \div b
    BY ShiftSteps
  <1>2. \A k \in 1..n : ds[k] = Shift(m, b, k - 1) % b /\ k - 1 \in Nat
    BY DEF Digits
  <1>3. ds \in [1..n -> 0..b - 1]
    <2>1. \A k \in 1..n : Shift(m, b, k - 1) % b \in 0..b - 1
      BY <1>1, <1>2, DivMod
    <2> QED
      BY <2>1 DEF Digits
  <1> HIDE DEF ds
  <1>4. PICK v \in [0..n -> Nat] : Adds(v, ds, b, n) /\ FromDigits(ds, b) = v[n]
    <2>1. \E v \in [0..n -> Nat] : Adds(v, ds, b, n) /\ FromDigits(ds, b) = v[n]
      <3>1. \A d \in [1..n -> 0..b - 1] :
              \E v \in [0..n -> Nat] : Adds(v, d, b, n) /\ FromDigits(d, b) = v[n]
        BY DigitSteps
      <3> QED
        BY <1>3, <3>1, Zenon
    <2> QED
      BY <2>1, Zenon
  <1> DEFINE T == {j \in Nat : j <= n => v[j] = Shift(m, b, n - j)}
  <1>5. 0 \in T
    BY <1>4 DEF Adds
  <1>6. ASSUME NEW j \in Nat, j \in T
        PROVE  j + 1 \in T
    <2>1. SUFFICES ASSUME j + 1 <= n PROVE v[j + 1] = Shift(m, b, n - (j + 1))
      OBVIOUS
    <2> DEFINE k == n - (j + 1)
    <2>2. /\ j + 1 \in 1..n /\ j + 1 - 1 = j /\ k \in Nat /\ k + 1 = n - j
          /\ n + 1 - (j + 1) = k + 1 /\ k + 1 \in 1..n /\ k + 1 - 1 = k
      BY <2>1
    <2> HIDE DEF k
    <2>3. v[j] = Shift(m, b, k + 1)
      BY <1>6, <2>1, <2>2
    <2>4. v[j + 1] = ds[k + 1] + b * v[j]
      <3>1. v[j + 1] = ds[n + 1 - (j + 1)] + b * v[j + 1 - 1]
        BY <1>4, <2>2 DEF Adds
      <3> QED
        BY <2>2, <3>1, Zenon
    <2>5. ds[k + 1] = Shift(m, b, k) % b
      BY <1>2, <2>2
    <2>6. Shift(m, b, k) \in Nat /\ Shift(m, b, k + 1) = Shift(m, b, k) \div b
      BY <1>1, <2>2
    <2>7. Shift(m, b, k) = b * (Shift(m, b, k) \div b) + (Shift(m, b, k) % b)
      <3> DEFINE x == Shift(m, b, k)
      <3>1. x \in Int
        BY <2>6
      <3> HIDE DEF x
      <3>2. x = b * (x \div b) + (x % b)
        BY <3>1, DivMod
      <3> QED
        BY <3>2 DEF x
    <2>8. v[j + 1] = Shift(m, b, k)
      <3>1. b * (Shift(m, b, k) \div b) \in Int /\ Shift(m, b, k) % b \in Int
        BY <2>6, DivMod
      <3> QED
        BY <2>3, <2>4, <2>5, <2>6, <2>7, <3>1
    <2> QED
      BY <2>8 DEF k
  <1> HIDE DEF T
  <1>7. n \in T
    BY <1>5, <1>6, NatSetInduction
  <1>8. v[n] = Shift(m, b, 0)
    <2>1. n - n = 0
      OBVIOUS
    <2> QED
      BY <1>7, <2>1 DEF T
  <1>9. Shift(m, b, 0) = m
    BY ShiftSteps
  <1> QED
    BY <1>3, <1>4, <1>8, <1>9 DEF ds

(* What some digits stand for is less than the power of their count, and    *)
(* each digit is there after as many shifts as there are digits before it.  *)
LEMMA ShiftedDigits ==
  ASSUME NEW b \in Nat, b > 0, NEW n \in Nat, NEW ds \in [1..n -> 0..b - 1]
  PROVE  /\ FromDigits(ds, b) \in Nat /\ FromDigits(ds, b) < Power(b, n)
         /\ \A k \in 0..n - 1 : Shift(FromDigits(ds, b), b, k) % b = ds[k + 1]
  <1> DEFINE m == FromDigits(ds, b)
  <1>1. PICK v \in [0..n -> Nat] : Adds(v, ds, b, n) /\ m = v[n]
    BY DigitSteps
  <1> HIDE DEF m
  <1>2. m \in Nat
    BY <1>1
  <1>3. \A j \in 1..n : /\ v[j - 1] \in Nat /\ ds[n + 1 - j] \in 0..b - 1
                        /\ v[j] \div b = v[j - 1] /\ v[j] % b = ds[n + 1 - j]
    <2> SUFFICES ASSUME NEW j \in 1..n
                 PROVE  /\ v[j - 1] \in Nat /\ ds[n + 1 - j] \in 0..b - 1
                        /\ v[j] \div b = v[j - 1] /\ v[j] % b = ds[n + 1 - j]
      OBVIOUS
    <2>1. j - 1 \in 0..n /\ n + 1 - j \in 1..n
      OBVIOUS
    <2>2. v[j - 1] \in Nat /\ ds[n + 1 - j] \in 0..b - 1
      BY <2>1
    <2> DEFINE q == v[j - 1]
               r == ds[n + 1 - j]
    <2>3. v[j] = r + b * q
      BY <1>1 DEF Adds
    <2>4. q \in Int /\ r \in 0..b - 1
      BY <2>2
    <2> HIDE DEF q, r
    <2>5. b * q \in Int /\ r + b * q = b * q + r
      BY <2>4
    <2>6. (b * q + r) \div b = q /\ (b * q + r) % b = r
      BY <2>4, DivModOf
    <2>7. v[j] \div b = q /\ v[j] % b = r
      BY <2>3, <2>5, <2>6, Zenon
    <2> QED
      BY <2>2, <2>7 DEF q, r
  <1>4. m < Power(b, n)
    <2> DEFINE T == {j \in Nat : j <= n => v[j] < Power(b, j)}
    <2>1. 0 \in T
      BY <1>1, PowerSteps DEF Adds
    <2>2. ASSUME NEW j \in Nat, j \in T
          PROVE  j + 1 \in T
      <3>1. SUFFICES ASSUME j + 1 <= n PROVE v[j + 1] < Power(b, j + 1)
        OBVIOUS
      <3>2. j + 1 \in 1..n /\ j + 1 - 1 = j /\ v[j] < Power(b, j) /\ j \in 0..n
        BY <2>2, <3>1
      <3>3. /\ v[j] \in Nat /\ ds[n + 1 - (j + 1)] \in 0..b - 1
            /\ v[j + 1] = ds[n + 1 - (j + 1)] + b * v[j]
        <4>1. v[j + 1] = ds[n + 1 - (j + 1)] + b * v[j + 1 - 1]
          BY <1>1, <3>2 DEF Adds
        <4>2. v[j + 1] = ds[n + 1 - (j + 1)] + b * v[j]
          BY <3>2, <4>1, Zenon
        <4> QED
          BY <1>3, <3>2, <4>2
      <3>4. Power(b, j) \in Nat /\ Power(b, j + 1) = b * Power(b, j)
        BY PowerSteps
      <3>5. \A x, p \in Nat : x < p => b * x + b <= b * p
        <4> SUFFICES ASSUME NEW x \in Nat, NEW p \in Nat, x < p PROVE b * x + b <= b * p
          OBVIOUS
        <4>1. x + 1 \in Nat /\ x + 1 <= p
          OBVIOUS
        <4>2. b * (x + 1) <= b * p /\ b * (x + 1) = b * x + b
          BY <4>1, ProductsGrow
        <4> QED
          BY <4>2
      <3>6. b * v[j] + b <= b * Power(b, j)
        BY <3>2, <3>3, <3>4, <3>5
      <3>7. b * v[j] \in Nat /\ b * Power(b, j) \in Nat
        BY <3>3, <3>4, ProductsGrow
      <3>8. \A d \in 0..b - 1 : \A x, y \in Nat : x + b <= y => d + x < y
        OBVIOUS
      <3>9. ds[n + 1 - (j + 1)] + b * v[j] < b * Power(b, j)
        BY <3>3, <3>6, <3>7, <3>8
      <3> QED
        BY <3>3, <3>4, <3>9, Zenon
    <2> HIDE DEF T
    <2>3. n \in T
      BY <2>1, <2>2, NatSetInduction
    <2> QED
      BY <1>1, <2>3 DEF T
  <1>5. \A k \in 0..n : Shift(m, b, k) = v[n - k]
    <2> DEFINE T == {k \in Nat : k <= n => Shift(m, b, k) = v[n - k]}
    <2>1. 0 \in T
      BY <1>1, <1>2, ShiftSteps
    <2>2. ASSUME NEW k \in Nat, k \in T
          PROVE  k + 1 \in T
      <3>1. SUFFICES ASSUME k + 1 <= n PROVE Shift(m, b, k + 1) = v[n - (k + 1)]
        OBVIOUS
      <3>2. n - k \in 1..n /\ n - k - 1 = n - (k + 1)
        BY <3>1
      <3>3. Shift(m, b, k + 1) = Shift(m, b, k) \div b
        BY <1>2, ShiftSteps
      <3>4. Shift(m, b, k) = v[n - k]
        BY <2>2, <3>1
      <3>5. v[n - k] \div b = v[n - k - 1]
        BY <1>3, <3>2
      <3> QED
        BY <3>2, <3>3, <3>4, <3>5
    <2> HIDE DEF T
    <2>3. Nat \subseteq T
      BY <2>1, <2>2, NatSetInduction
    <2> QED
      BY <2>3 DEF T
  <1>6. ASSUME NEW k \in 0..n - 1
        PROVE  Shift(m, b, k) % b = ds[k + 1]
    <2>1. k \in 0..n /\ n - k \in 1..n /\ n + 1 - (n - k) = k + 1
      OBVIOUS
    <2> QED
      BY <1>3, <1>5, <2>1
  <1> QED
    BY <1>2, <1>4, <1>6 DEF m

----------------------------------------------------------------------------
(* Bytes and words, and the elements that are put in them.                  *)
LEMMA Bases ==
  /\ Base \in Nat /\ Base >= 2 /\ Base > 0 /\ WordBase \in Nat /\ WordBase >= 2
  /\ \E h \in Nat : WordBase = 2 * h
  /\ Power(Base, 1) = Base /\ Power(Base, WordLen) = WordBase
  <1>0. WordLen \in Nat /\ WordLen > 0 /\ ByteBits \in Nat /\ ByteBits > 0
    BY ChunksAssumption
  <1>1. /\ ByteBits - 1 \in Nat /\ ByteBits - 1 + 1 = ByteBits
        /\ WordLen - 1 \in Nat /\ WordLen - 1 + 1 = WordLen
    BY <1>0
  <1>2. Base = 2 * Power(2, ByteBits - 1)
    <2>1. Power(2, ByteBits - 1 + 1) = 2 * Power(2, ByteBits - 1)
      BY <1>1, PowerSteps
    <2> QED
      BY <1>1, <2>1 DEF Base
  <1>3. Power(2, ByteBits - 1) \in Nat /\ Power(2, ByteBits - 1) > 0
    BY <1>1, PowerSteps
  <1>4. Base \in Nat /\ Base >= 2 /\ Base > 0
    BY <1>2, <1>3
  <1>5. WordBase = Base * Power(Base, WordLen - 1)
    <2>1. Power(Base, WordLen - 1 + 1) = Base * Power(Base, WordLen - 1)
      BY <1>1, <1>4, PowerSteps
    <2> QED
      BY <1>1, <2>1 DEF WordBase
  <1>6. Power(Base, WordLen - 1) \in Nat /\ Power(Base, WordLen - 1) > 0
    BY <1>1, <1>4, PowerSteps
  <1>7. WordBase \in Nat /\ WordBase >= 2 /\ \E h \in Nat : WordBase = 2 * h
    <2> DEFINE g == Power(2, ByteBits - 1)
               p == Power(Base, WordLen - 1)
    <2>1. g \in Nat /\ g > 0 /\ p \in Nat /\ p > 0 /\ WordBase = (2 * g) * p
      BY <1>2, <1>3, <1>5, <1>6
    <2> HIDE DEF g, p
    <2>2. g * p \in Nat /\ g * p > 0 /\ (2 * g) * p = 2 * (g * p)
      BY <2>1
    <2> QED
      BY <2>1, <2>2
  <1>8. Power(Base, 1) = Base
    <2>1. Power(Base, 0) = 1 /\ Power(Base, 0 + 1) = Base * Power(Base, 0)
      BY <1>4, PowerSteps
    <2> QED
      BY <1>4, <2>1
  <1> QED
    BY <1>4, <1>7, <1>8 DEF WordBase

(* A number in n bytes.                                                     *)
LEMMA LEBack ==
  ASSUME NEW m \in Nat, NEW n \in Nat, Shift(m, Base, n) = 0
  PROVE  /\ LE(m, n) \in [1..n -> 0..Base - 1]
         /\ FromDigits(LE(m, n), Base) = m
  BY Bases, DigitsBack DEF LE

LEMMA LEFits ==
  ASSUME NEW m \in Nat, NEW n \in Nat, m < Power(Base, n)
  PROVE  /\ LE(m, n) \in [1..n -> 0..Base - 1]
         /\ FromDigits(LE(m, n), Base) = m
         /\ Shift(m, Base, n) = 0
  <1>1. Shift(m, Base, n) = 0
    BY Bases, ShiftsToZero
  <1> QED
    BY <1>1, LEBack

LEMMA SizesAre ==
  ASSUME NEW kind \in Scalars
  PROVE  SizeOf(kind) \in Nat /\ SizeOf(kind) > 0
  BY ChunksAssumption DEF SizeOf

LEMMA CodeBack ==
  ASSUME NEW kind \in Scalars \ {"bit"}, NEW v \in Elements(kind)
  PROVE  /\ Code(kind, v) \in [1..SizeOf(kind) -> 0..Base - 1]
         /\ Uncode(kind, Code(kind, v)) = v
  <1>0. kind \in {"u8", "i64", "f64"} /\ WordLen \in Nat
    BY ChunksAssumption DEF Scalars
  <1>1. CASE kind = "u8"
    <2>1. v \in Nat /\ v < Power(Base, 1) /\ SizeOf(kind) = 1
      BY <1>1, Bases DEF Elements, SizeOf
    <2>2. Code(kind, v) = LE(v, 1)
      BY <1>1, <2>1 DEF Code
    <2>3. LE(v, 1) \in [1..1 -> 0..Base - 1] /\ FromDigits(LE(v, 1), Base) = v
      BY <2>1, LEFits
    <2> QED
      BY <1>1, <2>1, <2>2, <2>3 DEF Uncode
  <1>2. CASE kind = "f64"
    <2>1. v \in Nat /\ v < Power(Base, WordLen) /\ SizeOf(kind) = WordLen
      BY <1>2, Bases DEF Elements, SizeOf
    <2>2. Code(kind, v) = LE(v, WordLen)
      BY <1>2, <2>1 DEF Code
    <2>3. /\ LE(v, WordLen) \in [1..WordLen -> 0..Base - 1]
          /\ FromDigits(LE(v, WordLen), Base) = v
      BY <1>0, <2>1, LEFits
    <2> QED
      BY <1>2, <2>1, <2>2, <2>3 DEF Uncode
  <1>3. CASE kind = "i64"
    <2>1. v \in -(WordBase \div 2)..WordBase \div 2 - 1 /\ SizeOf(kind) = WordLen
      BY <1>3 DEF Elements, SizeOf
    <2> DEFINE u == v % WordBase
    <2>2. u \in Nat /\ u < WordBase /\ Signed(u) = v
      <3>1. PICK h \in Nat : WordBase = 2 * h
        BY Bases
      <3>2. WordBase \div 2 = h /\ h > 0
        BY <3>1, Bases
      <3>3. v \in -h..h - 1
        BY <2>1, <3>2
      <3>4. CASE v >= 0
        <4>1. u = v
          BY <3>1, <3>2, <3>3, <3>4
        <4> QED
          BY <3>1, <3>3, <3>4, <4>1 DEF Signed
      <3>5. CASE v < 0
        <4>1. u = v + 2 * h
          BY <3>1, <3>2, <3>3, <3>5
        <4> QED
          BY <3>1, <3>3, <3>5, <4>1 DEF Signed
      <3> QED
        BY <3>3, <3>4, <3>5
    <2>3. Code(kind, v) = LE(u, WordLen)
      BY <1>3, <2>1 DEF Code
    <2> HIDE DEF u
    <2>4. /\ LE(u, WordLen) \in [1..WordLen -> 0..Base - 1]
          /\ FromDigits(LE(u, WordLen), Base) = u
      BY <1>0, <2>2, Bases, LEFits
    <2> QED
      BY <1>3, <2>1, <2>2, <2>3, <2>4 DEF Uncode
  <1> QED
    BY <1>0, <1>1, <1>2, <1>3

(* Integers as natural numbers, small ones as small ones.                   *)
LEMMA ZigZagBack ==
  ASSUME NEW v \in Elements("i64")
  PROVE  /\ ZigZag(v) \in Nat /\ ZigZag(v) < Power(Base, WordLen)
         /\ UnZigZag(ZigZag(v)) = v
  <1>1. PICK h \in Nat : WordBase = 2 * h
    BY Bases
  <1>2. v \in -h..h - 1
    BY <1>1, Bases DEF Elements
  <1>3. ZigZag(v) \in Nat /\ ZigZag(v) < 2 * h
    BY <1>2 DEF ZigZag
  <1>4. UnZigZag(ZigZag(v)) = v
    <2>1. CASE v < 0
      <3>1. ZigZag(v) = -2 * v - 1 /\ -2 * v - 1 = 2 * (-v - 1) + 1 /\ -v - 1 \in Nat
        BY <1>2, <2>1 DEF ZigZag
      <3>2. (2 * (-v - 1) + 1) % 2 = 1 /\ (2 * (-v - 1) + 1 + 1) \div 2 = -v
        BY <1>2, <2>1
      <3> QED
        BY <1>2, <3>1, <3>2 DEF UnZigZag
    <2>2. CASE ~(v < 0)
      <3>1. ZigZag(v) = 2 * v
        BY <1>2, <2>2 DEF ZigZag
      <3>2. (2 * v) % 2 = 0 /\ (2 * v) \div 2 = v
        BY <1>2, <2>2
      <3> QED
        BY <1>2, <3>1, <3>2 DEF UnZigZag
    <2> QED
      BY <2>1, <2>2
  <1> QED
    BY <1>1, <1>3, <1>4, Bases

(* The width of some integers is that of the widest.                        *)
LEMMA WidthFits ==
  ASSUME NEW n \in Nat, NEW s \in [1..n -> Elements("i64")]
  PROVE  Width(s) \in 0..WordLen /\ Fits(s, Width(s))
  <1>1. WordLen \in Nat /\ s \in Seq(Elements("i64")) /\ Len(s) = n
    BY FunctionIsASeq, ChunksAssumption
  <1>2. Fits(s, WordLen)
    <2>1. ASSUME NEW i \in 1..n
          PROVE  Shift(ZigZag(s[i]), Base, WordLen) = 0
      <3>1. ZigZag(s[i]) \in Nat /\ ZigZag(s[i]) < Power(Base, WordLen)
        BY ZigZagBack
      <3> QED
        BY <1>1, <3>1, Bases, ShiftsToZero
    <2> QED
      BY <1>1, <2>1 DEF Fits
  <1> DEFINE T == {w \in 0..WordLen : Fits(s, w)}
  <1>3. T \subseteq Nat /\ T # {}
    BY <1>1, <1>2
  <1> HIDE DEF T
  <1>4. PICK w \in T : \A u \in T : w <= u
    BY <1>3, LeastOfNats
  <1>5. w \in 0..WordLen /\ Fits(s, w) /\ \A u \in 0..w - 1 : ~Fits(s, u)
    BY <1>1, <1>4 DEF T
  <1>6. \E x \in 0..WordLen : Fits(s, x) /\ \A u \in 0..x - 1 : ~Fits(s, u)
    BY <1>5
  <1> QED
    BY <1>6 DEF Width

----------------------------------------------------------------------------
(* Items of one length, one after the other, and as many bytes taken apart. *)
InOrder(c, items, n, w) ==
  \A k \in 1..n, j \in 1..w :
    (k - 1) * w + j \in 1..n * w /\ c[(k - 1) * w + j] = items[k][j]

LEMMA JoinedItems ==
  ASSUME NEW S, NEW n \in Nat, NEW w \in Nat, NEW items \in [1..n -> [1..w -> S]]
  PROVE  Joined(items, w) \in [1..n * w -> S] /\ InOrder(Joined(items, w), items, n, w)
  <1>1. items \in Seq([1..w -> S]) /\ Len(items) = n
    BY FunctionIsASeq
  <1>2. n * w \in Nat
    BY ProductsGrow
  <1>3. ASSUME NEW p \in 1..n * w
        PROVE  items[(p - 1) \div w + 1][((p - 1) % w) + 1] \in S
    <2>1. w > 0
      <3>1. w = 0 => n * w = 0
        OBVIOUS
      <3> QED
        BY <3>1
    <2> DEFINE q == (p - 1) \div w
               r == (p - 1) % w
    <2>2. p - 1 \in Int /\ p - 1 >= 0
      OBVIOUS
    <2>3. q \in Nat /\ r \in 0..w - 1 /\ p - 1 = w * q + r
      BY <2>1, <2>2, DivMod
    <2> HIDE DEF q, r
    <2>4. q < n
      <3> SUFFICES ASSUME n <= q PROVE FALSE
        BY <2>3
      <3>1. w * n <= w * q /\ w * n = n * w
        BY <2>3, ProductsGrow
      <3>2. w * q \in Nat
        BY <2>3, ProductsGrow
      <3> QED
        BY <1>2, <2>3, <3>1, <3>2
    <2>5. q + 1 \in 1..n /\ r + 1 \in 1..w
      BY <2>3, <2>4
    <2>6. items[q + 1][r + 1] \in S
      BY <2>5
    <2> QED
      BY <2>6 DEF q, r
  <1>4. Joined(items, w) = [p \in 1..n * w |-> items[(p - 1) \div w + 1][((p - 1) % w) + 1]]
    BY <1>1 DEF Joined
  <1>5. ASSUME NEW k \in 1..n, NEW j \in 1..w
        PROVE  /\ (k - 1) * w + j \in 1..n * w
               /\ Joined(items, w)[(k - 1) * w + j] = items[k][j]
    <2> DEFINE q == k - 1
               r == j - 1
               p == q * w + j
    <2>1. q \in Nat /\ q + 1 = k /\ q + 1 <= n /\ r \in 0..w - 1 /\ r + 1 = j /\ w > 0
      OBVIOUS
    <2> HIDE DEF q, r
    <2>2. q * w \in Nat /\ q * w = w * q /\ (q + 1) * w = q * w + w /\ (q + 1) * w <= n * w
      BY <2>1, ProductsGrow
    <2>3. p \in 1..n * w /\ p - 1 = w * q + r
      <3> DEFINE x == q * w
                 y == n * w
      <3>1. x \in Nat /\ y \in Nat /\ x + w <= y /\ w * q = x
        BY <1>2, <2>2
      <3> HIDE DEF x, y
      <3>2. x + j \in 1..y /\ x + j - 1 = x + r
        BY <2>1, <3>1
      <3> QED
        BY <3>1, <3>2 DEF x, y
    <2>4. (w * q + r) \div w = q /\ (w * q + r) % w = r
      BY <2>1, DivModOf
    <2>5. Joined(items, w)[p] = items[q + 1][r + 1]
      <3>1. Joined(items, w)[p] = items[(p - 1) \div w + 1][((p - 1) % w) + 1]
        BY <1>4, <2>3
      <3> HIDE DEF p
      <3> QED
        BY <2>3, <2>4, <3>1, Zenon
    <2> QED
      BY <2>1, <2>3, <2>5 DEF q
  <1> QED
    BY <1>3, <1>4, <1>5 DEF InOrder

(* What is in bytes b from place i on, as far as they go.                   *)
Agrees(b, i, c) == \A j \in 1..Len(c) : i + j - 1 <= Len(b) => b[i + j - 1] = c[j]

LEMMA PartsAgree ==
  ASSUME NEW S, NEW x \in Seq(S), NEW y \in Seq(S), NEW b, NEW i \in Nat,
         Agrees(b, i, x \o y)
  PROVE  Agrees(b, i, x) /\ Agrees(b, i + Len(x), y)
  <1>1. Len(x) \in Nat /\ Len(y) \in Nat
    BY LenProperties
  <1>2. /\ Len(x \o y) = Len(x) + Len(y)
        /\ \A j \in 1..Len(x) + Len(y) :
             (x \o y)[j] = IF j <= Len(x) THEN x[j] ELSE y[j - Len(x)]
    BY ConcatProperties
  <1>3. ASSUME NEW j \in 1..Len(x), i + j - 1 <= Len(b)
        PROVE  b[i + j - 1] = x[j]
    <2>1. j \in 1..Len(x) + Len(y) /\ j <= Len(x)
      BY <1>1
    <2> QED
      BY <1>2, <1>3, <2>1 DEF Agrees
  <1>4. ASSUME NEW j \in 1..Len(y), i + Len(x) + j - 1 <= Len(b)
        PROVE  b[i + Len(x) + j - 1] = y[j]
    <2>1. /\ Len(x) + j \in 1..Len(x) + Len(y) /\ ~(Len(x) + j <= Len(x))
          /\ Len(x) + j - Len(x) = j /\ i + (Len(x) + j) - 1 = i + Len(x) + j - 1
      BY <1>1
    <2>2. (x \o y)[Len(x) + j] = y[j]
      BY <1>2, <2>1
    <2>3. b[i + (Len(x) + j) - 1] = (x \o y)[Len(x) + j]
      BY <1>2, <1>4, <2>1 DEF Agrees
    <2> QED
      BY <2>1, <2>2, <2>3
  <1> QED
    BY <1>3, <1>4 DEF Agrees

(* A reader that gives the value v for the bytes c, if they are all there.  *)
Reads(r, b, i, c, v) ==
  r = IF i + Len(c) - 1 <= Len(b) THEN Got(v, i + Len(c)) ELSE Refusal

LEMMA BytesAreRead ==
  ASSUME NEW S, NEW n \in Nat, NEW c \in [1..n -> S], NEW b \in Seq(S), NEW i \in Nat,
         Agrees(b, i, c)
  PROVE  Reads(RBytes(n, b, i), b, i, c, c)
  <1>1. c \in Seq(S) /\ Len(c) = n /\ Len(b) \in Nat
    BY FunctionIsASeq, LenProperties
  <1>2. CASE i + n - 1 <= Len(b)
    <2>1. ASSUME NEW j \in 1..n
          PROVE  ByteAt(b, i + j - 1) = c[j]
      <3>1. i + j - 1 <= Len(b)
        BY <1>1, <1>2
      <3> QED
        BY <1>1, <3>1 DEF Agrees, ByteAt
    <2>2. [j \in 1..n |-> ByteAt(b, i + j - 1)] = c
      BY <2>1
    <2> QED
      BY <1>1, <1>2, <2>2 DEF Reads, RBytes, Need
  <1>3. CASE ~(i + n - 1 <= Len(b))
    BY <1>1, <1>3 DEF Reads, RBytes, Need
  <1> QED
    BY <1>2, <1>3

LEMMA NumberIsRead ==
  ASSUME NEW m \in Nat, NEW n \in Nat, Shift(m, Base, n) = 0,
         NEW b \in Seq(0..Base - 1), NEW i \in Nat, Agrees(b, i, LE(m, n))
  PROVE  Reads(RNumber(n, b, i), b, i, LE(m, n), m)
  <1>1. LE(m, n) \in [1..n -> 0..Base - 1] /\ FromDigits(LE(m, n), Base) = m
    BY LEBack
  <1>2. Reads(RBytes(n, b, i), b, i, LE(m, n), LE(m, n))
    BY <1>1, BytesAreRead
  <1>3. CASE i + Len(LE(m, n)) - 1 <= Len(b)
    <2>1. RBytes(n, b, i) = Got(LE(m, n), i + Len(LE(m, n)))
      BY <1>2, <1>3 DEF Reads
    <2>2. RNumber(n, b, i) = Got(FromDigits(LE(m, n), Base), i + Len(LE(m, n)))
      BY <2>1 DEF RNumber, Giving, Then, Got
    <2> QED
      BY <1>1, <1>3, <2>2 DEF Reads
  <1>4. CASE ~(i + Len(LE(m, n)) - 1 <= Len(b))
    <2>1. RBytes(n, b, i) = Refusal
      BY <1>2, <1>4 DEF Reads
    <2>2. RNumber(n, b, i) = Refusal
      BY <2>1 DEF RNumber, Giving, Then, Refusal
    <2> QED
      BY <1>4, <2>2 DEF Reads
  <1> QED
    BY <1>3, <1>4

LEMMA ByteIsRead ==
  ASSUME NEW m \in 0..Base - 1, NEW b \in Seq(0..Base - 1), NEW i \in Nat,
         Agrees(b, i, <<m>>)
  PROVE  Reads(RByte(b, i), b, i, <<m>>, m)
  <1>1. m \in Nat /\ m < Power(Base, 1)
    BY Bases
  <1>2. Shift(m, Base, 1) = 0
    BY <1>1, LEFits
  <1>3. LE(m, 1) = <<m>>
    <2>1. Shift(m, Base, 0) = m
      BY <1>1, Bases, ShiftSteps
    <2>2. m % Base = m
      <3>1. \A x, y \in Nat : x < y => x % y = x
        OBVIOUS
      <3> QED
        BY <1>1, <3>1, Bases
    <2>3. LE(m, 1) = [k \in 1..1 |-> Shift(m, Base, k - 1) % Base]
      BY DEF LE, Digits
    <2>4. LE(m, 1)[1] = m
      BY <2>1, <2>2, <2>3
    <2>5. LE(m, 1) \in [1..1 -> 0..Base - 1]
      BY <1>1, LEFits
    <2>6. LE(m, 1) \in Seq(0..Base - 1) /\ Len(LE(m, 1)) = 1
      <3>1. 1 \in Nat
        OBVIOUS
      <3> QED
        BY <2>5, <3>1, FunctionIsASeq
    <2> QED
      BY <2>4, <2>6
  <1> QED
    BY <1>1, <1>2, <1>3, NumberIsRead DEF RByte

LEMMA ItemsAreRead ==
  ASSUME NEW S, NEW n \in Nat, NEW w \in Nat, NEW items \in [1..n -> [1..w -> S]],
         NEW b \in Seq(S), NEW i \in Nat, Agrees(b, i, Joined(items, w))
  PROVE  Reads(RItems(n, w, b, i), b, i, Joined(items, w), items)
  <1> DEFINE c == Joined(items, w)
  <1>1. c \in [1..n * w -> S] /\ InOrder(c, items, n, w)
    BY JoinedItems
  <1>2. n * w \in Nat /\ Len(b) \in Nat
    BY ProductsGrow, LenProperties
  <1> HIDE DEF c
  <1>3. Len(c) = n * w
    BY <1>1, <1>2, FunctionIsASeq
  <1>4. CASE i + n * w - 1 <= Len(b)
    <2>1. ASSUME NEW k \in 1..n, NEW j \in 1..w
          PROVE  ByteAt(b, i + (k - 1) * w + j - 1) = items[k][j]
      <3> DEFINE p == (k - 1) * w + j
      <3>1. p \in 1..n * w /\ c[p] = items[k][j] /\ (k - 1) * w \in Int
        BY <1>1 DEF InOrder
      <3>2. i + p - 1 = i + (k - 1) * w + j - 1 /\ i + p - 1 <= Len(b)
        BY <1>2, <1>4, <3>1
      <3> HIDE DEF p
      <3>3. b[i + p - 1] = c[p]
        BY <1>3, <3>1, <3>2 DEF Agrees, c
      <3> QED
        BY <3>1, <3>2, <3>3 DEF ByteAt
    <2>2. [k \in 1..n |-> [j \in 1..w |-> ByteAt(b, i + (k - 1) * w + j - 1)]] = items
      <3>1. ASSUME NEW k \in 1..n
            PROVE  [j \in 1..w |-> ByteAt(b, i + (k - 1) * w + j - 1)] = items[k]
        BY <2>1
      <3> QED
        BY <3>1
    <2> QED
      BY <1>3, <1>4, <2>2 DEF Reads, RItems, Need, c
  <1>5. CASE ~(i + n * w - 1 <= Len(b))
    BY <1>3, <1>5 DEF Reads, RItems, Need, c
  <1> QED
    BY <1>4, <1>5

----------------------------------------------------------------------------
(* Runs.                                                                    *)
RunsOf(S) == [n : 1..MaxRun, of : S]
Copies(r) == [i \in 1..r.n |-> r.of]

LEMMA LengthenIs ==
  ASSUME NEW S, NEW rs \in Seq(RunsOf(S)), NEW x \in S
  PROVE  /\ Lengthen(rs, x) \in Seq(RunsOf(S))
         /\ Len(Lengthen(rs, x)) <= Len(rs) + 1
         /\ \/ Lengthen(rs, x) = Append(rs, [n |-> 1, of |-> x])
            \/ /\ Len(rs) > 0 /\ rs[Len(rs)].of = x
               /\ Lengthen(rs, x) = [rs EXCEPT ![Len(rs)] =
                                       [n |-> rs[Len(rs)].n + 1, of |-> x]]
  <1>1. Len(rs) \in Nat /\ MaxRun \in Nat /\ MaxRun > 0
    BY LenProperties, ChunksAssumption
  <1>2. CASE rs # <<>> /\ rs[Len(rs)].of = x /\ rs[Len(rs)].n < MaxRun
    <2> DEFINE e == [n |-> rs[Len(rs)].n + 1, of |-> x]
    <2>1. Len(rs) > 0 /\ Len(rs) \in 1..Len(rs)
      BY <1>1, <1>2, EmptySeq
    <2>2. rs[Len(rs)] \in RunsOf(S)
      BY <2>1, ElementOfSeq
    <2>3. e \in RunsOf(S)
      BY <1>1, <1>2, <2>2 DEF RunsOf
    <2>4. [rs EXCEPT ![Len(rs)].n = @ + 1] = [rs EXCEPT ![Len(rs)] = e]
      <3> DEFINE g == rs[Len(rs)]
      <3>1. g \in [n : 1..MaxRun, of : S] /\ g.of = x
        BY <1>2, <2>2 DEF RunsOf
      <3>2. [rs EXCEPT ![Len(rs)].n = @ + 1] = [rs EXCEPT ![Len(rs)] = [g EXCEPT !.n = @ + 1]]
        BY Zenon
      <3>3. e = [n |-> g.n + 1, of |-> x]
        OBVIOUS
      <3> HIDE DEF g, e
      <3>4. [g EXCEPT !.n = @ + 1] = [n |-> g.n + 1, of |-> x]
        BY <3>1
      <3> QED
        BY <3>2, <3>3, <3>4
    <2> HIDE DEF e
    <2>5. [rs EXCEPT ![Len(rs)] = e] \in Seq(RunsOf(S)) /\ Len([rs EXCEPT ![Len(rs)] = e]) = Len(rs)
      BY <2>1, <2>3, ExceptSeq
    <2>6. Lengthen(rs, x) = [rs EXCEPT ![Len(rs)] = e]
      BY <1>2, <2>4 DEF Lengthen
    <2>7. Len([rs EXCEPT ![Len(rs)] = e]) <= Len(rs) + 1
      BY <1>1, <2>5
    <2> QED
      BY <1>2, <2>1, <2>5, <2>6, <2>7, Zenon DEF e
  <1>3. CASE ~(rs # <<>> /\ rs[Len(rs)].of = x /\ rs[Len(rs)].n < MaxRun)
    <2> DEFINE e == [n |-> 1, of |-> x]
    <2>1. e \in RunsOf(S)
      BY <1>1 DEF RunsOf
    <2>2. Lengthen(rs, x) = Append(rs, e)
      BY <1>3 DEF Lengthen
    <2> HIDE DEF e
    <2>3. Append(rs, e) \in Seq(RunsOf(S)) /\ Len(Append(rs, e)) = Len(rs) + 1
      BY <2>1, AppendProperties
    <2> QED
      BY <1>1, <2>2, <2>3 DEF e
  <1> QED
    BY <1>2, <1>3

(* The runs of the first elements.                                          *)
Gathers(r, s, n) == r[0] = <<>> /\ \A j \in 1..n : r[j] = Lengthen(r[j - 1], s[j])

LEMMA RunSteps ==
  ASSUME NEW S, NEW n \in Nat, NEW s \in [1..n -> S]
  PROVE  \E r \in [0..n -> Seq(RunsOf(S))] : Gathers(r, s, n) /\ Runs(s) = r[n]
  <1>0. Len(s) = n
    BY FunctionIsASeq
  <1> DEFINE R == Seq(RunsOf(S))
             F == [a \in Nat \X R |-> IF a[1] < n THEN Lengthen(a[2], s[a[1] + 1]) ELSE <<>>]
             Is(r) == r = [i \in 0..Len(s) |-> IF i = 0 THEN <<>> ELSE Lengthen(r[i - 1], s[i])]
             r == CHOOSE r : Is(r)
  <1>1. <<>> \in R
    OBVIOUS
  <1>2. F \in [Nat \X R -> R]
    <2>1. ASSUME NEW a \in Nat \X R
          PROVE  (IF a[1] < n THEN Lengthen(a[2], s[a[1] + 1]) ELSE <<>>) \in R
      <3>1. a[1] \in Nat /\ a[2] \in R
        OBVIOUS
      <3>2. CASE a[1] < n
        <4>1. s[a[1] + 1] \in S
          BY <3>1, <3>2
        <4>2. Lengthen(a[2], s[a[1] + 1]) \in R
          BY <3>1, <4>1, LengthenIs
        <4> QED
          BY <3>2, <4>2
      <3> QED
        BY <1>1, <3>2
    <2> QED
      BY <2>1
  <1>3. \A k \in Nat, q \in R : k < n => F[<<k, q>>] = Lengthen(q, s[k + 1])
    OBVIOUS
  <1> HIDE DEF F, R
  <1>4. PICK f \in [0..n -> R] : Recurs(f, n, <<>>, F)
    BY <1>1, <1>2, RecursionUpTo
  <1>5. ASSUME NEW j \in 1..n
        PROVE  f[j] = Lengthen(f[j - 1], s[j])
    <2>1. j - 1 \in Nat /\ j - 1 < n /\ j - 1 + 1 = j /\ j - 1 \in 0..n
      OBVIOUS
    <2>2. f[j] = F[<<j - 1, f[j - 1]>>] /\ f[j - 1] \in R
      BY <1>4, <2>1 DEF Recurs
    <2>3. F[<<j - 1, f[j - 1]>>] = Lengthen(f[j - 1], s[j - 1 + 1])
      BY <1>3, <2>1, <2>2
    <2> QED
      BY <2>1, <2>2, <2>3
  <1>6. Is(f)
    <2>1. ASSUME NEW i \in 0..n
          PROVE  f[i] = IF i = 0 THEN <<>> ELSE Lengthen(f[i - 1], s[i])
      <3>1. i # 0 => i \in 1..n
        OBVIOUS
      <3> QED
        BY <1>4, <1>5, <3>1 DEF Recurs
    <2> QED
      BY <1>0, <2>1
  <1>7. Is(r)
    <2> HIDE DEF Is
    <2> QED
      BY <1>6
  <1>8. Runs(s) = r[n]
    BY <1>0 DEF Runs
  <1> HIDE DEF r
  <1>9. r = [i \in 0..n |-> IF i = 0 THEN <<>> ELSE Lengthen(r[i - 1], s[i])]
    BY <1>0, <1>7
  <1>10. Gathers(r, s, n)
    <2>1. 0 \in 0..n /\ \A j \in 1..n : j \in 0..n /\ j # 0
      OBVIOUS
    <2> QED
      BY <1>9, <2>1 DEF Gathers
  <1>11. \A i \in 0..n : r[i] \in R
    <2> DEFINE T == {i \in Nat : i <= n => r[i] \in R}
    <2>1. 0 \in T
      BY <1>1, <1>10 DEF Gathers
    <2>2. ASSUME NEW i \in Nat, i \in T
          PROVE  i + 1 \in T
      <3>1. SUFFICES ASSUME i + 1 <= n PROVE r[i + 1] \in R
        OBVIOUS
      <3>2. i + 1 \in 1..n /\ i + 1 - 1 = i /\ r[i] \in R /\ s[i + 1] \in S
        BY <2>2, <3>1
      <3>3. r[i + 1] = Lengthen(r[i], s[i + 1])
        BY <1>10, <3>2 DEF Gathers
      <3>4. Lengthen(r[i], s[i + 1]) \in R
        BY <3>2, LengthenIs DEF R
      <3> QED
        BY <3>3, <3>4
    <2> HIDE DEF T
    <2>3. Nat \subseteq T
      BY <2>1, <2>2, NatSetInduction
    <2> QED
      BY <2>3 DEF T
  <1>12. r \in [0..n -> R]
    BY <1>9, <1>11
  <1> QED
    BY <1>8, <1>10, <1>12 DEF R

(* What the first runs stand for.                                           *)
Unwinds(u, rs) ==
  u[0] = <<>> /\ \A k \in 1..Len(rs) : u[k] = u[k - 1] \o Copies(rs[k])

LEMMA UnrunSteps ==
  ASSUME NEW S, NEW rs \in Seq(RunsOf(S))
  PROVE  \E u \in [0..Len(rs) -> Seq(S)] : Unwinds(u, rs) /\ Unrun(rs) = u[Len(rs)]
  <1> DEFINE L == Len(rs)
             F == [a \in Nat \X Seq(S) |-> IF a[1] < L THEN a[2] \o Copies(rs[a[1] + 1]) ELSE <<>>]
             Is(u) == u = [k \in 0..Len(rs) |->
                             IF k = 0 THEN <<>> ELSE u[k - 1] \o [i \in 1..rs[k].n |-> rs[k].of]]
             u == CHOOSE u : Is(u)
  <1>0. L \in Nat /\ <<>> \in Seq(S)
    BY LenProperties
  <1>1. ASSUME NEW k \in 1..L
        PROVE  Copies(rs[k]) \in Seq(S)
    <2>1. rs[k].n \in Nat /\ rs[k].of \in S
      <3>1. rs[k] \in RunsOf(S)
        BY ElementOfSeq
      <3> QED
        BY <3>1, ChunksAssumption DEF RunsOf
    <2> QED
      BY <2>1 DEF Copies
  <1>2. F \in [Nat \X Seq(S) -> Seq(S)]
    <2>1. ASSUME NEW a \in Nat \X Seq(S)
          PROVE  (IF a[1] < L THEN a[2] \o Copies(rs[a[1] + 1]) ELSE <<>>) \in Seq(S)
      <3>1. a[1] \in Nat /\ a[2] \in Seq(S)
        OBVIOUS
      <3>2. CASE a[1] < L
        <4>1. a[1] + 1 \in 1..L
          BY <1>0, <3>1, <3>2
        <4>2. a[2] \o Copies(rs[a[1] + 1]) \in Seq(S)
          BY <1>1, <3>1, <4>1, ConcatProperties
        <4> QED
          BY <3>2, <4>2
      <3> QED
        BY <1>0, <3>2
    <2> QED
      BY <2>1
  <1>3. \A k \in Nat, q \in Seq(S) : k < L => F[<<k, q>>] = q \o Copies(rs[k + 1])
    OBVIOUS
  <1> HIDE DEF F
  <1>4. PICK f \in [0..L -> Seq(S)] : Recurs(f, L, <<>>, F)
    <2> HIDE DEF L
    <2> QED
      BY <1>0, <1>2, RecursionUpTo
  <1>5. ASSUME NEW k \in 1..L
        PROVE  f[k] = f[k - 1] \o Copies(rs[k])
    <2>1. k - 1 \in Nat /\ k - 1 < L /\ k - 1 + 1 = k /\ k - 1 \in 0..L
      BY <1>0
    <2>2. f[k] = F[<<k - 1, f[k - 1]>>] /\ f[k - 1] \in Seq(S)
      BY <1>4, <2>1 DEF Recurs
    <2>3. F[<<k - 1, f[k - 1]>>] = f[k - 1] \o Copies(rs[k - 1 + 1])
      BY <1>3, <2>1, <2>2
    <2> QED
      BY <2>1, <2>2, <2>3
  <1>6. Is(f)
    <2>1. ASSUME NEW k \in 0..L
          PROVE  f[k] = IF k = 0 THEN <<>> ELSE f[k - 1] \o [i \in 1..rs[k].n |-> rs[k].of]
      <3>1. k # 0 => k \in 1..L
        BY <1>0
      <3> QED
        BY <1>4, <1>5, <3>1 DEF Recurs, Copies
    <2> QED
      BY <2>1
  <1>7. Is(u)
    <2> HIDE DEF Is
    <2> QED
      BY <1>6
  <1>8. Unrun(rs) = u[L]
    BY DEF Unrun
  <1> HIDE DEF u
  <1>9. Unwinds(u, rs)
    <2>1. 0 \in 0..L /\ \A k \in 1..L : k \in 0..L /\ k # 0
      BY <1>0
    <2>2. u[0] = <<>>
      BY <1>7, <2>1
    <2>3. ASSUME NEW k \in 1..L
          PROVE  u[k] = u[k - 1] \o Copies(rs[k])
      BY <1>7, <2>1 DEF Copies
    <2> QED
      BY <2>2, <2>3 DEF Unwinds
  <1>10. \A k \in 0..L : u[k] \in Seq(S)
    <2> DEFINE T == {k \in Nat : k <= L => u[k] \in Seq(S)}
    <2>1. 0 \in T
      BY <1>0, <1>9 DEF Unwinds
    <2>2. ASSUME NEW k \in Nat, k \in T
          PROVE  k + 1 \in T
      <3>1. SUFFICES ASSUME k + 1 <= L PROVE u[k + 1] \in Seq(S)
        OBVIOUS
      <3>2. k + 1 \in 1..L /\ k + 1 - 1 = k /\ u[k] \in Seq(S)
        BY <1>0, <2>2, <3>1
      <3>3. u[k + 1] = u[k] \o Copies(rs[k + 1])
        <4> DEFINE j == k + 1
        <4>1. j \in 1..Len(rs) /\ j - 1 = k
          BY <3>2
        <4> HIDE DEF j
        <4>2. u[j] = u[j - 1] \o Copies(rs[j])
          BY <1>9, <4>1 DEF Unwinds
        <4> QED
          BY <4>1, <4>2 DEF j
      <3> QED
        BY <1>1, <3>2, <3>3, ConcatProperties
    <2> HIDE DEF T
    <2>3. Nat \subseteq T
      BY <2>1, <2>2, NatSetInduction
    <2> QED
      BY <1>0, <2>3 DEF T
  <1>11. u \in [0..L -> Seq(S)]
    <2>1. \E g : u = [k \in 0..L |-> g[k]]
      BY <1>7
    <2> QED
      BY <1>10, <2>1
  <1> QED
    BY <1>8, <1>9, <1>11

(* The same runs stand for the same.                                        *)
LEMMA UnwindsAlike ==
  ASSUME NEW S, NEW rs \in Seq(RunsOf(S)), NEW qs \in Seq(RunsOf(S)),
         NEW m \in Nat, m <= Len(rs), m <= Len(qs), \A k \in 1..m : rs[k] = qs[k],
         NEW u, NEW v, Unwinds(u, rs), Unwinds(v, qs)
  PROVE  u[m] = v[m]
  <1>1. Len(rs) \in Nat /\ Len(qs) \in Nat
    BY LenProperties
  <1> DEFINE T == {k \in Nat : k <= m => u[k] = v[k]}
  <1>2. 0 \in T
    BY DEF Unwinds
  <1>3. ASSUME NEW k \in Nat, k \in T
        PROVE  k + 1 \in T
    <2>1. SUFFICES ASSUME k + 1 <= m PROVE u[k + 1] = v[k + 1]
      OBVIOUS
    <2>2. /\ k + 1 \in 1..Len(rs) /\ k + 1 \in 1..Len(qs) /\ k + 1 \in 1..m
          /\ k + 1 - 1 = k /\ u[k] = v[k]
      BY <1>1, <1>3, <2>1
    <2>3. u[k + 1] = u[k] \o Copies(rs[k + 1]) /\ v[k + 1] = v[k] \o Copies(qs[k + 1])
      <3> DEFINE j == k + 1
      <3>1. j \in 1..Len(rs) /\ j \in 1..Len(qs) /\ j - 1 = k
        BY <2>2
      <3> HIDE DEF j
      <3>2. u[j] = u[j - 1] \o Copies(rs[j]) /\ v[j] = v[j - 1] \o Copies(qs[j])
        BY <3>1 DEF Unwinds
      <3> QED
        BY <3>1, <3>2 DEF j
    <2> QED
      BY <2>2, <2>3
  <1> HIDE DEF T
  <1>4. m \in T
    BY <1>2, <1>3, NatSetInduction
  <1> QED
    BY <1>4 DEF T

LEMMA CopiesGrow ==
  ASSUME NEW S, NEW n \in Nat, NEW x \in S, NEW q \in Seq(S)
  PROVE  Append(q \o Copies([n |-> n, of |-> x]), x) = q \o Copies([n |-> n + 1, of |-> x])
  <1> DEFINE c == Copies([n |-> n, of |-> x])
             d == Copies([n |-> n + 1, of |-> x])
             m == n + 1
  <1>1. /\ c \in Seq(S) /\ Len(c) = n /\ \A i \in 1..n : c[i] = x
        /\ d \in Seq(S) /\ Len(d) = m /\ \A i \in 1..m : d[i] = x
    BY DEF Copies
  <1>0. m \in Nat /\ m = n + 1
    OBVIOUS
  <1> HIDE DEF c, d, m
  <1>2. /\ q \o c \in Seq(S) /\ Len(q \o c) = Len(q) + n
        /\ \A i \in 1..Len(q) + n : (q \o c)[i] = IF i <= Len(q) THEN q[i] ELSE c[i - Len(q)]
    BY <1>1, ConcatProperties
  <1>3. /\ q \o d \in Seq(S) /\ Len(q \o d) = Len(q) + m
        /\ \A i \in 1..Len(q) + m :
             (q \o d)[i] = IF i <= Len(q) THEN q[i] ELSE d[i - Len(q)]
    BY <1>1, ConcatProperties
  <1>4. /\ Append(q \o c, x) \in Seq(S) /\ Len(Append(q \o c, x)) = Len(q) + n + 1
        /\ \A i \in 1..Len(q) + n : Append(q \o c, x)[i] = (q \o c)[i]
        /\ Append(q \o c, x)[Len(q) + n + 1] = x
    BY <1>2, AppendProperties
  <1>5. Len(q) \in Nat
    BY LenProperties
  <1>6. ASSUME NEW i \in 1..Len(q) + m
        PROVE  Append(q \o c, x)[i] = (q \o d)[i]
    <2>1. CASE i <= Len(q)
      <3>1. i \in 1..Len(q) + n
        BY <1>0, <1>5, <2>1
      <3> QED
        BY <1>2, <1>3, <1>4, <2>1, <3>1
    <2>2. CASE ~(i <= Len(q)) /\ i # Len(q) + n + 1
      <3>1. i \in 1..Len(q) + n /\ i - Len(q) \in 1..n /\ i - Len(q) \in 1..m
        BY <1>0, <1>5, <2>2
      <3> QED
        BY <1>1, <1>2, <1>3, <1>4, <2>2, <3>1
    <2>3. CASE i = Len(q) + n + 1
      <3>1. ~(i <= Len(q)) /\ i - Len(q) \in 1..m
        BY <1>0, <1>5, <2>3
      <3> QED
        BY <1>1, <1>3, <1>4, <2>3, <3>1
    <2> QED
      BY <2>1, <2>2, <2>3
  <1>7. Len(Append(q \o c, x)) = Len(q \o d)
    BY <1>0, <1>3, <1>4, <1>5
  <1>8. Len(Append(q \o c, x)) = Len(q) + m
    BY <1>0, <1>4, <1>5
  <1>9. Append(q \o c, x) = q \o d
    BY <1>3, <1>4, <1>6, <1>7, <1>8, SeqEqual
  <1> QED
    BY <1>9 DEF c, d

LEMMA UnrunLengthen ==
  ASSUME NEW S, NEW rs \in Seq(RunsOf(S)), NEW x \in S
  PROVE  Unrun(Lengthen(rs, x)) = Append(Unrun(rs), x)
  <1> DEFINE L == Len(rs)
             ls == Lengthen(rs, x)
             e == [n |-> 1, of |-> x]
             f == [n |-> rs[L].n + 1, of |-> x]
  <1>1. L \in Nat
    BY LenProperties
  <1>2. ls \in Seq(RunsOf(S))
    BY LengthenIs
  <1>3. \/ ls = Append(rs, e)
        \/ Len(rs) > 0 /\ rs[L].of = x /\ ls = [rs EXCEPT ![L] = f]
    BY LengthenIs
  <1> HIDE DEF ls
  <1>4. PICK u \in [0..Len(rs) -> Seq(S)] : Unwinds(u, rs) /\ Unrun(rs) = u[Len(rs)]
    BY UnrunSteps
  <1>5. PICK v \in [0..Len(ls) -> Seq(S)] : Unwinds(v, ls) /\ Unrun(ls) = v[Len(ls)]
    BY <1>2, UnrunSteps
  <1>6. CASE ls = Append(rs, e)
    <2>1. e \in RunsOf(S)
      BY ChunksAssumption DEF RunsOf
    <2> HIDE DEF e
    <2>2. Len(ls) = L + 1 /\ ls[L + 1] = e /\ \A k \in 1..L : ls[k] = rs[k]
      BY <1>6, <2>1, AppendProperties
    <2>3. u[L] = v[L]
      <3>1. L <= Len(rs) /\ L <= Len(ls) /\ \A k \in 1..L : rs[k] = ls[k]
        BY <1>1, <2>2
      <3> HIDE DEF L
      <3> QED
        BY <1>1, <1>2, <1>4, <1>5, <3>1, UnwindsAlike
    <2>4. L + 1 \in 1..Len(ls) /\ L + 1 - 1 = L /\ L \in 0..Len(ls)
      BY <1>1, <2>2
    <2>5. v[L + 1] = v[L] \o Copies(e)
      <3> DEFINE j == L + 1
      <3>1. j \in 1..Len(ls) /\ j - 1 = L /\ ls[j] = e
        BY <2>2, <2>4
      <3> HIDE DEF j, L
      <3>2. v[j] = v[j - 1] \o Copies(ls[j])
        BY <1>5, <3>1 DEF Unwinds
      <3> QED
        BY <3>1, <3>2 DEF j
    <2>6. v[L] \in Seq(S)
      BY <2>4
    <2>7. v[L] \o Copies(e) = Append(v[L], x)
      <3>1. Copies(e) = <<x>>
        BY DEF Copies, e
      <3> QED
        BY <2>6, <3>1, AppendIsConcat
    <2> QED
      BY <1>4, <1>5, <2>2, <2>3, <2>5, <2>7 DEF ls
  <1>7. CASE Len(rs) > 0 /\ rs[L].of = x /\ ls = [rs EXCEPT ![L] = f]
    <2> DEFINE K == L - 1
               n == rs[L].n
    <2>1. L \in 1..Len(rs) /\ K \in Nat /\ K + 1 = L /\ K <= L
      BY <1>1, <1>7
    <2>2. rs[L] \in RunsOf(S) /\ n \in Nat
      <3>1. rs[L] \in RunsOf(S)
        BY <2>1, ElementOfSeq
      <3> QED
        BY <3>1, ChunksAssumption DEF RunsOf
    <2>3. rs[L] = [n |-> n, of |-> x]
      BY <1>7, <2>2 DEF RunsOf
    <2>4. Len(ls) = L /\ ls[L] = f /\ \A k \in 1..K : ls[k] = rs[k]
      <3>1. DOMAIN rs = 1..Len(rs)
        BY LenProperties
      <3>2. DOMAIN ls = 1..Len(rs)
        BY <1>7, <3>1
      <3>3. Len(ls) \in Nat /\ DOMAIN ls = 1..Len(ls)
        BY <1>2, LenProperties
      <3>4. Len(ls) = L
        BY <1>1, <3>2, <3>3
      <3>5. ls[L] = f
        BY <1>7, <2>1, <3>1
      <3>6. \A k \in 1..K : k \in 1..Len(rs) /\ k # L
        BY <1>1
      <3> QED
        BY <1>7, <3>1, <3>4, <3>5, <3>6
    <2>5. u[K] = v[K]
      <3>1. K <= Len(rs) /\ K <= Len(ls)
        BY <2>1, <2>4
      <3>2. \A k \in 1..K : rs[k] = ls[k]
        BY <2>4
      <3> HIDE DEF K
      <3> QED
        BY <1>2, <1>4, <1>5, <2>1, <3>1, <3>2, UnwindsAlike
    <2>6. u[L] = u[K] \o Copies([n |-> n, of |-> x]) /\ v[L] = v[K] \o Copies(f)
      <3>1. L \in 1..Len(ls)
        BY <2>1, <2>4
      <3>2. u[L] = u[L - 1] \o Copies(rs[L]) /\ v[L] = v[L - 1] \o Copies(ls[L])
        BY <1>4, <1>5, <2>1, <3>1 DEF Unwinds
      <3> QED
        BY <2>3, <2>4, <3>2
    <2>7. u[K] \in Seq(S)
      BY <1>1, <2>1
    <2> HIDE DEF K, n
    <2>8. Append(u[K] \o Copies([n |-> n, of |-> x]), x)
            = u[K] \o Copies([n |-> n + 1, of |-> x])
      BY <2>2, <2>7, CopiesGrow
    <2> QED
      BY <1>4, <1>5, <2>4, <2>5, <2>6, <2>8 DEF ls, n
  <1> QED
    BY <1>3, <1>6, <1>7

(* The runs of some elements stand for them, and are no more than they.     *)
LEMMA RunsBack ==
  ASSUME NEW S, NEW n \in Nat, NEW s \in [1..n -> S]
  PROVE  /\ Runs(s) \in Seq(RunsOf(S)) /\ Len(Runs(s)) <= n
         /\ Unrun(Runs(s)) = s
  <1>1. PICK r \in [0..n -> Seq(RunsOf(S))] : Gathers(r, s, n) /\ Runs(s) = r[n]
    BY RunSteps
  <1> DEFINE First(j) == [i \in 1..j |-> s[i]]
             T == {j \in Nat : j <= n => Len(r[j]) <= j /\ Unrun(r[j]) = First(j)}
  <1>2. 0 \in T
    <2>1. r[0] = <<>>
      BY <1>1 DEF Gathers
    <2>2. <<>> \in Seq(RunsOf(S)) /\ Len(<<>>) = 0
      OBVIOUS
    <2>3. Unrun(<<>>) = <<>>
      <3>1. PICK u \in [0..Len(<<>>) -> Seq(S)] :
              Unwinds(u, <<>>) /\ Unrun(<<>>) = u[Len(<<>>)]
        BY <2>2, UnrunSteps
      <3> QED
        BY <2>2, <3>1 DEF Unwinds
    <2>4. First(0) = <<>>
      OBVIOUS
    <2> QED
      BY <2>1, <2>2, <2>3, <2>4
  <1>3. ASSUME NEW j \in Nat, j \in T
        PROVE  j + 1 \in T
    <2>1. SUFFICES ASSUME j + 1 <= n
                   PROVE  Len(r[j + 1]) <= j + 1 /\ Unrun(r[j + 1]) = First(j + 1)
      OBVIOUS
    <2>2. /\ j + 1 \in 1..n /\ j \in 0..n /\ j + 1 \in 0..n /\ j + 1 - 1 = j
          /\ s[j + 1] \in S
      BY <2>1
    <2>3. Len(r[j]) <= j /\ Unrun(r[j]) = First(j)
      BY <1>3, <2>2
    <2>4. r[j] \in Seq(RunsOf(S)) /\ r[j + 1] \in Seq(RunsOf(S))
      BY <2>2
    <2>5. r[j + 1] = Lengthen(r[j], s[j + 1])
      <3> DEFINE k == j + 1
      <3>1. k \in 1..n /\ k - 1 = j
        BY <2>2
      <3> HIDE DEF k
      <3>2. r[k] = Lengthen(r[k - 1], s[k])
        BY <1>1, <3>1 DEF Gathers
      <3> QED
        BY <3>1, <3>2 DEF k
    <2>6. /\ Len(Lengthen(r[j], s[j + 1])) <= Len(r[j]) + 1
          /\ Unrun(Lengthen(r[j], s[j + 1])) = Append(Unrun(r[j]), s[j + 1])
      BY <2>2, <2>4, LengthenIs, UnrunLengthen
    <2>7. Len(r[j + 1]) <= j + 1
      <3>1. Len(r[j]) \in Nat /\ Len(r[j + 1]) \in Nat
        BY <2>4, LenProperties
      <3> QED
        BY <2>3, <2>5, <2>6, <3>1
    <2>8. Append(First(j), s[j + 1]) = First(j + 1)
      <3>1. \A i \in 1..j : s[i] \in S
        BY <2>2
      <3>2. First(j) \in Seq(S) /\ Len(First(j)) = j
        BY <3>1
      <3>3. First(j + 1) \in Seq(S) /\ Len(First(j + 1)) = j + 1
        BY <2>2, <3>1
      <3>4. /\ Append(First(j), s[j + 1]) \in Seq(S)
            /\ Len(Append(First(j), s[j + 1])) = j + 1
            /\ \A i \in 1..j : Append(First(j), s[j + 1])[i] = First(j)[i]
            /\ Append(First(j), s[j + 1])[j + 1] = s[j + 1]
        <4> DEFINE g == First(j)
        <4>1. g \in Seq(S) /\ Len(g) = j
          BY <3>2
        <4> HIDE DEF g
        <4>2. /\ Append(g, s[j + 1]) \in Seq(S)
              /\ Len(Append(g, s[j + 1])) = j + 1
              /\ \A i \in 1..j : Append(g, s[j + 1])[i] = g[i]
              /\ Append(g, s[j + 1])[j + 1] = s[j + 1]
          BY <2>2, <4>1, AppendProperties
        <4> QED
          BY <4>2 DEF g
      <3>5. ASSUME NEW i \in 1..j + 1
            PROVE  Append(First(j), s[j + 1])[i] = First(j + 1)[i]
        <4>1. CASE i = j + 1
          BY <3>4, <4>1
        <4>2. CASE i # j + 1
          <5>1. i \in 1..j
            BY <4>2
          <5> QED
            BY <3>4, <5>1
        <4> QED
          BY <4>1, <4>2
      <3> QED
        BY <3>3, <3>4, <3>5, SeqEqual
    <2> HIDE DEF First
    <2> QED
      BY <2>3, <2>5, <2>6, <2>7, <2>8
  <1>4. n \in T
    <2> HIDE DEF T
    <2> QED
      BY <1>2, <1>3, NatSetInduction
  <1>5. First(n) = s
    OBVIOUS
  <1>6. r[n] \in Seq(RunsOf(S))
    OBVIOUS
  <1> HIDE DEF First
  <1> QED
    BY <1>1, <1>4, <1>5, <1>6

----------------------------------------------------------------------------
(* A chunk in each of its codings.                                          *)
Bytes == 0..Base - 1

LEMMA Tags == {0, 1, 2} \subseteq Bytes /\ MaxCases \in Bytes /\ MaxCases = 8
  BY Bases, ChunksAssumption DEF Bytes, MaxCases

(* One reading after another.                                               *)
LEMMA ReadsOn ==
  ASSUME NEW S, NEW x \in Seq(S), NEW y \in Seq(S), NEW b \in Seq(S), NEW i \in Nat,
         NEW r, NEW v,
         i + Len(x) - 1 <= Len(b) => Reads(r, b, i + Len(x), y, v),
         ~(i + Len(x) - 1 <= Len(b)) => r = Refusal
  PROVE  Reads(r, b, i, x \o y, v)
  <1>1. Len(x) \in Nat /\ Len(y) \in Nat /\ Len(b) \in Nat /\ Len(x \o y) = Len(x) + Len(y)
    BY LenProperties, ConcatProperties
  <1>2. CASE i + Len(x) - 1 <= Len(b)
    <2>1. /\ i + Len(x) + Len(y) - 1 = i + (Len(x) + Len(y)) - 1
          /\ i + Len(x) + Len(y) = i + (Len(x) + Len(y))
      BY <1>1
    <2> QED
      BY <1>1, <1>2, <2>1 DEF Reads
  <1>3. CASE ~(i + Len(x) - 1 <= Len(b))
    <2>1. ~(i + (Len(x) + Len(y)) - 1 <= Len(b))
      BY <1>1, <1>3
    <2> QED
      BY <1>1, <1>3, <2>1 DEF Reads
  <1> QED
    BY <1>2, <1>3

RawItems(kind, s) == [i \in 1..Len(s) |-> Code(kind, s[i])]

LEMMA RawIs ==
  ASSUME NEW kind \in Scalars \ {"bit"}, NEW n \in Nat, NEW s \in [1..n -> Elements(kind)]
  PROVE  /\ RawItems(kind, s) \in [1..n -> [1..SizeOf(kind) -> Bytes]]
         /\ Joined(RawItems(kind, s), SizeOf(kind)) \in [1..n * SizeOf(kind) -> Bytes]
         /\ Raw(kind, s) = <<0>> \o Joined(RawItems(kind, s), SizeOf(kind))
         /\ Raw(kind, s) \in Seq(Bytes) /\ Len(Raw(kind, s)) = 1 + n * SizeOf(kind)
  <1>1. Len(s) = n /\ SizeOf(kind) \in Nat /\ n * SizeOf(kind) \in Nat
    BY FunctionIsASeq, SizesAre, ProductsGrow
  <1>2. \A i \in 1..n : Code(kind, s[i]) \in [1..SizeOf(kind) -> Bytes]
    BY CodeBack DEF Bytes
  <1>3. RawItems(kind, s) \in [1..n -> [1..SizeOf(kind) -> Bytes]]
    BY <1>1, <1>2 DEF RawItems
  <1> DEFINE c == Joined(RawItems(kind, s), SizeOf(kind))
  <1>4. c \in [1..n * SizeOf(kind) -> Bytes]
    BY <1>1, <1>3, JoinedItems
  <1>5. Raw(kind, s) = <<0>> \o c
    BY DEF Raw, RawItems
  <1> HIDE DEF c
  <1>6. c \in Seq(Bytes) /\ Len(c) = n * SizeOf(kind)
    BY <1>1, <1>4, FunctionIsASeq
  <1>7. <<0>> \in Seq(Bytes) /\ Len(<<0>>) = 1
    BY Tags
  <1>8. <<0>> \o c \in Seq(Bytes) /\ Len(<<0>> \o c) = 1 + n * SizeOf(kind)
    BY <1>6, <1>7, ConcatProperties
  <1> QED
    BY <1>3, <1>4, <1>5, <1>8 DEF c

LEMMA RawIsRead ==
  ASSUME NEW kind \in Scalars \ {"bit"}, NEW n \in Nat, NEW s \in [1..n -> Elements(kind)],
         NEW b \in Seq(Bytes), NEW i \in Nat,
         Agrees(b, i, Joined(RawItems(kind, s), SizeOf(kind)))
  PROVE  Reads(RRaw(kind, n, b, i), b, i, Joined(RawItems(kind, s), SizeOf(kind)), s)
  <1> DEFINE w == SizeOf(kind)
             items == RawItems(kind, s)
             c == Joined(items, w)
  <1>1. w \in Nat /\ items \in [1..n -> [1..w -> Bytes]] /\ Len(s) = n
    BY SizesAre, RawIs, FunctionIsASeq
  <1>2. Reads(RItems(n, w, b, i), b, i, c, items)
    <2> HIDE DEF items, w
    <2> QED
      BY <1>1, ItemsAreRead DEF items, w
  <1>3. [k \in 1..n |-> Uncode(kind, items[k])] = s
    <2>1. \A k \in 1..n : Uncode(kind, Code(kind, s[k])) = s[k]
      BY CodeBack
    <2> QED
      BY <1>1, <2>1 DEF RawItems
  <1> HIDE DEF w, items, c
  <1>4. CASE i + Len(c) - 1 <= Len(b)
    <2>1. RItems(n, w, b, i) = Got(items, i + Len(c))
      BY <1>2, <1>4 DEF Reads
    <2>2. RRaw(kind, n, b, i) = Got([k \in 1..n |-> Uncode(kind, items[k])], i + Len(c))
      BY <2>1 DEF RRaw, Giving, Then, Got, w
    <2> QED
      BY <1>3, <1>4, <2>2 DEF Reads, c, items, w
  <1>5. CASE ~(i + Len(c) - 1 <= Len(b))
    <2>1. RItems(n, w, b, i) = Refusal
      BY <1>2, <1>5 DEF Reads
    <2>2. RRaw(kind, n, b, i) = Refusal
      BY <2>1 DEF RRaw, Giving, Then, Refusal, w
    <2> QED
      BY <1>5, <2>2 DEF Reads, c, items, w
  <1> QED
    BY <1>4, <1>5

RunItems(kind, rs) == [k \in 1..Len(rs) |-> <<rs[k].n - 1>> \o Code(kind, rs[k].of)]
RunBytes(kind, rs) == Joined(RunItems(kind, rs), 1 + SizeOf(kind))

LEMMA RunsAre ==
  ASSUME NEW kind \in Scalars \ {"bit"}, NEW rs \in Seq(RunsOf(Elements(kind)))
  PROVE  /\ RunItems(kind, rs) \in [1..Len(rs) -> [1..1 + SizeOf(kind) -> Bytes]]
         /\ RunBytes(kind, rs) \in Seq(Bytes)
         /\ Len(RunBytes(kind, rs)) = Len(rs) * (1 + SizeOf(kind))
         /\ \A k \in 1..Len(rs) : /\ RunItems(kind, rs)[k][1] + 1 = rs[k].n
                                  /\ Uncode(kind, Tail(RunItems(kind, rs)[k])) = rs[k].of
  <1> DEFINE w == SizeOf(kind)
             L == Len(rs)
             it(k) == <<rs[k].n - 1>> \o Code(kind, rs[k].of)
  <1>1. w \in Nat /\ L \in Nat /\ 1 + w \in Nat /\ L * (1 + w) \in Nat
    BY SizesAre, LenProperties, ProductsGrow
  <1>2. ASSUME NEW k \in 1..L
        PROVE  /\ it(k) \in [1..1 + w -> Bytes]
               /\ it(k)[1] + 1 = rs[k].n
               /\ Uncode(kind, Tail(it(k))) = rs[k].of
    <2> DEFINE m == rs[k].n - 1
               c == Code(kind, rs[k].of)
    <2>1. rs[k] \in RunsOf(Elements(kind))
      BY ElementOfSeq
    <2>2. rs[k].n \in 1..MaxRun /\ rs[k].of \in Elements(kind)
      BY <2>1 DEF RunsOf
    <2>3. m \in Bytes /\ m + 1 = rs[k].n
      BY <2>2, Bases, ChunksAssumption DEF Bytes
    <2>4. c \in [1..w -> Bytes] /\ Uncode(kind, c) = rs[k].of
      BY <2>2, CodeBack DEF Bytes
    <2> HIDE DEF m, c, w
    <2>5. c \in Seq(Bytes) /\ Len(c) = w /\ <<m>> \in Seq(Bytes) /\ Len(<<m>>) = 1
      BY <1>1, <2>3, <2>4, FunctionIsASeq
    <2> DEFINE d == <<m>> \o c
    <2>6. /\ d \in Seq(Bytes) /\ Len(d) = 1 + w
          /\ \A j \in 1..1 + w : d[j] = IF j <= 1 THEN <<m>>[j] ELSE c[j - 1]
      BY <2>5, ConcatProperties
    <2> HIDE DEF d
    <2>7. d \in [1..1 + w -> Bytes]
      BY <2>6, LenProperties
    <2>8. d[1] = m
      BY <1>1, <2>6
    <2>9. Tail(d) = c
      <3>1. d # <<>>
        BY <1>1, <2>6
      <3>2. Tail(d) \in Seq(Bytes) /\ Len(Tail(d)) = w /\ \A j \in 1..w : Tail(d)[j] = d[j + 1]
        <4>1. /\ Tail(d) \in Seq(Bytes) /\ Len(Tail(d)) = Len(d) - 1
              /\ \A j \in 1..Len(Tail(d)) : Tail(d)[j] = d[j + 1]
          BY <2>6, <3>1, HeadTailProperties
        <4>2. Len(d) - 1 = w
          BY <1>1, <2>6
        <4> QED
          BY <4>1, <4>2
      <3>3. ASSUME NEW j \in 1..w
            PROVE  Tail(d)[j] = c[j]
        <4>1. j + 1 \in 1..1 + w /\ ~(j + 1 <= 1) /\ j + 1 - 1 = j
          BY <1>1
        <4>2. d[j + 1] = c[j + 1 - 1]
          BY <2>6, <4>1
        <4> QED
          BY <3>2, <4>1, <4>2
      <3> QED
        BY <2>5, <3>2, <3>3, SeqEqual
    <2> QED
      BY <2>3, <2>4, <2>7, <2>8, <2>9 DEF d, m, c
  <1>3. \A k \in 1..L : RunItems(kind, rs)[k] = it(k)
    BY DEF RunItems
  <1>4. RunItems(kind, rs) \in [1..L -> [1..1 + w -> Bytes]]
    <2> HIDE DEF it
    <2>1. RunItems(kind, rs) = [k \in 1..L |-> it(k)]
      BY DEF RunItems, it
    <2> QED
      BY <1>2, <2>1
  <1>5. RunBytes(kind, rs) \in [1..L * (1 + w) -> Bytes]
    <2> DEFINE x == 1 + w
    <2>1. x \in Nat /\ RunItems(kind, rs) \in [1..L -> [1..x -> Bytes]]
      BY <1>1, <1>4
    <2> HIDE DEF x, L
    <2>2. Joined(RunItems(kind, rs), x) \in [1..L * x -> Bytes]
      BY <1>1, <2>1, JoinedItems
    <2> QED
      BY <2>2 DEF RunBytes, x
  <1>6. RunBytes(kind, rs) \in Seq(Bytes) /\ Len(RunBytes(kind, rs)) = L * (1 + w)
    <2> DEFINE x == L * (1 + w)
    <2>1. x \in Nat /\ RunBytes(kind, rs) \in [1..x -> Bytes]
      BY <1>1, <1>5
    <2> HIDE DEF x
    <2>2. RunBytes(kind, rs) \in Seq(Bytes) /\ Len(RunBytes(kind, rs)) = x
      BY <2>1, FunctionIsASeq
    <2> QED
      BY <2>2 DEF x
  <1> HIDE DEF it
  <1> QED
    BY <1>2, <1>3, <1>4, <1>6

LEMMA InRunsIs ==
  ASSUME NEW kind \in Scalars \ {"bit"}, NEW n \in 0..ChunkLen,
         NEW s \in [1..n -> Elements(kind)]
  PROVE  /\ LE(Len(Runs(s)), 2) \in [1..2 -> Bytes] /\ Shift(Len(Runs(s)), Base, 2) = 0
         /\ InRuns(kind, s) = <<1>> \o (LE(Len(Runs(s)), 2) \o RunBytes(kind, Runs(s)))
         /\ InRuns(kind, s) \in Seq(Bytes)
         /\ Len(InRuns(kind, s)) = 1 + RunsSize(kind, s)
  <1> DEFINE rs == Runs(s)
             L == Len(rs)
             le == LE(L, 2)
             rb == RunBytes(kind, rs)
  <1>1. n \in Nat /\ n <= ChunkLen /\ ChunkLen \in Nat /\ ChunkLen < Power(Base, 2)
    BY ChunksAssumption
  <1>2. rs \in Seq(RunsOf(Elements(kind))) /\ L <= n
    BY <1>1, RunsBack
  <1>3. L \in Nat
    BY <1>2, LenProperties
  <1>4. Power(Base, 2) \in Nat
    BY Bases, PowerSteps
  <1>5. L < Power(Base, 2)
    BY <1>1, <1>2, <1>3, <1>4
  <1>6. le \in [1..2 -> Bytes] /\ Shift(L, Base, 2) = 0
    BY <1>3, <1>5, LEFits DEF Bytes
  <1>7. le \in Seq(Bytes) /\ Len(le) = 2
    <2> HIDE DEF le
    <2> QED
      BY <1>6, FunctionIsASeq
  <1>8. rb \in Seq(Bytes) /\ Len(rb) = L * (1 + SizeOf(kind))
    BY <1>2, RunsAre
  <1>9. <<1>> \in Seq(Bytes) /\ Len(<<1>>) = 1
    BY Tags
  <1>10. InRuns(kind, s) = (<<1>> \o le) \o rb
    BY DEF InRuns, RunBytes, RunItems
  <1>11. L * (1 + SizeOf(kind)) \in Nat
    <2>1. 1 + SizeOf(kind) \in Nat
      BY SizesAre
    <2> QED
      BY <1>3, <2>1, ProductsGrow
  <1>12. RunsSize(kind, s) = 2 + L * (1 + SizeOf(kind))
    BY DEF RunsSize
  <1> DEFINE p == L * (1 + SizeOf(kind))
  <1> HIDE DEF L, le, rb, p
  <1>13. (<<1>> \o le) \o rb = <<1>> \o (le \o rb)
    BY <1>7, <1>8, <1>9, ConcatAssociative
  <1>17. rb \in Seq(Bytes) /\ Len(rb) = p
    BY <1>8 DEF p
  <1>14. le \o rb \in Seq(Bytes) /\ Len(le \o rb) = 2 + p
    <2>1. le \o rb \in Seq(Bytes) /\ Len(le \o rb) = Len(le) + Len(rb)
      BY <1>7, <1>17, ConcatProperties
    <2> QED
      BY <1>7, <1>17, <2>1, Zenon
  <1>15. /\ <<1>> \o (le \o rb) \in Seq(Bytes)
         /\ Len(<<1>> \o (le \o rb)) = 1 + (2 + p)
    BY <1>9, <1>14, ConcatProperties
  <1>16. InRuns(kind, s) = <<1>> \o (le \o rb)
    BY <1>10, <1>13
  <1> QED
    BY <1>6, <1>12, <1>15, <1>16 DEF L, le, rb, p

LEMMA InRunsIsRead ==
  ASSUME NEW kind \in Scalars \ {"bit"}, NEW n \in 0..ChunkLen,
         NEW s \in [1..n -> Elements(kind)], NEW b \in Seq(Bytes), NEW i \in Nat,
         Agrees(b, i, LE(Len(Runs(s)), 2) \o RunBytes(kind, Runs(s)))
  PROVE  Reads(RRuns(kind, b, i), b, i, LE(Len(Runs(s)), 2) \o RunBytes(kind, Runs(s)), s)
  <1> DEFINE rs == Runs(s)
             L == Len(rs)
             le == LE(L, 2)
             rb == RunBytes(kind, rs)
             items == RunItems(kind, rs)
             w == 1 + SizeOf(kind)
             r == RRuns(kind, b, i)
  <1>1. rs \in Seq(RunsOf(Elements(kind))) /\ Unrun(rs) = s
    <2>1. n \in Nat
      BY ChunksAssumption
    <2> QED
      BY <2>1, RunsBack
  <1>2. L \in Nat /\ w \in Nat
    BY <1>1, LenProperties, SizesAre
  <1>3. /\ items \in [1..L -> [1..w -> Bytes]] /\ rb \in Seq(Bytes) /\ rb = Joined(items, w)
        /\ \A k \in 1..L : items[k][1] + 1 = rs[k].n /\ Uncode(kind, Tail(items[k])) = rs[k].of
    BY <1>1, RunsAre DEF RunBytes
  <1>4. le \in [1..2 -> Bytes] /\ Shift(L, Base, 2) = 0
    BY InRunsIs
  <1>5. le \in Seq(Bytes) /\ Len(le) = 2
    <2> HIDE DEF le
    <2> QED
      BY <1>4, FunctionIsASeq
  <1>6. Agrees(b, i, le \o rb)
    OBVIOUS
  <1>7. AsRuns(kind, items) = rs
    <2>1. ASSUME NEW k \in 1..L
          PROVE  [n |-> items[k][1] + 1, of |-> Uncode(kind, Tail(items[k]))] = rs[k]
      <3>1. rs[k] \in [n : 1..MaxRun, of : Elements(kind)]
        BY <1>1, ElementOfSeq DEF RunsOf
      <3>2. rs[k] = [n |-> rs[k].n, of |-> rs[k].of]
        BY <3>1
      <3> HIDE DEF items
      <3> QED
        BY <1>3, <3>2
    <2>2. rs = [k \in 1..L |-> rs[k]]
      BY <1>1, LenProperties
    <2>3. Len(items) = L
      <3> HIDE DEF items, L
      <3> QED
        BY <1>2, <1>3, FunctionIsASeq
    <2> HIDE DEF items, rs
    <2> QED
      BY <2>1, <2>2, <2>3 DEF AsRuns
  <1> HIDE DEF rs, L, le, rb, items, w, r
  <1>9. Agrees(b, i, le) /\ Agrees(b, i + 2, rb)
    BY <1>3, <1>5, <1>6, PartsAgree
  <1>10. Reads(RNumber(2, b, i), b, i, le, L)
    BY <1>2, <1>4, <1>9, NumberIsRead DEF le, Bytes
  <1>11. ASSUME i + Len(le) - 1 <= Len(b)
         PROVE  Reads(r, b, i + Len(le), rb, s)
    <2>1. RNumber(2, b, i) = Got(L, i + 2)
      BY <1>5, <1>10, <1>11 DEF Reads
    <2> DEFINE q == RItems(L, w, b, i + 2)
    <2>2. /\ q.ok => r = Got(Unrun(AsRuns(kind, q.v)), q.i)
          /\ ~q.ok => r = Refusal
      <3> DEFINE p == RNumber(2, b, i)
      <3>1. p.ok = TRUE /\ p.v = L /\ p.i = i + 2
        BY <2>1 DEF Got
      <3>2. r = IF p.ok
                THEN IF RItems(p.v, w, b, p.i).ok
                     THEN Got(Unrun(AsRuns(kind, RItems(p.v, w, b, p.i).v)),
                              RItems(p.v, w, b, p.i).i)
                     ELSE Refusal
                ELSE Refusal
        BY DEF RRuns, Then, Giving, r, w
      <3> HIDE DEF p
      <3> QED
        BY <3>1, <3>2
    <2>3. Reads(q, b, i + 2, rb, items)
      <3>1. i + 2 \in Nat
        OBVIOUS
      <3> QED
        BY <1>2, <1>3, <1>9, <3>1, ItemsAreRead
    <2> HIDE DEF q
    <2>4. CASE i + 2 + Len(rb) - 1 <= Len(b)
      <3>1. q = Got(items, i + 2 + Len(rb))
        BY <2>3, <2>4 DEF Reads
      <3>2. r = Got(Unrun(AsRuns(kind, items)), i + 2 + Len(rb))
        BY <2>2, <3>1 DEF Got
      <3> QED
        BY <1>1, <1>5, <1>7, <2>4, <3>2 DEF Reads
    <2>5. CASE ~(i + 2 + Len(rb) - 1 <= Len(b))
      <3>1. q = Refusal
        BY <2>3, <2>5 DEF Reads
      <3> QED
        BY <1>5, <2>2, <2>5, <3>1 DEF Reads, Refusal
    <2> QED
      BY <2>4, <2>5
  <1>12. ASSUME ~(i + Len(le) - 1 <= Len(b))
         PROVE  r = Refusal
    <2>1. RNumber(2, b, i) = Refusal
      BY <1>10, <1>12 DEF Reads
    <2> QED
      BY <2>1 DEF RRuns, Then, Refusal, r
  <1>13. Reads(r, b, i, le \o rb, s)
    BY <1>3, <1>5, <1>11, <1>12, ReadsOn
  <1> QED
    BY <1>13 DEF r, le, rb, L, rs

PackedItems(s) == [i \in 1..Len(s) |-> LE(ZigZag(s[i]), Width(s))]
PackedBytes(s) == Joined(PackedItems(s), Width(s))

LEMMA PackedIs ==
  ASSUME NEW n \in Nat, NEW s \in [1..n -> Elements("i64")]
  PROVE  /\ Width(s) \in Bytes /\ Width(s) \in 0..WordLen
         /\ PackedItems(s) \in [1..n -> [1..Width(s) -> Bytes]]
         /\ \A k \in 1..n : UnZigZag(FromDigits(PackedItems(s)[k], Base)) = s[k]
         /\ PackedBytes(s) \in Seq(Bytes)
         /\ Packed(s) = <<2>> \o (<<Width(s)>> \o PackedBytes(s))
         /\ Packed(s) \in Seq(Bytes) /\ Len(Packed(s)) = 1 + PackedSize(s)
  <1> DEFINE w == Width(s)
             items == PackedItems(s)
             c == PackedBytes(s)
  <1>1. Len(s) = n /\ WordLen \in Nat /\ w \in 0..WordLen /\ Fits(s, w) /\ w \in Nat
    BY FunctionIsASeq, WidthFits, ChunksAssumption
  <1>2. w \in Bytes
    BY <1>1, Bases, ChunksAssumption DEF Bytes
  <1>3. ASSUME NEW k \in 1..n
        PROVE  /\ LE(ZigZag(s[k]), w) \in [1..w -> Bytes]
               /\ UnZigZag(FromDigits(LE(ZigZag(s[k]), w), Base)) = s[k]
    <2>1. Shift(ZigZag(s[k]), Base, w) = 0
      BY <1>1 DEF Fits
    <2>2. ZigZag(s[k]) \in Nat /\ UnZigZag(ZigZag(s[k])) = s[k]
      BY ZigZagBack
    <2> HIDE DEF w
    <2>3. /\ LE(ZigZag(s[k]), w) \in [1..w -> 0..Base - 1]
          /\ FromDigits(LE(ZigZag(s[k]), w), Base) = ZigZag(s[k])
      BY <1>1, <2>1, <2>2, LEBack
    <2> QED
      BY <2>2, <2>3 DEF Bytes
  <1>4. /\ items \in [1..n -> [1..w -> Bytes]]
        /\ \A k \in 1..n : UnZigZag(FromDigits(items[k], Base)) = s[k]
    BY <1>1, <1>3 DEF PackedItems
  <1>5. Packed(s) = <<2, w>> \o c /\ PackedSize(s) = 1 + n * w
    BY <1>1 DEF Packed, PackedBytes, PackedItems, PackedSize
  <1>6. c \in [1..n * w -> Bytes]
    <2> HIDE DEF w, items
    <2>1. Joined(items, w) \in [1..n * w -> Bytes]
      BY <1>1, <1>4, JoinedItems
    <2> QED
      BY <2>1 DEF items, w, PackedBytes
  <1> DEFINE p == n * w
  <1>7. p \in Nat
    BY <1>1, ProductsGrow
  <1> HIDE DEF w, items, c, p
  <1>8. c \in Seq(Bytes) /\ Len(c) = p
    BY <1>6, <1>7, FunctionIsASeq DEF p
  <1>9. <<2>> \in Seq(Bytes) /\ Len(<<2>>) = 1 /\ <<w>> \in Seq(Bytes) /\ Len(<<w>>) = 1
    BY <1>2, Tags
  <1>10. <<2, w>> = <<2>> \o <<w>>
    OBVIOUS
  <1>11. <<2, w>> \o c = <<2>> \o (<<w>> \o c)
    BY <1>8, <1>9, <1>10, ConcatAssociative
  <1>12. <<w>> \o c \in Seq(Bytes) /\ Len(<<w>> \o c) = 1 + p
    BY <1>8, <1>9, ConcatProperties
  <1>13. <<2>> \o (<<w>> \o c) \in Seq(Bytes) /\ Len(<<2>> \o (<<w>> \o c)) = 1 + (1 + p)
    BY <1>9, <1>12, ConcatProperties
  <1> QED
    BY <1>1, <1>2, <1>4, <1>5, <1>8, <1>11, <1>13 DEF w, items, c, p

LEMMA PackedIsRead ==
  ASSUME NEW n \in Nat, NEW s \in [1..n -> Elements("i64")],
         NEW b \in Seq(Bytes), NEW i \in Nat,
         Agrees(b, i, <<Width(s)>> \o PackedBytes(s))
  PROVE  Reads(RPacked(n, b, i), b, i, <<Width(s)>> \o PackedBytes(s), s)
  <1> DEFINE w == Width(s)
             items == PackedItems(s)
             c == PackedBytes(s)
             r == RPacked(n, b, i)
  <1>1. /\ w \in Bytes /\ w \in 0..WordLen /\ w \in Nat /\ ~(w > WordLen)
        /\ items \in [1..n -> [1..w -> Bytes]]
        /\ \A k \in 1..n : UnZigZag(FromDigits(items[k], Base)) = s[k]
        /\ c \in Seq(Bytes) /\ c = Joined(items, w)
    <2>1. WordLen \in Nat
      BY ChunksAssumption
    <2>2. w \in Nat /\ ~(w > WordLen)
      BY <2>1, PackedIs
    <2> QED
      BY <2>2, PackedIs DEF PackedBytes
  <1>2. <<w>> \in Seq(Bytes) /\ Len(<<w>>) = 1
    <2> HIDE DEF w
    <2> QED
      BY <1>1
  <1>3. Agrees(b, i, <<w>> \o c)
    OBVIOUS
  <1>4. [k \in 1..n |-> UnZigZag(FromDigits(items[k], Base))] = s
    <2> HIDE DEF items
    <2> QED
      BY <1>1
  <1> HIDE DEF w, items, c, r
  <1>5. Agrees(b, i, <<w>>) /\ Agrees(b, i + 1, c)
    BY <1>1, <1>2, <1>3, PartsAgree
  <1>6. Reads(RByte(b, i), b, i, <<w>>, w)
    BY <1>1, <1>5, ByteIsRead DEF Bytes
  <1>7. ASSUME i + Len(<<w>>) - 1 <= Len(b)
        PROVE  Reads(r, b, i + Len(<<w>>), c, s)
    <2> DEFINE q == RItems(n, w, b, i + 1)
    <2>1. RByte(b, i) = Got(w, i + 1)
      BY <1>2, <1>6, <1>7 DEF Reads
    <2>2. r = IF q.ok THEN Got([k \in 1..n |-> UnZigZag(FromDigits(q.v[k], Base))], q.i)
              ELSE Refusal
      <3> DEFINE p == RByte(b, i)
      <3>1. p.ok = TRUE /\ p.v = w /\ p.i = i + 1
        BY <2>1 DEF Got
      <3>2. r = IF p.ok
                THEN IF p.v > WordLen THEN Refusal
                     ELSE IF RItems(n, p.v, b, p.i).ok
                          THEN Got([k \in 1..n |->
                                      UnZigZag(FromDigits(RItems(n, p.v, b, p.i).v[k], Base))],
                                   RItems(n, p.v, b, p.i).i)
                          ELSE Refusal
                ELSE Refusal
        BY DEF RPacked, Then, Giving, r
      <3> HIDE DEF p
      <3> QED
        BY <1>1, <3>1, <3>2
    <2>3. Reads(q, b, i + 1, c, items)
      <3>1. i + 1 \in Nat
        OBVIOUS
      <3> QED
        BY <1>1, <1>5, <3>1, ItemsAreRead
    <2> HIDE DEF q
    <2>4. CASE i + 1 + Len(c) - 1 <= Len(b)
      <3>1. q = Got(items, i + 1 + Len(c))
        BY <2>3, <2>4 DEF Reads
      <3>2. q.ok = TRUE /\ q.v = items /\ q.i = i + 1 + Len(c)
        BY <3>1 DEF Got
      <3>3. r = Got(s, i + 1 + Len(c))
        BY <1>4, <2>2, <3>2
      <3> QED
        BY <1>2, <2>4, <3>3 DEF Reads
    <2>5. CASE ~(i + 1 + Len(c) - 1 <= Len(b))
      <3>1. q = Refusal
        BY <2>3, <2>5 DEF Reads
      <3> QED
        BY <1>2, <2>2, <2>5, <3>1 DEF Reads, Refusal
    <2> QED
      BY <2>4, <2>5
  <1>8. ASSUME ~(i + Len(<<w>>) - 1 <= Len(b))
        PROVE  r = Refusal
    <2>1. RByte(b, i) = Refusal
      BY <1>6, <1>8 DEF Reads
    <2> DEFINE p == RByte(b, i)
    <2>2. p.ok = FALSE
      BY <2>1 DEF Refusal
    <2>3. r = IF p.ok
              THEN IF p.v > WordLen THEN Refusal
                   ELSE Giving(RItems(n, p.v, b, p.i), LAMBDA its :
                          [k \in 1..n |-> UnZigZag(FromDigits(its[k], Base))])
              ELSE Refusal
      BY DEF RPacked, Then, r
    <2> HIDE DEF p
    <2> QED
      BY <2>2, <2>3
  <1>9. Reads(r, b, i, <<w>> \o c, s)
    BY <1>1, <1>2, <1>7, <1>8, ReadsOn
  <1> QED
    BY <1>9 DEF r, c, w

----------------------------------------------------------------------------
(* Bits in bytes.                                                           *)
BitsOf(s, p) ==
  [j \in 1..ByteBits |->
     LET i == (p - 1) * ByteBits + j IN IF i <= Len(s) THEN s[i] ELSE 0]

LEMMA BitsOfAt ==
  ASSUME NEW s, NEW p, NEW k \in 1..ByteBits
  PROVE  BitsOf(s, p)[k] = IF (p - 1) * ByteBits + k <= Len(s)
                           THEN s[(p - 1) * ByteBits + k] ELSE 0
  BY Zenon DEF BitsOf

LEMMA BitsAre ==
  ASSUME NEW n \in Nat, NEW s \in [1..n -> {0, 1}]
  PROVE  /\ ByteCount(n) \in Nat /\ BitsAsBytes(s) \in [1..ByteCount(n) -> Bytes]
         /\ \A j \in 1..n :
              Shift(BitsAsBytes(s)[(j - 1) \div ByteBits + 1], 2, (j - 1) % ByteBits) % 2 = s[j]
  <1> DEFINE w == ByteBits
             m == ByteCount(n)
  <1>1. w \in Nat /\ w > 0 /\ Len(s) = n
    BY ChunksAssumption, FunctionIsASeq
  <1>2. m \in Nat
    BY <1>1, DivMod DEF ByteCount
  <1>3. ASSUME NEW p \in 1..m
        PROVE  BitsOf(s, p) \in [1..w -> 0..2 - 1]
    <2>1. \A j \in 1..w : (p - 1) * w + j \in Nat /\ (p - 1) * w + j > 0
      <3>1. (p - 1) * w \in Nat
        BY <1>1, <1>2, ProductsGrow
      <3> QED
        BY <1>1, <3>1
    <2>2. ASSUME NEW j \in 1..w
          PROVE  (LET i == (p - 1) * w + j IN IF i <= Len(s) THEN s[i] ELSE 0) \in 0..2 - 1
      <3> DEFINE i == (p - 1) * w + j
      <3>1. i \in Nat /\ i > 0
        BY <2>1
      <3> HIDE DEF i
      <3>2. (IF i <= Len(s) THEN s[i] ELSE 0) \in 0..2 - 1
        BY <1>1, <3>1
      <3> QED
        BY <3>2 DEF i
    <2> QED
      BY <2>2 DEF BitsOf
  <1>4. \A p \in 1..m : BitsAsBytes(s)[p] = FromDigits(BitsOf(s, p), 2)
    BY <1>1 DEF BitsAsBytes, BitsOf
  <1>5. BitsAsBytes(s) = [p \in 1..m |-> FromDigits(BitsOf(s, p), 2)]
    BY <1>1 DEF BitsAsBytes, BitsOf
  <1>6. ASSUME NEW p \in 1..m
        PROVE  /\ FromDigits(BitsOf(s, p), 2) \in Bytes
               /\ \A k \in 0..w - 1 : Shift(FromDigits(BitsOf(s, p), 2), 2, k) % 2 = BitsOf(s, p)[k + 1]
    <2> DEFINE d == BitsOf(s, p)
    <2>1. d \in [1..w -> 0..2 - 1]
      BY <1>3
    <2> HIDE DEF d, w
    <2>2. /\ FromDigits(d, 2) \in Nat /\ FromDigits(d, 2) < Power(2, w)
          /\ \A k \in 0..w - 1 : Shift(FromDigits(d, 2), 2, k) % 2 = d[k + 1]
      <3>1. PICK two \in Nat : two = 2
        OBVIOUS
      <3>2. d \in [1..w -> 0..two - 1] /\ two > 0
        BY <2>1, <3>1
      <3>3. /\ FromDigits(d, two) \in Nat /\ FromDigits(d, two) < Power(two, w)
            /\ \A k \in 0..w - 1 : Shift(FromDigits(d, two), two, k) % two = d[k + 1]
        BY <1>1, <3>2, ShiftedDigits
      <3> QED
        BY <3>1, <3>3
    <2>3. FromDigits(d, 2) \in Bytes
      BY <2>2, Bases DEF Bytes, Base, w
    <2> QED
      BY <2>2, <2>3 DEF d
  <1>7. BitsAsBytes(s) \in [1..m -> Bytes]
    <2> HIDE DEF m
    <2> QED
      BY <1>5, <1>6
  <1>8. ASSUME NEW j \in 1..n
        PROVE  Shift(BitsAsBytes(s)[(j - 1) \div w + 1], 2, (j - 1) % w) % 2 = s[j]
    <2> DEFINE q == (j - 1) \div w
               r == (j - 1) % w
    <2>1. q \in Nat /\ r \in 0..w - 1 /\ j - 1 = w * q + r
      BY <1>1, DivMod
    <2>2. q + 1 \in 1..m
      <3> DEFINE a == n + w - 1
      <3>1. a \in Nat /\ a = w * (a \div w) + (a % w) /\ a % w \in 0..w - 1 /\ a \div w \in Int
        BY <1>1, DivMod
      <3>2. m = a \div w
        BY DEF ByteCount
      <3> HIDE DEF a, q, r
      <3>3. m \in Nat /\ a = w * m + (a % w)
        BY <1>2, <3>1, <3>2
      <3> HIDE DEF m
      <3>4. q < m
        <4> SUFFICES ASSUME m <= q PROVE FALSE
          BY <2>1, <3>3
        <4>1. w * m <= w * q /\ w * m \in Nat /\ w * q \in Nat
          BY <1>1, <2>1, <3>3, ProductsGrow
        <4>2. a = n + w - 1
          BY DEF a
        <4> QED
          BY <1>1, <2>1, <3>1, <3>3, <4>1, <4>2
      <3> QED
        BY <2>1, <3>3, <3>4
    <2>3. BitsAsBytes(s)[q + 1] = FromDigits(BitsOf(s, q + 1), 2)
      BY <1>4, <2>2
    <2>4. Shift(FromDigits(BitsOf(s, q + 1), 2), 2, r) % 2 = BitsOf(s, q + 1)[r + 1]
      BY <1>6, <2>1, <2>2
    <2>5. BitsOf(s, q + 1)[r + 1] = s[j]
      <3> DEFINE k == r + 1
                 p == q + 1
      <3> HIDE DEF q, r
      <3>1. k \in 1..w /\ p - 1 = q /\ j <= Len(s)
        BY <1>1, <2>1
      <3>2. (p - 1) * w + k = j
        <4>1. q * w = w * q /\ w * q \in Nat
          BY <1>1, <2>1, ProductsGrow
        <4> QED
          BY <2>1, <3>1, <4>1
      <3> HIDE DEF k, p
      <3>3. BitsOf(s, p)[k] = IF (p - 1) * w + k <= Len(s) THEN s[(p - 1) * w + k] ELSE 0
        BY <3>1, BitsOfAt
      <3>4. BitsOf(s, p)[k] = s[j]
        BY <3>1, <3>2, <3>3
      <3> QED
        BY <3>4 DEF k, p
    <2> QED
      BY <2>3, <2>4, <2>5
  <1> QED
    BY <1>2, <1>7, <1>8

LEMMA BitsAreRead ==
  ASSUME NEW n \in Nat, NEW s \in [1..n -> {0, 1}], NEW b \in Seq(Bytes), NEW i \in Nat,
         Agrees(b, i, BitsAsBytes(s))
  PROVE  Reads(DecBits(0, n, b, i), b, i, BitsAsBytes(s), s)
  <1> DEFINE c == BitsAsBytes(s)
             m == ByteCount(n)
             q == RBytes(m, b, i)
             r == DecBits(0, n, b, i)
  <1>1. m \in Nat /\ c \in [1..m -> Bytes] /\ Agrees(b, i, c)
    BY BitsAre
  <1>2. [j \in 1..n |-> Shift(c[(j - 1) \div ByteBits + 1], 2, (j - 1) % ByteBits) % 2] = s
    <2>1. \A j \in 1..n : Shift(c[(j - 1) \div ByteBits + 1], 2, (j - 1) % ByteBits) % 2 = s[j]
      BY BitsAre
    <2> HIDE DEF c
    <2> QED
      BY <2>1
  <1>3. r = IF q.ok
            THEN Got([j \in 1..n |->
                        Shift(q.v[(j - 1) \div ByteBits + 1], 2, (j - 1) % ByteBits) % 2], q.i)
            ELSE Refusal
    BY DEF DecBits, Giving, Then
  <1> HIDE DEF c, m, r
  <1>4. Reads(q, b, i, c, c)
    BY <1>1, BytesAreRead
  <1> HIDE DEF q
  <1>5. CASE i + Len(c) - 1 <= Len(b)
    <2>1. q = Got(c, i + Len(c))
      BY <1>4, <1>5 DEF Reads
    <2>2. q.ok = TRUE /\ q.v = c /\ q.i = i + Len(c)
      BY <2>1 DEF Got
    <2>3. r = Got(s, i + Len(c))
      BY <1>2, <1>3, <2>2
    <2> QED
      BY <1>5, <2>3 DEF Reads, r, c
  <1>6. CASE ~(i + Len(c) - 1 <= Len(b))
    <2>1. q = Refusal
      BY <1>4, <1>6 DEF Reads
    <2>2. q.ok = FALSE
      BY <2>1 DEF Refusal
    <2>3. r = Refusal
      BY <1>3, <2>2
    <2> QED
      BY <1>6, <2>3 DEF Reads, r, c
  <1> QED
    BY <1>5, <1>6

----------------------------------------------------------------------------
(* A chunk: a tag, and what is read after it.                               *)
Decoded(kind, tag, n, b, i) ==
  CASE kind = "bit" -> DecBits(tag, n, b, i)
    [] kind = "i64" -> DecI64s(tag, n, b, i)
    [] kind \in {"u8", "f64"} -> DecPlain(kind, tag, n, b, i)

Tells(kind, n, tag, rest, s) ==
  \A b \in Seq(Bytes), i \in Nat :
    i - 1 <= Len(b) /\ Agrees(b, i, rest) =>
      Reads(Decoded(kind, tag, n, b, i), b, i, rest, s)

Tagged(kind, n, c, s) ==
  \E tag \in Bytes, rest \in Seq(Bytes) : c = <<tag>> \o rest /\ Tells(kind, n, tag, rest, s)

LEMMA RawIsTagged ==
  ASSUME NEW kind \in Scalars \ {"bit"}, NEW n \in Nat, NEW s \in [1..n -> Elements(kind)]
  PROVE  Tagged(kind, n, Raw(kind, s), s)
  <1> DEFINE rest == Joined(RawItems(kind, s), SizeOf(kind))
  <1>1. rest \in Seq(Bytes)
    <2>1. rest \in [1..n * SizeOf(kind) -> Bytes] /\ n * SizeOf(kind) \in Nat
      BY RawIs, SizesAre, ProductsGrow
    <2> HIDE DEF rest
    <2> QED
      BY <2>1, FunctionIsASeq
  <1>2. Raw(kind, s) = <<0>> \o rest /\ 0 \in Bytes
    BY RawIs, Tags
  <1>3. ASSUME NEW b \in Seq(Bytes), NEW i \in Nat, Agrees(b, i, rest)
        PROVE  Reads(Decoded(kind, 0, n, b, i), b, i, rest, s)
    <2>1. kind \in {"u8", "i64", "f64"}
      BY DEF Scalars
    <2>2. Decoded(kind, 0, n, b, i) = RRaw(kind, n, b, i)
      BY <2>1 DEF Decoded, DecI64s, DecPlain
    <2> QED
      BY <1>3, <2>2, RawIsRead
  <1> HIDE DEF rest
  <1>4. Tells(kind, n, 0, rest, s)
    BY <1>3 DEF Tells
  <1> QED
    BY <1>1, <1>2, <1>4 DEF Tagged

LEMMA InRunsIsTagged ==
  ASSUME NEW kind \in Scalars \ {"bit"}, NEW n \in 0..ChunkLen,
         NEW s \in [1..n -> Elements(kind)]
  PROVE  Tagged(kind, n, InRuns(kind, s), s)
  <1> DEFINE le == LE(Len(Runs(s)), 2)
             rb == RunBytes(kind, Runs(s))
             rest == le \o rb
  <1>1. InRuns(kind, s) = <<1>> \o rest /\ 1 \in Bytes /\ le \in [1..2 -> Bytes]
    BY InRunsIs, Tags
  <1>2. rest \in Seq(Bytes)
    <2>1. le \in Seq(Bytes)
      <3>1. 2 \in Nat
        OBVIOUS
      <3> HIDE DEF le
      <3> QED
        BY <1>1, <3>1, FunctionIsASeq
    <2>2. Runs(s) \in Seq(RunsOf(Elements(kind)))
      <3>1. n \in Nat
        BY ChunksAssumption
      <3> QED
        BY <3>1, RunsBack
    <2>3. rb \in Seq(Bytes)
      BY <2>2, RunsAre
    <2> HIDE DEF le, rb
    <2> QED
      BY <2>1, <2>3, ConcatProperties
  <1>3. ASSUME NEW b \in Seq(Bytes), NEW i \in Nat, Agrees(b, i, rest)
        PROVE  Reads(Decoded(kind, 1, n, b, i), b, i, rest, s)
    <2>1. kind \in {"u8", "i64", "f64"}
      BY DEF Scalars
    <2>2. Decoded(kind, 1, n, b, i) = RRuns(kind, b, i)
      BY <2>1 DEF Decoded, DecI64s, DecPlain
    <2> QED
      BY <1>3, <2>2, InRunsIsRead
  <1> HIDE DEF rest
  <1>4. Tells(kind, n, 1, rest, s)
    BY <1>3 DEF Tells
  <1> QED
    BY <1>1, <1>2, <1>4 DEF Tagged

LEMMA PackedIsTagged ==
  ASSUME NEW n \in Nat, NEW s \in [1..n -> Elements("i64")]
  PROVE  Tagged("i64", n, Packed(s), s)
  <1> DEFINE w == Width(s)
             c == PackedBytes(s)
             rest == <<w>> \o c
  <1>1. Packed(s) = <<2>> \o rest /\ 2 \in Bytes /\ w \in Bytes /\ c \in Seq(Bytes)
    BY PackedIs, Tags
  <1>2. rest \in Seq(Bytes)
    <2> HIDE DEF w, c
    <2>1. <<w>> \in Seq(Bytes)
      BY <1>1
    <2> QED
      BY <1>1, <2>1, ConcatProperties
  <1>3. ASSUME NEW b \in Seq(Bytes), NEW i \in Nat, Agrees(b, i, rest)
        PROVE  Reads(Decoded("i64", 2, n, b, i), b, i, rest, s)
    <2>1. Decoded("i64", 2, n, b, i) = RPacked(n, b, i)
      BY DEF Decoded, DecI64s
    <2> QED
      BY <1>3, <2>1, PackedIsRead
  <1> HIDE DEF rest
  <1>4. Tells("i64", n, 2, rest, s)
    BY <1>3 DEF Tells
  <1> QED
    BY <1>1, <1>2, <1>4 DEF Tagged

LEMMA BitsAreTagged ==
  ASSUME NEW n \in Nat, NEW s \in [1..n -> {0, 1}]
  PROVE  /\ Tagged("bit", n, EncBits(s), s)
         /\ Len(<<0>> \o BitsAsBytes(s)) \in Nat
         /\ Len(EncBits(s)) <= Len(<<0>> \o BitsAsBytes(s))
  <1> DEFINE c == BitsAsBytes(s)
             e == EncBits(s)
  <1>1. Len(s) = n /\ c \in Seq(Bytes) /\ <<>> \in Seq(Bytes) /\ {0, 1, 2} \subseteq Bytes
    <2>1. ByteCount(n) \in Nat /\ c \in [1..ByteCount(n) -> Bytes]
      BY BitsAre
    <2> HIDE DEF c
    <2> QED
      BY <2>1, Tags, FunctionIsASeq
  <1>2. /\ e \in {<<1>>, <<2>>, <<0>> \o c}
        /\ e = <<1>> => \A i \in 1..n : s[i] = 0
        /\ e = <<2>> => \A i \in 1..n : s[i] = 1
    <2>1. (<<0>> \o c)[1] = 0
      <3>1. <<0>> \in Seq(Bytes) /\ Len(<<0>>) = 1 /\ Len(c) \in Nat
        BY <1>1, LenProperties
      <3> HIDE DEF c
      <3>2. (<<0>> \o c)[1] = <<0>>[1]
        BY <1>1, <3>1, ConcatProperties
      <3> QED
        BY <3>2
    <2>2. <<1>>[1] = 1 /\ <<2>>[1] = 2
      OBVIOUS
    <2>3. CASE \A i \in 1..n : s[i] = 0
      <3>1. e = <<1>>
        BY <1>1, <2>3 DEF EncBits
      <3> QED
        BY <2>2, <2>3, <3>1
    <2>4. CASE ~(\A i \in 1..n : s[i] = 0) /\ (\A i \in 1..n : s[i] = 1)
      <3>1. e = <<2>>
        BY <1>1, <2>4 DEF EncBits
      <3> QED
        BY <2>2, <2>4, <3>1
    <2>5. CASE ~(\A i \in 1..n : s[i] = 0) /\ ~(\A i \in 1..n : s[i] = 1)
      <3>1. e = <<0>> \o c
        BY <1>1, <2>5 DEF EncBits
      <3> DEFINE d == <<0>> \o c
      <3>2. d[1] = 0 /\ e = d
        BY <2>1, <3>1
      <3> HIDE DEF e, d
      <3>3. e # <<1>> /\ e # <<2>>
        BY <2>2, <3>2
      <3> QED
        BY <3>2, <3>3 DEF d
    <2> QED
      BY <2>3, <2>4, <2>5
  <1>3. Len(<<0>> \o c) >= 1 /\ Len(<<1>>) = 1 /\ Len(<<2>>) = 1 /\ Len(<<0>> \o c) \in Nat
    <2>1. <<0>> \in Seq(Bytes) /\ Len(<<0>>) = 1 /\ Len(c) \in Nat
      BY <1>1, LenProperties
    <2> HIDE DEF c
    <2> QED
      BY <1>1, <2>1, ConcatProperties
  <1>4. CASE e = <<0>> \o c
    <2>1. Tells("bit", n, 0, c, s)
      <3>1. ASSUME NEW b \in Seq(Bytes), NEW i \in Nat, Agrees(b, i, c)
            PROVE  Reads(Decoded("bit", 0, n, b, i), b, i, c, s)
        BY <3>1, BitsAreRead DEF Decoded
      <3> HIDE DEF c
      <3> QED
        BY <3>1 DEF Tells
    <2> HIDE DEF c, e
    <2>2. Tagged("bit", n, e, s)
      BY <1>1, <1>4, <2>1 DEF Tagged
    <2> QED
      BY <1>3, <1>4, <2>2 DEF c, e
  <1>5. ASSUME NEW tag \in {1, 2}, e = <<tag>>
        PROVE  Tagged("bit", n, e, s)
    <2>1. ASSUME NEW b \in Seq(Bytes), NEW i \in Nat, i - 1 <= Len(b)
          PROVE  Reads(Decoded("bit", tag, n, b, i), b, i, <<>>, s)
      <3>1. CASE tag = 1
        <4>1. [j \in 1..n |-> 0] = s
          BY <1>2, <1>5, <3>1
        <4>2. Decoded("bit", 1, n, b, i) = Got([j \in 1..n |-> 0], i)
          BY DEF Decoded, DecBits, Giving, Then
        <4> QED
          BY <2>1, <3>1, <4>1, <4>2 DEF Reads
      <3>2. CASE tag = 2
        <4>1. [j \in 1..n |-> 1] = s
          BY <1>2, <1>5, <3>2
        <4>2. Decoded("bit", 2, n, b, i) = Got([j \in 1..n |-> 1], i)
          BY DEF Decoded, DecBits, Giving, Then
        <4> QED
          BY <2>1, <3>2, <4>1, <4>2 DEF Reads
      <3> QED
        BY <3>1, <3>2
    <2>2. Tells("bit", n, tag, <<>>, s)
      BY <2>1 DEF Tells
    <2>3. e = <<tag>> \o <<>> /\ tag \in Bytes
      BY <1>1, <1>5
    <2> HIDE DEF e
    <2> QED
      BY <1>1, <2>2, <2>3 DEF Tagged
  <1>6. CASE e = <<1>>
    <2>1. Tagged("bit", n, e, s)
      BY <1>5, <1>6
    <2> HIDE DEF c, e
    <2> QED
      BY <1>3, <1>6, <2>1 DEF c, e
  <1>7. CASE e = <<2>>
    <2>1. Tagged("bit", n, e, s)
      BY <1>5, <1>7
    <2> HIDE DEF c, e
    <2> QED
      BY <1>3, <1>7, <2>1 DEF c, e
  <1> QED
    BY <1>2, <1>4, <1>6, <1>7

LEMMA TaggedIsBytes ==
  ASSUME NEW kind, NEW n, NEW s, NEW c, Tagged(kind, n, c, s)
  PROVE  c \in Seq(Bytes)
  <1>1. PICK tag \in Bytes, rest \in Seq(Bytes) :
          c = <<tag>> \o rest /\ Tells(kind, n, tag, rest, s)
    BY DEF Tagged
  <1>2. <<tag>> \in Seq(Bytes)
    OBVIOUS
  <1> QED
    BY <1>1, <1>2, ConcatProperties

LEMMA TaggedIsRead ==
  ASSUME NEW kind, NEW n, NEW s, NEW c, Tagged(kind, n, c, s),
         NEW b \in Seq(Bytes), NEW i \in Nat, Agrees(b, i, c)
  PROVE  Reads(RChunk(kind, n, b, i), b, i, c, s)
  <1>1. PICK tag \in Bytes, rest \in Seq(Bytes) :
          c = <<tag>> \o rest /\ Tells(kind, n, tag, rest, s)
    BY DEF Tagged
  <1>2. <<tag>> \in Seq(Bytes) /\ Len(<<tag>>) = 1 /\ Len(b) \in Nat
    BY LenProperties
  <1>3. Agrees(b, i, <<tag>>) /\ Agrees(b, i + 1, rest)
    BY <1>1, <1>2, PartsAgree
  <1> DEFINE p == RByte(b, i)
             r == RChunk(kind, n, b, i)
  <1>4. r = IF p.ok THEN Decoded(kind, p.v, n, b, p.i) ELSE Refusal
    BY Zenon DEF RChunk, Then, Decoded
  <1>5. Reads(p, b, i, <<tag>>, tag)
    BY <1>3, ByteIsRead DEF Bytes
  <1> HIDE DEF p, r
  <1>6. ASSUME i + Len(<<tag>>) - 1 <= Len(b)
        PROVE  Reads(r, b, i + Len(<<tag>>), rest, s)
    <2>1. p = Got(tag, i + 1)
      BY <1>2, <1>5, <1>6 DEF Reads
    <2>2. p.ok = TRUE /\ p.v = tag /\ p.i = i + 1
      BY <2>1 DEF Got
    <2>3. r = Decoded(kind, tag, n, b, i + 1)
      BY <1>4, <2>2
    <2>4. i + 1 \in Nat /\ i + 1 - 1 <= Len(b)
      BY <1>2, <1>6
    <2> QED
      BY <1>1, <1>2, <1>3, <2>3, <2>4 DEF Tells
  <1>7. ASSUME ~(i + Len(<<tag>>) - 1 <= Len(b))
        PROVE  r = Refusal
    <2>1. p = Refusal
      BY <1>5, <1>7 DEF Reads
    <2>2. p.ok = FALSE
      BY <2>1 DEF Refusal
    <2> QED
      BY <1>4, <2>2
  <1>8. Reads(r, b, i, <<tag>> \o rest, s)
    BY <1>2, <1>6, <1>7, ReadsOn
  <1> QED
    BY <1>1, <1>8 DEF r

(* Whatever the writer chooses is read, and nothing is shorter.             *)
LEMMA CodedIsTagged ==
  ASSUME NEW kind \in Scalars, NEW n \in 0..ChunkLen, NEW s \in [1..n -> Elements(kind)]
  PROVE  /\ Tagged(kind, n, Coded(kind, s), s)
         /\ \A other \in Codings(kind, s) :
              Len(other) \in Nat /\ Len(Coded(kind, s)) <= Len(other)
  <1>1. n \in Nat /\ kind \in {"bit", "u8", "i64", "f64"}
    BY ChunksAssumption DEF Scalars
  <1>2. CASE kind = "bit"
    <2>1. s \in [1..n -> {0, 1}]
      <3>1. Elements("bit") = {0, 1}
        BY DEF Elements
      <3> QED
        BY <1>2, <3>1
    <2>2. Coded("bit", s) = EncBits(s) /\ Codings("bit", s) = {<<0>> \o BitsAsBytes(s)}
      BY DEF Coded, Codings
    <2> QED
      BY <1>1, <1>2, <2>1, <2>2, BitsAreTagged
  <1>3. ASSUME kind # "bit"
        PROVE  /\ Tagged(kind, n, Raw(kind, s), s) /\ Tagged(kind, n, InRuns(kind, s), s)
               /\ Len(Raw(kind, s)) = 1 + RawSize(kind, s)
               /\ Len(InRuns(kind, s)) = 1 + RunsSize(kind, s)
               /\ RawSize(kind, s) \in Nat /\ RunsSize(kind, s) \in Nat
    <2>1. kind \in Scalars \ {"bit"} /\ Len(s) = n
      BY <1>1, <1>3, FunctionIsASeq
    <2>2. RawSize(kind, s) = n * SizeOf(kind) /\ n * SizeOf(kind) \in Nat
      BY <1>1, <2>1, SizesAre, ProductsGrow DEF RawSize
    <2>3. RunsSize(kind, s) \in Nat
      <3>1. Runs(s) \in Seq(RunsOf(Elements(kind)))
        BY <1>1, RunsBack
      <3>2. Len(Runs(s)) \in Nat /\ 1 + SizeOf(kind) \in Nat
        BY <3>1, LenProperties, SizesAre
      <3>3. Len(Runs(s)) * (1 + SizeOf(kind)) \in Nat
        BY <3>2, ProductsGrow
      <3> QED
        BY <3>3 DEF RunsSize
    <2> QED
      BY <1>1, <2>1, <2>2, <2>3, RawIsTagged, InRunsIsTagged, RawIs, InRunsIs
  <1>4. CASE kind \in {"u8", "f64"}
    <2>1. /\ Coded(kind, s) = IF RunsSize(kind, s) < RawSize(kind, s)
                              THEN InRuns(kind, s) ELSE Raw(kind, s)
          /\ Codings(kind, s) = {Raw(kind, s), InRuns(kind, s)}
      BY <1>4 DEF Coded, EncU8s, EncF64s, Codings
    <2> QED
      BY <1>3, <1>4, <2>1
  <1>5. CASE kind = "i64"
    <2>1. /\ Tagged("i64", n, Packed(s), s) /\ Len(Packed(s)) = 1 + PackedSize(s)
          /\ PackedSize(s) \in Nat
      <3>1. s \in [1..n -> Elements("i64")] /\ Len(s) = n
        BY <1>1, <1>5, FunctionIsASeq
      <3>2. Width(s) \in 0..WordLen /\ WordLen \in Nat
        BY <1>1, <3>1, WidthFits, ChunksAssumption
      <3>3. n * Width(s) \in Nat
        BY <1>1, <3>2, ProductsGrow
      <3>4. PackedSize(s) \in Nat
        BY <3>1, <3>3 DEF PackedSize
      <3> QED
        BY <1>1, <3>1, <3>4, PackedIsTagged, PackedIs
    <2>2. Codings("i64", s) = {Raw("i64", s), InRuns("i64", s), Packed(s)}
      BY DEF Codings
    <2>3. Coded("i64", s) = EncI64s(s)
      BY DEF Coded
    <2> DEFINE raw == RawSize("i64", s)
               rle == RunsSize("i64", s)
               packed == PackedSize(s)
    <2>4. EncI64s(s) = IF raw <= rle /\ raw <= packed THEN Raw("i64", s)
                       ELSE IF rle <= packed THEN InRuns("i64", s) ELSE Packed(s)
      BY DEF EncI64s
    <2>5. /\ Tagged("i64", n, Raw("i64", s), s) /\ Tagged("i64", n, InRuns("i64", s), s)
          /\ Len(Raw("i64", s)) = 1 + raw /\ Len(InRuns("i64", s)) = 1 + rle
          /\ raw \in Nat /\ rle \in Nat
      BY <1>3, <1>5
    <2> HIDE DEF raw, rle, packed
    <2>6. CASE raw <= rle /\ raw <= packed
      BY <1>5, <2>1, <2>2, <2>3, <2>4, <2>5, <2>6 DEF packed
    <2>7. CASE ~(raw <= rle /\ raw <= packed) /\ rle <= packed
      BY <1>5, <2>1, <2>2, <2>3, <2>4, <2>5, <2>7 DEF packed
    <2>8. CASE ~(raw <= rle /\ raw <= packed) /\ ~(rle <= packed)
      BY <1>5, <2>1, <2>2, <2>3, <2>4, <2>5, <2>8 DEF packed
    <2> QED
      BY <2>6, <2>7, <2>8
  <1> QED
    BY <1>1, <1>2, <1>4, <1>5

----------------------------------------------------------------------------
(* The header of a column.                                                  *)
SlotsOf(c, S) == [1..c.len -> S]

LEMMA ColumnIs ==
  ASSUME NEW c, IsColumn(c)
  PROVE  /\ c.len \in Nat /\ c.len < Power(Base, 4)
         /\ c.present \in Seq(SlotsOf(c, {0, 1})) /\ Len(c.present) \in 0..1
         /\ c.sel \in Seq(SlotsOf(c, Nat)) /\ Len(c.sel) \in 0..1
         /\ c.cases \in Seq(Scalars \X SlotsOf(c, Int)) /\ Len(c.cases) \in 1..MaxCases
         /\ \A j \in 1..Len(c.cases) : /\ c.cases[j][1] \in Scalars
                                       /\ c.cases[j][2] \in SlotsOf(c, Elements(c.cases[j][1]))
         /\ \A q \in 1..Len(c.sel) : c.sel[q] \in SlotsOf(c, 0..Len(c.cases) - 1)
  <1>1. /\ c.len \in Nat /\ c.len < Power(Base, 4)
        /\ c.present \in Seq(SlotsOf(c, {0, 1})) /\ Len(c.present) <= 1
        /\ c.sel \in Seq(SlotsOf(c, Nat)) /\ Len(c.sel) <= 1
        /\ c.cases \in Seq(Scalars \X SlotsOf(c, Int)) /\ Len(c.cases) \in 1..MaxCases
    BY DEF IsColumn, SlotsOf
  <1>2. Len(c.present) \in 0..1 /\ Len(c.sel) \in 0..1
    <2>1. Len(c.present) \in Nat /\ Len(c.sel) \in Nat
      BY <1>1, LenProperties
    <2> DEFINE x == Len(c.present)
               y == Len(c.sel)
    <2>2. x \in Nat /\ y \in Nat /\ x <= 1 /\ y <= 1
      BY <1>1, <2>1
    <2> HIDE DEF x, y
    <2>3. x \in 0..1 /\ y \in 0..1
      BY <2>2
    <2> QED
      BY <2>3 DEF x, y
  <1>3. ASSUME NEW j \in 1..Len(c.cases)
        PROVE  /\ c.cases[j][1] \in Scalars
               /\ c.cases[j][2] \in SlotsOf(c, Elements(c.cases[j][1]))
    <2>1. c.cases[j] \in Scalars \X SlotsOf(c, Int)
      BY <1>1, ElementOfSeq
    <2>2. c.cases[j][1] \in Scalars /\ c.cases[j][2] \in [1..c.len -> Int]
      BY <2>1 DEF SlotsOf
    <2>3. \A k \in 1..c.len : c.cases[j][2][k] \in Elements(c.cases[j][1])
      BY DEF IsColumn
    <2> QED
      BY <2>2, <2>3 DEF SlotsOf
  <1>4. ASSUME NEW q \in 1..Len(c.sel)
        PROVE  c.sel[q] \in SlotsOf(c, 0..Len(c.cases) - 1)
    <2>1. c.sel[q] \in [1..c.len -> Nat]
      BY <1>1, ElementOfSeq DEF SlotsOf
    <2>2. \A k \in 1..c.len : c.sel[q][k] < Len(c.cases)
      BY DEF IsColumn
    <2>3. Len(c.cases) \in Nat
      BY <1>1
    <2> DEFINE s == c.sel[q]
               n == Len(c.cases)
    <2> HIDE DEF s, n
    <2>4. \A k \in 1..c.len : s[k] \in 0..n - 1
      <3>1. s \in [1..c.len -> Nat] /\ n \in Nat /\ \A k \in 1..c.len : s[k] < n
        BY <2>1, <2>2, <2>3 DEF s, n
      <3> QED
        BY <3>1
    <2>5. s \in [1..c.len -> 0..n - 1]
      BY <2>1, <2>4 DEF s
    <2> QED
      BY <2>5 DEF SlotsOf, s, n
  <1> QED
    BY <1>1, <1>2, <1>3, <1>4

KindsOf(c) == [j \in 1..Len(c.cases) |-> c.cases[j][1]]
KindBytes(c) == [j \in 1..Len(c.cases) |-> WireKind(c.cases[j][1])]
HeadOf(c) ==
  [len |-> c.len, present |-> Len(c.present), sel |-> Len(c.sel), kinds |-> KindsOf(c)]
Flags(c) == Len(c.present) + 2 * Len(c.sel)

LEMMA TwoAreAPair ==
  ASSUME NEW S, NEW x \in S, NEW y \in S
  PROVE  <<x, y>> = <<x>> \o <<y>>
  <1> DEFINE z == <<x>> \o <<y>>
  <1>1. <<x>> \in Seq(S) /\ <<y>> \in Seq(S) /\ Len(<<x>>) = 1 /\ Len(<<y>>) = 1
    OBVIOUS
  <1>2. z \in Seq(S) /\ Len(z) = 2 /\ z[1] = <<x>>[1] /\ z[2] = <<y>>[1]
    BY <1>1, ConcatProperties
  <1>3. z[1] = x /\ z[2] = y
    BY <1>2
  <1> HIDE DEF z
  <1>4. z = <<x, y>>
    BY <1>2, <1>3
  <1> QED
    BY <1>4 DEF z

LEMMA WireKindBack ==
  ASSUME NEW k \in Scalars
  PROVE  /\ WireKind(k) \in DOMAIN WireKinds /\ WireKind(k) \in Bytes
         /\ WireKinds[WireKind(k)] = k
  <1>1. DOMAIN WireKinds = 1..6
    BY DEF WireKinds
  <1>2. \E n \in DOMAIN WireKinds : WireKinds[n] = k
    BY <1>1 DEF Scalars, WireKinds
  <1>3. WireKind(k) \in DOMAIN WireKinds /\ WireKinds[WireKind(k)] = k
    BY <1>2 DEF WireKind
  <1>4. 1..6 \subseteq Bytes
    BY Bases, ChunksAssumption DEF Bytes, MaxCases
  <1> QED
    BY <1>1, <1>3, <1>4

LEMMA HeaderIs ==
  ASSUME NEW c, IsColumn(c)
  PROVE  /\ LE(c.len, 4) \in Seq(Bytes) /\ Shift(c.len, Base, 4) = 0
         /\ Flags(c) \in Bytes /\ Flags(c) % 2 = Len(c.present)
         /\ (Flags(c) \div 2) % 2 = Len(c.sel)
         /\ Len(c.cases) \in Bytes
         /\ KindBytes(c) \in [1..Len(c.cases) -> Bytes]
         /\ \A j \in 1..Len(c.cases) : /\ KindBytes(c)[j] \in DOMAIN WireKinds
                                       /\ WireKinds[KindBytes(c)[j]] = KindsOf(c)[j]
         /\ Header(c) = LE(c.len, 4) \o (<<Flags(c)>> \o (<<Len(c.cases)>> \o KindBytes(c)))
         /\ Header(c) \in Seq(Bytes)
  <1>1. LE(c.len, 4) \in Seq(Bytes) /\ Shift(c.len, Base, 4) = 0
    <2>1. 4 \in Nat /\ c.len \in Nat /\ c.len < Power(Base, 4)
      BY ColumnIs
    <2>2. LE(c.len, 4) \in [1..4 -> Bytes] /\ Shift(c.len, Base, 4) = 0
      BY <2>1, LEFits DEF Bytes
    <2> QED
      BY <2>1, <2>2, FunctionIsASeq
  <1>2. 0..8 \subseteq Bytes
    BY Bases, ChunksAssumption DEF Bytes, MaxCases
  <1>3. /\ Flags(c) \in Bytes /\ Flags(c) % 2 = Len(c.present)
        /\ (Flags(c) \div 2) % 2 = Len(c.sel)
    <2>1. Len(c.present) \in 0..1 /\ Len(c.sel) \in 0..1
      BY ColumnIs
    <2> DEFINE x == Len(c.present)
               y == Len(c.sel)
    <2>2. Flags(c) = x + 2 * y
      BY DEF Flags
    <2> HIDE DEF x, y
    <2>3. x \in {0, 1} /\ y \in {0, 1}
      BY <2>1 DEF x, y
    <2>4. x + 2 * y \in 0..8 /\ (x + 2 * y) % 2 = x /\ ((x + 2 * y) \div 2) % 2 = y
      BY <2>3
    <2> QED
      BY <1>2, <2>2, <2>4 DEF x, y
  <1>4. Len(c.cases) \in Bytes /\ Len(c.cases) \in Nat
    <2>1. Len(c.cases) \in 1..8
      BY ColumnIs DEF MaxCases
    <2> DEFINE n == Len(c.cases)
    <2> HIDE DEF n
    <2>2. n \in Nat /\ n \in 0..8
      BY <2>1 DEF n
    <2> QED
      BY <1>2, <2>2 DEF n
  <1>5. /\ KindBytes(c) \in [1..Len(c.cases) -> Bytes]
        /\ \A j \in 1..Len(c.cases) : /\ KindBytes(c)[j] \in DOMAIN WireKinds
                                      /\ WireKinds[KindBytes(c)[j]] = KindsOf(c)[j]
    BY ColumnIs, WireKindBack DEF KindBytes, KindsOf
  <1>6. KindBytes(c) \in Seq(Bytes)
    BY <1>4, <1>5, FunctionIsASeq
  <1> DEFINE le == LE(c.len, 4)
             f == Flags(c)
             n == Len(c.cases)
             kb == KindBytes(c)
  <1>7. Header(c) = (le \o <<f, n>>) \o kb
    BY DEF Header, Flags, KindBytes
  <1> HIDE DEF le, f, n, kb
  <1>8. le \in Seq(Bytes) /\ <<f>> \in Seq(Bytes) /\ <<n>> \in Seq(Bytes) /\ kb \in Seq(Bytes)
    <2>1. le \in Seq(Bytes) /\ f \in Bytes /\ n \in Bytes /\ kb \in Seq(Bytes)
      BY <1>1, <1>3, <1>4, <1>6 DEF le, f, n, kb
    <2> QED
      BY <2>1
  <1>9. <<f, n>> = <<f>> \o <<n>>
    <2>1. f \in Bytes /\ n \in Bytes
      BY <1>3, <1>4 DEF f, n
    <2> QED
      BY <2>1, TwoAreAPair
  <1>10. <<f>> \o <<n>> \in Seq(Bytes) /\ <<n>> \o kb \in Seq(Bytes)
    BY <1>8, ConcatProperties
  <1>11. (le \o (<<f>> \o <<n>>)) \o kb = le \o ((<<f>> \o <<n>>) \o kb)
    BY <1>8, <1>10, ConcatAssociative
  <1>12. (<<f>> \o <<n>>) \o kb = <<f>> \o (<<n>> \o kb)
    BY <1>8, ConcatAssociative
  <1>13. <<f>> \o (<<n>> \o kb) \in Seq(Bytes)
    BY <1>8, <1>10, ConcatProperties
  <1>14. le \o (<<f>> \o (<<n>> \o kb)) \in Seq(Bytes)
    BY <1>8, <1>13, ConcatProperties
  <1>15. Header(c) = le \o (<<f>> \o (<<n>> \o kb))
    BY <1>7, <1>9, <1>11, <1>12
  <1> QED
    BY <1>1, <1>3, <1>4, <1>5, <1>14, <1>15 DEF le, f, n, kb

LEMMA ReadsThen ==
  ASSUME NEW S, NEW x \in Seq(S), NEW y \in Seq(S), NEW b \in Seq(S), NEW i \in Nat,
         NEW p, NEW q, NEW r, NEW u, NEW v,
         Reads(p, b, i, x, u), r = IF p.ok THEN q ELSE Refusal,
         p.v = u /\ p.i = i + Len(x) => Reads(q, b, i + Len(x), y, v)
  PROVE  Reads(r, b, i, x \o y, v)
  <1>1. ASSUME i + Len(x) - 1 <= Len(b)
        PROVE  Reads(r, b, i + Len(x), y, v)
    <2>1. p = Got(u, i + Len(x))
      BY <1>1 DEF Reads
    <2>2. p.ok = TRUE /\ p.v = u /\ p.i = i + Len(x)
      BY <2>1 DEF Got
    <2> QED
      BY <2>2
  <1>2. ASSUME ~(i + Len(x) - 1 <= Len(b))
        PROVE  r = Refusal
    <2>1. p = Refusal
      BY <1>2 DEF Reads
    <2>2. p.ok = FALSE
      BY <2>1 DEF Refusal
    <2> QED
      BY <2>2
  <1> QED
    BY <1>1, <1>2, ReadsOn

(* What is read of a header after its length, its flags, its count.         *)
KindsRead(len, flags, n, b, i) ==
  Then(RBytes(n, b, i), LAMBDA kinds, i4 :
    IF \E j \in 1..n : kinds[j] \notin DOMAIN WireKinds THEN Refusal
    ELSE Got([len |-> len, present |-> flags % 2, sel |-> (flags \div 2) % 2,
              kinds |-> [j \in 1..n |-> WireKinds[kinds[j]]]], i4))
CountRead(len, flags, b, i) ==
  Then(RByte(b, i), LAMBDA n, i3 :
    IF n = 0 \/ n > MaxCases THEN Refusal ELSE KindsRead(len, flags, n, b, i3))
FlagsRead(len, b, i) ==
  Then(RByte(b, i), LAMBDA flags, i2 : CountRead(len, flags, b, i2))

LEMMA HeaderIsRead ==
  ASSUME NEW c, IsColumn(c), NEW b \in Seq(Bytes), NEW i \in Nat, Agrees(b, i, Header(c))
  PROVE  Reads(RHeader(b, i), b, i, Header(c), HeadOf(c))
  <1> DEFINE le == LE(c.len, 4)
             f == Flags(c)
             n == Len(c.cases)
             kb == KindBytes(c)
             y2 == <<n>> \o kb
             y1 == <<f>> \o y2
             h == HeadOf(c)
  <1>1. /\ le \in Seq(Bytes) /\ Shift(c.len, Base, 4) = 0 /\ f \in Bytes /\ n \in Bytes
        /\ kb \in [1..n -> Bytes]
        /\ \A j \in 1..n : kb[j] \in DOMAIN WireKinds /\ WireKinds[kb[j]] = KindsOf(c)[j]
        /\ Header(c) = le \o y1
    BY HeaderIs
  <1>2. n \in 1..MaxCases /\ n \in Nat /\ c.len \in Nat /\ MaxCases = 8
    <2>1. n \in 1..8 /\ c.len \in Nat
      BY ColumnIs DEF MaxCases
    <2> HIDE DEF n
    <2> QED
      BY <2>1 DEF MaxCases
  <1>3. h = [len |-> c.len, present |-> f % 2, sel |-> (f \div 2) % 2,
             kinds |-> [j \in 1..n |-> WireKinds[kb[j]]]]
    <2>1. [j \in 1..n |-> WireKinds[kb[j]]] = KindsOf(c)
      <3> DEFINE ko == KindsOf(c)
      <3>1. ko = [j \in 1..n |-> ko[j]]
        BY DEF KindsOf
      <3> HIDE DEF kb, ko, n
      <3> QED
        BY <1>1, <3>1 DEF ko
    <2>2. f % 2 = Len(c.present) /\ (f \div 2) % 2 = Len(c.sel)
      BY HeaderIs
    <2> HIDE DEF f, kb, n
    <2> QED
      BY <2>1, <2>2 DEF HeadOf
  <1> HIDE DEF f, n, kb, h, le
  <1>4. <<f>> \in Seq(Bytes) /\ <<n>> \in Seq(Bytes) /\ Len(<<f>>) = 1 /\ Len(<<n>>) = 1
    BY <1>1
  <1>5. kb \in Seq(Bytes) /\ Len(kb) = n
    BY <1>1, <1>2, FunctionIsASeq
  <1>6. y2 \in Seq(Bytes)
    BY <1>4, <1>5, ConcatProperties
  <1>7. y1 \in Seq(Bytes)
    BY <1>4, <1>6, ConcatProperties
  <1>8. Agrees(b, i, le) /\ Agrees(b, i + Len(le), y1)
    BY <1>1, <1>7, PartsAgree
  <1> DEFINE i1 == i + Len(le)
             i2 == i1 + 1
             i3 == i2 + 1
  <1>9. i1 \in Nat /\ i2 \in Nat /\ i3 \in Nat /\ Len(b) \in Nat
    BY <1>1, LenProperties
  <1>10. Agrees(b, i1, <<f>>) /\ Agrees(b, i2, y2)
    BY <1>4, <1>6, <1>8, <1>9, PartsAgree
  <1> HIDE DEF i2
  <1>11. Agrees(b, i2, <<n>>) /\ Agrees(b, i3, kb)
    BY <1>4, <1>5, <1>9, <1>10, PartsAgree
  <1> HIDE DEF y1, y2, i1, i3
  <1>12. Reads(KindsRead(c.len, f, n, b, i3), b, i3, kb, h)
    <2> DEFINE p == RBytes(n, b, i3)
               r == KindsRead(c.len, f, n, b, i3)
    <2>1. r = IF p.ok
              THEN IF \E j \in 1..n : p.v[j] \notin DOMAIN WireKinds THEN Refusal
                   ELSE Got([len |-> c.len, present |-> f % 2, sel |-> (f \div 2) % 2,
                             kinds |-> [j \in 1..n |-> WireKinds[p.v[j]]]], p.i)
              ELSE Refusal
      BY DEF KindsRead, Then
    <2>2. Reads(p, b, i3, kb, kb)
      BY <1>1, <1>2, <1>9, <1>11, BytesAreRead
    <2> HIDE DEF p, r
    <2>3. CASE i3 + Len(kb) - 1 <= Len(b)
      <3>1. p = Got(kb, i3 + Len(kb))
        BY <2>2, <2>3 DEF Reads
      <3>2. p.ok = TRUE /\ p.v = kb /\ p.i = i3 + Len(kb)
        BY <3>1 DEF Got
      <3>3. ~(\E j \in 1..n : kb[j] \notin DOMAIN WireKinds)
        BY <1>1
      <3>4. r = Got(h, i3 + Len(kb))
        BY <1>3, <2>1, <3>2, <3>3
      <3> QED
        BY <2>3, <3>4 DEF Reads, r
    <2>4. CASE ~(i3 + Len(kb) - 1 <= Len(b))
      <3>1. p = Refusal
        BY <2>2, <2>4 DEF Reads
      <3>2. p.ok = FALSE
        BY <3>1 DEF Refusal
      <3>3. r = Refusal
        BY <2>1, <3>2
      <3> QED
        BY <2>4, <3>3 DEF Reads, r
    <2> QED
      BY <2>3, <2>4
  <1>13. Reads(CountRead(c.len, f, b, i2), b, i2, y2, h)
    <2> DEFINE p == RByte(b, i2)
               r == CountRead(c.len, f, b, i2)
               q == IF p.v = 0 \/ p.v > MaxCases THEN Refusal
                    ELSE KindsRead(c.len, f, p.v, b, p.i)
    <2>1. r = IF p.ok THEN q ELSE Refusal
      BY DEF CountRead, Then
    <2>2. Reads(p, b, i2, <<n>>, n)
      BY <1>1, <1>9, <1>11, ByteIsRead DEF Bytes
    <2>3. p.v = n /\ p.i = i2 + Len(<<n>>) => Reads(q, b, i2 + Len(<<n>>), kb, h)
      <3>1. ~(n = 0 \/ n > MaxCases)
        BY <1>2
      <3>2. i2 + Len(<<n>>) = i3
        BY <1>4 DEF i3
      <3> HIDE DEF p
      <3> QED
        BY <1>12, <3>1, <3>2
    <2> HIDE DEF p, q, r
    <2>4. Reads(r, b, i2, <<n>> \o kb, h)
      BY <1>4, <1>5, <1>9, <2>1, <2>2, <2>3, ReadsThen
    <2> QED
      BY <2>4 DEF r, y2
  <1>14. Reads(FlagsRead(c.len, b, i1), b, i1, y1, h)
    <2> DEFINE p == RByte(b, i1)
               r == FlagsRead(c.len, b, i1)
               q == CountRead(c.len, p.v, b, p.i)
    <2>1. r = IF p.ok THEN q ELSE Refusal
      BY DEF FlagsRead, Then
    <2>2. Reads(p, b, i1, <<f>>, f)
      BY <1>1, <1>9, <1>10, ByteIsRead DEF Bytes
    <2>3. p.v = f /\ p.i = i1 + Len(<<f>>) => Reads(q, b, i1 + Len(<<f>>), y2, h)
      <3>1. i1 + Len(<<f>>) = i2
        BY <1>4 DEF i2
      <3> HIDE DEF p
      <3> QED
        BY <1>13, <3>1
    <2> HIDE DEF p, q, r
    <2>4. Reads(r, b, i1, <<f>> \o y2, h)
      BY <1>4, <1>6, <1>9, <2>1, <2>2, <2>3, ReadsThen
    <2> QED
      BY <2>4 DEF r, y1
  <1>15. Reads(RHeader(b, i), b, i, le \o y1, h)
    <2> DEFINE p == RNumber(4, b, i)
               r == RHeader(b, i)
               q == FlagsRead(p.v, b, p.i)
    <2>1. r = IF p.ok THEN q ELSE Refusal
      BY Zenon DEF RHeader, FlagsRead, CountRead, KindsRead, Then
    <2>2. Reads(p, b, i, le, c.len)
      <3>1. Agrees(b, i, LE(c.len, 4)) /\ 4 \in Nat
        BY <1>8 DEF le
      <3>2. Reads(RNumber(4, b, i), b, i, LE(c.len, 4), c.len)
        BY <1>1, <1>2, <3>1, NumberIsRead DEF Bytes
      <3> QED
        BY <3>2 DEF le
    <2>3. p.v = c.len /\ p.i = i + Len(le) => Reads(q, b, i + Len(le), y1, h)
      <3> HIDE DEF p
      <3> QED
        BY <1>14 DEF i1
    <2> HIDE DEF p, q, r
    <2>4. Reads(r, b, i, le \o y1, h)
      BY <1>1, <1>7, <2>1, <2>2, <2>3, ReadsThen
    <2> QED
      BY <2>4 DEF r
  <1> QED
    BY <1>1, <1>15 DEF h

----------------------------------------------------------------------------
(* The buffers of a column, and the column from its buffers.                *)
AreThree(w, x, y, z, p, q, n) ==
  /\ Len(w) = p + q + n
  /\ \A j \in 1..p : w[j] = x[j]
  /\ \A j \in 1..q : w[p + j] = y[j]
  /\ \A j \in 1..n : w[p + q + j] = z[j]

LEMMA ThreeJoined ==
  ASSUME NEW S, NEW p \in Nat, NEW q \in Nat, NEW n \in Nat,
         NEW x \in [1..p -> S], NEW y \in [1..q -> S], NEW z \in [1..n -> S]
  PROVE  AreThree(x \o y \o z, x, y, z, p, q, n)
  <1>1. /\ x \in Seq(S) /\ Len(x) = p /\ y \in Seq(S) /\ Len(y) = q
        /\ z \in Seq(S) /\ Len(z) = n
    BY FunctionIsASeq
  <1> DEFINE xy == x \o y
             w == xy \o z
  <1>2. /\ xy \in Seq(S) /\ Len(xy) = p + q
        /\ \A j \in 1..p + q : xy[j] = IF j <= p THEN x[j] ELSE y[j - p]
    BY <1>1, ConcatProperties
  <1> HIDE DEF xy
  <1>3. /\ Len(w) = p + q + n
        /\ \A j \in 1..p + q + n : w[j] = IF j <= p + q THEN xy[j] ELSE z[j - (p + q)]
    <2>1. /\ Len(w) = Len(xy) + Len(z)
          /\ \A j \in 1..Len(xy) + Len(z) : w[j] = IF j <= Len(xy) THEN xy[j] ELSE z[j - Len(xy)]
      BY <1>1, <1>2, ConcatProperties
    <2> HIDE DEF w
    <2> QED
      BY <1>1, <1>2, <2>1
  <1> HIDE DEF w
  <1>4. ASSUME NEW j \in 1..p
        PROVE  w[j] = x[j]
    <2>1. j \in 1..p + q + n /\ j \in 1..p + q /\ j <= p + q /\ j <= p
      OBVIOUS
    <2>2. w[j] = xy[j]
      BY <1>3, <2>1
    <2> QED
      BY <1>2, <2>1, <2>2
  <1>5. ASSUME NEW j \in 1..q
        PROVE  w[p + j] = y[j]
    <2>1. /\ p + j \in 1..p + q + n /\ p + j \in 1..p + q /\ p + j <= p + q
          /\ ~(p + j <= p) /\ p + j - p = j
      OBVIOUS
    <2>2. w[p + j] = xy[p + j]
      BY <1>3, <2>1
    <2> QED
      BY <1>2, <2>1, <2>2
  <1>6. ASSUME NEW j \in 1..n
        PROVE  w[p + q + j] = z[j]
    <2>1. p + q + j \in 1..p + q + n /\ ~(p + q + j <= p + q) /\ p + q + j - (p + q) = j
      OBVIOUS
    <2> QED
      BY <1>3, <2>1
  <1> QED
    BY <1>3, <1>4, <1>5, <1>6 DEF AreThree, w, xy

(* The kind and the slots of each.                                          *)
PartIs(c, j, k, s) == Parts(c)[j] = <<k, s>> /\ PartKinds(HeadOf(c))[j] = k
Count(c) == Len(c.present) + Len(c.sel) + Len(c.cases)

LEMMA PartsAre ==
  ASSUME NEW c, IsColumn(c)
  PROVE  /\ Count(c) \in Nat /\ Len(Parts(c)) = Count(c)
         /\ Len(PartKinds(HeadOf(c))) = Count(c)
         /\ \A j \in 1..Len(c.present) : PartIs(c, j, "bit", c.present[j])
         /\ \A j \in 1..Len(c.sel) : PartIs(c, Len(c.present) + j, "u8", c.sel[j])
         /\ \A j \in 1..Len(c.cases) :
              PartIs(c, Len(c.present) + Len(c.sel) + j, c.cases[j][1], c.cases[j][2])
  <1> DEFINE p == Len(c.present)
             q == Len(c.sel)
             n == Len(c.cases)
             S == Scalars \X SlotsOf(c, Int)
             x == [j \in 1..p |-> <<"bit", c.present[j]>>]
             y == [j \in 1..q |-> <<"u8", c.sel[j]>>]
             z == c.cases
             kx == [j \in 1..p |-> "bit"]
             ky == [j \in 1..q |-> "u8"]
             kz == KindsOf(c)
  <1>1. p \in Nat /\ q \in Nat /\ n \in Nat
    <2>1. p \in 0..1 /\ q \in 0..1 /\ n \in 1..8
      BY ColumnIs DEF MaxCases
    <2> HIDE DEF p, q, n
    <2> QED
      BY <2>1
  <1>2. z \in Seq(S)
    BY ColumnIs
  <1>3. x \in [1..p -> S] /\ y \in [1..q -> S]
    <2>1. ASSUME NEW j \in 1..p
          PROVE  <<"bit", c.present[j]>> \in S
      <3>1. c.present[j] \in SlotsOf(c, {0, 1})
        BY ColumnIs, ElementOfSeq
      <3> QED
        BY <3>1 DEF Scalars, SlotsOf
    <2>2. ASSUME NEW j \in 1..q
          PROVE  <<"u8", c.sel[j]>> \in S
      <3>1. c.sel[j] \in SlotsOf(c, Nat)
        BY ColumnIs, ElementOfSeq
      <3> QED
        BY <3>1 DEF Scalars, SlotsOf
    <2> HIDE DEF S
    <2> QED
      BY <2>1, <2>2
  <1>4. kz \in [1..n -> Scalars]
    BY ColumnIs DEF KindsOf
  <1>5. kx \in [1..p -> Scalars] /\ ky \in [1..q -> Scalars]
    BY DEF Scalars
  <1>7. Parts(c) = x \o y \o z /\ PartKinds(HeadOf(c)) = kx \o ky \o kz
    BY DEF Parts, PartKinds, HeadOf
  <1>8. \A j \in 1..p : x[j] = <<"bit", c.present[j]>> /\ kx[j] = "bit"
    OBVIOUS
  <1>9. \A j \in 1..q : y[j] = <<"u8", c.sel[j]>> /\ ky[j] = "u8"
    OBVIOUS
  <1>10. \A j \in 1..n : z[j] = <<c.cases[j][1], c.cases[j][2]>> /\ kz[j] = c.cases[j][1]
    <2>1. \A j \in 1..n : c.cases[j] \in S
      BY ColumnIs, ElementOfSeq
    <2> QED
      BY <2>1 DEF KindsOf
  <1>11. Count(c) = p + q + n
    BY DEF Count
  <1> HIDE DEF p, q, n, S, x, y, z, kx, ky, kz
  <1>12. AreThree(Parts(c), x, y, z, p, q, n)
    <2>1. z \in [1..n -> S]
      BY <1>2, LenProperties DEF z, n
    <2> QED
      <3>1. AreThree(x \o y \o z, x, y, z, p, q, n)
        BY <1>1, <1>3, <2>1, ThreeJoined
      <3> QED
        BY <1>7, <3>1
  <1>13. AreThree(PartKinds(HeadOf(c)), kx, ky, kz, p, q, n)
    <2>1. AreThree(kx \o ky \o kz, kx, ky, kz, p, q, n)
      BY <1>1, <1>4, <1>5, ThreeJoined
    <2> QED
      BY <1>7, <2>1
  <1>14. \A j \in 1..p : PartIs(c, j, "bit", c.present[j])
    BY <1>8, <1>12, <1>13 DEF AreThree, PartIs
  <1>15. \A j \in 1..q : PartIs(c, p + j, "u8", c.sel[j])
    BY <1>9, <1>12, <1>13 DEF AreThree, PartIs
  <1>16. \A j \in 1..n : PartIs(c, p + q + j, c.cases[j][1], c.cases[j][2])
    BY <1>10, <1>12, <1>13 DEF AreThree, PartIs
  <1>17. Len(Parts(c)) = p + q + n /\ Len(PartKinds(HeadOf(c))) = p + q + n /\ p + q + n \in Nat
    BY <1>1, <1>12, <1>13 DEF AreThree
  <1> QED
    BY <1>11, <1>14, <1>15, <1>16, <1>17 DEF p, q, n

(* Each has its kind, and slots of it.                                      *)
LEMMA PartsHaveTypes ==
  ASSUME NEW c, IsColumn(c), NEW j \in 1..Count(c)
  PROVE  /\ Parts(c)[j][1] \in Scalars
         /\ Parts(c)[j][2] \in SlotsOf(c, Elements(Parts(c)[j][1]))
         /\ Parts(c)[j][2] \in Seq(Int) /\ Len(Parts(c)[j][2]) = c.len
         /\ PartKinds(HeadOf(c))[j] = Parts(c)[j][1]
  <1> DEFINE p == Len(c.present)
             q == Len(c.sel)
             n == Len(c.cases)
  <1>1. p \in Nat /\ q \in Nat /\ n \in Nat /\ n <= 8 /\ c.len \in Nat
    <2>1. p \in 0..1 /\ q \in 0..1 /\ n \in 1..8 /\ c.len \in Nat
      BY ColumnIs DEF MaxCases
    <2> HIDE DEF p, q, n
    <2> QED
      BY <2>1
  <1>2. \A k \in Scalars : Elements(k) \subseteq Int
    BY Bases DEF Scalars, Elements
  <1>3. ASSUME NEW k \in Scalars, NEW s \in SlotsOf(c, Elements(k)), PartIs(c, j, k, s)
        PROVE  /\ Parts(c)[j][1] \in Scalars
               /\ Parts(c)[j][2] \in SlotsOf(c, Elements(Parts(c)[j][1]))
               /\ Parts(c)[j][2] \in Seq(Int) /\ Len(Parts(c)[j][2]) = c.len
               /\ PartKinds(HeadOf(c))[j] = Parts(c)[j][1]
    <2>1. Parts(c)[j][1] = k /\ Parts(c)[j][2] = s /\ PartKinds(HeadOf(c))[j] = k
      BY <1>3 DEF PartIs
    <2>2. s \in [1..c.len -> Int]
      BY <1>2 DEF SlotsOf
    <2>3. s \in Seq(Int) /\ Len(s) = c.len
      BY <1>1, <2>2, FunctionIsASeq
    <2> QED
      BY <2>1, <2>3
  <1>4. CASE j \in 1..p
    <2>1. PartIs(c, j, "bit", c.present[j]) /\ c.present[j] \in SlotsOf(c, {0, 1})
      BY <1>4, PartsAre, ColumnIs, ElementOfSeq
    <2>2. Elements("bit") = {0, 1} /\ "bit" \in Scalars
      BY DEF Elements, Scalars
    <2> QED
      BY <1>3, <2>1, <2>2
  <1>5. CASE j \in p + 1..p + q
    <2> DEFINE i == j - p
    <2>1. i \in 1..q /\ p + i = j
      <3> HIDE DEF p, q
      <3> QED
        BY <1>1, <1>5
    <2> HIDE DEF i
    <2>2. PartIs(c, p + i, "u8", c.sel[i]) /\ c.sel[i] \in SlotsOf(c, 0..n - 1)
      BY <2>1, PartsAre, ColumnIs
    <2>3. 0..n - 1 \subseteq Elements("u8") /\ "u8" \in Scalars
      <3>1. Base \in Nat /\ 8 < Base
        BY Bases, ChunksAssumption DEF MaxCases
      <3> HIDE DEF n
      <3>2. 0..n - 1 \subseteq 0..Base - 1
        BY <1>1, <3>1
      <3> QED
        BY <3>2 DEF Elements, Scalars
    <2>4. c.sel[i] \in SlotsOf(c, Elements("u8"))
      BY <2>2, <2>3 DEF SlotsOf
    <2> QED
      BY <1>3, <2>1, <2>2, <2>3, <2>4
  <1>6. CASE j \in p + q + 1..p + q + n
    <2> DEFINE i == j - (p + q)
    <2>1. i \in 1..n /\ p + q + i = j
      <3> HIDE DEF p, q, n
      <3> QED
        BY <1>1, <1>6
    <2> HIDE DEF i
    <2>2. /\ PartIs(c, p + q + i, c.cases[i][1], c.cases[i][2])
          /\ c.cases[i][1] \in Scalars /\ c.cases[i][2] \in SlotsOf(c, Elements(c.cases[i][1]))
      BY <2>1, PartsAre, ColumnIs
    <2> QED
      BY <1>3, <2>1, <2>2
  <1>7. j \in 1..p \/ j \in p + 1..p + q \/ j \in p + q + 1..p + q + n
    <2>1. j \in 1..p + q + n
      BY DEF Count
    <2> HIDE DEF p, q, n
    <2> QED
      BY <1>1, <2>1
  <1> QED
    BY <1>4, <1>5, <1>6, <1>7

RebuiltFrom(h, d) ==
  [len     |-> h.len,
   present |-> SubSeq(d, 1, h.present),
   sel     |-> SubSeq(d, h.present + 1, h.present + h.sel),
   cases   |-> [j \in 1..Len(h.kinds) |-> <<h.kinds[j], d[h.present + h.sel + j]>>]]

SlotsBefore(c, j) == [k \in 1..j - 1 |-> Parts(c)[k][2]]

LEMMA ColumnIsRebuilt ==
  ASSUME NEW c, IsColumn(c)
  PROVE  RebuiltFrom(HeadOf(c), SlotsBefore(c, Count(c) + 1)) = c
  <1> DEFINE p == Len(c.present)
             q == Len(c.sel)
             n == Len(c.cases)
             d == SlotsBefore(c, Count(c) + 1)
             h == HeadOf(c)
  <1>1. p \in Nat /\ q \in Nat /\ n \in Nat
    <2>1. p \in 0..1 /\ q \in 0..1 /\ n \in 1..8
      BY ColumnIs DEF MaxCases
    <2> HIDE DEF p, q, n
    <2> QED
      BY <2>1
  <1>2. h.len = c.len /\ h.present = p /\ h.sel = q /\ h.kinds = KindsOf(c)
    BY DEF HeadOf
  <1>3. /\ \A j \in 1..p : Parts(c)[j][2] = c.present[j]
        /\ \A j \in 1..q : Parts(c)[p + j][2] = c.sel[j]
        /\ \A j \in 1..n : Parts(c)[p + q + j][2] = c.cases[j][2]
    <2>1. ASSUME NEW j, NEW k, NEW s, PartIs(c, j, k, s)
          PROVE  Parts(c)[j][2] = s
      BY <2>1 DEF PartIs
    <2>2. /\ \A j \in 1..p : PartIs(c, j, "bit", c.present[j])
          /\ \A j \in 1..q : PartIs(c, p + j, "u8", c.sel[j])
          /\ \A j \in 1..n : PartIs(c, p + q + j, c.cases[j][1], c.cases[j][2])
      BY PartsAre
    <2> HIDE DEF p, q, n
    <2> QED
      BY <2>1, <2>2
  <1>4. Count(c) = p + q + n
    BY DEF Count
  <1> HIDE DEF p, q, n, d, h
  <1>5. \A k \in 1..p + q + n : d[k] = Parts(c)[k][2]
    <2>1. Count(c) \in Nat /\ Count(c) + 1 - 1 = Count(c)
      BY <1>1, <1>4
    <2>2. d = [k \in 1..Count(c) |-> Parts(c)[k][2]]
      BY <2>1 DEF d, SlotsBefore
    <2> QED
      BY <1>4, <2>2
  <1>6. SubSeq(d, 1, p) = c.present
    <2> DEFINE S == SlotsOf(c, {0, 1})
               s == c.present
    <2>1. s \in Seq(S) /\ Len(s) = p
      BY ColumnIs DEF p
    <2> HIDE DEF S, s
    <2>2. \A k \in 1..p : d[k] = s[k] /\ d[k] \in S
      <3>1. \A k \in 1..p : k \in 1..p + q + n
        BY <1>1
      <3>2. \A k \in 1..p : d[k] = s[k]
        BY <1>3, <1>5, <3>1 DEF s
      <3>3. \A k \in 1..p : s[k] \in S
        BY <2>1, ElementOfSeq
      <3> QED
        BY <3>2, <3>3
    <2> DEFINE u == SubSeq(d, 1, p)
    <2>3. /\ u \in Seq(S) /\ Len(u) = p /\ \A k \in 1..p : u[k] = d[k]
      <3>1. /\ u \in Seq(S) /\ Len(u) = IF 1 <= p THEN p - 1 + 1 ELSE 0
            /\ \A k \in 1..p - 1 + 1 : u[k] = d[1 + k - 1]
        BY <1>1, <2>2, SubSeqProperties
      <3>2. \A k \in 1..p : 1 + k - 1 = k /\ k \in 1..p - 1 + 1
        BY <1>1
      <3> HIDE DEF u
      <3>3. \A k \in 1..p : u[k] = d[k]
        BY <3>1, <3>2
      <3> QED
        BY <1>1, <3>1, <3>3
    <2> HIDE DEF u
    <2>4. u = s
      BY <2>1, <2>2, <2>3, SeqEqual
    <2> QED
      BY <2>4 DEF u, s
  <1>7. SubSeq(d, p + 1, p + q) = c.sel
    <2> DEFINE S == SlotsOf(c, Nat)
               s == c.sel
    <2>1. s \in Seq(S) /\ Len(s) = q
      BY ColumnIs DEF q
    <2> HIDE DEF S, s
    <2>2. \A k \in 1..q : d[p + k] = s[k] /\ s[k] \in S
      <3>1. \A k \in 1..q : p + k \in 1..p + q + n
        BY <1>1
      <3>2. \A k \in 1..q : d[p + k] = s[k]
        BY <1>3, <1>5, <3>1 DEF s
      <3>3. \A k \in 1..q : s[k] \in S
        BY <2>1, ElementOfSeq
      <3> QED
        BY <3>2, <3>3
    <2>3. \A i \in p + 1..p + q : d[i] \in S
      <3> TAKE i \in p + 1..p + q
      <3>1. i - p \in 1..q /\ p + (i - p) = i
        BY <1>1
      <3> QED
        BY <2>2, <3>1
    <2> DEFINE u == SubSeq(d, p + 1, p + q)
    <2>4. /\ u \in Seq(S) /\ Len(u) = q /\ \A k \in 1..q : u[k] = d[p + k]
      <3>1. p + 1 \in Int /\ p + q \in Int
        BY <1>1
      <3> DEFINE lo == p + 1
                 hi == p + q
      <3>2. /\ u \in Seq(S) /\ Len(u) = IF lo <= hi THEN hi - lo + 1 ELSE 0
            /\ \A k \in 1..hi - lo + 1 : u[k] = d[lo + k - 1]
        <4>1. u = SubSeq(d, lo, hi) /\ \A i \in lo..hi : d[i] \in S
          BY <2>3
        <4> HIDE DEF lo, hi, u
        <4>2. lo \in Int /\ hi \in Int
          BY <3>1 DEF lo, hi
        <4> QED
          BY <4>1, <4>2, SubSeqProperties
      <3>3. /\ \A k \in 1..q : lo + k - 1 = p + k /\ k \in 1..hi - lo + 1
            /\ (IF lo <= hi THEN hi - lo + 1 ELSE 0) = q
        BY <1>1
      <3> HIDE DEF lo, hi
      <3> HIDE DEF u
      <3>4. \A k \in 1..q : u[k] = d[p + k]
        BY <3>2, <3>3
      <3> QED
        BY <3>2, <3>3, <3>4
    <2> HIDE DEF u
    <2>5. u = s
      BY <2>1, <2>2, <2>4, SeqEqual
    <2> QED
      BY <2>5 DEF u, s
  <1>8. [j \in 1..n |-> <<KindsOf(c)[j], d[p + q + j]>>] = c.cases
    <2> DEFINE z == c.cases
               S == Scalars \X SlotsOf(c, Int)
    <2>1. z \in Seq(S) /\ Len(z) = n
      BY ColumnIs DEF n
    <2>2. \A j \in 1..n : KindsOf(c)[j] = z[j][1]
      BY DEF KindsOf, n
    <2>3. \A j \in 1..n : d[p + q + j] = z[j][2]
      <3>1. \A j \in 1..n : p + q + j \in 1..p + q + n
        BY <1>1
      <3> QED
        BY <1>3, <1>5, <3>1
    <2>4. \A j \in 1..n : z[j] = <<z[j][1], z[j][2]>>
      <3>1. \A j \in 1..n : z[j] \in S
        BY <2>1, ElementOfSeq
      <3> HIDE DEF z
      <3> QED
        BY <3>1
    <2> HIDE DEF z, S
    <2>5. z = [j \in 1..n |-> z[j]]
      BY <2>1, LenProperties
    <2>6. \A j \in 1..n : <<KindsOf(c)[j], d[p + q + j]>> = z[j]
      BY <2>2, <2>3, <2>4
    <2>7. [j \in 1..n |-> <<KindsOf(c)[j], d[p + q + j]>>] = z
      BY <2>5, <2>6
    <2> QED
      BY <2>7 DEF z
  <1>9. Len(KindsOf(c)) = n
    <2>1. KindsOf(c) \in [1..n -> Scalars]
      BY ColumnIs DEF KindsOf, n
    <2> QED
      BY <1>1, <2>1, FunctionIsASeq
  <1>10. RebuiltFrom(h, d) = [len |-> c.len, present |-> c.present, sel |-> c.sel,
                              cases |-> c.cases]
    BY <1>2, <1>6, <1>7, <1>8, <1>9 DEF RebuiltFrom
  <1>11. c = [len |-> c.len, present |-> c.present, sel |-> c.sel, cases |-> c.cases]
    BY DEF IsColumn
  <1> QED
    BY <1>10, <1>11 DEF h, d

----------------------------------------------------------------------------
(* Where the writer comes by: the buffer it writes, how many slots of it    *)
(* are written, and the bytes until then.                                   *)
Positions(c) == [part : 1..Count(c) + 1, off : 0..c.len, bytes : Seq(Bytes)]
End(c, at) == Smaller(at + ChunkLen, c.len)
KindAt(c, j) == Parts(c)[j][1]
SlotsAt(c, j, at) == SubSeq(Parts(c)[j][2], at + 1, End(c, at))
ChunkAt(c, j, at) == Coded(KindAt(c, j), SlotsAt(c, j, at))
Step(c, x) ==
  IF x.part <= Count(c)
  THEN IF x.off < c.len
       THEN [part |-> x.part, off |-> End(c, x.off),
             bytes |-> x.bytes \o ChunkAt(c, x.part, x.off)]
       ELSE [part |-> x.part + 1, off |-> 0, bytes |-> x.bytes]
  ELSE x

LEMMA ChunksAreCoded ==
  ASSUME NEW c, IsColumn(c), NEW j \in 1..Count(c), NEW at \in 0..c.len, at < c.len
  PROVE  /\ End(c, at) \in 0..c.len /\ End(c, at) > at
         /\ End(c, at) = at + Smaller(c.len - at, ChunkLen)
         /\ KindAt(c, j) \in Scalars /\ ChunkAt(c, j, at) \in Seq(Bytes)
         /\ SlotsAt(c, j, at) \in Seq(Int)
         /\ Len(SlotsAt(c, j, at)) = Smaller(c.len - at, ChunkLen)
         /\ Tagged(KindAt(c, j), Smaller(c.len - at, ChunkLen), ChunkAt(c, j, at),
                   SlotsAt(c, j, at))
         /\ \A other \in Codings(KindAt(c, j), SlotsAt(c, j, at)) :
              Len(other) \in Nat /\ Len(ChunkAt(c, j, at)) <= Len(other)
  <1> DEFINE k == KindAt(c, j)
             n == Smaller(c.len - at, ChunkLen)
             e == End(c, at)
             t == Parts(c)[j][2]
             s == SlotsAt(c, j, at)
             E == Elements(k)
  <1>1. c.len \in Nat /\ ChunkLen \in Nat /\ ChunkLen > 0
    <2>1. c.len \in Nat
      BY ColumnIs
    <2>2. ChunkLen \in Nat /\ ChunkLen > 0
      BY ChunksAssumption
    <2> QED
      BY <2>1, <2>2
  <1>2. e \in 0..c.len /\ e > at /\ e = at + n /\ n \in 0..ChunkLen /\ n > 0
    BY <1>1 DEF End, Smaller
  <1>3. k \in Scalars /\ t \in [1..c.len -> E]
    BY PartsHaveTypes DEF KindAt, SlotsOf
  <1>4. s = SubSeq(t, at + 1, e)
    BY DEF SlotsAt
  <1>5. ChunkAt(c, j, at) = Coded(k, s)
    BY DEF ChunkAt
  <1> HIDE DEF k, n, e, t, s, E
  <1>6. \A i \in at + 1..e : t[i] \in E
    BY <1>1, <1>2, <1>3
  <1>7. s \in Seq(E) /\ Len(s) = n
    <2>1. at + 1 \in Int /\ e \in Int /\ at + 1 <= e /\ e - (at + 1) + 1 = n
      BY <1>1, <1>2
    <2> QED
      BY <1>4, <1>6, <2>1, SubSeqProperties
  <1>8. s \in [1..n -> E]
    BY <1>7, LenProperties
  <1>9. /\ Tagged(k, n, Coded(k, s), s)
        /\ \A other \in Codings(k, s) :
             Len(other) \in Nat /\ Len(Coded(k, s)) <= Len(other)
    BY <1>2, <1>3, <1>8, CodedIsTagged DEF E
  <1>10. Coded(k, s) \in Seq(Bytes)
    BY <1>9, TaggedIsBytes
  <1>11. s \in Seq(Int)
    <2>1. E \subseteq Int
      BY <1>3, Bases DEF E, Elements, Scalars
    <2>2. n \in Nat
      BY <1>1, <1>2
    <2>3. \A i \in 1..n : s[i] \in Int
      BY <1>8, <2>1
    <2>4. s \in [1..n -> Int]
      BY <1>8, <2>3
    <2> QED
      BY <2>2, <2>4, FunctionIsASeq
  <1> QED
    BY <1>2, <1>3, <1>5, <1>7, <1>9, <1>10, <1>11 DEF k, n, e, s

LEMMA StepIsAPosition ==
  ASSUME NEW c, IsColumn(c), NEW x \in Positions(c)
  PROVE  Step(c, x) \in Positions(c)
  <1>1. /\ x.part \in 1..Count(c) + 1 /\ x.off \in 0..c.len /\ x.bytes \in Seq(Bytes)
        /\ Count(c) \in Nat /\ c.len \in Nat
    BY PartsAre, ColumnIs DEF Positions
  <1>2. CASE x.part <= Count(c) /\ x.off < c.len
    <2>1. x.part \in 1..Count(c)
      BY <1>1, <1>2
    <2> DEFINE e == End(c, x.off)
               k == ChunkAt(c, x.part, x.off)
    <2>2. e \in 0..c.len /\ k \in Seq(Bytes)
      BY <1>1, <1>2, <2>1, ChunksAreCoded
    <2>3. Step(c, x) = [part |-> x.part, off |-> e, bytes |-> x.bytes \o k]
      BY <1>2 DEF Step
    <2> HIDE DEF e, k
    <2>4. x.bytes \o k \in Seq(Bytes)
      BY <1>1, <2>2, ConcatProperties
    <2> QED
      BY <1>1, <2>2, <2>3, <2>4 DEF Positions
  <1>3. CASE x.part <= Count(c) /\ ~(x.off < c.len)
    <2>1. Step(c, x) = [part |-> x.part + 1, off |-> 0, bytes |-> x.bytes]
      BY <1>3 DEF Step
    <2>2. x.part + 1 \in 1..Count(c) + 1 /\ 0 \in 0..c.len
      BY <1>1, <1>3
    <2> QED
      BY <1>1, <2>1, <2>2 DEF Positions
  <1>4. CASE ~(x.part <= Count(c))
    BY <1>4 DEF Step
  <1> QED
    BY <1>2, <1>3, <1>4

(* The way of the writer of a column, from the header on.                   *)
Start(c) == [part |-> 1, off |-> 0, bytes |-> Header(c)]
IsWay(c, w) ==
  /\ w \in [Nat -> Positions(c)]
  /\ w[0] = Start(c)
  /\ \A k \in Nat : w[k + 1] = Step(c, w[k])
Way(c) == CHOOSE w : IsWay(c, w)

LEMMA ThereIsAWay ==
  ASSUME NEW c, IsColumn(c)
  PROVE  IsWay(c, Way(c))
  <1> DEFINE S == Positions(c)
             F == [a \in Nat \X S |-> Step(c, a[2])]
  <1>1. Start(c) \in S
    <2>1. Count(c) \in Nat /\ c.len \in Nat /\ Header(c) \in Seq(Bytes)
      BY PartsAre, ColumnIs, HeaderIs
    <2>2. 1 \in 1..Count(c) + 1 /\ 0 \in 0..c.len
      BY <2>1
    <2> QED
      BY <2>1, <2>2 DEF Start, Positions
  <1>2. F \in [Nat \X S -> S]
    <2>1. \A a \in Nat \X S : a[2] \in S
      OBVIOUS
    <2>2. \A a \in Nat \X S : Step(c, a[2]) \in S
      BY <2>1, StepIsAPosition
    <2> HIDE DEF S
    <2> QED
      BY <2>2
  <1>3. \A k \in Nat, x \in S : F[<<k, x>>] = Step(c, x)
    <2> HIDE DEF S
    <2> QED
      OBVIOUS
  <1> HIDE DEF F, S
  <1>4. PICK f \in [Nat -> S] : RecursOn(f, Start(c), F)
    BY <1>1, <1>2, RecursionOnNat
  <1>5. f[0] = Start(c) /\ \A k \in Nat : f[k + 1] = F[<<k, f[k]>>]
    BY <1>4 DEF RecursOn
  <1>6. \A k \in Nat : f[k + 1] = Step(c, f[k])
    BY <1>3, <1>4, <1>5
  <1>7. IsWay(c, f)
    BY <1>4, <1>5, <1>6 DEF IsWay, S
  <1> QED
    BY <1>7 DEF Way

(* It only ever adds bytes, and ends where no buffer is left.               *)
BeginsWith(b, a) == Len(a) <= Len(b) /\ \A i \in 1..Len(a) : b[i] = a[i]

LEMMA MoreBegins ==
  ASSUME NEW a \in Seq(Bytes), NEW x \in Seq(Bytes)
  PROVE  BeginsWith(a, a) /\ BeginsWith(a \o x, a)
  <1>1. Len(a) \in Nat /\ Len(x) \in Nat
    BY LenProperties
  <1>2. /\ Len(a \o x) = Len(a) + Len(x)
        /\ \A i \in 1..Len(a) + Len(x) : (a \o x)[i] = IF i <= Len(a) THEN a[i]
                                                      ELSE x[i - Len(a)]
    BY ConcatProperties
  <1>3. \A i \in 1..Len(a) : i \in 1..Len(a) + Len(x) /\ i <= Len(a)
    BY <1>1
  <1> QED
    BY <1>1, <1>2, <1>3 DEF BeginsWith

LEMMA BeginsOn ==
  ASSUME NEW a \in Seq(Bytes), NEW b \in Seq(Bytes), NEW d \in Seq(Bytes),
         BeginsWith(b, a), BeginsWith(d, b)
  PROVE  BeginsWith(d, a)
  <1>1. Len(a) \in Nat /\ Len(b) \in Nat /\ Len(d) \in Nat
    BY LenProperties
  <1> QED
    BY <1>1 DEF BeginsWith

LEMMA StepGrows ==
  ASSUME NEW c, IsColumn(c), NEW x \in Positions(c)
  PROVE  BeginsWith(Step(c, x).bytes, x.bytes)
  <1>1. /\ x.part \in 1..Count(c) + 1 /\ x.off \in 0..c.len /\ x.bytes \in Seq(Bytes)
        /\ Count(c) \in Nat
    BY PartsAre DEF Positions
  <1>2. CASE x.part <= Count(c) /\ x.off < c.len
    <2>1. x.part \in 1..Count(c)
      BY <1>1, <1>2
    <2> DEFINE k == ChunkAt(c, x.part, x.off)
    <2>2. k \in Seq(Bytes)
      BY <1>1, <1>2, <2>1, ChunksAreCoded
    <2>3. Step(c, x).bytes = x.bytes \o k
      BY <1>2 DEF Step
    <2> HIDE DEF k
    <2> QED
      BY <1>1, <2>2, <2>3, MoreBegins
  <1>3. CASE ~(x.part <= Count(c) /\ x.off < c.len)
    <2>1. Step(c, x).bytes = x.bytes
      BY <1>3 DEF Step
    <2> QED
      BY <1>1, <2>1, MoreBegins
  <1> QED
    BY <1>2, <1>3

Ended(c, x) == x.part = Count(c) + 1

LEMMA WayGrows ==
  ASSUME NEW c, IsColumn(c), NEW k \in Nat
  PROVE  \A j \in Nat : /\ BeginsWith(Way(c)[k + j].bytes, Way(c)[k].bytes)
                        /\ Ended(c, Way(c)[k]) => Way(c)[k + j] = Way(c)[k]
  <1> DEFINE w == Way(c)
             T == {j \in Nat : /\ BeginsWith(w[k + j].bytes, w[k].bytes)
                               /\ Ended(c, w[k]) => w[k + j] = w[k]}
  <1>1. IsWay(c, w)
    BY ThereIsAWay
  <1> HIDE DEF w
  <1>2. \A j \in Nat : w[j] \in Positions(c) /\ w[j].bytes \in Seq(Bytes)
    BY <1>1 DEF IsWay, Positions
  <1>3. 0 \in T
    <2>1. k + 0 = k /\ 0 \in Nat
      OBVIOUS
    <2>2. BeginsWith(w[k].bytes, w[k].bytes)
      BY <1>2, MoreBegins
    <2> QED
      BY <2>1, <2>2
  <1>4. ASSUME NEW j \in Nat, j \in T
        PROVE  j + 1 \in T
    <2>1. k + j \in Nat /\ k + (j + 1) = k + j + 1 /\ j + 1 \in Nat /\ k + (j + 1) \in Nat
      OBVIOUS
    <2>2. w[k + (j + 1)] = Step(c, w[k + j])
      BY <1>1, <2>1 DEF IsWay
    <2>3. BeginsWith(w[k + (j + 1)].bytes, w[k + j].bytes)
      BY <1>2, <2>1, <2>2, StepGrows
    <2>4. BeginsWith(w[k + (j + 1)].bytes, w[k].bytes)
      BY <1>2, <1>4, <2>1, <2>3, BeginsOn
    <2>5. ASSUME Ended(c, w[k])
          PROVE  w[k + (j + 1)] = w[k]
      <3>1. w[k + j] = w[k]
        BY <1>4, <2>5
      <3>2. ~(w[k].part <= Count(c))
        <4>1. Count(c) \in Nat
          BY PartsAre
        <4> QED
          BY <2>5, <4>1 DEF Ended
      <3> QED
        BY <2>2, <3>1, <3>2 DEF Step
    <2> QED
      BY <2>1, <2>4, <2>5
  <1> HIDE DEF T
  <1>5. Nat \subseteq T
    BY <1>3, <1>4, NatSetInduction
  <1> QED
    BY <1>5 DEF T, w

LEMMA WayEnds ==
  ASSUME NEW c, IsColumn(c), NEW k \in Nat, NEW m \in Nat, Ended(c, Way(c)[k])
  PROVE  /\ BeginsWith(Way(c)[k].bytes, Way(c)[m].bytes)
         /\ Ended(c, Way(c)[m]) => Way(c)[m] = Way(c)[k]
  <1>1. CASE m <= k
    <2> DEFINE j == k - m
    <2>1. j \in Nat /\ m + j = k
      BY <1>1
    <2> HIDE DEF j
    <2> QED
      BY <2>1, WayGrows
  <1>2. CASE k <= m
    <2> DEFINE j == m - k
    <2>1. j \in Nat /\ k + j = m /\ k + 0 = k
      BY <1>2
    <2> HIDE DEF j
    <2>2. Way(c)[m] = Way(c)[k]
      BY <2>1, WayGrows
    <2> QED
      BY <2>1, <2>2, WayGrows
  <1> QED
    BY <1>1, <1>2

----------------------------------------------------------------------------
(* The invariant. The writer is somewhere on its way; the reader is where   *)
(* the writer has been, and has what the writer had written by then.        *)
ReaderAt(c, x) ==
  /\ head = HeadOf(c)
  /\ done = SlotsBefore(c, x.part)
  /\ got = SubSeq(Parts(c)[x.part][2], 1, x.off) /\ Len(got) = x.off
  /\ place = Len(x.bytes) + 1

OnItsWay ==
  \E k \in Nat : Way(column)[k] = [part |-> part, off |-> off, bytes |-> bytes]
HandedOver ==
  /\ part = Len(Parts(column)) + 1
  /\ \E n \in 0..Len(bytes) : input = SubSeq(bytes, 1, n)

Inv ==
  /\ TypeOK
  /\ status = "starting" => part = 1 /\ off = 0
  /\ status \in {"starting", "writing", "arrived"} => place = 1 /\ done = <<>> /\ got = <<>>
  /\ status # "starting" => OnItsWay
  /\ status \notin {"starting", "writing"} => HandedOver
  /\ status \in {"reading", "done"} => \E m \in Nat : ReaderAt(column, Way(column)[m])
  /\ status = "done" => Len(done) = Len(Parts(column))
  /\ status = "refused" => input # bytes

LEMMA InputBegins ==
  ASSUME NEW b \in Seq(Bytes), NEW n \in 0..Len(b)
  PROVE  /\ SubSeq(b, 1, n) \in Seq(Bytes) /\ Len(SubSeq(b, 1, n)) = n
         /\ \A i \in 1..n : SubSeq(b, 1, n)[i] = b[i]
         /\ n = Len(b) => SubSeq(b, 1, n) = b
  <1> DEFINE u == SubSeq(b, 1, n)
  <1>1. Len(b) \in Nat /\ n \in Nat /\ n \in Int /\ 1 \in Int
    BY LenProperties
  <1>2. \A i \in 1..n : b[i] \in Bytes
    <2>1. \A i \in 1..n : i \in 1..Len(b)
      BY <1>1
    <2> QED
      BY <2>1, ElementOfSeq
  <1>3. /\ u \in Seq(Bytes) /\ Len(u) = IF 1 <= n THEN n - 1 + 1 ELSE 0
        /\ \A i \in 1..n - 1 + 1 : u[i] = b[1 + i - 1]
    BY <1>1, <1>2, SubSeqProperties
  <1>4. \A i \in 1..n : 1 + i - 1 = i /\ i \in 1..n - 1 + 1
    BY <1>1
  <1> HIDE DEF u
  <1>5. Len(u) = n /\ \A i \in 1..n : u[i] = b[i]
    BY <1>1, <1>3, <1>4
  <1>6. n = Len(b) => u = b
    <2>1. n = Len(b) => SubSeq(b, 1, n) = b
      BY SubSeqFull
    <2> QED
      BY <2>1 DEF u
  <1> QED
    BY <1>3, <1>5, <1>6 DEF u

(* Bytes that begin with y and x hold x after y, as far as they have come.  *)
LEMMA BeginningAgrees ==
  ASSUME NEW x \in Seq(Bytes), NEW y \in Seq(Bytes), NEW b \in Seq(Bytes),
         BeginsWith(b, y \o x), NEW n \in 0..Len(b)
  PROVE  /\ Agrees(SubSeq(b, 1, n), Len(y) + 1, x)
         /\ ~(Len(y) + 1 + Len(x) - 1 <= n) => SubSeq(b, 1, n) # b
  <1> DEFINE a == SubSeq(b, 1, n)
             l == Len(y)
  <1>1. Len(a) = n /\ \A i \in 1..n : a[i] = b[i]
    BY InputBegins
  <1>2. n \in Nat /\ Len(b) \in Nat /\ l \in Nat /\ Len(x) \in Nat
    BY LenProperties
  <1>3. /\ Len(y \o x) = l + Len(x)
        /\ \A i \in 1..l + Len(x) : (y \o x)[i] = IF i <= l THEN y[i] ELSE x[i - l]
    BY ConcatProperties
  <1>4. l + Len(x) <= Len(b) /\ \A i \in 1..l + Len(x) : b[i] = (y \o x)[i]
    BY <1>3 DEF BeginsWith
  <1> HIDE DEF a, l
  <1>5. ASSUME NEW j \in 1..Len(x), l + 1 + j - 1 <= Len(a)
        PROVE  a[l + 1 + j - 1] = x[j]
    <2> DEFINE p == l + j
    <2>1. /\ l + 1 + j - 1 = p /\ p \in 1..n /\ p \in 1..l + Len(x)
          /\ ~(p <= l) /\ p - l = j
      BY <1>1, <1>2, <1>5
    <2> HIDE DEF p
    <2>2. (y \o x)[p] = x[j]
      BY <1>3, <2>1
    <2> QED
      BY <1>1, <1>4, <2>1, <2>2
  <1>6. Agrees(a, l + 1, x)
    BY <1>5 DEF Agrees
  <1>7. ~(l + 1 + Len(x) - 1 <= n) => a # b
    BY <1>1, <1>2, <1>4
  <1> QED
    BY <1>6, <1>7 DEF a, l

LEMMA InputsAreColumns ==
  ASSUME NEW c \in Inputs
  PROVE  IsColumn(c) /\ Count(c) \in Nat /\ Len(Parts(c)) = Count(c) /\ c.len \in Nat
  BY InputsAssumption, PartsAre, ColumnIs

LEMMA HeadsAre ==
  ASSUME NEW c, IsColumn(c)
  PROVE  HeadOf(c) \in Heads
  <1>1. Len(c.present) \in 0..1 /\ Len(c.sel) \in 0..1 /\ c.len \in Nat
    BY ColumnIs
  <1>2. KindsOf(c) \in Seq({"bit", "i64", "f64", "u8"})
    <2>1. Len(c.cases) \in Nat
      BY ColumnIs, LenProperties
    <2>2. Scalars = {"bit", "i64", "f64", "u8"}
      BY DEF Scalars
    <2>3. KindsOf(c) \in [1..Len(c.cases) -> {"bit", "i64", "f64", "u8"}]
      BY <2>2, ColumnIs DEF KindsOf
    <2> QED
      BY <2>1, <2>3, FunctionIsASeq
  <1> QED
    BY <1>1, <1>2 DEF HeadOf, Heads

LEMMA SlotsBeforeAre ==
  ASSUME NEW c, IsColumn(c), NEW j \in 1..Count(c) + 1
  PROVE  SlotsBefore(c, j) \in Seq(Seq(Int)) /\ Len(SlotsBefore(c, j)) = j - 1
  <1>1. Count(c) \in Nat
    BY PartsAre
  <1>2. j - 1 \in Nat
    BY <1>1
  <1>3. \A k \in 1..j - 1 : k \in 1..Count(c)
    BY <1>1
  <1>4. SlotsBefore(c, j) \in [1..j - 1 -> Seq(Int)]
    BY <1>3, PartsHaveTypes DEF SlotsBefore
  <1> QED
    BY <1>2, <1>4, FunctionIsASeq

LEMMA InvInit == Init => Inv
  <1> SUFFICES ASSUME Init PROVE Inv
    OBVIOUS
  <1>1. IsColumn(column) /\ Count(column) \in Nat /\ Len(Parts(column)) = Count(column)
        /\ column.len \in Nat
    BY InputsAreColumns DEF Init
  <1>2. head \in Heads
    <2>1. <<>> \in Seq({"bit", "i64", "f64", "u8"})
      OBVIOUS
    <2> QED
      BY <2>1 DEF Init, Heads
  <1>3. <<>> \in Seq(0..Base - 1) /\ <<>> \in Seq(Seq(Int)) /\ <<>> \in Seq(Int) /\ Len(<<>>) = 0
    OBVIOUS
  <1>4. part \in 1..Len(Parts(column)) + 1 /\ off \in 0..column.len /\ place \in 1..Len(input) + 1
    BY <1>1, <1>3 DEF Init
  <1>5. TypeOK
    BY <1>2, <1>3, <1>4 DEF TypeOK, Init
  <1> QED
    BY <1>5 DEF Inv, Init

LEMMA TypesOfInv ==
  ASSUME Inv
  PROVE  /\ column \in Inputs /\ IsColumn(column)
         /\ Count(column) \in Nat /\ Len(Parts(column)) = Count(column) /\ column.len \in Nat
         /\ bytes \in Seq(Bytes) /\ input \in Seq(Bytes)
         /\ part \in 1..Count(column) + 1 /\ off \in 0..column.len
         /\ place \in 1..Len(input) + 1 /\ head \in Heads
         /\ done \in Seq(Seq(Int)) /\ got \in Seq(Int)
  BY InputsAreColumns DEF Inv, TypeOK, Bytes

LEMMA WriterStarts == Inv /\ WriteHeader => Inv'
  <1> SUFFICES ASSUME Inv, WriteHeader PROVE Inv'
    OBVIOUS
  <1>1. /\ status = "starting" /\ status' = "writing" /\ bytes' = Header(column)
        /\ column' = column /\ part' = part /\ off' = off /\ input' = input
        /\ place' = place /\ head' = head /\ done' = done /\ got' = got
    BY DEF WriteHeader, UnchangedReader
  <1>2. part = 1 /\ off = 0 /\ place = 1 /\ done = <<>> /\ got = <<>>
    BY <1>1 DEF Inv
  <1>3. IsColumn(column) /\ Header(column) \in Seq(Bytes)
    BY TypesOfInv, HeaderIs
  <1>4. TypeOK'
    BY <1>1, <1>3 DEF Inv, TypeOK, Bytes
  <1>5. OnItsWay'
    <2>1. Way(column)[0] = [part |-> 1, off |-> 0, bytes |-> Header(column)]
      BY <1>3, ThereIsAWay DEF IsWay, Start
    <2>2. Way(column')[0] = [part |-> part', off |-> off', bytes |-> bytes']
      BY <1>1, <1>2, <2>1
    <2> QED
      BY <2>2 DEF OnItsWay
  <1> QED
    BY <1>1, <1>2, <1>4, <1>5 DEF Inv

LEMMA WriterSteps ==
  ASSUME Inv, status = "writing", UNCHANGED <<status, column>>, UnchangedReader,
         part' \in 1..Count(column) + 1, off' \in 0..column.len, bytes' \in Seq(Bytes),
         \A x : x = [part |-> part, off |-> off, bytes |-> bytes] =>
           Step(column, x) = [part |-> part', off |-> off', bytes |-> bytes']
  PROVE  Inv'
  <1>1. /\ status' = "writing" /\ column' = column /\ input' = input
        /\ place' = place /\ head' = head /\ done' = done /\ got' = got
    BY DEF UnchangedReader
  <1>2. place = 1 /\ done = <<>> /\ got = <<>> /\ OnItsWay
    BY DEF Inv
  <1>3. TypeOK'
    <2>1. part' \in 1..Len(Parts(column)) + 1
      BY TypesOfInv
    <2> QED
      BY <1>1, <2>1 DEF Inv, TypeOK, Bytes
  <1>4. OnItsWay'
    <2>1. PICK k \in Nat : Way(column)[k] = [part |-> part, off |-> off, bytes |-> bytes]
      BY <1>2 DEF OnItsWay
    <2>2. Way(column)[k + 1] = Step(column, Way(column)[k])
      BY TypesOfInv, ThereIsAWay DEF IsWay
    <2>3. Way(column)[k + 1] = [part |-> part', off |-> off', bytes |-> bytes']
      BY <2>1, <2>2
    <2>4. k + 1 \in Nat /\ Way(column')[k + 1] = [part |-> part', off |-> off', bytes |-> bytes']
      BY <1>1, <2>3
    <2> QED
      BY <2>4 DEF OnItsWay
  <1> QED
    BY <1>1, <1>2, <1>3, <1>4 DEF Inv

LEMMA WriterWritesAChunk == Inv /\ WriteChunk => Inv'
  <1> SUFFICES ASSUME Inv, WriteChunk PROVE Inv'
    OBVIOUS
  <1>1. /\ status = "writing" /\ part <= Count(column) /\ off < column.len
        /\ bytes' = bytes \o ChunkAt(column, part, off) /\ off' = End(column, off)
        /\ UNCHANGED <<status, column, part>> /\ UnchangedReader
    BY TypesOfInv DEF WriteChunk, NextSlots, ChunkAt, SlotsAt, KindAt, End
  <1>2. part \in 1..Count(column) /\ off \in 0..column.len /\ IsColumn(column)
        /\ bytes \in Seq(Bytes) /\ Count(column) \in Nat
    BY <1>1, TypesOfInv
  <1>3. off' \in 0..column.len /\ ChunkAt(column, part, off) \in Seq(Bytes)
    BY <1>1, <1>2, ChunksAreCoded
  <1>4. bytes' \in Seq(Bytes)
    BY <1>1, <1>2, <1>3, ConcatProperties
  <1>5. part' \in 1..Count(column) + 1
    BY <1>1, <1>2
  <1>6. ASSUME NEW x, x = [part |-> part, off |-> off, bytes |-> bytes]
        PROVE  Step(column, x) = [part |-> part', off |-> off', bytes |-> bytes']
    <2>1. x.part = part /\ x.off = off /\ x.bytes = bytes
      BY <1>6
    <2> QED
      BY <1>1, <2>1 DEF Step
  <1> QED
    BY <1>1, <1>3, <1>4, <1>5, <1>6, WriterSteps

LEMMA WriterGoesOn == Inv /\ PartWritten => Inv'
  <1> SUFFICES ASSUME Inv, PartWritten PROVE Inv'
    OBVIOUS
  <1>1. /\ status = "writing" /\ part <= Count(column) /\ off >= column.len
        /\ part' = part + 1 /\ off' = 0 /\ bytes' = bytes
        /\ UNCHANGED <<status, column>> /\ UnchangedReader
    BY TypesOfInv DEF PartWritten
  <1>2. /\ part \in 1..Count(column) + 1 /\ off \in 0..column.len /\ column.len \in Nat
        /\ bytes \in Seq(Bytes) /\ Count(column) \in Nat
    BY TypesOfInv
  <1>3. part' \in 1..Count(column) + 1 /\ off' \in 0..column.len /\ bytes' \in Seq(Bytes)
    BY <1>1, <1>2
  <1>4. ASSUME NEW x, x = [part |-> part, off |-> off, bytes |-> bytes]
        PROVE  Step(column, x) = [part |-> part', off |-> off', bytes |-> bytes']
    <2>1. x.part = part /\ x.off = off /\ x.bytes = bytes
      BY <1>4
    <2>2. ~(off < column.len)
      BY <1>1, <1>2
    <2> QED
      BY <1>1, <2>1, <2>2 DEF Step
  <1> QED
    BY <1>1, <1>3, <1>4, WriterSteps

LEMMA BytesAreHandedOver == Inv /\ HandOver => Inv'
  <1> SUFFICES ASSUME Inv, HandOver PROVE Inv'
    OBVIOUS
  <1>1. PICK n \in 0..Len(bytes) : input' = SubSeq(bytes, 1, n)
    BY DEF HandOver
  <1>2. /\ status = "writing" /\ status' = "arrived" /\ part > Count(column)
        /\ column' = column /\ bytes' = bytes /\ part' = part /\ off' = off
        /\ place' = place /\ head' = head /\ done' = done /\ got' = got
    BY TypesOfInv DEF HandOver, UnchangedWriter
  <1>3. place = 1 /\ done = <<>> /\ got = <<>> /\ OnItsWay
    BY <1>2 DEF Inv
  <1>4. part = Len(Parts(column)) + 1
    <2>1. /\ part \in 1..Count(column) + 1 /\ Count(column) \in Nat
          /\ Len(Parts(column)) = Count(column)
      BY TypesOfInv
    <2> QED
      BY <1>2, <2>1
  <1>5. input' \in Seq(Bytes)
    BY <1>1, TypesOfInv, InputBegins
  <1>6. TypeOK'
    <2>1. place' \in 1..Len(input') + 1
      <3>1. Len(input') \in Nat
        BY <1>5, LenProperties
      <3> QED
        BY <1>2, <1>3, <3>1
    <2> QED
      BY <1>2, <1>5, <2>1 DEF Inv, TypeOK, Bytes
  <1>7. HandedOver'
    BY <1>1, <1>2, <1>4 DEF HandedOver
  <1>8. OnItsWay'
    BY <1>2, <1>3 DEF OnItsWay
  <1> QED
    BY <1>2, <1>3, <1>6, <1>7, <1>8 DEF Inv

(* What the reader may count on, wherever on the writer's way it is.        *)
LEMMA WhatHasArrived ==
  ASSUME Inv, HandedOver, OnItsWay, NEW m \in Nat
  PROVE  /\ Way(column)[m] \in Positions(column)
         /\ BeginsWith(bytes, Way(column)[m].bytes)
         /\ Ended(column, Way(column)[m]) => Way(column)[m].bytes = bytes
         /\ \E n \in 0..Len(bytes) : input = SubSeq(bytes, 1, n)
  <1>1. PICK k \in Nat : Way(column)[k] = [part |-> part, off |-> off, bytes |-> bytes]
    BY DEF OnItsWay
  <1>2. Way(column)[k].part = part /\ Way(column)[k].bytes = bytes
    BY <1>1
  <1>3. IsColumn(column) /\ part = Count(column) + 1
    BY TypesOfInv DEF HandedOver
  <1>4. Ended(column, Way(column)[k])
    BY <1>2, <1>3 DEF Ended
  <1>5. /\ BeginsWith(Way(column)[k].bytes, Way(column)[m].bytes)
        /\ Ended(column, Way(column)[m]) => Way(column)[m] = Way(column)[k]
    BY <1>3, <1>4, WayEnds
  <1>6. Way(column)[m] \in Positions(column)
    BY <1>3, ThereIsAWay DEF IsWay
  <1> QED
    BY <1>2, <1>5, <1>6 DEF HandedOver

(* A step of the reader, what it leaves alone apart.                        *)
LEMMA ReaderSteps ==
  ASSUME Inv, status \in {"arrived", "reading"},
         status' \in {"reading", "done", "refused"},
         UNCHANGED input, UnchangedWriter,
         place' \in 1..Len(input) + 1, head' \in Heads,
         done' \in Seq(Seq(Int)), got' \in Seq(Int),
         status' \in {"reading", "done"} => \E m \in Nat : ReaderAt(column, Way(column)[m])',
         status' = "done" => Len(done') = Len(Parts(column)),
         status' = "refused" => input # bytes
  PROVE  Inv'
  <1>1. column' = column /\ bytes' = bytes /\ part' = part /\ off' = off /\ input' = input
    BY DEF UnchangedWriter
  <1>2. OnItsWay /\ HandedOver
    BY DEF Inv
  <1>3. OnItsWay' /\ HandedOver'
    BY <1>1, <1>2 DEF OnItsWay, HandedOver
  <1>4. TypeOK'
    BY <1>1 DEF Inv, TypeOK
  <1> QED
    BY <1>1, <1>3, <1>4 DEF Inv

LEMMA ReaderReadsTheHeader == Inv /\ ReadHeader => Inv'
  <1> SUFFICES ASSUME Inv, ReadHeader PROVE Inv'
    OBVIOUS
  <1> DEFINE c == column
             h == Header(c)
             r == RHeader(input, place)
  <1>1. /\ status = "arrived" /\ place = 1 /\ done = <<>> /\ got = <<>>
        /\ OnItsWay /\ HandedOver
    BY DEF Inv, ReadHeader
  <1>2. /\ IsColumn(c) /\ bytes \in Seq(Bytes) /\ input \in Seq(Bytes) /\ head \in Heads
        /\ Count(c) \in Nat
    BY TypesOfInv
  <1>3. Way(c)[0] = [part |-> 1, off |-> 0, bytes |-> h]
    BY <1>2, ThereIsAWay DEF IsWay, Start
  <1>4. BeginsWith(bytes, h) /\ h \in Seq(Bytes)
    <2>1. Way(c)[0].bytes = h
      BY <1>3
    <2>2. BeginsWith(bytes, Way(c)[0].bytes)
      BY <1>1, WhatHasArrived
    <2>3. h \in Seq(Bytes)
      BY <1>2, HeaderIs
    <2> QED
      BY <2>1, <2>2, <2>3
  <1>5. PICK n \in 0..Len(bytes) : input = SubSeq(bytes, 1, n)
    BY <1>1 DEF HandedOver
  <1>6. Len(input) = n /\ n \in Nat /\ Len(h) \in Nat
    BY <1>2, <1>4, <1>5, InputBegins, LenProperties
  <1>7. /\ Agrees(input, 1, h)
        /\ ~(1 + Len(h) - 1 <= n) => input # bytes
    <2>1. <<>> \o h = h /\ <<>> \in Seq(Bytes) /\ Len(<<>>) + 1 = 1
      BY <1>4, ConcatEmptySeq
    <2>2. BeginsWith(bytes, <<>> \o h)
      BY <1>4, <2>1
    <2>3. /\ Agrees(SubSeq(bytes, 1, n), Len(<<>>) + 1, h)
          /\ ~(Len(<<>>) + 1 + Len(h) - 1 <= n) => SubSeq(bytes, 1, n) # bytes
      BY <1>2, <1>4, <2>1, <2>2, BeginningAgrees
    <2> QED
      BY <1>5, <2>1, <2>3
  <1>8. Reads(r, input, 1, h, HeadOf(c))
    BY <1>1, <1>2, <1>7, HeaderIsRead
  <1>9. /\ r.ok => status' = "reading" /\ head' = r.v /\ place' = r.i
        /\ ~r.ok => status' = "refused" /\ head' = head /\ place' = place
        /\ UNCHANGED input /\ UnchangedWriter /\ done' = done /\ got' = got
    BY DEF ReadHeader
  <1>10. c' = c
    BY <1>9 DEF UnchangedWriter
  <1> HIDE DEF c, h, r
  <1>11. CASE 1 + Len(h) - 1 <= Len(input)
    <2>1. r = Got(HeadOf(c), 1 + Len(h))
      BY <1>8, <1>11 DEF Reads
    <2>2. r.ok = TRUE /\ r.v = HeadOf(c) /\ r.i = 1 + Len(h)
      BY <2>1 DEF Got
    <2>3. /\ status' = "reading" /\ head' = HeadOf(c) /\ place' = 1 + Len(h)
          /\ done' = <<>> /\ got' = <<>>
      BY <1>1, <1>9, <2>2
    <2>4. place' \in 1..Len(input) + 1 /\ 1 + Len(h) = Len(h) + 1
      BY <1>6, <1>11, <2>3
    <2>5. head' \in Heads
      BY <1>2, <2>3, HeadsAre
    <2>6. ReaderAt(c, Way(c)[0])'
      <3>1. Way(c')[0].part = 1 /\ Way(c')[0].off = 0 /\ Way(c')[0].bytes = h
        BY <1>3, <1>10
      <3>2. SlotsBefore(c', 1) = <<>>
        BY DEF SlotsBefore
      <3>3. SubSeq(Parts(c')[1][2], 1, 0) = <<>>
        BY SubSeqEmpty
      <3>4. Len(<<>>) = 0
        OBVIOUS
      <3> QED
        BY <1>10, <2>3, <2>4, <3>1, <3>2, <3>3, <3>4 DEF ReaderAt
    <2>7. \E m \in Nat : ReaderAt(column, Way(column)[m])'
      BY <2>6 DEF c
    <2>8. done' \in Seq(Seq(Int)) /\ got' \in Seq(Int)
      BY <2>3
    <2> QED
      BY <1>1, <1>9, <2>3, <2>4, <2>5, <2>7, <2>8, ReaderSteps
  <1>12. CASE ~(1 + Len(h) - 1 <= Len(input))
    <2>1. r = Refusal
      BY <1>8, <1>12 DEF Reads
    <2>2. r.ok = FALSE
      BY <2>1 DEF Refusal
    <2>3. /\ status' = "refused" /\ head' = head /\ place' = place /\ done' = done /\ got' = got
      BY <1>9, <2>2
    <2>4. input # bytes
      BY <1>6, <1>7, <1>12
    <2>5. /\ place' \in 1..Len(input) + 1 /\ head' \in Heads
          /\ done' \in Seq(Seq(Int)) /\ got' \in Seq(Int)
      BY <2>3, TypesOfInv
    <2> QED
      BY <1>1, <1>9, <2>3, <2>4, <2>5, ReaderSteps
  <1> QED
    BY <1>11, <1>12

(* Where the reader is, while it reads.                                     *)
LEMMA WhereTheReaderIs ==
  ASSUME Inv, NEW m \in Nat, ReaderAt(column, Way(column)[m]), NEW x, x = Way(column)[m]
  PROVE  /\ x \in Positions(column)
         /\ x.part \in 1..Count(column) + 1 /\ x.off \in 0..column.len /\ x.bytes \in Seq(Bytes)
         /\ Len(done) + 1 = x.part /\ Len(got) = x.off /\ head.len = column.len
         /\ Len(PartKinds(head)) = Count(column)
         /\ place = Len(x.bytes) + 1
         /\ Way(column)[m + 1] = Step(column, x)
  <1>1. IsColumn(column) /\ Count(column) \in Nat
    BY TypesOfInv
  <1>2. x \in Positions(column) /\ Way(column)[m + 1] = Step(column, x)
    BY <1>1, ThereIsAWay DEF IsWay
  <1>3. x.part \in 1..Count(column) + 1 /\ x.off \in 0..column.len /\ x.bytes \in Seq(Bytes)
    BY <1>2 DEF Positions
  <1>4. /\ head = HeadOf(column) /\ done = SlotsBefore(column, x.part) /\ Len(got) = x.off
        /\ place = Len(x.bytes) + 1
    BY DEF ReaderAt
  <1>5. Len(done) = x.part - 1
    BY <1>1, <1>3, <1>4, SlotsBeforeAre
  <1>6. Len(done) + 1 = x.part
    BY <1>1, <1>3, <1>5
  <1>7. head.len = column.len
    BY <1>4 DEF HeadOf
  <1>8. Len(PartKinds(head)) = Count(column)
    BY <1>1, <1>4, PartsAre
  <1> QED
    BY <1>2, <1>3, <1>4, <1>6, <1>7, <1>8

LEMMA ReaderReadsAChunk == Inv /\ ReadChunk => Inv'
  <1> SUFFICES ASSUME Inv, ReadChunk PROVE Inv'
    OBVIOUS
  <1>1. /\ status = "reading" /\ OnItsWay /\ HandedOver
        /\ \E m \in Nat : ReaderAt(column, Way(column)[m])
    BY DEF Inv, ReadChunk
  <1>2. PICK m \in Nat : ReaderAt(column, Way(column)[m])
    BY <1>1
  <1> DEFINE c == column
             x == Way(c)[m]
             y == Way(c)[m + 1]
             n == Smaller(c.len - x.off, ChunkLen)
             k == KindAt(c, x.part)
             s == SlotsAt(c, x.part, x.off)
             ch == ChunkAt(c, x.part, x.off)
             t == Parts(c)[x.part][2]
             r == RChunk(k, n, input, place)
  <1>3. /\ IsColumn(c) /\ bytes \in Seq(Bytes) /\ input \in Seq(Bytes)
        /\ Count(c) \in Nat /\ c.len \in Nat /\ done \in Seq(Seq(Int)) /\ head \in Heads
    BY TypesOfInv
  <1>4. /\ x.part \in 1..Count(c) + 1 /\ x.off \in 0..c.len /\ x.bytes \in Seq(Bytes)
        /\ Len(done) + 1 = x.part /\ Len(got) = x.off /\ head.len = c.len
        /\ Len(PartKinds(head)) = Count(c) /\ place = Len(x.bytes) + 1
        /\ y = Step(c, x)
    BY <1>2, WhereTheReaderIs
  <1>5. x.part \in 1..Count(c) /\ x.off < c.len
    <2>1. Len(done) < Count(c) /\ Len(got) < c.len
      BY <1>4 DEF ReadChunk
    <2>2. Len(done) \in Nat
      BY <1>3, LenProperties
    <2> QED
      BY <1>3, <1>4, <2>1, <2>2
  <1>6. /\ head = HeadOf(c) /\ done = SlotsBefore(c, x.part) /\ got = SubSeq(t, 1, x.off)
    BY <1>2 DEF ReaderAt
  <1>7. PartKinds(head)[Len(done) + 1] = k
    <2>1. PartKinds(HeadOf(c))[x.part] = Parts(c)[x.part][1]
      BY <1>3, <1>5, PartsHaveTypes
    <2> QED
      BY <1>4, <1>6, <2>1 DEF KindAt
  <1>8. /\ End(c, x.off) \in 0..c.len /\ End(c, x.off) > x.off
        /\ ch \in Seq(Bytes) /\ s \in Seq(Int) /\ Tagged(k, n, ch, s)
    BY <1>3, <1>4, <1>5, ChunksAreCoded
  <1>9. y.part = x.part /\ y.off = End(c, x.off) /\ y.bytes = x.bytes \o ch
    <2>1. x.part <= Count(c)
      BY <1>3, <1>5
    <2> HIDE DEF c, x, y
    <2>2. Step(c, x) = [part |-> x.part, off |-> End(c, x.off),
                        bytes |-> x.bytes \o ChunkAt(c, x.part, x.off)]
      BY <1>5, <2>1 DEF Step
    <2> HIDE DEF ch
    <2>3. y = [part |-> x.part, off |-> End(c, x.off), bytes |-> x.bytes \o ch]
      BY <1>4, <2>2 DEF ch
    <2> QED
      BY <2>3
  <1>10. /\ r.ok => got' = got \o r.v /\ place' = r.i /\ status' = status
         /\ ~r.ok => status' = "refused" /\ got' = got /\ place' = place
         /\ UNCHANGED input /\ UnchangedWriter /\ head' = head /\ done' = done
    <2>1. Smaller(head.len - Len(got), ChunkLen) = n
      BY <1>4
    <2> HIDE DEF n, k
    <2> QED
      BY <1>7, <2>1 DEF ReadChunk
  <1>11. c' = c /\ got \in Seq(Int) /\ place \in 1..Len(input) + 1
    BY <1>10, TypesOfInv DEF UnchangedWriter
  <1>12. t \in Seq(Int) /\ Len(t) = c.len
    BY <1>3, <1>5, PartsHaveTypes
  <1>13. s = SubSeq(t, x.off + 1, End(c, x.off))
    BY DEF SlotsAt
  <1>14. BeginsWith(bytes, y.bytes)
    <2>1. m + 1 \in Nat
      OBVIOUS
    <2> QED
      BY <1>1, <2>1, WhatHasArrived
  <1>15. PICK b \in 0..Len(bytes) : input = SubSeq(bytes, 1, b)
    BY <1>1 DEF HandedOver
  <1> HIDE DEF c, x, y, n, k, s, ch, t, r
  <1>16. /\ Agrees(input, place, ch)
         /\ ~(Len(x.bytes) + 1 + Len(ch) - 1 <= b) => input # bytes
    <2>1. BeginsWith(bytes, x.bytes \o ch)
      BY <1>9, <1>14
    <2> QED
      BY <1>3, <1>4, <1>8, <1>15, <2>1, BeginningAgrees
  <1>17. Len(input) = b /\ b \in Nat /\ Len(x.bytes) \in Nat /\ Len(ch) \in Nat
    BY <1>3, <1>4, <1>8, <1>15, InputBegins, LenProperties
  <1>18. Reads(r, input, place, ch, s)
    <2>1. place \in Nat
      BY <1>4, <1>17
    <2> QED
      BY <1>3, <1>8, <1>16, <2>1, TaggedIsRead DEF r
  <1>19. CASE place + Len(ch) - 1 <= Len(input)
    <2>1. r = Got(s, place + Len(ch))
      BY <1>18, <1>19 DEF Reads
    <2>2. r.ok = TRUE /\ r.v = s /\ r.i = place + Len(ch)
      BY <2>1 DEF Got
    <2>3. status' = "reading" /\ got' = got \o s /\ place' = place + Len(ch)
      BY <1>1, <1>10, <2>2
    <2>4. place' \in 1..Len(input) + 1
      BY <1>4, <1>17, <1>19, <2>3
    <2>5. got' = SubSeq(t, 1, y.off)
      <3>1. SubSeq(t, 1, x.off) \o SubSeq(t, x.off + 1, End(c, x.off)) = SubSeq(t, 1, End(c, x.off))
        <4>1. /\ 1 \in 1..Len(t) + 1 /\ x.off \in 1 - 1..Len(t)
              /\ End(c, x.off) \in x.off..Len(t)
          <5> DEFINE o == x.off
                     l == Len(t)
                     e == End(c, o)
          <5>1. l \in Nat /\ o \in Nat /\ o <= l /\ e \in o..l
            BY <1>3, <1>4, <1>8, <1>12
          <5> HIDE DEF o, l, e
          <5>2. 1 \in 1..l + 1 /\ o \in 1 - 1..l
            BY <5>1
          <5> QED
            BY <5>1, <5>2 DEF o, l, e
        <4> QED
          BY <1>12, <4>1, ConcatAdjacentSubSeq
      <3> QED
        BY <1>6, <1>9, <1>13, <2>3, <3>1
    <2>6. got' \in Seq(Int) /\ Len(got') = y.off
      <3>1. y.off \in 0..Len(t)
        BY <1>8, <1>9, <1>12
      <3>2. \A i \in 1..y.off : t[i] \in Int
        <4>1. \A i \in 1..y.off : i \in 1..Len(t)
          BY <1>3, <1>12, <3>1
        <4> QED
          BY <1>12, <4>1, ElementOfSeq
      <3>3. y.off \in Int /\ 1 \in Int /\ (IF 1 <= y.off THEN y.off - 1 + 1 ELSE 0) = y.off
        BY <1>3, <1>12, <3>1
      <3> QED
        BY <2>5, <3>2, <3>3, SubSeqProperties
    <2>7. place' = Len(y.bytes) + 1
      <3>1. Len(y.bytes) = Len(x.bytes) + Len(ch)
        BY <1>4, <1>8, <1>9, ConcatProperties
      <3> QED
        BY <1>4, <1>17, <2>3, <3>1
    <2>8. ReaderAt(c, Way(c)[m + 1])'
      <3>1. (Way(c)[m + 1])' = y
        BY <1>11 DEF y
      <3>2. got' = SubSeq(Parts(c)[y.part][2], 1, y.off)
        BY <1>9, <2>5 DEF t
      <3>3. head' = HeadOf(c) /\ done' = SlotsBefore(c, y.part)
        BY <1>6, <1>9, <1>10
      <3> QED
        BY <1>11, <2>6, <2>7, <3>1, <3>2, <3>3 DEF ReaderAt
    <2>9. \E j \in Nat : ReaderAt(column, Way(column)[j])'
      <3>1. m + 1 \in Nat
        OBVIOUS
      <3> QED
        BY <2>8, <3>1 DEF c
    <2>10. head' \in Heads /\ done' \in Seq(Seq(Int))
      BY <1>3, <1>10
    <2> QED
      BY <1>1, <1>10, <2>3, <2>4, <2>6, <2>9, <2>10, ReaderSteps
  <1>20. CASE ~(place + Len(ch) - 1 <= Len(input))
    <2>1. r = Refusal
      BY <1>18, <1>20 DEF Reads
    <2>2. r.ok = FALSE
      BY <2>1 DEF Refusal
    <2>3. status' = "refused" /\ got' = got /\ place' = place
      BY <1>10, <2>2
    <2>4. input # bytes
      BY <1>4, <1>16, <1>17, <1>20
    <2>5. /\ place' \in 1..Len(input) + 1 /\ head' \in Heads
          /\ done' \in Seq(Seq(Int)) /\ got' \in Seq(Int)
      BY <1>3, <1>10, <1>11, <2>3
    <2> QED
      BY <1>1, <1>10, <2>3, <2>4, <2>5, ReaderSteps
  <1> QED
    BY <1>19, <1>20

LEMMA ReaderGoesOn == Inv /\ PartRead => Inv'
  <1> SUFFICES ASSUME Inv, PartRead PROVE Inv'
    OBVIOUS
  <1>1. /\ status = "reading" /\ \E m \in Nat : ReaderAt(column, Way(column)[m])
    BY DEF Inv, PartRead
  <1>2. PICK m \in Nat : ReaderAt(column, Way(column)[m])
    BY <1>1
  <1> DEFINE c == column
             x == Way(c)[m]
             y == Way(c)[m + 1]
             t == Parts(c)[x.part][2]
  <1>3. /\ IsColumn(c) /\ Count(c) \in Nat /\ c.len \in Nat
        /\ done \in Seq(Seq(Int)) /\ got \in Seq(Int) /\ head \in Heads
        /\ place \in 1..Len(input) + 1
    BY TypesOfInv
  <1>4. /\ x.part \in 1..Count(c) + 1 /\ x.off \in 0..c.len
        /\ Len(done) + 1 = x.part /\ Len(got) = x.off /\ head.len = c.len
        /\ Len(PartKinds(head)) = Count(c) /\ place = Len(x.bytes) + 1
        /\ y = Step(c, x)
    BY <1>2, WhereTheReaderIs
  <1>5. x.part \in 1..Count(c) /\ ~(x.off < c.len) /\ x.off = c.len
    <2>1. Len(done) < Count(c) /\ Len(got) >= c.len
      BY <1>4 DEF PartRead
    <2>2. Len(done) \in Nat
      BY <1>3, LenProperties
    <2> QED
      BY <1>3, <1>4, <2>1, <2>2
  <1>6. /\ head = HeadOf(c) /\ done = SlotsBefore(c, x.part) /\ got = SubSeq(t, 1, x.off)
    BY <1>2 DEF ReaderAt
  <1>7. t \in Seq(Int) /\ Len(t) = c.len
    BY <1>3, <1>5, PartsHaveTypes
  <1>8. got = t
    BY <1>5, <1>6, <1>7, SubSeqFull
  <1>9. y.part = x.part + 1 /\ y.off = 0 /\ y.bytes = x.bytes
    <2>1. x.part <= Count(c)
      BY <1>3, <1>5
    <2> QED
      BY <1>4, <1>5, <2>1 DEF Step
  <1>10. /\ done' = Append(done, got) /\ got' = <<>> /\ status' = "reading"
         /\ place' = place /\ head' = head /\ UNCHANGED input /\ UnchangedWriter
    BY <1>1 DEF PartRead
  <1>11. c' = c
    BY <1>10 DEF UnchangedWriter
  <1>12. got \in Seq(Int) /\ done' \in Seq(Seq(Int))
    BY <1>3, <1>10, AppendProperties
  <1>13. done' = SlotsBefore(c, y.part)
    <2> DEFINE q == x.part + 1
               u == SlotsBefore(c, q)
               d == Append(done, got)
    <2>1. q \in 1..Count(c) + 1 /\ q - 1 = x.part
      BY <1>3, <1>5
    <2> HIDE DEF q
    <2>2. u \in Seq(Seq(Int)) /\ Len(u) = x.part
      <3>1. u \in Seq(Seq(Int)) /\ Len(u) = q - 1
        BY <1>3, <2>1, SlotsBeforeAre
      <3> QED
        BY <2>1, <3>1
    <2>3. /\ d \in Seq(Seq(Int)) /\ Len(d) = Len(done) + 1
          /\ \A i \in 1..Len(done) : d[i] = done[i]
          /\ d[Len(done) + 1] = got
      BY <1>3, AppendProperties
    <2>4. Len(done) = x.part - 1 /\ Len(d) = Len(u)
      <3>1. Len(done) \in Nat
        BY <1>3, LenProperties
      <3> QED
        BY <1>4, <1>5, <2>2, <2>3, <3>1
    <2>5. \A i \in 1..x.part : u[i] = Parts(c)[i][2]
      BY <2>1 DEF SlotsBefore
    <2>6. \A i \in 1..x.part - 1 : done[i] = Parts(c)[i][2]
      BY <1>6 DEF SlotsBefore
    <2> HIDE DEF u, d
    <2>7. ASSUME NEW i \in 1..Len(d)
          PROVE  d[i] = u[i]
      <3>1. x.part \in Nat /\ i \in 1..x.part
        BY <1>3, <1>5, <2>2, <2>4, <2>7
      <3>2. CASE i = x.part
        BY <1>4, <1>8, <2>3, <2>5, <3>1, <3>2
      <3>3. CASE i # x.part
        <4>1. i \in 1..Len(done) /\ i \in 1..x.part - 1
          BY <2>4, <3>1, <3>3
        <4> QED
          BY <2>3, <2>5, <2>6, <3>1, <4>1
      <3> QED
        BY <3>2, <3>3
    <2>8. d = u
      BY <2>2, <2>3, <2>4, <2>7, SeqEqual
    <2> QED
      BY <1>9, <1>10, <2>8 DEF d, u, q
  <1>14. got' = SubSeq(Parts(c)[y.part][2], 1, y.off) /\ Len(got') = y.off
    <2>1. SubSeq(Parts(c)[y.part][2], 1, 0) = <<>>
      BY SubSeqEmpty
    <2>2. Len(<<>>) = 0
      OBVIOUS
    <2> QED
      BY <1>9, <1>10, <2>1, <2>2
  <1>15. place' = Len(y.bytes) + 1 /\ head' = HeadOf(c)
    BY <1>4, <1>6, <1>9, <1>10
  <1> HIDE DEF x, y, t
  <1>16. ReaderAt(c, Way(c)[m + 1])'
    <2>1. (Way(c)[m + 1])' = y
      BY <1>11 DEF y
    <2> QED
      BY <1>11, <1>13, <1>14, <1>15, <2>1 DEF ReaderAt
  <1>17. \E j \in Nat : ReaderAt(column, Way(column)[j])'
    <2>1. m + 1 \in Nat
      OBVIOUS
    <2> QED
      BY <1>16, <2>1
  <1>18. place' \in 1..Len(input) + 1 /\ head' \in Heads /\ got' \in Seq(Int)
    BY <1>3, <1>10
  <1> QED
    BY <1>1, <1>10, <1>12, <1>17, <1>18, ReaderSteps

LEMMA ReaderFinishes == Inv /\ Finish => Inv'
  <1> SUFFICES ASSUME Inv, Finish PROVE Inv'
    OBVIOUS
  <1>1. /\ status = "reading" /\ \E m \in Nat : ReaderAt(column, Way(column)[m])
    BY DEF Inv, Finish
  <1>2. PICK m \in Nat : ReaderAt(column, Way(column)[m])
    BY <1>1
  <1> DEFINE c == column
             x == Way(c)[m]
  <1>3. /\ IsColumn(c) /\ Count(c) \in Nat /\ c.len \in Nat
        /\ done \in Seq(Seq(Int)) /\ got \in Seq(Int) /\ head \in Heads
        /\ place \in 1..Len(input) + 1
    BY TypesOfInv
  <1>4. /\ x.part \in 1..Count(c) + 1 /\ Len(done) + 1 = x.part /\ head.len = c.len
        /\ Len(PartKinds(head)) = Count(c)
    BY <1>2, WhereTheReaderIs
  <1>5. head = HeadOf(c) /\ done = SlotsBefore(c, x.part)
    BY <1>2 DEF ReaderAt
  <1>6. Len(done) = Count(c) /\ x.part = Count(c) + 1
    BY <1>4 DEF Finish
  <1>7. Rebuilt = c
    <2>1. Rebuilt = RebuiltFrom(head, done)
      BY DEF Rebuilt, RebuiltFrom
    <2> QED
      BY <1>3, <1>5, <1>6, <2>1, ColumnIsRebuilt
  <1>8. \A q \in 1..Len(c.sel) : \A j \in 1..head.len : c.sel[q][j] < Len(head.kinds)
    <2>1. Len(head.kinds) = Len(c.cases)
      <3>1. Len(c.cases) \in Nat
        BY <1>3, ColumnIs, LenProperties
      <3>2. KindsOf(c) \in [1..Len(c.cases) -> Scalars]
        BY <1>3, ColumnIs DEF KindsOf
      <3>3. Len(KindsOf(c)) = Len(c.cases)
        BY <3>1, <3>2, FunctionIsASeq
      <3> QED
        BY <1>5, <3>3 DEF HeadOf
    <2>2. \A q \in 1..Len(c.sel), j \in 1..c.len : c.sel[q][j] < Len(c.cases)
      BY <1>3 DEF IsColumn
    <2> HIDE DEF c
    <2> QED
      BY <1>4, <2>1, <2>2
  <1>9. /\ status' = "done" /\ UnchangedReader /\ UnchangedWriter
    BY <1>7, <1>8 DEF Finish
  <1>10. /\ c' = c /\ input' = input /\ place' = place /\ head' = head
         /\ done' = done /\ got' = got
    BY <1>9 DEF UnchangedReader, UnchangedWriter
  <1>11. ReaderAt(c, Way(c)[m])'
    BY <1>2, <1>10 DEF ReaderAt
  <1>12. Len(done') = Len(Parts(column))
    BY <1>6, <1>10, TypesOfInv
  <1> QED
    BY <1>1, <1>3, <1>9, <1>10, <1>11, <1>12, ReaderSteps

LEMMA NothingChanges == Inv /\ UNCHANGED vars => Inv'
  <1> SUFFICES ASSUME Inv, UNCHANGED vars PROVE Inv'
    OBVIOUS
  <1>1. /\ status' = status /\ column' = column /\ bytes' = bytes /\ part' = part /\ off' = off
        /\ input' = input /\ place' = place /\ head' = head /\ done' = done /\ got' = got
    BY DEF vars
  <1>2. TypeOK' <=> TypeOK
    BY <1>1 DEF TypeOK
  <1>3. (OnItsWay' <=> OnItsWay) /\ (HandedOver' <=> HandedOver)
    BY <1>1 DEF OnItsWay, HandedOver
  <1>4. \A m \in Nat : ReaderAt(column, Way(column)[m]) => ReaderAt(column, Way(column)[m])'
    BY <1>1 DEF ReaderAt
  <1> QED
    BY <1>1, <1>2, <1>3, <1>4 DEF Inv

LEMMA InvNext == Inv /\ [Next]_vars => Inv'
  BY WriterStarts, WriterWritesAChunk, WriterGoesOn, BytesAreHandedOver, ReaderReadsTheHeader,
     ReaderReadsAChunk, ReaderGoesOn, ReaderFinishes, NothingChanges DEF Next

(* The writer is on its way, and the reader follows it as far as the bytes  *)
(* go.                                                                      *)
THEOREM InvHolds == Spec => []Inv
  BY InvInit, InvNext, PTL DEF Spec

(* Bytes are bytes, places are places in them, and what was read of a       *)
(* column has its type, for every length of chunk, run, word and byte.      *)
THEOREM TypesHold == Spec => []TypeOK
  <1>1. Inv => TypeOK
    BY DEF Inv
  <1> QED
    BY <1>1, InvHolds, PTL

(* A reader at the end of what was handed over has all of it: the last      *)
(* place on the way is the one after the last byte.                         *)
LEMMA DoneIsAll ==
  ASSUME Inv, status = "done"
  PROVE  Rebuilt = column /\ place = Len(input) + 1 /\ input = bytes
  <1>1. /\ \E m \in Nat : ReaderAt(column, Way(column)[m])
        /\ Len(done) = Len(Parts(column)) /\ OnItsWay /\ HandedOver
    BY DEF Inv
  <1>2. PICK m \in Nat : ReaderAt(column, Way(column)[m])
    BY <1>1
  <1> DEFINE c == column
             x == Way(c)[m]
  <1>3. /\ IsColumn(c) /\ Count(c) \in Nat /\ Len(Parts(c)) = Count(c)
        /\ bytes \in Seq(Bytes) /\ place \in 1..Len(input) + 1
    BY TypesOfInv
  <1>4. /\ x.part = Count(c) + 1 /\ place = Len(x.bytes) + 1
    <2>1. Len(done) + 1 = x.part /\ place = Len(x.bytes) + 1
      BY <1>2, WhereTheReaderIs
    <2> QED
      BY <1>1, <1>3, <2>1
  <1>5. head = HeadOf(c) /\ done = SlotsBefore(c, x.part)
    BY <1>2 DEF ReaderAt
  <1>6. Rebuilt = c
    <2>1. Rebuilt = RebuiltFrom(head, done)
      BY DEF Rebuilt, RebuiltFrom
    <2> QED
      BY <1>3, <1>4, <1>5, <2>1, ColumnIsRebuilt
  <1>7. x.bytes = bytes
    BY <1>1, <1>4, WhatHasArrived DEF Ended
  <1>8. PICK n \in 0..Len(bytes) : input = SubSeq(bytes, 1, n)
    BY <1>1 DEF HandedOver
  <1>9. Len(input) = n /\ (n = Len(bytes) => input = bytes) /\ Len(bytes) \in Nat
    BY <1>3, <1>8, InputBegins, LenProperties
  <1>10. n = Len(bytes)
    BY <1>3, <1>4, <1>7, <1>9
  <1> QED
    BY <1>4, <1>6, <1>7, <1>9, <1>10

(* A column that was read is the one that was written, and no byte of it is *)
(* left (encode_col and decode_col).                                        *)
THEOREM ColumnsComeBack == Spec => []ColumnComesBack
  <1>1. Inv => ColumnComesBack
    BY DoneIsAll DEF ColumnComesBack
  <1> QED
    BY <1>1, InvHolds, PTL

(* A column is refused if its bytes were cut, wherever that was, and only   *)
(* then (need and the readers that call it).                                *)
THEOREM CutColumnsAreRefused == Spec => []RefusedIfCut
  <1>1. Inv => RefusedIfCut
    <2>1. Inv /\ status = "refused" => input # bytes
      BY DEF Inv
    <2> QED
      BY <2>1, DoneIsAll DEF RefusedIfCut
  <1> QED
    BY <1>1, InvHolds, PTL

(* Of the codings of a chunk the one that was chosen is the shortest        *)
(* (enc_u8s, enc_i64s and enc_f64s).                                        *)
THEOREM NoChunkIsLonger == Spec => ChunksAreShortest
  <1>1. Inv /\ [Next]_vars => [off < off' => ChunkIsShortest]_vars
    <2> SUFFICES ASSUME Inv, Next, off < off' PROVE ChunkIsShortest
      OBVIOUS
    <2>1. off \in Nat
      BY TypesOfInv
    <2>2. WriteChunk
      <3>1. off' # off /\ off' # 0
        BY <2>1
      <3> QED
        BY <3>1 DEF Next, WriteHeader, PartWritten, HandOver, ReadHeader, ReadChunk, PartRead,
                    Finish, UnchangedWriter
    <2> DEFINE c == column
               k == KindAt(c, part)
               s == SlotsAt(c, part, off)
               ch == ChunkAt(c, part, off)
    <2>3. /\ part \in 1..Count(c) /\ off \in 0..c.len /\ off < c.len /\ IsColumn(c)
          /\ bytes \in Seq(Bytes)
      BY <2>2, TypesOfInv DEF WriteChunk
    <2>4. bytes' = bytes \o ch /\ k = Parts(c)[part][1] /\ s = NextSlots
      BY <2>2 DEF WriteChunk, NextSlots, ChunkAt, SlotsAt, KindAt, End
    <2>5. /\ ch \in Seq(Bytes)
          /\ \A other \in Codings(k, s) : Len(other) \in Nat /\ Len(ch) <= Len(other)
      BY <2>3, ChunksAreCoded
    <2> HIDE DEF k, s, ch
    <2>6. Len(bytes') = Len(bytes) + Len(ch) /\ Len(bytes) \in Nat /\ Len(ch) \in Nat
      BY <2>3, <2>4, <2>5, ConcatProperties, LenProperties
    <2>7. \A other \in Codings(k, s) : Len(bytes') <= Len(bytes) + Len(other)
      BY <2>5, <2>6
    <2> QED
      BY <2>4, <2>7 DEF ChunkIsShortest
  <1> QED
    BY <1>1, InvHolds, PTL DEF Spec, ChunksAreShortest
=============================================================================
