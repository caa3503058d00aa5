------------------------------- MODULE Chunks -------------------------------
(***************************************************************************)
(* How the slots of a column of scalars become bytes and are read again    *)
(* (src/c/wire.c): in chunks, each as it is, as runs, or packed. In the    *)
(* code a chunk has 256 elements, a run at most 255, a word eight bytes    *)
(* and a byte eight bits. Elements that are read one by one, each refused  *)
(* if it is not all there, are read here as a whole.                       *)
(***************************************************************************)
EXTENDS Integers, Sequences

CONSTANTS ChunkLen, MaxRun, WordLen, ByteBits

Smaller(m, n) == IF m <= n THEN m ELSE n

----------------------------------------------------------------------------
(* Numbers. n after k shifts of a digit to the right, and its digits from   *)
(* the least on.                                                            *)
Shift(n, b, k) ==
  LET s[j \in Nat] == IF j = 0 THEN n ELSE s[j - 1] \div b IN s[k]
Power(b, k) ==
  LET p[j \in Nat] == IF j = 0 THEN 1 ELSE b * p[j - 1] IN p[k]

Digits(n, b, len) == [i \in 1..len |-> Shift(n, b, i - 1) % b]
FromDigits(ds, b) ==
  LET v[j \in 0..Len(ds)] ==
        IF j = 0 THEN 0 ELSE ds[Len(ds) + 1 - j] + b * v[j - 1]
  IN v[Len(ds)]

Base == Power(2, ByteBits)
WordBase == Power(Base, WordLen)
LE(n, len) == Digits(n, Base, len)

Signed(w) == IF 2 * w < WordBase THEN w ELSE w - WordBase
ZigZag(n) == IF n < 0 THEN -2 * n - 1 ELSE 2 * n
UnZigZag(z) == IF z % 2 = 0 THEN z \div 2 ELSE -((z + 1) \div 2)

(* The kinds of payload. A bit is 0 or 1, an f64 its bits.                  *)
WireKinds == <<"bit", "i64", "f64", "u8", "vec", "tab">>
WireKind(k) == CHOOSE n \in DOMAIN WireKinds : WireKinds[n] = k
MaxCases == 8

Elements(kind) ==
  CASE kind = "bit" -> 0..1
    [] kind = "u8"  -> 0..Base - 1
    [] kind = "i64" -> -(WordBase \div 2)..WordBase \div 2 - 1
    [] kind = "f64" -> 0..WordBase - 1
Scalars == {"bit", "u8", "i64", "f64"}

(* What is kept of a count must be told apart: of the elements of a column, *)
(* the runs of a chunk, the elements of a run.                              *)
ASSUME ChunksAssumption ==
  /\ ChunkLen \in Nat \ {0} /\ MaxRun \in Nat \ {0}
  /\ WordLen \in Nat \ {0} /\ ByteBits \in Nat \ {0}
  /\ MaxCases < Base /\ WordLen < Base /\ MaxRun <= Base
  /\ ChunkLen < Power(Base, 2)

----------------------------------------------------------------------------
(* An element in bytes.                                                     *)
SizeOf(kind) == IF kind = "u8" THEN 1 ELSE WordLen
Code(kind, v) == LE(IF kind = "i64" THEN v % WordBase ELSE v, SizeOf(kind))
Uncode(kind, ds) ==
  IF kind = "i64" THEN Signed(FromDigits(ds, Base)) ELSE FromDigits(ds, Base)

(* Items of w bytes each, one after the other.                              *)
Joined(items, w) ==
  [p \in 1..Len(items) * w |-> items[(p - 1) \div w + 1][((p - 1) % w) + 1]]

Lengthen(rs, x) ==
  IF rs # <<>> /\ rs[Len(rs)].of = x /\ rs[Len(rs)].n < MaxRun
  THEN [rs EXCEPT ![Len(rs)].n = @ + 1]
  ELSE Append(rs, [n |-> 1, of |-> x])
Runs(s) ==
  LET r[i \in 0..Len(s)] == IF i = 0 THEN <<>> ELSE Lengthen(r[i - 1], s[i])
  IN r[Len(s)]
Unrun(rs) ==
  LET s[k \in 0..Len(rs)] ==
        IF k = 0 THEN <<>> ELSE s[k - 1] \o [i \in 1..rs[k].n |-> rs[k].of]
  IN s[Len(rs)]

----------------------------------------------------------------------------
(* A chunk in bytes, in each of the ways it may be written.                 *)
Raw(kind, s) ==
  <<0>> \o Joined([i \in 1..Len(s) |-> Code(kind, s[i])], SizeOf(kind))
InRuns(kind, s) ==
  LET rs == Runs(s)
  IN <<1>> \o LE(Len(rs), 2)
       \o Joined([k \in 1..Len(rs) |-> <<rs[k].n - 1>> \o Code(kind, rs[k].of)],
                 1 + SizeOf(kind))

(* The bytes that the widest of some numbers takes.                         *)
Fits(s, w) == \A i \in 1..Len(s) : Shift(ZigZag(s[i]), Base, w) = 0
Width(s) ==
  CHOOSE w \in 0..WordLen : Fits(s, w) /\ \A u \in 0..w - 1 : ~Fits(s, u)
Packed(s) ==
  <<2, Width(s)>>
    \o Joined([i \in 1..Len(s) |-> LE(ZigZag(s[i]), Width(s))], Width(s))

ByteCount(n) == (n + ByteBits - 1) \div ByteBits
BitsAsBytes(s) ==
  [b \in 1..ByteCount(Len(s)) |->
     FromDigits([j \in 1..ByteBits |->
                   LET i == (b - 1) * ByteBits + j
                   IN IF i <= Len(s) THEN s[i] ELSE 0], 2)]

RawSize(kind, s) == Len(s) * SizeOf(kind)
RunsSize(kind, s) == 2 + Len(Runs(s)) * (1 + SizeOf(kind))
PackedSize(s) == 1 + Len(s) * Width(s)

EncBits(s) ==
  IF \A i \in 1..Len(s) : s[i] = 0 THEN <<1>>
  ELSE IF \A i \in 1..Len(s) : s[i] = 1 THEN <<2>>
  ELSE <<0>> \o BitsAsBytes(s)

EncU8s(s) ==
  IF RunsSize("u8", s) < RawSize("u8", s) THEN InRuns("u8", s) ELSE Raw("u8", s)

EncF64s(s) ==
  IF RunsSize("f64", s) < RawSize("f64", s) THEN InRuns("f64", s) ELSE Raw("f64", s)

(* Mutant of EncI64s: a run is counted without its length.                  *)
EncI64sShort(s) ==
  LET raw == RawSize("i64", s)
      rle == 2 + Len(Runs(s)) * SizeOf("i64")
      packed == PackedSize(s)
  IN IF raw <= rle /\ raw <= packed THEN Raw("i64", s)
     ELSE IF rle <= packed THEN InRuns("i64", s) ELSE Packed(s)

EncI64s(s) ==
  LET raw == RawSize("i64", s)
      rle == RunsSize("i64", s)
      packed == PackedSize(s)
  IN IF raw <= rle /\ raw <= packed THEN Raw("i64", s)
     ELSE IF rle <= packed THEN InRuns("i64", s) ELSE Packed(s)

Coded(kind, s) ==
  CASE kind = "bit" -> EncBits(s)
    [] kind = "u8"  -> EncU8s(s)
    [] kind = "i64" -> EncI64s(s)
    [] kind = "f64" -> EncF64s(s)

(* What stands before the buffers of a column: how many elements it has,    *)
(* whether there are marks for its nils and selectors, its cases.           *)
Header(c) ==
  LE(c.len, 4)
    \o <<Len(c.present) + 2 * Len(c.sel), Len(c.cases)>>
    \o [j \in 1..Len(c.cases) |-> WireKind(c.cases[j][1])]

----------------------------------------------------------------------------
(* The reader. What it reads from bytes b at place i is a value and the     *)
(* place after it. Past the end of b there is no telling what is: 0 here.   *)
Refusal == [ok |-> FALSE]
Got(v, i) == [ok |-> TRUE, v |-> v, i |-> i]
Then(r, Next(_, _)) == IF r.ok THEN Next(r.v, r.i) ELSE Refusal
Giving(r, Make(_)) == Then(r, LAMBDA v, i : Got(Make(v), i))

(* Mutant of Need: one byte too many is let through.                        *)
NeedLess(b, i, n) == i + n - 2 <= Len(b)
Need(b, i, n) == i + n - 1 <= Len(b)

ByteAt(b, i) == IF i <= Len(b) THEN b[i] ELSE 0
RItems(n, w, b, i) ==
  IF Need(b, i, n * w)
  THEN Got([k \in 1..n |-> [j \in 1..w |-> ByteAt(b, i + (k - 1) * w + j - 1)]],
           i + n * w)
  ELSE Refusal
RBytes(n, b, i) ==
  IF Need(b, i, n) THEN Got([j \in 1..n |-> ByteAt(b, i + j - 1)], i + n)
  ELSE Refusal
RNumber(n, b, i) == Giving(RBytes(n, b, i), LAMBDA ds : FromDigits(ds, Base))
RByte(b, i) == RNumber(1, b, i)

RRaw(kind, n, b, i) ==
  Giving(RItems(n, SizeOf(kind), b, i),
         LAMBDA items : [k \in 1..n |-> Uncode(kind, items[k])])
AsRuns(kind, items) ==
  [k \in 1..Len(items) |->
     [n |-> items[k][1] + 1, of |-> Uncode(kind, Tail(items[k]))]]
RRuns(kind, b, i) ==
  Then(RNumber(2, b, i), LAMBDA n, j :
    Giving(RItems(n, 1 + SizeOf(kind), b, j), LAMBDA items :
      Unrun(AsRuns(kind, items))))
RPacked(n, b, i) ==
  Then(RByte(b, i), LAMBDA w, j :
    IF w > WordLen THEN Refusal
    ELSE Giving(RItems(n, w, b, j), LAMBDA items :
           [k \in 1..n |-> UnZigZag(FromDigits(items[k], Base))]))

DecBits(tag, n, b, i) ==
  CASE tag = 1 -> Got([j \in 1..n |-> 0], i)
    [] tag = 2 -> Got([j \in 1..n |-> 1], i)
    [] tag = 0 ->
         Giving(RBytes(ByteCount(n), b, i), LAMBDA ds :
           [j \in 1..n |-> Shift(ds[(j - 1) \div ByteBits + 1], 2,
                                 (j - 1) % ByteBits) % 2])
    [] OTHER -> Refusal

DecI64s(tag, n, b, i) ==
  CASE tag = 0 -> RRaw("i64", n, b, i)
    [] tag = 1 -> RRuns("i64", b, i)
    [] tag = 2 -> RPacked(n, b, i)
    [] OTHER -> Refusal

DecPlain(kind, tag, n, b, i) ==
  CASE tag = 0 -> RRaw(kind, n, b, i)
    [] tag = 1 -> RRuns(kind, b, i)
    [] OTHER -> Refusal

(* A chunk of n elements, if it was written as it is.                       *)
RChunk(kind, n, b, i) ==
  Then(RByte(b, i), LAMBDA tag, j :
    CASE kind = "bit" -> DecBits(tag, n, b, j)
      [] kind = "i64" -> DecI64s(tag, n, b, j)
      [] kind \in {"u8", "f64"} -> DecPlain(kind, tag, n, b, j))

RHeader(b, i) ==
  Then(RNumber(4, b, i), LAMBDA len, i1 :
  Then(RByte(b, i1), LAMBDA flags, i2 :
  Then(RByte(b, i2), LAMBDA n, i3 :
    IF n = 0 \/ n > MaxCases THEN Refusal
    ELSE Then(RBytes(n, b, i3), LAMBDA kinds, i4 :
           IF \E j \in 1..n : kinds[j] \notin DOMAIN WireKinds THEN Refusal
           ELSE Got([len |-> len, present |-> flags % 2, sel |-> (flags \div 2) % 2,
                     kinds |-> [j \in 1..n |-> WireKinds[kinds[j]]]], i4)))))
=============================================================================
