-------------------------------- MODULE Wire --------------------------------
(***************************************************************************)
(* The binary form of values (src/c/wire.c), and the reader of it. The     *)
(* slots of a column of scalars are written in chunks (Chunks).            *)
(***************************************************************************)
EXTENDS Reflection, Chunks

U32(n) == LE(n, 4)

ChunksOf(s) ==
  [c \in 1 .. (Len(s) + ChunkLen - 1) \div ChunkLen |->
     SubSeq(s, (c - 1) * ChunkLen + 1, Smaller(c * ChunkLen, Len(s)))]

Flat(s, Bytes(_)) == FlattenSeq([i \in DOMAIN s |-> Bytes(s[i])])
InChunks(kind, s) == Flat(ChunksOf(s), LAMBDA chunk : Coded(kind, chunk))

----------------------------------------------------------------------------
EncBin(text) == U32(Len(text)) \o BytesOf(text)

RECURSIVE EncodeVal(_), EncodeCol(_), EncodeTab(_)
EncodePayload(p) ==
  CASE Kind(p) \in Scalars -> InChunks(Kind(p), Slots(p))
    [] Kind(p) = "vec" -> Flat(Slots(p), LAMBDA c : EncodeCol(c))
    [] Kind(p) = "tab" -> Flat(Slots(p), LAMBDA t : EncodeTab(t))

EncodeCol(c) ==
  Header(c)
    \o Flat(c.present, LAMBDA s : InChunks("bit", s))
    \o Flat(c.sel, LAMBDA s : InChunks("u8", s))
    \o Flat(c.cases, LAMBDA p : EncodePayload(p))

EncodeTab(t) ==
  U32(Len(t))
    \o Flat(t, LAMBDA f : EncBin(<<f.name>>)
                 \o <<Len(f.doc)>> \o Flat(f.doc, EncBin) \o EncodeVal(f.v))

EncodeFun(f) ==
  U32(Len(f.params))
    \o Flat([i \in DOMAIN f.params |-> i],
            LAMBDA i : EncBin(<<f.params[i]>>) \o EncodeVal(TyToVal(f.ptypes[i])))
    \o EncodeVal(TyToVal(f.ret)) \o EncodeVal(AstToVal(f.body)) \o EncodeTab(f.env)

EncodeVal(v) ==
  CASE v.k = "nil" -> <<0>>
    [] v.k = "bit" -> <<v.n + 1>>
    [] v.k = "i64" -> <<3>> \o Code("i64", v.n)
    [] v.k = "f64" -> <<4>> \o Code("f64", v.n)
    [] v.k = "u8" -> <<5, v.n>>
    [] v.k = "vec" -> <<6>> \o EncodeCol(v.col)
    [] v.k = "tab" -> <<7>> \o EncodeTab(v.tab)
    [] v.k = "fun" -> <<8>> \o EncodeFun(v)
    [] v.k = "prim" -> <<9>> \o EncBin(<<v.name>>)

----------------------------------------------------------------------------
(* The reader.                                                              *)
RWord(b, i) == RNumber(WordLen, b, i)
RI64(b, i) == Giving(RWord(b, i), Signed)
RBin(b, i) ==
  Then(RNumber(4, b, i), LAMBDA n, j : Giving(RBytes(n, b, j), TextOf))

RMany(n, b, i, One(_, _)) ==
  LET RECURSIVE More(_, _)
      More(got, j) ==
        IF Len(got) = n THEN Got(got, j)
        ELSE Then(One(b, j), LAMBDA v, k : More(Append(got, v), k))
  IN  More(<<>>, i)

(* Chunks of n or fewer, until there are len elements.                      *)
RChunks(kind, len, b, i) ==
  LET RECURSIVE More(_, _)
      More(got, j) ==
        IF Len(got) >= len THEN Got(got, j)
        ELSE Then(RChunk(kind, Smaller(len - Len(got), ChunkLen), b, j),
                  LAMBDA s, k : More(got \o s, k))
  IN  More(<<>>, i)

RECURSIVE DecodeVal(_, _), DecodeCol(_, _), DecodeTab(_, _)
DecodePayload(kind, len, b, i) ==
  Giving(CASE kind \in Scalars -> RChunks(kind, len, b, i)
           [] kind = "vec" -> RMany(len, b, i, LAMBDA c, j : DecodeCol(c, j))
           [] kind = "tab" -> RMany(len, b, i, LAMBDA c, j : DecodeTab(c, j)),
         LAMBDA slots : Payload(kind, slots))

RECURSIVE DecodeCases(_, _, _, _, _)
DecodeCases(kinds, len, got, b, i) ==
  IF Len(got) = Len(kinds) THEN Got(got, i)
  ELSE Then(DecodePayload(kinds[Len(got) + 1], len, b, i),
            LAMBDA p, j : DecodeCases(kinds, len, Append(got, p), b, j))

(* A selector must name a case.                                             *)
DecodeCol(b, i) ==
  Then(RHeader(b, i), LAMBDA h, i1 :
  Then(RMany(h.present, b, i1, LAMBDA c, j : RChunks("bit", h.len, c, j)), LAMBDA present, i2 :
  Then(RMany(h.sel, b, i2, LAMBDA c, j : RChunks("u8", h.len, c, j)), LAMBDA sel, i3 :
  Then(DecodeCases(h.kinds, h.len, <<>>, b, i3), LAMBDA cases, i4 :
    IF \E s \in ToSet(sel) : \E j \in 1 .. h.len : s[j] >= Len(cases) THEN Refusal
    ELSE Got(Col(h.len, present, sel, cases), i4)))))

DecodeTab(b, i) ==
  LET DecodeField(c, j) ==
        Then(RBin(c, j), LAMBDA x, k :
        Then(RByte(c, k), LAMBDA documented, l :
        Then(RMany(documented, c, l, RBin), LAMBDA doc, m :
        Giving(DecodeVal(c, m), LAMBDA v : Field(x[1], doc, v)))))
      Bind(tab, f) == TabBind(tab, f.name, f.v, f.doc)
  IN  Then(RNumber(4, b, i), LAMBDA n, j :
        Giving(RMany(n, b, j, DecodeField), LAMBDA fs : FoldLeft(Bind, <<>>, fs)))

DecodeFun(b, i) ==
  LET Param(c, j) ==
        Then(RBin(c, j), LAMBDA x, k :
        Giving(DecodeVal(c, k), LAMBDA t : <<x[1], ValToTy(t)>>))
  IN  Then(RNumber(4, b, i), LAMBDA n, i1 :
      Then(RMany(n, b, i1, Param), LAMBDA params, i2 :
      Then(DecodeVal(b, i2), LAMBDA ret, i3 :
      Then(DecodeVal(b, i3), LAMBDA body, i4 :
      Giving(DecodeTab(b, i4), LAMBDA env :
        FunVal([p \in DOMAIN params |-> params[p][1]],
               [p \in DOMAIN params |-> params[p][2]],
               ValToTy(ret), ValToAst(body), env))))))

DecodeVal(b, i) ==
  Then(RByte(b, i), LAMBDA tag, j :
    CASE tag = 0 -> Got(Nil, j)
      [] tag = 1 -> Got(Bit(0), j)
      [] tag = 2 -> Got(Bit(1), j)
      [] tag = 3 -> Giving(RI64(b, j), I64)
      [] tag = 4 -> Giving(RWord(b, j), F64)
      [] tag = 5 -> Giving(RByte(b, j), U8)
      [] tag = 6 -> Giving(DecodeCol(b, j), VecVal)
      [] tag = 7 -> Giving(DecodeTab(b, j), TabVal)
      [] tag = 8 -> DecodeFun(b, j)
      [] tag = 9 -> Giving(RBin(b, j), LAMBDA x : PrimVal(x[1])))
=============================================================================
