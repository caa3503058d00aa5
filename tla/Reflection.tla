----------------------------- MODULE Reflection -----------------------------
(***************************************************************************)
(* Values and columns (src/c/value.c, ops.c): a column holds a slot of each*)
(* of its cases for each element; sel names the case an element is in, and *)
(* present tells nil from the rest, where they are needed. A byte is the   *)
(* place of a word in Words, so that a name is a string of one byte; a bit *)
(* is 0 or 1, an f64 is its bits.                                          *)
(*                                                                         *)
(* Syntax trees and types as values and back (src/c/wire.c): a node is a   *)
(* tab with its kind under "n" and its parts under names of their own.     *)
(* Only the values of trees are read back.                                 *)
(***************************************************************************)
EXTENDS Nodes

CONSTANTS Words,        (* the words that texts and trees are made of       *)
          IntOf,        (* i64 literals without their signs, to numbers     *)
          FloatOf       (* f64 literals to the bits of the positive number  *)

ByteOf == [x \in ToSet(Words) |-> (CHOOSE i \in DOMAIN Words : Words[i] = x) - 1]
BytesOf(text) == [i \in DOMAIN text |-> ByteOf[text[i]]]
TextOf(bytes) == [i \in DOMAIN bytes |-> Words[bytes[i] + 1]]

Nil == [k |-> "nil"]
Bit(b) == [k |-> "bit", n |-> b]
I64(n) == [k |-> "i64", n |-> n]
F64(n) == [k |-> "f64", n |-> n]
U8(n) == [k |-> "u8", n |-> n]
VecVal(col) == [k |-> "vec", col |-> col]
TabVal(tab) == [k |-> "tab", tab |-> tab]
FunVal(params, ptypes, ret, body, env) ==
  [k |-> "fun", params |-> params, ptypes |-> ptypes, ret |-> ret,
   body |-> body, env |-> env]
PrimVal(x) == [k |-> "prim", name |-> x]

----------------------------------------------------------------------------
(* Tabs: fields with a name, none or one doc, and a value. Binding a name   *)
(* that is there already puts the value in its place.                       *)
Field(x, doc, v) == [name |-> x, doc |-> doc, v |-> v]
TabBind(tab, x, v, doc) ==
  LET at == {i \in DOMAIN tab : tab[i].name = x}
  IN  IF at = {} THEN Append(tab, Field(x, doc, v))
      ELSE [tab EXCEPT ![Min(at)] = Field(x, doc, v)]
Has(tab, x) == \E i \in DOMAIN tab : tab[i].name = x
TabGet(tab, x) == tab[CHOOSE i \in DOMAIN tab : tab[i].name = x].v

----------------------------------------------------------------------------
(* Columns.                                                                 *)
Payload(k, slots) == <<k, slots>>
Kind(p) == p[1]
Slots(p) == p[2]
Col(len, present, sel, cases) ==
  [len |-> len, present |-> present, sel |-> sel, cases |-> cases]
U8Col(bytes) == Col(Len(bytes), <<>>, <<>>, <<Payload("u8", bytes)>>)
IsU8Col(c) == c.present = <<>> /\ c.sel = <<>> /\ Len(c.cases) = 1
              /\ Kind(c.cases[1]) = "u8"

(* What is in an element's slots of the cases it is not in.                 *)
Blank(kind) == CASE kind = "vec" -> U8Col(<<>>)
                 [] kind = "tab" -> <<>> [] OTHER -> 0
Slot(v) == CASE v.k = "vec" -> v.col [] v.k = "tab" -> v.tab [] OTHER -> v.n

BuildCase(kind, vals) ==
  Payload(kind, [i \in DOMAIN vals |-> IF vals[i].k = kind THEN Slot(vals[i])
                                       ELSE Blank(kind)])

(* Kinds in the order in which they are first met; i64 if all is nil.       *)
KindsOf(vals) ==
  LET Meet(ks, v) ==
        IF v.k = "nil" \/ v.k \in ToSet(ks) THEN ks ELSE Append(ks, v.k)
      met == FoldLeft(Meet, <<>>, vals)
  IN  IF met = <<>> THEN <<"i64">> ELSE met

ColFromVals(vals) ==
  LET kinds == KindsOf(vals)
      CaseOf(v) == IF v.k = "nil" THEN 0
                   ELSE (CHOOSE j \in DOMAIN kinds : kinds[j] = v.k) - 1
  IN  Col(Len(vals),
          IF \E i \in DOMAIN vals : vals[i].k = "nil"
          THEN << [i \in DOMAIN vals |-> IF vals[i].k = "nil" THEN 0 ELSE 1] >>
          ELSE <<>>,
          IF Len(kinds) > 1
          THEN << [i \in DOMAIN vals |-> CaseOf(vals[i])] >> ELSE <<>>,
          [j \in DOMAIN kinds |-> BuildCase(kinds[j], vals)])

ColElem(c, i) ==
  LET p == c.cases[IF c.sel = <<>> THEN 1 ELSE c.sel[1][i] + 1]
  IN  IF c.present # <<>> /\ c.present[1][i] = 0 THEN Nil
      ELSE CASE Kind(p) = "vec" -> VecVal(Slots(p)[i])
             [] Kind(p) = "tab" -> TabVal(Slots(p)[i])
             [] OTHER -> [k |-> Kind(p), n |-> Slots(p)[i]]
Elems(c) == [i \in 1 .. c.len |-> ColElem(c, i)]

(* Strings are [u8].                                                        *)
Str(text) == VecVal(U8Col(BytesOf(text)))
IsStr(v) == v.k = "vec" /\ IsU8Col(v.col)
StrText(v) == TextOf(Slots(v.col.cases[1]))
VecOf(vals) == VecVal(ColFromVals(vals))

----------------------------------------------------------------------------
(* Trees and types as values.                                               *)
Name(x) == Str(<<x>>)
NameOf(v) == StrText(v)[1]

Tagged(kind, fields) ==
  <<Field("n", <<>>, Name(kind))>>
    \o [i \in DOMAIN fields |-> Field(fields[i][1], <<>>, fields[i][2])]

----------------------------------------------------------------------------
(* Types.                                                                   *)
RECURSIVE TyToVal(_)
TyToVal(t) ==
  LET of == [i \in DOMAIN t.of |-> TyToVal(t.of[i])]
      Names(xs) == [i \in DOMAIN xs |-> Name(xs[i])]
  IN  CASE t.k \in Prims -> Name(t.k)
        [] t.k = "name" -> Name(t.name)
        [] t.k = "vec" -> TabVal(Tagged("vec_t", << <<"e", of[1]>> >>))
        [] t.k = "union" -> TabVal(Tagged("union_t", << <<"e", VecOf(of)>> >>))
        [] t.k = "tab" ->
             TabVal(Tagged("rec_t", << <<"k", VecOf(Names(t.fields))>>,
                                       <<"t", VecOf(of)>> >>))
        [] t.k = "fun" ->
             TabVal(Tagged("fun_t", << <<"a", VecOf(Front(of))>>,
                                       <<"r", Last(of)>> >>))

RECURSIVE ValToTy(_)
ValToTy(v) ==
  LET Part(x) == TabGet(v.tab, x)
      Tys(w) == [i \in 1 .. w.col.len |-> ValToTy(ColElem(w.col, i))]
      kind == NameOf(Part("n"))
  IN  IF IsStr(v)
      THEN (IF NameOf(v) \in Prims THEN Prim(NameOf(v)) ELSE Named(NameOf(v)))
      ELSE CASE kind = "vec_t" -> Ty("vec", "", <<>>, <<ValToTy(Part("e"))>>)
             [] kind = "union_t" -> Ty("union", "", <<>>, Tys(Part("e")))
             [] kind = "rec_t" ->
                  Ty("tab", "",
                     [i \in 1 .. Part("k").col.len |->
                        NameOf(ColElem(Part("k").col, i))], Tys(Part("t")))
             [] kind = "fun_t" ->
                  Ty("fun", "", <<>>, Append(Tys(Part("a")), ValToTy(Part("r"))))

----------------------------------------------------------------------------
(* Literals are the values themselves.                                      *)
LitToVal(n) ==
  LET sign == n.names[1]
      text == n.names[2]
  IN  CASE n.name = "nil" -> Nil
        [] n.name = "bit" -> Bit(IF text = "true" THEN 1 ELSE 0)
        [] n.name = "i64" -> I64(IF sign = "-" THEN -IntOf[text] ELSE IntOf[text])
        [] n.name = "f64" -> F64(2 * FloatOf[text] + IF sign = "-" THEN 1 ELSE 0)
        [] n.name = "u8" -> U8(ByteOf[text])
        [] n.name = "bits" -> VecOf(<<Bit(1), Bit(0), Bit(1)>>)
        [] n.name = "str" -> Str(<<text>>)

ValToLit(v) ==
  LET Text(f, n) == CHOOSE x \in DOMAIN f : f[x] = n
      Signed(l, negative) == IF negative THEN Negative(l) ELSE l
  IN  CASE v.k = "nil" -> Lit("nil", "nil")
        [] v.k = "bit" -> Lit("bit", IF v.n = 1 THEN "true" ELSE "false")
        [] v.k = "i64" -> Signed(Lit("i64", Text(IntOf, IF v.n < 0 THEN -v.n ELSE v.n)), v.n < 0)
        [] v.k = "f64" -> Signed(Lit("f64", Text(FloatOf, v.n \div 2)), v.n % 2 = 1)
        [] v.k = "u8" -> Lit("u8", Words[v.n + 1])
        [] IsStr(v) -> Lit("str", StrText(v)[1])
        [] OTHER -> Lit("bits", ":101")

----------------------------------------------------------------------------
(* Trees.                                                                   *)
Optional(x, there, v) == IF there THEN << <<x, v>> >> ELSE <<>>
DocOf(n) == Optional("doc", n.doc # <<>>, Str(n.doc[1]))
PubOf(n) == Optional("pub", n.pub, Bit(1))

RECURSIVE AstToVal(_)
AstToVal(n) ==
  LET Kid(i) == AstToVal(n.kids[i])
      Kids(from) == VecOf([i \in 1 .. Len(n.kids) - from |-> Kid(from + i)])
      keys == VecOf([i \in DOMAIN n.names |-> Name(n.names[i])])
      params == VecOf([i \in DOMAIN n.names |->
                  TabVal(<<Field("x", <<>>, Name(n.names[i])),
                           Field("t", <<>>, TyToVal(n.tys[i]))>>)])
      x == <<"x", Name(n.name)>>
      ty == <<"t", TyToVal(Last(n.tys))>>
      Fields ==
        CASE n.k = "lit" -> << <<"v", LitToVal(n)>> >>
          [] n.k = "var" -> <<x>>
          [] n.k = "proj" -> << <<"e", Kid(1)>>, x >>
          [] n.k = "idx" -> << <<"e", Kid(1)>>, <<"i", Kid(2)>> >>
          [] n.k = "app" -> << <<"f", Kid(1)>>, <<"a", Kids(1)>> >>
          [] n.k = "vec" -> << <<"e", Kids(0)>> >>
          [] n.k = "tab" -> << <<"k", keys>>, <<"e", Kids(0)>> >>
          [] n.k = "fun" -> << <<"p", params>>, ty, <<"e", Kid(1)>> >>
          [] n.k = "if" -> << <<"c", Kid(1)>>, <<"t", Kid(2)>>, <<"e", Kid(3)>> >>
          [] n.k = "try" -> << <<"e1", Kid(1)>>, <<"e2", Kid(2)>> >>
          [] n.k = "err" -> << <<"e", Kid(1)>> >>
          [] n.k \in {"is", "as"} -> << <<"e", Kid(1)>>, ty >>
          [] n.k = "seq" -> << <<"d", Kids(0)>> >>
          [] n.k = "let" ->
               <<x>> \o (IF n.tys = <<>> THEN <<>> ELSE <<ty>>)
                 \o << <<"e", Kid(1)>> >> \o DocOf(n) \o PubOf(n)
          [] n.k = "type" ->
               <<x, ty, <<"p", Kid(1)>> >> \o DocOf(n) \o PubOf(n)
          [] n.k = "use" ->
               <<x>> \o Optional("url", n.names # <<>>, Str(n.names)) \o DocOf(n)
  IN  TabVal(Tagged(n.k, Fields))

RECURSIVE ValToAst(_)
ValToAst(v) ==
  LET kind == NameOf(TabGet(v.tab, "n"))
      Part(x) == TabGet(v.tab, x)
      Kid(x) == ValToAst(Part(x))
      Kids(x) == [i \in 1 .. Part(x).col.len |-> ValToAst(ColElem(Part(x).col, i))]
      Keys == [i \in 1 .. Part("k").col.len |-> NameOf(ColElem(Part("k").col, i))]
      Params == Elems(Part("p").col)
      x == NameOf(Part("x"))
      ty == ValToTy(Part("t"))
      Marked(n) ==
        [n EXCEPT !.doc = IF Has(v.tab, "doc") THEN <<StrText(Part("doc"))>>
                          ELSE <<>>,
                  !.pub = Has(v.tab, "pub")]
  IN  CASE kind = "lit" -> ValToLit(Part("v"))
        [] kind = "var" -> Var(x)
        [] kind = "proj" -> Proj(Kid("e"), x)
        [] kind = "idx" -> Idx(Kid("e"), Kid("i"))
        [] kind = "app" -> App(Kid("f"), Kids("a"))
        [] kind = "vec" -> Vec(Kids("e"))
        [] kind = "tab" -> Tab(Keys, Kids("e"))
        [] kind = "fun" ->
             Fun([i \in DOMAIN Params |-> NameOf(TabGet(Params[i].tab, "x"))],
                 [i \in DOMAIN Params |-> ValToTy(TabGet(Params[i].tab, "t"))],
                 ty, Kid("e"))
        [] kind = "if" -> If(Kid("c"), Kid("t"), Kid("e"))
        [] kind = "try" -> Try(Kid("e1"), Kid("e2"))
        [] kind = "err" -> Err(Kid("e"))
        [] kind = "is" -> Is(Kid("e"), ty)
        [] kind = "as" -> As(Kid("e"), ty)
        [] kind = "seq" -> Block(Kids("d"))
        [] kind = "let" ->
             Marked(Let(x, IF Has(v.tab, "t") THEN <<ty>> ELSE <<>>, Kid("e")))
        [] kind = "type" -> Marked(Type(x, ty, Kid("p")))
        [] kind = "use" ->
             Marked(Use(x, IF Has(v.tab, "url") THEN StrText(Part("url"))
                           ELSE <<>>))
=============================================================================
