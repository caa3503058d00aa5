------------------------------- MODULE Types --------------------------------
(***************************************************************************)
(* The types and values of the language, the two subtype relations - the   *)
(* static checker's (sub, src/c/check.c) and the evaluator's (subtype,     *)
(* src/src/eval.rs) - and coerce, which decides at run time what the       *)
(* checker leaves open. A column is the sequence of its elements: how the  *)
(* implementations pack its cases and nils is left out, as are str and     *)
(* sym. A tab is a function from names, its order being seen only when it  *)
(* is printed. A predicate says yes to some values and no to others, and   *)
(* the call fails on the rest.                                             *)
(***************************************************************************)
EXTENDS Integers, Sequences, SequencesExt

(* Types.                                                                   *)
Prim(k) == [k |-> k]
VecOf(t) == [k |-> "vec", elem |-> t]
TabOf(fields) == [k |-> "tab", fields |-> fields]
FunOf(args, ret) == [k |-> "fun", args |-> args, ret |-> ret]
Named(x) == [k |-> "name", name |-> x]
Union(ts) == [k |-> "union", of |-> ts]

(* Values; a closure and a declared type are built by the evaluator.        *)
Nil == [k |-> "nil"]
Bit(b) == [k |-> "bit", b |-> b]
I64(i) == [k |-> "i64", i |-> i]
F64(f) == [k |-> "f64", f |-> f]
Byte(c) == [k |-> "u8", c |-> c]
Col(s) == [k |-> "vec", els |-> s]
Tab(fields) == [k |-> "tab", fields |-> fields]

Always == [all |-> TRUE, yes |-> {}, no |-> {}]
Accepts(yes, no) == [all |-> FALSE, yes |-> yes, no |-> no]
Holds(pred, v) ==
  IF pred.all \/ v \in pred.yes THEN "yes"
  ELSE IF v \in pred.no THEN "no" ELSE "raised"

(* How a test that may fail ends: "yes", "no", or why it failed.            *)
Both(rs) ==
  IF \A i \in DOMAIN rs : rs[i] = "yes" THEN "yes"
  ELSE rs[CHOOSE i \in DOMAIN rs :
            rs[i] # "yes" /\ \A j \in 1..(i - 1) : rs[j] = "yes"]
Either(rs) ==
  IF \A i \in DOMAIN rs : rs[i] = "no" THEN "no"
  ELSE rs[CHOOSE i \in DOMAIN rs :
            rs[i] # "no" /\ \A j \in 1..(i - 1) : rs[j] = "no"]
IfYes(r, then) == IF r = "yes" THEN then ELSE r

(* Every part once, nested unions flattened.                                *)
UnionOf(parts) ==
  LET flat == FlattenSeq([i \in DOMAIN parts |->
                IF parts[i].k = "union" THEN parts[i].of ELSE <<parts[i]>>])
      once == FoldLeft(LAMBDA s, t : IF Contains(s, t) THEN s
                                     ELSE Append(s, t), <<>>, flat)
  IN IF Len(once) = 1 THEN once[1] ELSE Union(once)

----------------------------------------------------------------------------
(* Statically, base gives each type name in scope the type it stands for.   *)
RECURSIVE Sub(_, _, _)
Sub(base, a, b) ==
  \/ a = b
  \/ b.k = "union" /\ \E i \in DOMAIN b.of : Sub(base, a, b.of[i])
  \/ CASE a.k = "union" -> \A i \in DOMAIN a.of : Sub(base, a.of[i], b)
       [] a.k = "name"  -> a.name \in DOMAIN base /\ Sub(base, base[a.name], b)
       [] a.k \notin {"union", "name"} /\ b.k = "name" ->
            b.name \in DOMAIN base /\ Sub(base, a, base[b.name])
       [] a.k = "vec" /\ b.k = "vec" -> Sub(base, a.elem, b.elem)
       [] a.k = "tab" /\ b.k = "tab" ->
            \A x \in DOMAIN b.fields :
              x \in DOMAIN a.fields /\ Sub(base, a.fields[x], b.fields[x])
       [] a.k = "fun" /\ b.k = "fun" ->
            /\ Len(a.args) = Len(b.args)
            /\ \A i \in DOMAIN a.args : Sub(base, b.args[i], a.args[i])
            /\ Sub(base, a.ret, b.ret)
       [] OTHER -> FALSE

----------------------------------------------------------------------------
(* At run time a declared type is a value of the environment that the test  *)
(* is made in.                                                              *)
IsType(env, x) == x \in DOMAIN env /\ env[x].k = "type"
Base(env, x) == env[x].base

SigOf(clo) == FunOf([i \in DOMAIN clo.params |-> clo.params[i].ty], clo.ret)

(* The types of values that are asked for: those of literals and functions. *)
ValTy(v) == CASE v.k = "fun"  -> SigOf(v)
              [] v.k = "prim" -> FunOf(<<>>, Prim("nil"))
              [] OTHER -> Prim(v.k)

RECURSIVE Subtype(_, _, _)
Subtype(env, a, b) ==
  LET member == IF b.k = "union"
                THEN Either([i \in DOMAIN b.of |-> Subtype(env, a, b.of[i])])
                ELSE "no"
  IN CASE a = b -> "yes"
       [] a # b /\ member # "no" -> member
       [] OTHER ->
     CASE a.k = "union" ->
            Both([i \in DOMAIN a.of |-> Subtype(env, a.of[i], b)])
       [] a.k = "name" ->
            IF IsType(env, a.name) THEN Subtype(env, Base(env, a.name), b)
            ELSE "unbound"
       [] a.k = "vec" /\ b.k = "vec" -> Subtype(env, a.elem, b.elem)
       [] a.k = "tab" /\ b.k = "tab" ->
            IF DOMAIN b.fields \subseteq DOMAIN a.fields
            THEN LET xs == SetToSeq(DOMAIN b.fields) IN
                 Both([i \in DOMAIN xs |->
                        Subtype(env, a.fields[xs[i]], b.fields[xs[i]])])
            ELSE "no"
       [] a.k = "fun" /\ b.k = "fun" ->
            IF Len(a.args) # Len(b.args) THEN "no"
            ELSE Both(Append([i \in DOMAIN a.args |->
                               Subtype(env, b.args[i], a.args[i])],
                             Subtype(env, a.ret, b.ret)))
       [] OTHER -> "no"

(* Does v look like a t: deep for functions and predicates, shallow for     *)
(* columns and tabs (scalar_is).                                            *)
RECURSIVE ScalarIs(_, _, _)
ScalarIs(env, v, t) ==
  CASE t.k = "fun" -> IF v.k \in {"fun", "prim"} THEN Subtype(env, ValTy(v), t)
                      ELSE "no"
    [] t.k = "union" ->
         Either([i \in DOMAIN t.of |-> ScalarIs(env, v, t.of[i])])
    [] t.k = "name" ->
         IF ~IsType(env, t.name) THEN "unbound"
         ELSE IfYes(ScalarIs(env, v, Base(env, t.name)),
                    Holds(env[t.name].pred, v))
    [] OTHER -> IF v.k = t.k THEN "yes" ELSE "no"

RECURSIVE ContainsName(_)
ContainsName(t) == \/ t.k = "name"
                   \/ t.k = "union" /\ \E i \in DOMAIN t.of : ContainsName(t.of[i])
                   \/ t.k = "vec" /\ ContainsName(t.elem)

(* t with what its names stand for; a name that stands for nothing is left. *)
RECURSIVE StripNames(_, _)
StripNames(env, t) ==
  CASE t.k = "name" /\ IsType(env, t.name) -> StripNames(env, Base(env, t.name))
    [] t.k = "union" ->
         UnionOf([i \in DOMAIN t.of |-> StripNames(env, t.of[i])])
    [] t.k = "vec" -> VecOf(StripNames(env, t.elem))
    [] OTHER -> t

(* What a column can hold, and the column type that admits a nil.           *)
ColKinds == {"bit", "i64", "f64", "u8", "vec", "tab"}
Cases(t) == IF t.k = "union" THEN ToSet(t.of) ELSE {t}
NilOf(t) == Prim("nil") \in Cases(t)

(* Mutant of FitsCol: nils fit every column.                                *)
FitsColButNils(els, t) ==
  \A i \in DOMAIN els : els[i] = Nil \/ \E c \in Cases(t) : c.k = els[i].k

(* Every element has the kind of a case; what is inside an element that is  *)
(* itself a column or a tab is not looked at (coerce_col).                  *)
FitsCol(els, t) ==
  LET cases == IF t.k = "union" THEN Cases(t) \ {Prim("nil")} ELSE Cases(t)
  IN /\ \A c \in cases : c.k \in ColKinds
     /\ \A i \in DOMAIN els : IF els[i] = Nil THEN NilOf(t)
                              ELSE \E c \in cases : c.k = els[i].k

(* When a function was refused, its signature and what was wanted of it.    *)
Failed(why) == [k |-> "failed", why |-> why, tested |-> <<>>]
Refused(why, v, t) ==
  IF v.k = "fun" THEN [Failed(why) EXCEPT !.tested = <<SigOf(v), t>>]
  ELSE Failed(why)
IsFailed(v) == v.k = "failed"

RECURSIVE Coerce(_, _, _)
Coerce(env, v, t) ==
  LET Give(r) == CASE r = "yes" -> v
                   [] r = "no"  -> Refused(IF ContainsName(t) THEN "predicate"
                                           ELSE "mismatch", v, t)
                   [] OTHER -> Refused(r, v, t) IN
  CASE t.k = "name" ->
         IF ~IsType(env, t.name) THEN Failed("unbound")
         ELSE LET c == Coerce(env, v, Base(env, t.name))
              IN IF IsFailed(c) THEN c ELSE Give(Holds(env[t.name].pred, c))
    [] t.k = "vec" /\ v.k = "vec" ->
         LET rs == [i \in DOMAIN v.els |->
                     IF v.els[i] = Nil \/ ~ContainsName(t.elem) THEN "yes"
                     ELSE ScalarIs(env, v.els[i], t.elem)]
             r == Both(rs)
             rep == StripNames(env, t.elem)
         IN IF ContainsName(rep) THEN Failed("unbound")
            ELSE IF ~FitsCol(v.els, rep)
            THEN Failed("mismatch")
            ELSE Give(r)
    [] t.k = "tab" /\ v.k = "tab" ->
         LET out == [x \in DOMAIN t.fields |->
                      IF x \in DOMAIN v.fields
                      THEN Coerce(env, v.fields[x], t.fields[x])
                      ELSE Failed("mismatch")]
             bad == {x \in DOMAIN out : IsFailed(out[x])}
         IN IF bad = {} THEN Tab(out @@ v.fields)
            ELSE out[CHOOSE x \in bad : TRUE]
    [] t.k = "union" ->
         LET rs == [i \in DOMAIN t.of |-> ScalarIs(env, v, t.of[i])]
             r == Either(rs)
         IN IF r = "yes"
            THEN Coerce(env, v, t.of[CHOOSE i \in DOMAIN t.of :
                          rs[i] = "yes" /\ \A j \in 1..(i - 1) : rs[j] = "no"])
            ELSE Give(r)
    [] OTHER -> Give(ScalarIs(env, v, t))

----------------------------------------------------------------------------
(* Syntax trees (Ast in src/src/ast.rs, Node in src/c/snel.h): a record     *)
(* whose k is the kind of node. Imports, indexing and documentation are     *)
(* left out, and of the builtins all but four.                              *)
Builtins == {"get", "first", "map", "fold"}
Arity(op) == CASE op = "first" -> 1
               [] op \in {"get", "map"} -> 2
               [] op = "fold" -> 3

NoType == [k |-> "none"]

Lit(v) == [k |-> "lit", v |-> v]
Var(x) == [k |-> "var", x |-> x]
Proj(e, x) == [k |-> "proj", e |-> e, x |-> x]
App(f, args) == [k |-> "app", f |-> f, args |-> args]
VecL(es) == [k |-> "vec", es |-> es]
TabL(fields) == [k |-> "tab", fields |-> fields]
Param(x, t) == [x |-> x, ty |-> t]
Fun(params, ret, body) ==
  [k |-> "fun", params |-> params, ret |-> ret, body |-> body]
If(c, a, b) == [k |-> "if", c |-> c, a |-> a, b |-> b]
Try(a, b) == [k |-> "try", a |-> a, b |-> b]
Err(e) == [k |-> "err", e |-> e]
Is(e, t) == [k |-> "is", e |-> e, ty |-> t]
As(e, t) == [k |-> "as", e |-> e, ty |-> t]
Block(ds) == [k |-> "seq", ds |-> ds]
Let(x, t, e) == [k |-> "let", x |-> x, ty |-> t, e |-> e]
Type(x, base, pred) == [k |-> "type", x |-> x, base |-> base, pred |-> pred]

IsBuiltin(n) == n.k = "var" /\ n.x \in Builtins

(* The type names in t.                                                     *)
RECURSIVE TyNames(_)
TyNames(t) ==
  CASE t.k = "name"  -> {t.name}
    [] t.k = "vec"   -> TyNames(t.elem)
    [] t.k = "union" -> UNION {TyNames(t.of[i]) : i \in DOMAIN t.of}
    [] t.k = "tab"   -> UNION {TyNames(t.fields[x]) : x \in DOMAIN t.fields}
    [] t.k = "fun"   -> UNION {TyNames(t.args[i]) : i \in DOMAIN t.args}
                          \cup TyNames(t.ret)
    [] OTHER -> {}

(* The names, of types too, that n refers to outside of itself (free_vars,  *)
(* walk). The base of a declared type and the names a block binds.          *)
RECURSIVE Free(_), FreeOfBlock(_)
FreeOfFun(params, ret, body) ==
  LET xs(n) == {params[j].x : j \in 1..n} IN
  UNION {TyNames(params[i].ty) \ xs(i - 1) : i \in DOMAIN params}
    \cup ((TyNames(ret) \cup Free(body)) \ xs(Len(params)))
FreeOfBlock(ds) ==
  IF ds = <<>> THEN {}
  ELSE LET d == Head(ds)
           binds == IF d.k \in {"let", "type"} THEN {d.x} ELSE {}
       IN Free(d) \cup (FreeOfBlock(Tail(ds)) \ binds)
Free(n) ==
  CASE n.k = "lit"  -> {}
    [] n.k = "var"  -> {n.x} \ Builtins
    [] n.k \in {"proj", "err"} -> Free(n.e)
    [] n.k = "app"  -> Free(n.f) \cup UNION {Free(n.args[i]) : i \in DOMAIN n.args}
    [] n.k = "vec"  -> UNION {Free(n.es[i]) : i \in DOMAIN n.es}
    [] n.k = "tab"  -> UNION {Free(n.fields[x]) : x \in DOMAIN n.fields}
    [] n.k = "fun"  -> FreeOfFun(n.params, n.ret, n.body)
    [] n.k = "if"   -> Free(n.c) \cup Free(n.a) \cup Free(n.b)
    [] n.k = "try"  -> Free(n.a) \cup Free(n.b)
    [] n.k \in {"is", "as", "let"} -> Free(n.e) \cup TyNames(n.ty)
    [] n.k = "type" -> TyNames(n.base)
    [] n.k = "seq"  -> FreeOfBlock(n.ds)
=============================================================================
