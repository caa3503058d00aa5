---------------------------- MODULE MCEvaluator -----------------------------
(* Units for TLC: every way to fill in some forms, of which the checker     *)
(* picks those that are run.                                                *)
EXTENDS Evaluator

One == Lit(I64(1))
Zero == Lit(I64(0))
Half == Lit(F64(5))
Yes == Lit(Bit(TRUE))
NoNum == Lit(Nil)

Num == Prim("i64")
Flo == Prim("f64")
NumOrNil == Union(<<Num, Prim("nil")>>)
NumOrFlo == Union(<<Num, Flo>>)
P == Named("p")
Q == Named("q")

(* p: the i64 that are 1; q: another name for p.                            *)
Decls == << Type("p", Num, Accepts({I64(1)}, {I64(0)})), Type("q", P, Always) >>

f == Var("f")
x == Var("x")
Def(name, e) == Let(name, NoType, e)
Fun1(t, ret, body) == Fun(<<Param("x", t)>>, ret, body)
Apply(e, arg) == App(e, <<arg>>)

Scalars == {One, Zero, Half, Yes, NoNum}
ScalarTypes == {Num, Flo, NumOrNil, NumOrFlo, P, Q}

(* fun(x: t) -> r = body, applied to an expression.                         *)
Bodies == {x, As(x, Num), As(x, P), If(Is(x, Num), x, x), Try(As(x, Q), One),
           Try(x, One), Try(As(x, Q), As(x, Num)),
           Try(As(Err(x), Num), x), Block(<<Def("y", x), Var("y")>>)}
Identities ==
  { << Def("f", Fun1(t, r, b)), Def("y", Apply(f, e)) >> :
      t \in ScalarTypes, r \in ScalarTypes, b \in Bodies, e \in Scalars }

(* An expression bound under a type, and used.                              *)
Columns == {VecL(<<One, Zero>>), VecL(<<One, NoNum>>), VecL(<<One, Half>>)}
Tabs == {TabL([a |-> One]), TabL([a |-> Zero, b |-> Half]), TabL([b |-> NoNum])}
DeepTypes == {VecOf(t) : t \in {Num, NumOrNil, NumOrFlo, P}}
               \cup {TabOf([a |-> Num]), TabOf([a |-> P, b |-> Flo]), TabOf(<<>>)}
Uses == {Proj(Var("y"), "a"), Apply(Var("first"), Var("y")),
         If(Is(Var("y"), VecOf(Num)), One, Zero), Is(Var("y"), Num),
         App(Var("map"), <<Var("first"), VecL(<<Var("y")>>)>>),
         App(Var("map"), <<Fun1(Num, P, x), Var("y")>>),
         App(Var("map"), <<Fun1(NumOrNil, NumOrNil, Try(As(x, Num), Zero)), Var("y")>>),
         App(Var("fold"), <<Fun(<<Param("z", Num), Param("x", Num)>>, Num, x), Zero, Var("y")>>)}
Ascriptions ==
  { << Let("y", t, e), Def("z", u) >> :
      t \in DeepTypes, e \in Columns \cup Tabs \cup {VecL(<<>>)}, u \in Uses }
    \cup
  { << Def("y", e), Def("z", u) >> : e \in Columns \cup Tabs, u \in Uses }

(* What signatures are made of: what both subtype relations tell apart.     *)
Signed == {Num, NumOrNil, P, Q}

(* Closures that are given away: makers of functions, one of a local type.  *)
Local == Type("l", P, Accepts({I64(1)}, {}))
Makers == { Fun1(t, FunOf(<<Num>>, r), Fun(<<Param("z", Num)>>, q, Var(v))) :
              t \in {Num, NumOrNil, P}, r \in Signed, q \in Signed,
              v \in {"x", "z"} }
            \cup
          { Fun1(Num, FunOf(<<Num>>, Num),
                 Block(<<Local, Def("y", As(x, Named("l"))),
                         Fun(<<Param("z", Num)>>, Num, As(Var("z"), Named("l")))>>)) }
Closures ==
  { << Def("f", m), Def("g", Apply(f, e)), Def("y", Apply(Var("g"), d)) >> :
      m \in Makers, e \in {One, Zero}, d \in {One, Zero} }

(* Functions given to functions.                                            *)
Givens == { Fun1(t, r, b) : t \in Signed \cup {Flo}, r \in Signed, b \in {x, One} }
Takers == { Fun(<<Param("h", FunOf(<<t>>, r))>>, NumOrNil, Apply(Var("h"), e)) :
              t \in Signed, r \in Signed, e \in {One, Zero, NoNum} }
Given == { << Def("f", g), Def("t", k), Def("y", Apply(Var("t"), f)) >> :
             g \in Givens, k \in Takers }

(* Functions that would call themselves.                                    *)
Selves == { << Def("f", Fun1(t, Num, Apply(e, x))), Def("y", Apply(f, d)) >> :
              t \in {TabOf(<<>>), TabOf([f |-> Num]), FunOf(<<Num>>, Num),
                     FunOf(<<FunOf(<<Num>>, Num)>>, Num)},
              e \in {x, f, Proj(x, "f")},
              d \in {f, TabL([f |-> f])} }

WithDecls(us) == {Decls \o u : u \in us}
MCUnits == WithDecls(Identities \cup Ascriptions \cup Closures \cup Given \cup Selves)

(* A function found at run time, of which the checker knows nothing.        *)
LookedUp ==
  WithDecls({ << Def("f", Fun1(TabOf(<<>>), Num,
                     Apply(App(Var("get"), <<x, Lit(Col(<<Byte("f")>>))>>), x))),
                 Def("y", Apply(f, TabL([f |-> f]))) >> })
=============================================================================
