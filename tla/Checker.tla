------------------------------ MODULE Checker -------------------------------
(***************************************************************************)
(* The static checker (src/c/check.c, of which src/src/check.rs is the     *)
(* twin): infer gives an expression a type, or leaves it unknown, or       *)
(* rejects it.                                                             *)
(***************************************************************************)
EXTENDS Types

Unknown == [k |-> "unknown"]
Rejected == [k |-> "rejected"]

IsKnown(t) == t.k \notin {"unknown", "rejected"}
AnyRejected(ts) == \E i \in DOMAIN ts : ts[i] = Rejected

(* A scope: what is known of each name, and what each type name stands for. *)
Scope(vars, base) == [vars |-> vars, base |-> base]
With(f, x, y) == [z \in DOMAIN f \cup {x} |-> IF z = x THEN y ELSE f[z]]
Knows(sc, x, t) == [sc EXCEPT !.vars = With(@, x, t)]
Names(sc, x, t) == [sc EXCEPT !.base = With(@, x, t)]

NamesResolve(sc, t) == TyNames(t) \subseteq DOMAIN sc.base

(* What a chain of type names ends in (the code follows 16 at most); a name *)
(* that left its scope stands for nothing known.                            *)
RECURSIVE Deref(_, _)
Deref(sc, t) == IF t.k # "name" THEN t
                ELSE IF t.name \in DOMAIN sc.base THEN Deref(sc, sc.base[t.name])
                ELSE Unknown

(* Mutant of BranchJoin: the narrower of the two.                           *)
BranchMeet(sc, a, b) ==
  IF ~IsKnown(a) \/ ~IsKnown(b) THEN Unknown
  ELSE IF Sub(sc.base, a, b) THEN a
  ELSE IF Sub(sc.base, b, a) THEN b
  ELSE Rejected

BranchJoin(sc, a, b) ==
  IF ~IsKnown(a) \/ ~IsKnown(b) THEN Unknown
  ELSE IF Sub(sc.base, a, b) THEN b
  ELSE IF Sub(sc.base, b, a) THEN a
  ELSE Rejected

(* Applying a function of type ft to arguments of types ts.                 *)
CallResult(sc, ft, ts) ==
  IF Len(ft.args) # Len(ts) THEN Rejected
  ELSE IF \E i \in DOMAIN ts : IsKnown(ts[i]) /\ ~Sub(sc.base, ts[i], ft.args[i])
  THEN Rejected
  ELSE ft.ret

InferCall(sc, ft, ts) ==
  LET callee == Deref(sc, ft) IN
  CASE callee = Unknown -> Unknown
    [] callee.k = "fun" -> CallResult(sc, callee, ts)
    [] OTHER -> Rejected

ElemTy(t) == IF t.k = "vec" THEN t.elem ELSE Unknown
ColOf(t) == IF IsKnown(t) THEN VecOf(t) ELSE t

BuiltinResult(op, ts) == IF op = "first" THEN ElemTy(ts[1]) ELSE Unknown

(* A function argument of map or fold, applied to elements of types ts.     *)
FnResult(sc, f, ft, ts) ==
  CASE IsBuiltin(f) -> IF Arity(f.x) = Len(ts) THEN BuiltinResult(f.x, ts)
                       ELSE Rejected
    [] ~IsBuiltin(f) /\ ft.k = "fun" -> CallResult(sc, ft, ts)
    [] OTHER -> Unknown

InferBuiltin(sc, op, args, ts) ==
  CASE Len(args) # Arity(op) -> Rejected
    [] Len(args) = Arity(op) /\ op = "map" ->
         ColOf(FnResult(sc, args[1], ts[1], <<ElemTy(ts[2])>>))
    [] Len(args) = Arity(op) /\ op = "fold" ->
         FnResult(sc, args[1], ts[1], <<ts[2], ElemTy(ts[3])>>)
    [] OTHER -> BuiltinResult(op, ts)

----------------------------------------------------------------------------
RECURSIVE Infer(_, _), DeclTypes(_, _)

InferApp(sc, n) ==
  LET ts == [i \in DOMAIN n.args |-> Infer(sc, n.args[i])]
      ft == Infer(sc, n.f)
  IN IF AnyRejected(Append(ts, ft)) THEN Rejected
     ELSE IF IsBuiltin(n.f) THEN InferBuiltin(sc, n.f.x, n.args, ts)
     ELSE InferCall(sc, ft, ts)

(* Mutant of InferProj: a field a tab may have by its type is unknown.      *)
InferProjOpen(sc, n) ==
  LET t == Infer(sc, n.e)
      r == Deref(sc, t)
  IN IF ~IsKnown(t) THEN t
     ELSE IF r.k # "tab" THEN Rejected
     ELSE IF n.x \in DOMAIN r.fields THEN r.fields[n.x] ELSE Unknown

InferProj(sc, n) ==
  LET t == Infer(sc, n.e)
      r == Deref(sc, t)
  IN IF ~IsKnown(t) THEN t
     ELSE IF r.k = "tab" /\ n.x \in DOMAIN r.fields THEN r.fields[n.x]
     ELSE Rejected

InferVec(sc, n) ==
  LET ts == [i \in DOMAIN n.es |-> Infer(sc, n.es[i])] IN
  IF AnyRejected(ts) THEN Rejected
  ELSE IF ts # <<>> /\ \A i \in DOMAIN ts : IsKnown(ts[i])
  THEN VecOf(UnionOf(ts)) ELSE Unknown

InferTab(sc, n) ==
  LET ts == [x \in DOMAIN n.fields |-> Infer(sc, n.fields[x])] IN
  IF AnyRejected(ts) THEN Rejected
  ELSE IF \A x \in DOMAIN ts : IsKnown(ts[x]) THEN TabOf(ts) ELSE Unknown

InferFun(sc, n) ==
  LET inner == FoldLeft(LAMBDA s, p : Knows(s, p.x, p.ty), sc, n.params)
      body  == Infer(inner, n.body)
  IN IF /\ \A i \in DOMAIN n.params : NamesResolve(sc, n.params[i].ty)
        /\ NamesResolve(sc, n.ret)
        /\ body # Rejected
        /\ body = Unknown \/ Sub(sc.base, body, n.ret)
     THEN FunOf([i \in DOMAIN n.params |-> n.params[i].ty], n.ret)
     ELSE Rejected

InferIf(sc, n) ==
  LET c == Infer(sc, n.c)
      a == Infer(sc, n.a)
      b == Infer(sc, n.b)
  IN IF AnyRejected(<<a, b>>) \/ c \notin {Unknown, Prim("bit")} THEN Rejected
     ELSE BranchJoin(sc, a, b)

InferIs(sc, n) ==
  LET t == Infer(sc, n.e) IN
  IF t = Rejected \/ ~NamesResolve(sc, n.ty) THEN Rejected
  ELSE IF t.k = "vec" /\ Deref(sc, n.ty).k # "vec" THEN VecOf(Prim("bit"))
  ELSE Prim("bit")

InferBlock(sc, n) ==
  LET ts == DeclTypes(sc, n.ds) IN
  IF AnyRejected(ts) THEN Rejected
  ELSE IF ts = <<>> THEN Unknown ELSE Last(ts)

Infer(sc, n) ==
  CASE n.k = "lit"  -> ValTy(n.v)
    [] n.k = "var"  -> IF IsBuiltin(n) THEN Unknown
                       ELSE IF n.x \in DOMAIN sc.vars THEN sc.vars[n.x]
                       ELSE Rejected
    [] n.k = "proj" -> InferProj(sc, n)
    [] n.k = "app"  -> InferApp(sc, n)
    [] n.k = "vec"  -> InferVec(sc, n)
    [] n.k = "tab"  -> InferTab(sc, n)
    [] n.k = "fun"  -> InferFun(sc, n)
    [] n.k = "if"   -> InferIf(sc, n)
    [] n.k = "try"  -> LET a == Infer(sc, n.a)
                           b == Infer(sc, n.b)
                       IN IF AnyRejected(<<a, b>>) THEN Rejected
                          ELSE BranchJoin(sc, a, b)
    [] n.k = "err"  -> IF Infer(sc, n.e) = Rejected THEN Rejected ELSE Unknown
    [] n.k = "is"   -> InferIs(sc, n)
    [] n.k = "as"   -> IF Infer(sc, n.e) = Rejected \/ ~NamesResolve(sc, n.ty)
                       THEN Rejected ELSE n.ty
    [] n.k = "seq"  -> InferBlock(sc, n)

(* The type of a declaration, and the scope of the next.                    *)
InferDecl(sc, d) ==
  CASE d.k = "let" ->
         LET t == Infer(sc, d.e) IN
         IF d.ty = NoType \/ t = Rejected THEN t
         ELSE IF NamesResolve(sc, d.ty) THEN d.ty ELSE Rejected
    [] d.k = "type" -> IF NamesResolve(sc, d.base) THEN Unknown ELSE Rejected
    [] OTHER -> Infer(sc, d)

Extend(sc, d, t) == CASE d.k = "let"  -> Knows(sc, d.x, t)
                      [] d.k = "type" -> Names(sc, d.x, d.base)
                      [] OTHER -> sc

DeclTypes(sc, ds) ==
  IF ds = <<>> THEN <<>>
  ELSE LET t == InferDecl(sc, Head(ds))
       IN <<t>> \o DeclTypes(Extend(sc, Head(ds), t), Tail(ds))

(* check_unit, on a unit whose top level is empty.                          *)
UnitTypes(ds) == DeclTypes(Scope(<<>>, <<>>), ds)
Checks(ds) == ~AnyRejected(UnitTypes(ds))
=============================================================================
