----------------------------- MODULE Evaluator ------------------------------
(***************************************************************************)
(* The evaluator (eval, decl_step, apply in src/src/eval.rs) running one   *)
(* unit that the checker accepted. The recursion of eval is a stack of     *)
(* what remains to be done with the value that is being computed. How the  *)
(* frames of calls are shared is in CallFrames; here an environment is a   *)
(* function from names to values.                                          *)
(***************************************************************************)
EXTENDS Checker, FiniteSets

CONSTANTS
  Units,    (* the units that may be run, as sequences of declarations      *)
  MaxDepth  (* calls the interpreter's own stack has room for               *)

ASSUME EvaluatorAssumption == MaxDepth \in Nat

VARIABLES
  unit,     (* the declarations                                             *)
  types,    (* what the checker says of each                                *)
  control,  (* a node to evaluate, a value, a failure, or the overflow      *)
  stack,    (* what is to be done with its value, innermost last            *)
  given     (* the values of the top-level declarations evaluated           *)

vars == <<unit, types, control, stack, given>>

NoEnv == <<>>
Eval(n, env) == [k |-> "eval", node |-> n, env |-> env]
Value(v) == [k |-> "value", v |-> v]
Overflow == [k |-> "overflow"]

(* What follows a node whose operands are evaluated left to right; a block; *)
(* a condition; an expression guarded by try; a call; a map or fold.        *)
Operands(n, env, done) == [k |-> "operands", n |-> n, env |-> env, done |-> done]
InBlock(ds, env) == [k |-> "block", ds |-> ds, env |-> env]
InIf(n, env) == [k |-> "if", n |-> n, env |-> env]
InTry(n, env) == [k |-> "try", n |-> n, env |-> env]
InCall(clo) == [k |-> "call", clo |-> clo]
InMap(f, rest, done) == [k |-> "map", f |-> f, rest |-> rest, done |-> done]
InFold(f, rest) == [k |-> "fold", f |-> f, rest |-> rest]

Top == Last(stack)
Below == Front(stack)
Calls(s) == {i \in DOMAIN s : s[i].k = "call"}

(* The first thing to do for a declaration: a type is one already.          *)
Start(d, env) == CASE d.k = "let"  -> Eval(d.e, env)
                   [] d.k = "type" -> Value([k |-> "type", base |-> d.base,
                                             pred |-> d.pred])
                   [] OTHER -> Eval(d, env)

Init ==
  /\ unit \in {u \in Units : Checks(u)}
  /\ types = UnitTypes(unit)
  /\ control = Start(unit[1], NoEnv)
  /\ stack = <<InBlock(unit, NoEnv)>>
  /\ given = <<>>

Become(c, s) == /\ control' = c
                /\ stack' = s
                /\ UNCHANGED <<unit, types, given>>

Outcome(v) == IF IsFailed(v) THEN v ELSE Value(v)

Evaluating(kinds) == control.k = "eval" /\ control.node.k \in kinds
Returning(kind) == control.k = "value" /\ stack # <<>> /\ Top.k = kind

----------------------------------------------------------------------------
(* What a closure captures: the names its text mentions and, as long as     *)
(* there are any, the names in the bases of captured types.                 *)
(* Mutant of Wanted: without what the captured types themselves mention.    *)
WantedByText(env, xs) == xs \cap DOMAIN env

RECURSIVE Wanted(_, _)
Wanted(env, xs) ==
  LET bound == xs \cap DOMAIN env
      more  == UNION {TyNames(env[x].base) : x \in {y \in bound : env[y].k = "type"}}
  IN IF more \subseteq xs THEN bound ELSE Wanted(env, xs \cup more)

Closure(n, env) ==
  LET captured == Wanted(env, Free(n)) IN
  [k |-> "fun", params |-> n.params, ret |-> n.ret, body |-> n.body,
   env |-> [x \in captured |-> env[x]]]

Atom ==
  /\ Evaluating({"lit", "var", "fun"})
  /\ LET n == control.node IN
     Become(CASE n.k = "lit" -> Value(n.v)
              [] n.k = "fun" -> Value(Closure(n, control.env))
              [] n.k = "var" ->
                   IF n.x \in DOMAIN control.env THEN Value(control.env[n.x])
                   ELSE IF IsBuiltin(n) THEN Value([k |-> "prim", x |-> n.x])
                   ELSE Failed("unbound"),
            stack)

(* The nodes evaluated before n itself. A builtin that is called is not.    *)
OperandsOf(n) ==
  CASE n.k \in {"proj", "err", "is", "as"} -> <<n.e>>
    [] n.k = "app" -> IF IsBuiltin(n.f) THEN n.args ELSE <<n.f>> \o n.args
    [] n.k = "vec" -> n.es
    [] n.k = "tab" -> LET xs == SetToSeq(DOMAIN n.fields) IN
                      [i \in DOMAIN xs |-> n.fields[xs[i]]]

IsText(v) == v.k = "vec" /\ Len(v.els) = 1 /\ v.els[1].k = "u8"
TextOf(v) == v.els[1].c

ColFrom(vs) ==
  IF \A i \in DOMAIN vs : vs[i].k \in ColKinds \cup {"nil"}
  THEN Value(Col(vs)) ELSE Failed("element")

RECURSIVE IsVecType(_, _)
IsVecType(env, t) ==
  CASE t.k = "vec"  -> "yes"
    [] t.k = "name" -> IF IsType(env, t.name) THEN IsVecType(env, Base(env, t.name))
                       ELSE "unbound"
    [] OTHER -> "no"

IsTest(env, v, t) ==
  LET vec == IsVecType(env, t)
      rs  == IF v.k = "vec" /\ vec = "no"
             THEN [i \in DOMAIN v.els |-> ScalarIs(env, v.els[i], t)]
             ELSE IF v.k = "vec" /\ vec = "unbound" THEN <<vec>>
             ELSE <<ScalarIs(env, v, t)>>
      bad == SelectSeq(rs, LAMBDA r : r \notin {"yes", "no"})
      bits == [i \in DOMAIN rs |-> Bit(rs[i] = "yes")]
  IN IF bad # <<>> THEN Failed(bad[1])
     ELSE Value(IF v.k = "vec" /\ vec = "no" THEN Col(bits) ELSE bits[1])

(* A coercion made for an argument, a result or an ascription.              *)
For(purpose, c) ==
  IF IsFailed(c) /\ \/ c.why = "mismatch"
                    \/ purpose = "ascription" /\ c.why # "unbound"
  THEN [c EXCEPT !.why = purpose] ELSE c

Combine(n, env, vs) ==
  CASE n.k = "proj" -> IF vs[1].k = "tab" /\ n.x \in DOMAIN vs[1].fields
                       THEN Value(vs[1].fields[n.x]) ELSE Failed("field")
    [] n.k = "err"  -> Failed("err")
    [] n.k = "is"   -> IsTest(env, vs[1], n.ty)
    [] n.k = "as"   -> Outcome(For("ascription", Coerce(env, vs[1], n.ty)))
    [] n.k = "vec"  -> ColFrom(vs)
    [] n.k = "tab"  -> LET xs == SetToSeq(DOMAIN n.fields) IN
                       Value(Tab([x \in DOMAIN n.fields |->
                                   vs[CHOOSE i \in DOMAIN xs : xs[i] = x]]))

----------------------------------------------------------------------------
(* What becomes of a call of f with the rest of the stack s: the new        *)
(* control and stack.                                                       *)
Then(c, s) == [control |-> c, stack |-> s]

CallClosure(clo, args, s) ==
  LET as  == [i \in DOMAIN args |->
               For("argument", Coerce(clo.env, args[i], clo.params[i].ty))]
      bad == {i \in DOMAIN args : IsFailed(as[i])}
      env == FoldLeft(LAMBDA e, i : With(e, clo.params[i].x, as[i]),
                      clo.env, [i \in DOMAIN args |-> i])
  IN CASE Len(args) # Len(clo.params) -> Then(Failed("arity"), s)
       [] Len(args) = Len(clo.params) /\ bad # {} ->
            Then(as[CHOOSE i \in bad : \A j \in bad : i <= j], s)
       [] OTHER -> Then(Eval(clo.body, env), Append(s, InCall(clo)))

RECURSIVE Call(_, _, _)
Builtin(op, args, s) ==
  LET first == args[1]
      last  == Last(args) IN
  CASE op = "get" ->
         IF first.k = "tab" /\ IsText(last)
         THEN Then(Value(IF TextOf(last) \in DOMAIN first.fields
                         THEN first.fields[TextOf(last)] ELSE Nil), s)
         ELSE Then(Failed("builtin"), s)
    [] op = "first" ->
         IF first.k # "vec" THEN Then(Failed("builtin"), s)
         ELSE IF first.els = <<>> THEN Then(Failed("builtin"), s)
         ELSE Then(Value(Head(first.els)), s)
    [] op = "map" ->
         IF last.k # "vec" THEN Then(Failed("builtin"), s)
         ELSE IF last.els = <<>> THEN Then(Value(last), s)
         ELSE Call(first, <<Head(last.els)>>,
                   Append(s, InMap(first, Tail(last.els), <<>>)))
    [] op = "fold" ->
         IF last.k # "vec" THEN Then(Failed("builtin"), s)
         ELSE IF last.els = <<>> THEN Then(Value(args[2]), s)
         ELSE Call(first, <<args[2], Head(last.els)>>,
                   Append(s, InFold(first, Tail(last.els))))

Call(f, args, s) ==
  CASE f.k = "fun"  -> CallClosure(f, args, s)
    [] f.k = "prim" -> IF Len(args) = Arity(f.x) THEN Builtin(f.x, args, s)
                       ELSE Then(Failed("arity"), s)
    [] OTHER -> Then(Failed("callee"), s)

Calling(c) ==
  Become(IF Cardinality(Calls(c.stack)) > MaxDepth THEN Overflow ELSE c.control, c.stack)

(* n with the values of all its operands.                                   *)
Finish(n, env, vs, s) ==
  IF n.k # "app" THEN Become(Combine(n, env, vs), s)
  ELSE IF IsBuiltin(n.f) THEN Calling(Builtin(n.f.x, vs, s))
  ELSE Calling(Call(Head(vs), Tail(vs), s))

EnterOperands ==
  /\ Evaluating({"proj", "err", "is", "as", "app", "vec", "tab"})
  /\ LET n == control.node
         es == OperandsOf(n)
     IN IF es = <<>> THEN Finish(n, control.env, <<>>, stack)
        ELSE Become(Eval(es[1], control.env),
                    Append(stack, Operands(n, control.env, <<>>)))

NextOperand ==
  /\ Returning("operands")
  /\ LET vs == Append(Top.done, control.v)
         es == OperandsOf(Top.n)
     IN IF Len(vs) = Len(es) THEN Finish(Top.n, Top.env, vs, Below)
        ELSE Become(Eval(es[Len(vs) + 1], Top.env),
                    Append(Below, Operands(Top.n, Top.env, vs)))

(* The declared result type is enforced in the closure's own environment.   *)
Return ==
  /\ Returning("call")
  /\ Become(Outcome(For("result", Coerce(Top.clo.env, control.v, Top.clo.ret))),
            Below)

MapNext ==
  /\ Returning("map")
  /\ LET done == Append(Top.done, control.v) IN
     IF Top.rest = <<>> THEN Become(ColFrom(done), Below)
     ELSE Calling(Call(Top.f, <<Head(Top.rest)>>,
                       Append(Below, InMap(Top.f, Tail(Top.rest), done))))

FoldNext ==
  /\ Returning("fold")
  /\ IF Top.rest = <<>> THEN Become(control, Below)
     ELSE Calling(Call(Top.f, <<control.v, Head(Top.rest)>>,
                       Append(Below, InFold(Top.f, Tail(Top.rest)))))

EnterIf ==
  /\ Evaluating({"if"})
  /\ Become(Eval(control.node.c, control.env),
            Append(stack, InIf(control.node, control.env)))

Branch ==
  /\ Returning("if")
  /\ Become(IF control.v.k # "bit" THEN Failed("condition")
            ELSE Eval(IF control.v.b THEN Top.n.a ELSE Top.n.b, Top.env), Below)

EnterTry ==
  /\ Evaluating({"try"})
  /\ Become(Eval(control.node.a, control.env),
            Append(stack, InTry(control.node, control.env)))

Succeed == Returning("try") /\ Become(control, Below)

(* Mutant of Unwind: the second operand is guarded too.                     *)
UnwindToTry ==
  /\ control.k = "failed"
  /\ stack # <<>>
  /\ IF Top.k = "try" THEN Become(Eval(Top.n.b, Top.env), stack)
     ELSE Become(control, Below)

(* A failure ends what it happened in, up to the nearest try.               *)
Unwind ==
  /\ control.k = "failed"
  /\ stack # <<>>
  /\ Become(IF Top.k = "try" THEN Eval(Top.n.b, Top.env) ELSE control, Below)

EnterBlock ==
  /\ Evaluating({"seq"})
  /\ LET ds == control.node.ds IN
     IF ds = <<>> THEN Become(Value(Nil), stack)
     ELSE Become(Start(ds[1], control.env), Append(stack, InBlock(ds, control.env)))

(* decl_step, after the declared expression has its value.                  *)
Declare ==
  /\ Returning("block")
  /\ LET d   == Head(Top.ds)
         v   == IF d.k = "let" /\ d.ty # NoType
                THEN For("ascription", Coerce(Top.env, control.v, d.ty))
                ELSE control.v
         env == IF d.k \in {"let", "type"} THEN With(Top.env, d.x, v) ELSE Top.env
         ds  == Tail(Top.ds)
     IN /\ control' = IF IsFailed(v) THEN v
                      ELSE IF ds = <<>> THEN Value(v) ELSE Start(ds[1], env)
        /\ stack' = IF IsFailed(v) \/ ds = <<>> THEN Below
                    ELSE Append(Below, InBlock(ds, env))
        /\ given' = IF Below = <<>> /\ ~IsFailed(v) THEN Append(given, v) ELSE given
        /\ UNCHANGED <<unit, types>>

Next == \/ Atom \/ EnterOperands \/ NextOperand \/ Return \/ MapNext \/ FoldNext
        \/ EnterIf \/ Branch \/ EnterTry \/ Succeed \/ Unwind
        \/ EnterBlock \/ Declare

(* Nothing else runs in the interpreter.                                    *)
Spec == Init /\ [][Next]_vars /\ WF_vars(Next)

----------------------------------------------------------------------------
(* A failure is never given or kept as a value; what is being evaluated    *)
(* and what is still to be done stand in the stack, the unit itself at its  *)
(* bottom, until every declaration has its value or one has failed.         *)
ValueKinds == ColKinds \cup {"nil", "fun", "prim", "type"}
TypeOK ==
  /\ control.k \in {"eval", "value", "failed", "overflow"}
  /\ control.k = "value" => control.v.k \in ValueKinds
  /\ \A i \in DOMAIN given : given[i].k \in ValueKinds
  /\ \A i \in DOMAIN stack :
       /\ stack[i].k \in {"operands", "block", "if", "try", "call", "map", "fold"}
       /\ stack[i].k \in {"operands", "map"} =>
            \A j \in DOMAIN stack[i].done : stack[i].done[j].k \in ValueKinds
  /\ stack # <<>> =>
       stack[1].k = "block" /\ Len(given) + Len(stack[1].ds) = Len(unit)
  /\ control.k = "value" /\ stack = <<>> => Len(given) = Len(unit)

(* Values have the types they stand under: what the checker knows of a      *)
(* declaration is true of its value, however deep the type.                 *)
TypeDecls == {i \in DOMAIN unit : unit[i].k = "type"}
Declared(x) == CHOOSE d \in {unit[i] : i \in TypeDecls} : d.x = x
Bases == [x \in {unit[i].x : i \in TypeDecls} |-> Declared(x).base]

RECURSIVE HasType(_, _)
HasType(v, t) ==
  CASE t.k = "name"  -> HasType(v, Bases[t.name]) /\ Holds(Declared(t.name).pred, v) = "yes"
    [] t.k = "union" -> \E i \in DOMAIN t.of : HasType(v, t.of[i])
    [] t.k = "vec"   -> v.k = "vec" /\ \A i \in DOMAIN v.els : HasType(v.els[i], t.elem)
    [] t.k = "tab"   -> /\ v.k = "tab"
                        /\ \A x \in DOMAIN t.fields :
                             x \in DOMAIN v.fields /\ HasType(v.fields[x], t.fields[x])
    [] t.k = "fun"   -> v.k = "fun" /\ Sub(Bases, SigOf(v), t)
    [] OTHER -> v.k = t.k

Soundness ==
  \A i \in DOMAIN given : IsKnown(types[i]) => HasType(given[i], types[i])

(* A unit the checker accepted fails on data only: by err, a predicate, an  *)
(* ascription or in a builtin, whose arguments it does not look at, never   *)
(* on the kind of a callee, an argument, a result, a field or a condition.  *)
(* Left out by name: a function whose signature is what is wanted of it     *)
(* only by what a declared name stands for. sub follows a name on either    *)
(* side, subtype on the left only, so it may refuse what sub accepted.      *)
ThroughAName ==
  control.tested # <<>> /\ ~Sub(NoEnv, control.tested[1], control.tested[2])

OnlyDataFails ==
  control.k = "failed" =>
    \/ control.why \in {"err", "predicate", "raised", "ascription", "builtin"}
    \/ ThroughAName

(* No name, of a value or of a type, is missing from the environment it is  *)
(* looked for in, though closures take only part of theirs with them. Left  *)
(* out by name: a type that the signature of a function being tested names  *)
(* and what is wanted of it does not. The function is tested where the      *)
(* closure it was given to was made, and its own names are not taken there. *)
NamesItsOwn ==
  control.tested # <<>> /\
    ~(TyNames(control.tested[1]) \subseteq TyNames(control.tested[2]))

NamesAreBound ==
  control.k = "failed" => control.why # "unbound" \/ NamesItsOwn

(* There is no recursion: no closure is called while it is being called.    *)
NoRecursion ==
  \A i, j \in Calls(stack) : stack[i].clo = stack[j].clo => i = j

(* Every unit ends, with a value or a failure.                              *)
Terminates == <>(control.k \in {"value", "failed"} /\ stack = <<>>)
=============================================================================
