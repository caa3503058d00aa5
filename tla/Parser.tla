------------------------------- MODULE Parser -------------------------------
(***************************************************************************)
(* parse_unit (src/c/parse.c): recursive descent over the tokens of a      *)
(* text. A parser takes the tokens, a position and how many brackets it is *)
(* in; it returns what it read and the position after it, or Failure. Of   *)
(* every error only that it is one is kept.                                *)
(***************************************************************************)
EXTENDS Lexer

Failure == [ok |-> FALSE]
Read(n, pos) == [ok |-> TRUE, n |-> n, pos |-> pos]

(* What follows a form that was read, and what is made of one.              *)
AndThen(r, Next(_)) == IF r.ok THEN Next(r) ELSE Failure
Making(r, Make(_)) == AndThen(r, LAMBDA x : Read(Make(x.n), x.pos))

(* Newlines never count, doc comments only outside of brackets.             *)
RECURSIVE Peek(_, _, _)
Peek(ts, pos, depth) ==
  IF ts[pos].k = "NEWLINE" \/ (ts[pos].k = "DOC" /\ depth > 0)
  THEN Peek(ts, pos + 1, depth) ELSE pos

Spelt(t, word) == t.k \in {"PUNCT", "NAME"} /\ t.v = word
Sees(ts, pos, depth, word) == Spelt(ts[Peek(ts, pos, depth)], word)
After(ts, pos, depth) == Peek(ts, pos, depth) + 1

Eat(ts, pos, depth, word) ==
  IF Sees(ts, pos, depth, word) THEN Read(word, After(ts, pos, depth))
  ELSE Failure

(* A name must not be reserved; a field may be named like a builtin.        *)
NameNotIn(reserved, ts, pos, depth) ==
  LET t == ts[Peek(ts, pos, depth)]
  IN  IF t.k = "NAME" /\ t.v \notin reserved
      THEN Read(t.v, After(ts, pos, depth)) ELSE Failure
PName(ts, pos, depth) == NameNotIn(Keywords \cup Builtins, ts, pos, depth)
PField(ts, pos, depth) == NameNotIn(Keywords, ts, pos, depth)

RECURSIVE SkipSeps(_, _)
SkipSeps(ts, pos) ==
  IF \/ ts[pos].k = "NEWLINE"
     \/ Spelt(ts[pos], ";")
     \/ ts[pos].k = "DOC" /\ ts[pos + 1].k \in {"NEWLINE", "EOF"}
  THEN SkipSeps(ts, pos + 1) ELSE pos

RECURSIVE SkipNewlines(_, _)
SkipNewlines(ts, pos) ==
  IF ts[pos].k = "NEWLINE" THEN SkipNewlines(ts, pos + 1) ELSE pos

----------------------------------------------------------------------------
(* What a form is made of: EXPR, TY, DECL, NAME, FIELD, or a word to be     *)
(* eaten. The descent recurs through the first three.                       *)
RECURSIVE PPart(_, _, _, _)
PExpr(ts, pos, depth) == PPart("EXPR", ts, pos, depth)
PTy(ts, pos, depth) == PPart("TY", ts, pos, depth)
PDecl(ts, pos, depth) == PPart("DECL", ts, pos, depth)

(* The parts of a form one after the other.                                 *)
RECURSIVE PSequence(_, _, _, _)
PSequence(parts, ts, pos, depth) ==
  IF parts = <<>> THEN Read(<<>>, pos)
  ELSE AndThen(PPart(Head(parts), ts, pos, depth), LAMBDA one :
         Making(PSequence(Tail(parts), ts, one.pos, depth), LAMBDA rest :
           <<one.n>> \o rest))

(* Forms with commas between, up to a closing bracket that is left there.   *)
RECURSIVE PMore(_, _, _, _, _)
PMore(read, parts, ts, pos, depth) ==
  AndThen(PSequence(parts, ts, pos, depth), LAMBDA one :
    IF Sees(ts, one.pos, depth, ",")
    THEN PMore(Append(read, one.n), parts, ts, After(ts, one.pos, depth),
               depth)
    ELSE Read(Append(read, one.n), one.pos))
PList(parts, close, ts, pos, depth) ==
  IF Sees(ts, pos, depth, close) THEN Read(<<>>, pos)
  ELSE PMore(<<>>, parts, ts, pos, depth)

Nth(forms, i) == [j \in DOMAIN forms |-> forms[j][i]]

(* r's result made with Make, after the word close is eaten.                *)
Closing(r, close, ts, depth, Make(_)) ==
  AndThen(r, LAMBDA x :
    Making(Eat(ts, x.pos, depth, close), LAMBDA word : Make(x.n)))

----------------------------------------------------------------------------
(* Types.                                                                   *)
PTyFun(ts, pos, depth) ==
  AndThen(Eat(ts, pos, depth, "("), LAMBDA open :
    AndThen(Closing(PList(<<"TY">>, ")", ts, open.pos, depth + 1),
                 ")", ts, depth + 1, LAMBDA n : Nth(n, 1)), LAMBDA args :
      Making(PSequence(<<"->", "TY">>, ts, args.pos, depth), LAMBDA n :
        Ty("fun", "", <<>>, Append(args.n, n[2])))))

PTyAtom(ts, pos, depth) ==
  LET t == ts[Peek(ts, pos, depth)]
      next == After(ts, pos, depth)
  IN  CASE Spelt(t, "[") ->
             Closing(PTy(ts, next, depth + 1), "]", ts, depth,
                     LAMBDA n : Ty("vec", "", <<>>, <<n>>))
        [] Spelt(t, "{") ->
             Closing(PList(<<"FIELD", ":", "TY">>, "}", ts, next, depth + 1),
                     "}", ts, depth,
                     LAMBDA n : Ty("tab", "", Nth(n, 1), Nth(n, 3)))
        [] Spelt(t, "fun") -> PTyFun(ts, next, depth)
        [] t.k = "NAME" /\ t.v \in Prims -> Read(Prim(t.v), next)
        [] t.k = "NAME" /\ t.v \notin Keywords -> Read(Named(t.v), next)
        [] OTHER -> Failure

PTyPost(ts, pos, depth) ==
  AndThen(PTyAtom(ts, pos, depth), LAMBDA t :
    IF Sees(ts, t.pos, depth, "?")
    THEN Read(Union(<<t.n, Prim("nil")>>), After(ts, t.pos, depth))
    ELSE t)

RECURSIVE PTyParts(_, _, _)
PTyParts(ts, pos, depth) ==
  AndThen(PTyPost(ts, pos, depth), LAMBDA one :
    IF Sees(ts, one.pos, depth, "|")
    THEN Making(PTyParts(ts, After(ts, one.pos, depth), depth), LAMBDA rest :
           <<one.n>> \o rest)
    ELSE Read(<<one.n>>, one.pos))

PTyUnion(ts, pos, depth) ==
  Making(PTyParts(ts, pos, depth),
         LAMBDA n : IF Len(n) = 1 THEN n[1] ELSE Union(n))

----------------------------------------------------------------------------
(* Functions and blocks.                                                    *)
PParams(ts, pos, depth) ==
  AndThen(Eat(ts, pos, depth, "("), LAMBDA open :
    Closing(PList(<<"NAME", ":", "TY">>, ")", ts, open.pos, depth + 1),
            ")", ts, depth + 1, LAMBDA n : n))

PFunExpr(ts, pos, depth) ==
  AndThen(PParams(ts, pos, depth), LAMBDA params :
    Making(PSequence(<<"->", "TY", "=", "EXPR">>, ts, params.pos, depth),
           LAMBDA n : Fun(Nth(params.n, 1), Nth(params.n, 3), n[2], n[4])))

(* The items of ( ) or do end after the first, and the closing word.        *)
RECURSIVE PItems(_, _, _, _, _)
PItems(items, close, ts, pos, depth) ==
  IF Sees(ts, pos, depth, close) THEN Read(items, After(ts, pos, depth))
  ELSE IF ~Sees(ts, pos, depth, ";") THEN Failure
  ELSE LET next == SkipSeps(ts, After(ts, pos, depth))
       IN  IF Sees(ts, next, depth, close)
           THEN Read(items, After(ts, next, depth))
           ELSE AndThen(PDecl(ts, next, depth), LAMBDA d :
                  PItems(Append(items, d.n), close, ts, d.pos, depth))

(* A block of one expression is that expression; in ( ) a type may follow.  *)
PBlock(close, ts, pos, depth) ==
  AndThen(PDecl(ts, pos, depth + 1), LAMBDA first :
    IF /\ close = ")" /\ ~IsDecl(first.n)
       /\ Sees(ts, first.pos, depth + 1, ":")
    THEN Closing(PTy(ts, After(ts, first.pos, depth + 1), depth + 1),
                 ")", ts, depth, LAMBDA n : As(first.n, n))
    ELSE Making(PItems(<<first.n>>, close, ts, first.pos, depth + 1),
                LAMBDA n : IF Len(n) = 1 /\ ~IsDecl(n[1]) THEN n[1]
                           ELSE Block(n)))

----------------------------------------------------------------------------
(* Expressions.                                                             *)
Levels == << <<"or">>, <<"and">>, <<"=", "<">>, <<"+", "-">>, <<"*", "%">> >>
OpOf(sign) == CHOOSE op \in DOMAIN Infix : Infix[op] = sign
Call(op, args) == App(Var(op), args)

PArgs(close, ts, pos, depth) ==
  Closing(PList(<<"EXPR">>, close, ts, pos, depth + 1), close, ts, depth,
          LAMBDA n : Nth(n, 1))

PTab(ts, pos, depth) ==
  Closing(PList(<<"FIELD", "=", "EXPR">>, "}", ts, pos, depth + 1), "}",
          ts, depth, LAMBDA n : Tab(Nth(n, 1), Nth(n, 3)))

MaxPlusOne == "9223372036854775808"

Constants == [nil |-> Lit("nil", "nil"), inf |-> Lit("f64", "inf"),
              nan |-> Lit("f64", "nan"), true |-> Lit("bit", "true"),
              false |-> Lit("bit", "false")]

PAtom(ts, pos, depth) ==
  LET t == ts[Peek(ts, pos, depth)]
      next == After(ts, pos, depth)
      Form(parts, Make(_)) == Making(PSequence(parts, ts, next, depth), Make)
  IN  CASE t.k = "INT" -> IF t.v = MaxPlusOne THEN Failure
                          ELSE Read(Lit("i64", t.v), next)
        [] t.k = "FLOAT" -> Read(Lit("f64", t.v), next)
        [] t.k = "U8" -> Read(Lit("u8", t.v), next)
        [] t.k = "BITVEC" -> Read(Lit("bits", t.v), next)
        [] t.k = "STR" -> Read(Lit("str", t.v), next)
        [] Spelt(t, ":") -> Making(PField(ts, next, depth),
                                   LAMBDA n : Lit("str", Quoted(n)))
        [] Spelt(t, "(") -> PBlock(")", ts, next, depth)
        [] Spelt(t, "[") -> Making(PArgs("]", ts, next, depth), Vec)
        [] Spelt(t, "{") -> PTab(ts, next, depth)
        [] t.k = "NAME" /\ t.v \in DOMAIN Constants ->
             Read(Constants[t.v], next)
        [] Spelt(t, "do") -> PBlock("end", ts, next, depth)
        [] Spelt(t, "fun") -> PFunExpr(ts, next, depth)
        [] Spelt(t, "if") ->
             Form(<<"EXPR", "then", "EXPR", "else", "EXPR">>,
                  LAMBDA n : If(n[1], n[3], n[5]))
        [] Spelt(t, "try") ->
             Form(<<"EXPR", "else", "EXPR">>, LAMBDA n : Try(n[1], n[3]))
        [] Spelt(t, "err") -> Form(<<"EXPR">>, LAMBDA n : Err(n[1]))
        [] t.k = "NAME" /\ t.v \notin Keywords \ Builtins ->
             Read(Var(t.v), next)
        [] OTHER -> Failure

RECURSIVE PSuffixes(_, _, _, _)
PSuffixes(e, ts, pos, depth) ==
  LET next == After(ts, pos, depth)
      On(r) == AndThen(r, LAMBDA x : PSuffixes(x.n, ts, x.pos, depth))
  IN  IF Sees(ts, pos, depth, ".")
      THEN On(Making(PField(ts, next, depth), LAMBDA n : Proj(e, n)))
      ELSE IF Sees(ts, pos, depth, "[")
      THEN On(Closing(PExpr(ts, next, depth + 1), "]", ts, depth,
                      LAMBDA n : Idx(e, n)))
      ELSE IF Sees(ts, pos, depth, "(")
      THEN On(Making(PArgs(")", ts, next, depth), LAMBDA n : App(e, n)))
      ELSE Read(e, pos)

PPostfix(ts, pos, depth) ==
  AndThen(PAtom(ts, pos, depth), LAMBDA e : PSuffixes(e.n, ts, e.pos, depth))

(* A minus goes into a number that follows it; there is no -0, and no -nan. *)
Unsigned == {"nan"}
Negate(n) ==
  IF n.k = "lit" /\ n.name = "f64"
  THEN IF n.names[2] \in Unsigned THEN n ELSE Negative(n)
  ELSE Call("neg", <<n>>)

RECURSIVE PUnary(_, _, _)
PUnary(ts, pos, depth) ==
  LET next == After(ts, pos, depth)
      t == ts[Peek(ts, next, depth)]
  IN  IF Sees(ts, pos, depth, "-")
      THEN IF t.k = "INT"
           THEN Read(IF t.v = "0" THEN Lit("i64", "0")
                     ELSE Negative(Lit("i64", t.v)), After(ts, next, depth))
           ELSE Making(PUnary(ts, next, depth), Negate)
      ELSE IF Sees(ts, pos, depth, "not")
      THEN Making(PUnary(ts, next, depth), LAMBDA n : Call("not", <<n>>))
      ELSE PPostfix(ts, pos, depth)

RECURSIVE PLevel(_, _, _, _), PMoreOf(_, _, _, _, _)
PLevel(l, ts, pos, depth) ==
  IF l > Len(Levels) THEN PUnary(ts, pos, depth)
  ELSE AndThen(PLevel(l + 1, ts, pos, depth), LAMBDA e :
         PMoreOf(l, e.n, ts, e.pos, depth))
PMoreOf(l, e, ts, pos, depth) ==
  LET t == ts[Peek(ts, pos, depth)]
  IN  IF t.k \notin {"PUNCT", "NAME"} \/ t.v \notin ToSet(Levels[l])
      THEN Read(e, pos)
      ELSE AndThen(PLevel(l + 1, ts, After(ts, pos, depth), depth), LAMBDA r :
             PMoreOf(l, Call(OpOf(t.v), <<e, r.n>>), ts, r.pos, depth))

(* The left of a pipe is the last argument on the right, or stands for      *)
(* every _ among the arguments.                                             *)
Piped(e, right) ==
  IF right.k # "app" THEN App(right, <<e>>)
  ELSE LET args == Tail(right.kids)
           hole == Var("_")
       IN  [right EXCEPT !.kids = <<Head(right.kids)>> \o
              IF hole \in ToSet(args) THEN ReplaceAll(args, hole, e)
              ELSE Append(args, e)]

RECURSIVE PPipe(_, _, _, _)
PPipe(e, ts, pos, depth) ==
  IF ~Sees(ts, pos, depth, "|>") THEN Read(e, pos)
  ELSE AndThen(PLevel(1, ts, After(ts, pos, depth), depth), LAMBDA right :
         PPipe(Piped(e, right.n), ts, right.pos, depth))

PIs(ts, pos, depth) ==
  AndThen(PLevel(1, ts, pos, depth), LAMBDA first :
    AndThen(PPipe(first.n, ts, first.pos, depth), LAMBDA e :
      IF Sees(ts, e.pos, depth, "is")
      THEN Making(PTy(ts, After(ts, e.pos, depth), depth),
                  LAMBDA n : Is(e.n, n))
      ELSE e))

----------------------------------------------------------------------------
(* Declarations, up to a closing word or the end.                           *)
RECURSIVE PDecls(_, _, _, _)
PDecls(ds, close, ts, from) ==
  LET pos == SkipSeps(ts, from)
      Ends(t) == IF close = "EOF" THEN t.k = "EOF" ELSE Spelt(t, close)
  IN  IF Ends(ts[pos]) THEN Read(ds, pos + 1)
      ELSE AndThen(PDecl(ts, pos, 0), LAMBDA d :
             LET next == SkipNewlines(ts, d.pos)
             IN  IF Ends(ts[next]) \/ Spelt(ts[next], ";")
                 THEN PDecls(Append(ds, d.n), close, ts, next)
                 ELSE Failure)

(* A module is the block of its declarations and the tab of the public      *)
(* ones, or the function that gives it; then each has to have a type.       *)
SignatureOf(d) ==
  IF d.tys # <<>> THEN d.tys
  ELSE IF d.kids[1].k = "fun" THEN <<Ty("fun", "", <<>>, d.kids[1].tys)>>
  ELSE <<>>

ModuleOf(ds, parametric, params) ==
  LET public == SelectSeq(ds, LAMBDA d : d.k = "let" /\ d.pub)
      names == [i \in DOMAIN public |-> public[i].name]
      body == Block(Append(ds, Tab(names, [i \in DOMAIN names |->
                                             Var(names[i])])))
      tys == [i \in DOMAIN public |-> SignatureOf(public[i])]
  IN  IF \E d \in ToSet(ds) : ~IsDecl(d) THEN Failure
      ELSE IF ~parametric THEN Read(body, 0)
      ELSE IF <<>> \in ToSet(tys) THEN Failure
      ELSE Read(Fun(Nth(params, 1), Nth(params, 3),
                    Ty("tab", "", names, Nth(tys, 1)), body), 0)

PMod(ts, pos, depth) ==
  AndThen(PName(ts, pos, depth), LAMBDA x :
    LET parametric == Sees(ts, x.pos, depth, "(")
    IN  AndThen(IF parametric THEN PParams(ts, x.pos, depth)
             ELSE Read(<<>>, x.pos), LAMBDA params :
          AndThen(Eat(ts, params.pos, depth, "{"), LAMBDA open :
            AndThen(PDecls(<<>>, "}", ts, open.pos), LAMBDA ds :
              AndThen(ModuleOf(ds.n, parametric, params.n), LAMBDA e :
                Read(Let(x.n, <<>>, e.n), ds.pos))))))

PLet(ts, pos, depth) ==
  AndThen(PName(ts, pos, depth), LAMBDA x :
    AndThen(IF Sees(ts, x.pos, depth, ":")
         THEN Making(PTy(ts, After(ts, x.pos, depth), depth), LAMBDA n : <<n>>)
         ELSE Read(<<>>, x.pos), LAMBDA ty :
      Making(PSequence(<<"=", "EXPR">>, ts, ty.pos, depth), LAMBDA n :
        Let(x.n, ty.n, n[2]))))

PFunDecl(ts, pos, depth) ==
  AndThen(PName(ts, pos, depth), LAMBDA x :
    Making(PFunExpr(ts, x.pos, depth), LAMBDA n : Let(x.n, <<>>, n)))

PType(ts, pos, depth) ==
  AndThen(PSequence(<<"NAME", "=", "TY">>, ts, pos, depth), LAMBDA head :
    IF Sees(ts, head.pos, depth, "where")
    THEN Making(PExpr(ts, After(ts, head.pos, depth), depth), LAMBDA n :
           Type(head.n[1], head.n[3], n))
    ELSE Read(Type(head.n[1], head.n[3], AlwaysTrue(head.n[3])), head.pos))

PUse(ts, pos, depth) ==
  AndThen(PName(ts, pos, depth), LAMBDA x :
    LET eq == After(ts, x.pos, depth)
        url == ts[Peek(ts, eq, depth)]
    IN  IF ~Sees(ts, x.pos, depth, "=") THEN Read(Use(x.n, <<>>), x.pos)
        ELSE IF url.k = "STR"
        THEN Read(Use(x.n, <<url.v>>), After(ts, eq, depth))
        ELSE Failure)

(* A use takes no notice of pub.                                            *)
PItem(ts, pos, depth) ==
  LET first == Peek(ts, pos, depth)
      documented == ts[first].k = "DOC"
      afterDoc == IF documented THEN first + 1 ELSE first
      pub == Sees(ts, afterDoc, depth, "pub")
      start == Peek(ts, IF pub THEN After(ts, afterDoc, depth) ELSE afterDoc,
                    depth)
      word == ts[start]
      Marked(r) ==
        Making(r, LAMBDA n :
          [n EXCEPT !.doc = IF documented THEN <<ts[first].doc>> ELSE <<>>,
                    !.pub = pub /\ n.k # "use"])
  IN  CASE Spelt(word, "let") -> Marked(PLet(ts, start + 1, depth))
        [] Spelt(word, "fun") /\ ts[start + 1].k = "NAME" ->
             Marked(PFunDecl(ts, start + 1, depth))
        [] Spelt(word, "type") -> Marked(PType(ts, start + 1, depth))
        [] Spelt(word, "use") -> Marked(PUse(ts, start + 1, depth))
        [] Spelt(word, "mod") -> Marked(PMod(ts, start + 1, depth))
        [] OTHER -> IF pub \/ documented THEN Failure
                    ELSE PExpr(ts, start, depth)

PPart(part, ts, pos, depth) ==
  CASE part = "EXPR" -> PIs(ts, pos, depth)
    [] part = "TY" -> PTyUnion(ts, pos, depth)
    [] part = "DECL" -> PItem(ts, pos, depth)
    [] part = "NAME" -> PName(ts, pos, depth)
    [] part = "FIELD" -> PField(ts, pos, depth)
    [] OTHER -> Eat(ts, pos, depth, part)

(* Nothing declared is taken for an error: no nodes were allocated.         *)
ParseUnit(x) ==
  AndThen(PDecls(<<>>, "EOF", Lex(x), 1), LAMBDA r :
    IF r.n = <<>> THEN Failure ELSE r)
=============================================================================
