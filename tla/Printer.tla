------------------------------ MODULE Printer -------------------------------
(***************************************************************************)
(* fmt_program (src/c/print.c): the text of a tree. Blanks are written     *)
(* around infix operators only, where they keep two minus signs from       *)
(* beginning a comment.                                                    *)
(***************************************************************************)
EXTENDS Lexer

(* Texts with a separator between them.                                     *)
Separated(texts, between) ==
  FlattenSeq([i \in DOMAIN texts |->
                IF i = 1 THEN texts[i] ELSE between \o texts[i]])

RECURSIVE FmtTy(_)
FmtTy(t) ==
  LET of == [i \in DOMAIN t.of |-> FmtTy(t.of[i])]
  IN  CASE t.k = "name" -> <<t.name>>
        [] t.k = "vec" -> <<"[">> \o of[1] \o <<"]">>
        [] t.k = "union" -> Separated(of, <<"|">>)
        [] t.k = "tab" ->
             <<"{">> \o Separated([i \in DOMAIN of |-> <<t.fields[i], ":">> \o of[i]],
                                  <<",">>) \o <<"}">>
        [] t.k = "fun" ->
             <<"fun", "(">> \o Separated(Front(of), <<",">>) \o <<")", "->">>
               \o Last(of)
        [] OTHER -> <<t.k>>

----------------------------------------------------------------------------
(* How tight an operator binds; a text is in brackets where something       *)
(* tighter is needed.                                                       *)
OpPrec == [or |-> 2, and |-> 3, eq |-> 4, lt |-> 4, add |-> 5, sub |-> 5,
           mul |-> 6, rem |-> 6]
UnaryPrec == 7
PostfixPrec == 8
AtomPrec == 10

Form(text, prec) == [text |-> text, prec |-> prec]
Bracketed(f, prec) ==
  IF f.prec < prec THEN <<"(">> \o f.text \o <<")">> ELSE f.text

FmtLit(n) ==
  IF n.names[1] = "-" THEN Form(n.names, UnaryPrec)
  ELSE Form(<<n.names[2]>>, AtomPrec)

Minus == <<"-">>
TakesMinus(text) ==
  text[1] \in Ints \cup Floats \/ text \in {<<"inf">>, <<"nan">>}

(* Mutant of FmtNeg: only a second minus is kept apart.                     *)
FmtNegAlways(text) ==
  IF text[1] = "-"
  THEN Form(<<"neg", "(">> \o text \o <<")">>, PostfixPrec)
  ELSE Form(Minus \o text, UnaryPrec)

(* A minus in front of a minus would begin a comment, in front of a number  *)
(* it would go into it.                                                     *)
FmtNeg(text) ==
  IF text[1] = "-" \/ TakesMinus(text)
  THEN Form(<<"neg", "(">> \o text \o <<")">>, PostfixPrec)
  ELSE Form(Minus \o text, UnaryPrec)

FmtParams(n) ==
  Separated([i \in DOMAIN n.names |-> <<n.names[i], ":">> \o FmtTy(n.tys[i])],
            <<",">>)

DocPrefix(n) ==
  LET Begin == <<"-", "-", " ">>
      AtLineEnd(l) == IF l = "\n" THEN <<"\n">> \o Begin ELSE <<l>>
  IN  IF n.doc = <<>> THEN <<>>
      ELSE Begin \o FlattenSeq([i \in DOMAIN n.doc[1] |-> AtLineEnd(n.doc[1][i])])
             \o <<"\n">>
Pub(n) == IF n.pub THEN <<"pub">> ELSE <<>>

(* The predicate that stands for none.                                      *)
IsAlwaysTrue(p, base) == p = AlwaysTrue(base)

RECURSIVE Fmt(_)
Inside(n, prec) == Bracketed(Fmt(n), prec)
FmtKids(n, from, prec) ==
  Separated([i \in 1 .. Len(n.kids) - from |-> Inside(n.kids[i + from], prec)],
            <<",">>)

FmtApp(n) ==
  LET f == n.kids[1]
      arity == Len(n.kids) - 1
      op == IF f.k = "var" /\ f.name \in Builtins THEN f.name ELSE "none"
      prec == OpPrec[op]
  IN  IF op \in DOMAIN Infix /\ arity = 2
      THEN Form(Inside(n.kids[2], prec) \o <<" ", Infix[op], " ">>
                  \o Inside(n.kids[3], prec + 1), prec)
      ELSE IF op = "neg" /\ arity = 1
      THEN FmtNeg(Inside(n.kids[2], UnaryPrec))
      ELSE IF op = "not" /\ arity = 1
      THEN Form(<<"not">> \o Inside(n.kids[2], UnaryPrec), UnaryPrec)
      ELSE Form(Inside(f, PostfixPrec) \o <<"(">> \o FmtKids(n, 1, 0)
                  \o <<")">>, PostfixPrec)

FmtTab(n) ==
  <<"{">> \o Separated([i \in DOMAIN n.names |->
                          <<n.names[i], "=">> \o Inside(n.kids[i], 0)], <<",">>)
    \o <<"}">>

FmtDecl(n, word, rest) ==
  Form(DocPrefix(n) \o Pub(n) \o <<word, n.name>> \o rest, 0)

FmtType(n) ==
  <<"=">> \o FmtTy(n.tys[1])
    \o IF IsAlwaysTrue(n.kids[1], n.tys[1]) THEN <<>>
       ELSE <<"where">> \o Inside(n.kids[1], 1)

(* The bodies of if, try, err, fun and let go as far as they can.           *)
Fmt(n) ==
  LET Kid(i) == Inside(n.kids[i], 1)
  IN  CASE n.k = "lit" -> FmtLit(n)
        [] n.k = "var" -> Form(<<n.name>>, AtomPrec)
        [] n.k = "proj" -> Form(Inside(n.kids[1], PostfixPrec)
                                  \o <<".", n.name>>, PostfixPrec)
        [] n.k = "idx" -> Form(Inside(n.kids[1], PostfixPrec) \o <<"[">>
                                 \o Inside(n.kids[2], 0) \o <<"]">>,
                               PostfixPrec)
        [] n.k = "app" -> FmtApp(n)
        [] n.k = "vec" -> Form(<<"[">> \o FmtKids(n, 0, 0) \o <<"]">>, AtomPrec)
        [] n.k = "tab" -> Form(FmtTab(n), AtomPrec)
        [] n.k = "fun" -> Form(<<"fun", "(">> \o FmtParams(n) \o <<")", "->">>
                                 \o FmtTy(Last(n.tys)) \o <<"=">> \o Kid(1), 1)
        [] n.k = "if" -> Form(<<"if">> \o Kid(1) \o <<"then">> \o Kid(2)
                                \o <<"else">> \o Kid(3), 1)
        [] n.k = "try" -> Form(<<"try">> \o Kid(1) \o <<"else">> \o Kid(2), 1)
        [] n.k = "err" -> Form(<<"err">> \o Kid(1), 1)
        [] n.k = "is" -> Form(Inside(n.kids[1], 2) \o <<"is">>
                                \o FmtTy(n.tys[1]), 1)
        [] n.k = "as" -> Form(<<"(">> \o Inside(n.kids[1], 0) \o <<":">>
                                \o FmtTy(n.tys[1]) \o <<")">>, AtomPrec)
        [] n.k = "seq" ->
             Form(<<"(">> \o Separated([i \in DOMAIN n.kids |->
                                          Inside(n.kids[i], 0)], <<";">>)
                    \o <<")">>, AtomPrec)
        [] n.k = "let" ->
             FmtDecl(n, "let",
                     (IF n.tys = <<>> THEN <<>>
                      ELSE <<":">> \o FmtTy(n.tys[1])) \o <<"=">> \o Kid(1))
        [] n.k = "type" -> FmtDecl(n, "type", FmtType(n))
        [] n.k = "use" ->
             FmtDecl(n, "use",
                     IF n.names = <<>> THEN <<>> ELSE <<"=">> \o n.names)

(* Every declaration ends a line.                                           *)
FmtProgram(ds) ==
  FlattenSeq([i \in DOMAIN ds |-> Inside(ds[i], 0) \o <<";", "\n">>])
=============================================================================
