---------------------------- MODULE MCRoundTrips ----------------------------
(***************************************************************************)
(* Round trips of programs and values: every form of expression around     *)
(* every other, around leaves; declarations; columns of one to three runs. *)
(* Left out is what is known not to come back: docs in a mod, which are    *)
(* read in braces and printed in brackets; a mod of nothing; a pipe into a *)
(* `not`; a `?` after the type of a function, whose result it then joins.  *)
(***************************************************************************)
EXTENDS RoundTrips

MCWords == <<
  "n", "v", "x", "e", "i", "f", "a", "k", "p", "t", "c", "e1", "e2", "d",
  "doc", "pub", "url", "r", "lit", "var", "proj", "idx", "app", "vec",
  "tab", "fun", "if", "try", "err", "is", "as", "seq", "let", "type", "use",
  "vec_t", "union_t", "rec_t", "fun_t", "nil", "bit", "i64", "f64", "u8",
  "b", "y", "m", "_", "len", "not", "neg", " ", "\n", "two", "words", "s",
  "or", "and", "eq", "lt", "add", "sub", "mul", "rem", "'c'",
  "\"s\"", "\"a\"", "\"len\"">>

MCIntOf == ("0" :> 0) @@ ("1" :> 1) @@ ("2" :> 2)
             @@ (MaxPlusOne :> WordBase \div 2)
             @@ ("9223372036854775807" :> WordBase \div 2 - 1)
MCFloatOf == ("0.0" :> 0) @@ ("1.5" :> 1) @@ ("inf" :> 2) @@ ("nan" :> 3)

(* @ stands for another expression in brackets.                             *)
Contexts == {
  <<"not", "@">>,
  <<"-", "@">>,
  <<"@", "+", "x">>,
  <<"x", "-", "@">>,
  <<"@", "*", "x">>,
  <<"x", "%", "@">>,
  <<"@", "=", "x">>,
  <<"x", "<", "@">>,
  <<"@", "or", "x">>,
  <<"x", "and", "@">>,
  <<"@", ".", "a">>,
  <<"@", "[", "x", "]">>,
  <<"x", "[", "@", "]">>,
  <<"@", "(", "1", ")">>,
  <<"f", "(", "x", ",", "@", ")">>,
  <<"len", "(", "@", ")">>,
  <<"neg", "(", "@", ")">>,
  <<"[", "@", ",", "1", "]">>,
  <<"{", "a", "=", "@", ",", "len", "=", "x", "}">>,
  <<"fun", "(", "x", ":", "i64", ")", "->", "[", "i64", "]", "=", "@">>,
  <<"if", "@", "then", "x", "else", "y">>,
  <<"if", "x", "then", "@", "else", "y">>,
  <<"if", "x", "then", "y", "else", "@">>,
  <<"try", "@", "else", "x">>,
  <<"try", "x", "else", "@">>,
  <<"err", "@">>,
  <<"@", "is", "i64", "|", "t">>,
  <<"(", "@", ":", "t", "?", ")">>,
  <<"do", "let", "b", "=", "@", ";", "b", "end">>,
  <<"(", "let", "b", "=", "x", ";", "@", ")">>,
  <<"(", "type", "t", "=", "u8", "where", "@", ";", "b", ")">>,
  <<"@", "|>", "f", "(", "x", ")">>,
  <<"x", "|>", "f", "(", "@", ",", "_", ")">>}

Atoms == {<<"x">>, <<"1">>, <<"-", "1.5">>}
MoreAtoms == {<<"-", "1">>, <<"nan">>, <<"inf">>, <<":101">>, <<"nil">>}

Written == {
  <<"-", "-", " ", "d", "\n", "let", "a", " ", "=", "1", ";", "\n", "let",
    "b", "=", "a", ";", " ", "-", "-", " ", "not", " ", "one", "\n">>,
  <<"-", "-", " ", "d", "\n", "-", "-", " ", "two", " ", "words", "\n", "\n",
    "-", "-", " ", "d", "\n", "pub", "let", "a", ":", "{", "a", ":", "i64",
    ",", "len", ":", "[", "u8", "]", "|", "nil", "}", "=", "x", ";">>,
  <<"-", "-", " ", "d", "\n", "-", "-", "\n", "-", "-", " ", "d", "\n",
    "pub", "type", "t", "=", "fun", "(", "i64", ",", "[", "t", "]", ")",
    "->", "{", "}", ";">>,
  <<"type", "t", "=", "fun", "(", ")", "->", "nil", "where", "fun", "(", "x",
    ":", "nil", ")", "->", "bit", "=", "true", ";">>,
  <<"use", "m", ";">>,
  <<"let", "a", "=", "\"s\"", "[", "{", "}", "]", ".", "len", "(", ":101", ")", ";">>,
  <<"-", "-", " ", "d", "\n", "pub", "use", "m", "=", "\"s\"", ";">>,
  <<"fun", "f", "(", ")", "->", "i64", "=", "1">>,
  <<"pub", "fun", "f", "(", "x", ":", "t", ",", "y", ":", "f64", "?", ")",
    "->", "nil", "=", "-", " ", "-", "x", ";">>,
  <<"mod", "m", "{", "pub", "let", "a", "=", "1", ";", "let", "b", "=", "a",
    ";", "pub", "fun", "f", "(", "x", ":", "bit", ")", "->", "u8", "=",
    "'c'", ";", "type", "t", "=", "i64", ";", "use", "m", "=", "\"s\"", "}">>,
  <<"pub", "mod", "m", "(", "x", ":", "{", "a", ":", "i64", "}", ")", "{",
    "pub", "let", "a", ":", "i64", "=", "x", ".", "a", ";", "pub", "fun",
    "f", "(", ")", "->", "nil", "=", "nil", ";", "}", ";">>,
  <<"let", "a", "=", "-", "9223372036854775808", ";">>,
  <<"let", "a", "=", "[", "9223372036854775807", ",", "-", "0", ",", "-",
    " ", "-", "inf", ",", "-", "1", "+", "2", "]", ";">>,
  <<"let", "a", "=", ":", "len", "[", "0", "]", "|>", "len", "|>", "f", ";">>,
  <<"let", "a", "=", "x", "|>", "f", "(", "1", ",", "_", ")", "(", "x", ")",
    "|>", "f", "(", "_", ",", "_", ")", ";">>,
  <<"let", "a", "=", "do", "x", ";", "let", "b", "=", "1", ";", "end", ".",
    "a", ";">>,
  <<"let", "a", "=", "(", "x", ";", ")", ";">>,
  <<"let", "a", "=", "f", "(", "neg", ",", "add", "(", "1", ")", ",", "add",
    "(", "1", ",", "2", ",", "x", ")", ")", ";">>,
  <<"let", "a", " ", "=", "(", "f", "(", "x", ")", "\n", " ", "-", "-", " ",
    "a", " ", "blank", "\n", ":", "i64", ")", ";">>,
  <<"x", ";", "\n", "\n", ";", "y">>,
  <<"let", "a", "=", "false", "or", "not", "x", "=", "y", "and", "2", "<",
    "x", "*", "2", "-", "1", "%", "x", ";">>}

Filled(context, x) ==
  FlattenSeq([i \in DOMAIN context |->
    IF context[i] = "@" THEN <<"(">> \o x \o <<")">> ELSE <<context[i]>>])
Declared(x) == <<"let", "a", "=">> \o x
Nested == {Declared(Filled(outer, Filled(inner, x))) :
             outer \in Contexts, inner \in Contexts, x \in Atoms}
OnceFilled == {Declared(Filled(context, x)) : context \in Contexts, x \in MoreAtoms}
MCTexts == Written \cup Nested \cup OnceFilled

(* Columns: up to three runs, shorter and longer than a run and a chunk can *)
(* be, of values that take no byte, one or all of a word.                   *)
RunOf(n, v) == [i \in 1 .. n |-> v]
InThree(vs, lens) ==
  {RunOf(l[1], v[1]) \o RunOf(l[2], v[2]) \o RunOf(l[3], v[3]) :
     v \in [1 .. 3 -> vs], l \in [1 .. 3 -> lens]}
Mixed(vs) == UNION {[1 .. n -> vs] : n \in 0 .. 3}

Most == WordBase \div 2 - 1
Ints64 == {I64(0), I64(-1), I64(Base), I64(-Most - 1)}
AFun == FunVal(<<"x">>, <<Prim("i64")>>, Union(<<Prim("bit"), Prim("nil")>>),
               If(Var("y"), Lit("i64", "1"), Var("x")), <<Field("y", <<>>, Bit(1))>>)
ATab == <<Field("a", << <<"d", " ", "two">> >>, I64(Most)), Field("b", <<>>, Nil)>>
Small == {Nil, Bit(1), I64(-1), F64(1), U8(3), VecOf(<<I64(1)>>), Str(<<>>),
          TabVal(ATab)}

MCVals ==
  {VecOf(vals) :
     vals \in InThree(Ints64, {0, 1, 7, 9})
              \cup InThree({Bit(1), Bit(0), Nil}, {0, 1, 8})
              \cup InThree({U8(0), U8(9)}, {1, 2, 8})
              \cup InThree({F64(0), F64(5)}, {1, 2, 8})
              \cup Mixed(Small)}
    \cup Small
    \cup {TabVal(ATab \o <<Field("f", << <<>> >>, AFun), Field("m", <<>>, PrimVal("add"))>>)}
=============================================================================
