------------------------------- MODULE Nodes --------------------------------
(***************************************************************************)
(* Syntax trees and types as the parser and the printer of src/c (and of   *)
(* src/src) see them: every node has a kind, a name, children, names, the  *)
(* types written in it, a doc comment (none or one) and a pub mark. A       *)
(* literal is its kind, its sign and the rest of its text.                 *)
(***************************************************************************)
EXTENDS Integers, Sequences, SequencesExt

Node(k, name, kids, names, tys) ==
  [k |-> k, name |-> name, kids |-> kids, names |-> names, tys |-> tys,
   doc |-> <<>>, pub |-> FALSE]

Lit(k, v) == Node("lit", k, <<>>, <<"+", v>>, <<>>)
Quoted(x) == "\"" \o x \o "\""
Negative(n) == [n EXCEPT !.names[1] = IF @ = "-" THEN "+" ELSE "-"]
Var(x) == Node("var", x, <<>>, <<>>, <<>>)
Proj(e, x) == Node("proj", x, <<e>>, <<>>, <<>>)
Idx(e, i) == Node("idx", "", <<e, i>>, <<>>, <<>>)
App(f, args) == Node("app", "", <<f>> \o args, <<>>, <<>>)
Vec(es) == Node("vec", "", es, <<>>, <<>>)
Tab(keys, es) == Node("tab", "", es, keys, <<>>)
Fun(xs, tys, ret, e) == Node("fun", "", <<e>>, xs, tys \o <<ret>>)
If(c, a, b) == Node("if", "", <<c, a, b>>, <<>>, <<>>)
Try(e, f) == Node("try", "", <<e, f>>, <<>>, <<>>)
Err(e) == Node("err", "", <<e>>, <<>>, <<>>)
Is(e, t) == Node("is", "", <<e>>, <<>>, <<t>>)
As(e, t) == Node("as", "", <<e>>, <<>>, <<t>>)
Block(ds) == Node("seq", "", ds, <<>>, <<>>)
Let(x, tys, e) == Node("let", x, <<e>>, <<>>, tys)    (* tys: none or one   *)
Type(x, base, p) == Node("type", x, <<p>>, <<>>, <<base>>)
Use(x, url) == Node("use", x, <<>>, url, <<>>)        (* url: none or one   *)

IsDecl(n) == n.k \in {"let", "type", "use"}

(* Types: of a tab the fields and their types, of a function the types of   *)
(* its arguments and then of its result.                                    *)
Ty(k, name, fields, of) ==
  [k |-> k, name |-> name, fields |-> fields, of |-> of]
Prim(k) == Ty(k, "", <<>>, <<>>)
Named(x) == Ty("name", x, <<>>, <<>>)
Prims == {"nil", "bit", "i64", "f64", "u8"}

(* A union is flat, and names a type once.                                  *)
Union(ts) ==
  LET parts == FlattenSeq([i \in DOMAIN ts |->
                             IF ts[i].k = "union" THEN ts[i].of ELSE <<ts[i]>>])
      first == {i \in DOMAIN parts : \A j \in 1 .. i - 1 : parts[j] # parts[i]}
      once == [n \in 1 .. Cardinality(first) |->
                 parts[CHOOSE i \in first :
                         Cardinality({j \in first : j <= i}) = n]]
  IN  IF Len(once) = 1 THEN once[1] ELSE Ty("union", "", <<>>, once)

(* The predicate of a type declared without one.                            *)
AlwaysTrue(base) == Fun(<<"_">>, <<base>>, Prim("bit"), Lit("bit", "true"))

----------------------------------------------------------------------------
(* Builtins and how they are written; some stand for all.                   *)
Keywords == {"let", "fun", "type", "mod", "pub", "use", "try", "else", "err",
             "if", "then", "where", "nil", "is", "and", "or", "not", "inf",
             "nan", "true", "false", "do", "end", "bit", "i64", "f64", "u8"}
Infix == [or |-> "or", and |-> "and", eq |-> "=", lt |-> "<", add |-> "+",
          sub |-> "-", mul |-> "*", rem |-> "%"]
Builtins == DOMAIN Infix \cup {"neg", "not", "len"}
=============================================================================
