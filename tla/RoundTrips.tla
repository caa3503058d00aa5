----------------------------- MODULE RoundTrips -----------------------------
(***************************************************************************)
(* A program goes from its tree to text and back (fmt and parse_unit), and *)
(* with parse, unparse, encode and decode (src/c/eval.c) to a value and to *)
(* bytes and back; a value goes to bytes and back.                         *)
(***************************************************************************)
EXTENDS Parser, Printer, Wire

CONSTANTS Texts,        (* what programs are written like                   *)
          Vals,         (* the other values                                 *)
          CutLen        (* bytes as long as this, or shorter, are also cut  *)

VARIABLES original,     (* its tree (of a program) and its value            *)
          form          (* what it is now, and as what                      *)
vars == <<original, form>>

CodeOf(ds) == VecOf([i \in DOMAIN ds |-> AstToVal(ds[i])])
TreeOf(v) == [i \in 1 .. v.col.len |-> ValToAst(ColElem(v.col, i))]
IsProgram == original.tree # <<>>

Being(what, x) == [as |-> what, of |-> x]
Refused == Being("refused", <<>>)

Init ==
  \/ \E x \in Texts :
       LET r == ParseUnit(x)
       IN  /\ r.ok
           /\ original = [tree |-> r.n, value |-> CodeOf(r.n)]
           /\ form = Being("tree", r.n)
  \/ \E v \in Vals :
       /\ original = [tree |-> <<>>, value |-> v]
       /\ form = Being("value", v)

Turns(from, to, x) ==
  form.as = from /\ form' = Being(to, x) /\ UNCHANGED original

Unparse == Turns("tree", "text", FmtProgram(form.of))

Parse ==
  LET r == ParseUnit(form.of)
  IN  /\ form.as = "text"
      /\ form' = IF r.ok THEN Being("tree", r.n) ELSE Refused
      /\ UNCHANGED original

Reflect == Turns("tree", "value", CodeOf(form.of))
Reify == IsProgram /\ Turns("value", "tree", TreeOf(form.of))
Encode == Turns("value", "bytes", EncodeVal(form.of))

Decode ==
  LET r == DecodeVal(form.of, 1)
  IN  /\ form.as = "bytes"
      /\ form' = IF r.ok THEN Being("value", r.v) ELSE Refused
      /\ UNCHANGED original

Next == Unparse \/ Parse \/ Reflect \/ Reify \/ Encode \/ Decode

Spec == Init /\ [][Next]_vars

----------------------------------------------------------------------------
(* Whatever way a program or a value went, it comes back as it was, docs    *)
(* and marks included: brackets, the minus of a number, the arms of a union *)
(* and the codings of a column must all be read as they were meant when     *)
(* they were written (fmt_ast and p_expr, encode_val_buf and decode_val_rd).*)
Lossless ==
  /\ form.as # "refused"
  /\ form.as = "tree" => form.of = original.tree
  /\ form.as = "value" => form.of = original.value

(* Bytes that were cut anywhere are refused, and of those that were not     *)
(* none is left over (need, ru8 ... rbin of src/c/wire.c).                  *)
CutIsRefused ==
  form.as = "bytes" =>
    /\ DecodeVal(form.of, 1).i = Len(form.of) + 1
    /\ Len(form.of) <= CutLen =>
         \A n \in 0 .. Len(form.of) - 1 : ~DecodeVal(SubSeq(form.of, 1, n), 1).ok
=============================================================================
