---------------------------- MODULE MCColumnWire ----------------------------
(***************************************************************************)
(* Columns for ColumnWire: up to three runs, shorter and longer than a run *)
(* and than a chunk can be, of values that take no byte, one or all of a   *)
(* word; bits and bytes with selectors and marks of nils.                  *)
(***************************************************************************)
EXTENDS ColumnWire

RunOf(n, v) == [i \in 1..n |-> v]
InThree(vs, lens) ==
  {RunOf(l[1], v[1]) \o RunOf(l[2], v[2]) \o RunOf(l[3], v[3]) :
     v \in [1..3 -> vs], l \in [1..3 -> lens]}

One(kind, slots) ==
  [len |-> Len(slots), present |-> <<>>, sel |-> <<>>, cases |-> << <<kind, slots>> >>]
Marked(c, marks) == [c EXCEPT !.present = <<marks>>]
Selected(marks, kinds) ==
  [len |-> Len(marks), present |-> <<>>, sel |-> <<marks>>,
   cases |-> [j \in DOMAIN kinds |-> <<kinds[j], marks>>]]

Most == WordBase \div 2 - 1
MCInputs ==
  {One("i64", s) : s \in InThree({0, -1, Base, -Most - 1}, {0, 1, 15, 17})}
    \cup {One("f64", s) : s \in InThree({0, WordBase - 1}, {0, 2, 16})}
    \cup {One("u8", s) : s \in InThree({0, Base - 1}, {1, 3, 16})}
    \cup {Marked(One("bit", s), s) : s \in InThree({0, 1}, {0, 1, 4, 16})}
    \cup {Selected(s, kinds) : s \in InThree({0, 1}, {0, 1, 5, 18}),
                               kinds \in {<<"u8", "bit">>, <<"i64", "u8", "f64">>}}
=============================================================================
