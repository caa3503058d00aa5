-------------------------- MODULE MCLanguageServer ---------------------------
(* An instance of LanguageServer for TLC: two documents, two texts, and a   *)
(* table in C with room for one or for both. What is shown of the texts and   *)
(* said of their words is written down here, as the protocol counts.        *)
EXTENDS LanguageServer

Word == <<"y", "x">>
Good == Word \o <<"\n">>

(* A character of four bytes (two UTF-16 units) before the problem.         *)
Bad == <<"x", "\n", "4", "+", "+", "+", " ">> \o Word \o <<"\n">>

Two == {Good, Bad}
Checked == [x \in Two |-> IF x = Bad THEN 7 ELSE None]
ShownOf ==
  [x \in Two |->
     IF x = Bad THEN <<[line |-> 1, character |-> 3], 5>> ELSE Clean]

Keywords == {Word}
Cursors == {<<0, 1>>}
SaidOf ==
  [x \in Two |-> [p \in Cursors |->
     IF x = Good THEN Word ELSE Null]]
=============================================================================
