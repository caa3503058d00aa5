----------------------------- MODULE Documents ------------------------------
(***************************************************************************)
(* Places in a text as an editor counts them, for the language servers of  *)
(* src/src/lsp.rs and src/c/lsp.c. A text is the sequence of its bytes:    *)
(* "2" and "4" begin characters of two and of four bytes, "+" is any later *)
(* byte of a character, ";" a byte that is in no word.                     *)
(***************************************************************************)
EXTENDS Integers, FiniteSets, SequencesExt

White == {" ", "\n"}
IsWord(b) == b \notin White \cup {"2", "4", "+", ";"}

(* UTF-16 code units of the character that a byte begins.                   *)
CodeUnits(b) == IF b = "4" THEN 2 ELSE IF b = "+" THEN 0 ELSE 1

Newlines(x, at) == {i \in 1..at : x[i] = "\n"}
LineStart(x, at) == Max({0} \cup Newlines(x, at))

Column(x, at) ==
  FoldFunctionOnSet(+, 0, [i \in 1..at |-> CodeUnits(x[i])],
                    LineStart(x, at) + 1 .. at)

Position(x, at) ==
  [line |-> Cardinality(Newlines(x, at)), character |-> Column(x, at)]

(* The bytes from at up to white space, or to the end of the text.          *)
TokenEnd(x, at) ==
  Min({Len(x)} \cup {i \in at .. Len(x) - 1 : x[i + 1] \in White})

(* Rust underlines one character of a token that ends the text; an empty    *)
(* token is underlined too.                                                 *)
EndColumn(twin, x, at) ==
  Column(x, at) + IF twin = "rust" /\ TokenEnd(x, at) = Len(x) THEN 1
                  ELSE Max({1, TokenEnd(x, at) - at})

(* Line n, counted from 0; empty when there is no such line.                *)
Line(x, n) ==
  IF Cardinality(Newlines(x, Len(x))) < n THEN <<>>
  ELSE LET from == CHOOSE k \in {0} \cup Newlines(x, Len(x)) :
                     Cardinality(Newlines(x, k)) = n
           to == Min({Len(x)} \cup {i \in from .. Len(x) - 1 : x[i + 1] = "\n"})
       IN  SubSeq(x, from + 1, to)

(* The word around a position; empty when there is none. The character is   *)
(* taken for a byte.                                                        *)
WordAt(x, line, character) ==
  LET l == Line(x, line)
      at == Min({character, Len(l)})
      s == Min({k \in 0 .. at : \A i \in k + 1 .. at : IsWord(l[i])})
      e == Max({k \in at .. Len(l) : \A i \in at + 1 .. k : IsWord(l[i])})
  IN  SubSeq(l, s + 1, e)
=============================================================================
