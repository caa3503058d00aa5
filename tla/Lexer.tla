------------------------------- MODULE Lexer --------------------------------
(***************************************************************************)
(* lex (src/c/lex.c). A text is a sequence of lexemes, blanks and newlines *)
(* among them: names, punctuation, numbers, strings and the words of a     *)
(* comment are one lexeme each. A token is its kind and the lexeme, or the *)
(* text of a doc comment, its lines without the dashes.                    *)
(***************************************************************************)
EXTENDS Nodes

Ints == {"0", "1", "2", "9223372036854775807", "9223372036854775808"}
Floats == {"0.0", "1.5"}
Strings == {Quoted(x) : x \in {"s", "a", "len"}}
Bytes == {"'c'"}
BitVecs == {":101"}
Punctuation == {"->", "<", "(", ")", "[", "]", "{", "}", ",", ";", ".", "=",
                "+", "-", "*", "%", ":", "|", "?", "|>"}

KindOf(l) == CASE l \in Punctuation -> "PUNCT" [] l \in Ints -> "INT"
             [] l \in Floats -> "FLOAT" [] l \in Strings -> "STR"
             [] l \in Bytes -> "U8" [] l \in BitVecs -> "BITVEC"
             [] OTHER -> "NAME"

Token(k, v, doc) == [k |-> k, v |-> v, doc |-> doc]

(* The words from i to the end of the line, without blanks at either end.   *)
LineEnd(x, i) == Min({j \in i .. Len(x) : x[j] = "\n"} \cup {Len(x) + 1})
Trimmed(x, i, j) ==
  LET words == {k \in i .. j - 1 : x[k] # " "}
  IN  IF words = {} THEN <<>> ELSE SubSeq(x, Min(words), Max(words))

(* A comment that is a line of its own is a doc comment, one with those     *)
(* right above it, and its newline goes with it; any other is a blank.      *)
RECURSIVE LexFrom(_, _, _, _)
LexFrom(x, i, lineStart, ts) ==
  IF i > Len(x) THEN Append(ts, Token("EOF", "", <<>>))
  ELSE IF x[i] = "\n"
  THEN LexFrom(x, i + 1, TRUE, Append(ts, Token("NEWLINE", "", <<>>)))
  ELSE IF x[i] = " " THEN LexFrom(x, i + 1, lineStart, ts)
  ELSE IF x[i] = "-" /\ i < Len(x) /\ x[i + 1] = "-"
  THEN LET j == LineEnd(x, i)
           line == Trimmed(x, i + 2, j)
       IN  IF ~lineStart THEN LexFrom(x, j, FALSE, ts)
           ELSE IF ts # <<>> /\ Last(ts).k = "DOC"
           THEN LexFrom(x, j + 1, TRUE,
                        [ts EXCEPT ![Len(ts)].doc = @ \o <<"\n">> \o line])
           ELSE LexFrom(x, j + 1, TRUE,
                        Append(ts, Token("DOC", "", line)))
  ELSE LexFrom(x, i + 1, FALSE, Append(ts, Token(KindOf(x[i]), x[i], <<>>)))

Lex(x) == LexFrom(x, 1, TRUE, <<>>)
=============================================================================
