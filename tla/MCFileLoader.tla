--------------------------- MODULE MCFileLoader ---------------------------
(* Instances of FileLoader for TLC. *)
EXTENDS FileLoader

CONSTANTS a, b, site

Local(n, p)  == [name |-> n, url |-> NoUrl, place |-> p]
Remote(n, w) == [name |-> n, url |-> w, place |-> "top"]
Ok(s)  == [uses |-> s, verdict |-> "ok"]

(* Two units that may import each other or themselves from every place or a *)
(* url, and texts refused at each stage.                                    *)
LoaderTexts ==
  {Ok(<<>>), Ok(<<Local(a, "top")>>), Ok(<<Local(b, "tried"), Local(a, "nested")>>),
   [uses |-> <<>>, verdict |-> "parse"],
   [uses |-> <<Local(b, "tried")>>, verdict |-> "check"],
   [uses |-> <<Remote(b, site)>>, verdict |-> "eval"]}
OneShotAndRepl == {FALSE, TRUE}
=============================================================================
