------------------------------- MODULE Units -------------------------------
(***************************************************************************)
(* What a Snel unit is to the loader: a text that names other units.       *)
(* Everything in a text that is not a `use` is abstracted to a verdict,    *)
(* the first stage of the pipeline that refuses the text (or "ok").        *)
(***************************************************************************)
EXTENDS Integers, Sequences, FiniteSets

CONSTANTS
  Names,      (* unit names, the keys of the loader's cache and stack       *)
  Urls,       (* urls a `use x = "url"` may name                            *)
  NoUrl,      (* the url of a `use x`                                       *)
  Root,       (* the name of the text the command line or the REPL supplies *)
  Missing,    (* what reading an absent file, or a failed fetch, gives      *)
  Texts       (* the unit texts of this instance                            *)

(* Where a declaration sits. The check-time pass looks at "top" ones only;  *)
(* the others run when evaluation reaches them, "tried" ones inside the     *)
(* first operand of a `try`.                                                *)
Places == {"top", "nested", "tried"}

UseDecl == [name : Names, url : Urls \cup {NoUrl}, place : Places]

Verdicts == {"ok", "parse", "check", "eval"}

AllTexts == [uses : Seq(UseDecl), verdict : Verdicts]

ASSUME UnitsAssumption ==
  /\ Texts \subseteq AllTexts
  /\ Missing \notin Texts
  /\ NoUrl \notin Urls
  /\ Names \cap Urls = {}
  /\ Root \notin Names

Sources == Names \cup Urls

SourceOf(d) == IF d.url = NoUrl THEN d.name ELSE d.url

(* A cached unit: the text it was evaluated from, and its place in the      *)
(* order of evaluations; serial 0 marks an empty entry.                     *)
Unit == [text : Texts \cup {Missing}, serial : Nat]

NoUnit == [text |-> Missing, serial |-> 0]

(* A call of eval_unit in progress. typed and bound record, for each name,  *)
(* the serial of the unit whose interface typed it at check time and of the *)
(* unit bound to it at evaluation, 0 for none.                              *)
Activation ==
  [ name  : Names \cup {Root}, local : BOOLEAN, text : Texts,
    phase : {"check", "eval"}, pc : Nat \ {0},
    typed : [Names -> Nat],    bound : [Names -> Nat] ]

Fresh(n, isLocal, t, ph) ==
  [ name  |-> n,  local |-> isLocal, text |-> t,
    phase |-> ph, pc    |-> 1,
    typed |-> [m \in Names |-> 0], bound |-> [m \in Names |-> 0] ]

(* The caller of load takes the loaded unit u, under name n, and goes on to *)
(* its next declaration.                                                    *)
Receive(a, n, u) ==
  IF a.phase = "check"
  THEN [a EXCEPT !.typed = [@ EXCEPT ![n] = u.serial], !.pc = @ + 1]
  ELSE [a EXCEPT !.bound = [@ EXCEPT ![n] = u.serial], !.pc = @ + 1]

Finished(a) == a.pc > Len(a.text.uses)

Declaration(a) == a.text.uses[a.pc]

(* The declaration at pc makes the activation call the loader.              *)
WantsUnit(a) ==
  /\ ~Finished(a)
  /\ a.phase = "eval" \/ Declaration(a).place = "top"

(* Mutant of Guarded: an import that fails is passed over.                  *)
GuardedAnywhere(a) == ~Finished(a)

(* A failure at this declaration is caught by a `try` around it.            *)
Guarded(a) ==
  /\ ~Finished(a)
  /\ a.phase = "eval"
  /\ Declaration(a).place = "tried"

(* The names t imports at top level.                                        *)
TopImports(t) ==
  {t.uses[i].name : i \in {j \in 1..Len(t.uses) : t.uses[j].place = "top"}}

Faults ==
  [ why   : {"missing", "cycle", "remote", "parse", "check", "eval"},
    phase : {"check", "eval"} ]

NoFault == [why |-> "none", phase |-> "none"]
============================================================================
