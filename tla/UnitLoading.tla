---------------------------- MODULE UnitLoading ----------------------------
(***************************************************************************)
(* What loading promises (SPEC section 8): a form succeeds or fails; on    *)
(* the way units are published one by one, each under its name once and    *)
(* for good, and only when the text it comes from is accepted and          *)
(* everything that text imports at top level is already published. A       *)
(* cyclic import can therefore never succeed.                              *)
(***************************************************************************)
EXTENDS Units

VARIABLES
  loaded,   (* name -> the text of the published unit, or Missing           *)
  answer    (* "ready", "running", "ok", "failed"                           *)

pvars == <<loaded, answer>>

Publishable(t) ==
  /\ t.verdict = "ok"
  /\ \A n \in TopImports(t) : loaded[n] # Missing

PInit ==
  /\ loaded = [n \in Names |-> Missing]
  /\ answer \in {"ready", "running"}

Accept ==
  /\ answer # "running"
  /\ answer' \in {"running", "failed"}
  /\ UNCHANGED loaded

PublishUnit(n, t) ==
  /\ answer = "running"
  /\ loaded[n] = Missing
  /\ Publishable(t)
  /\ loaded' = [loaded EXCEPT ![n] = t]
  /\ UNCHANGED answer

Succeed ==
  /\ answer = "running"
  /\ \E t \in Texts : Publishable(t)
  /\ answer' = "ok"
  /\ UNCHANGED loaded

Fail ==
  /\ answer = "running"
  /\ answer' = "failed"
  /\ UNCHANGED loaded

PNext == \/ Accept
         \/ \E n \in Names, t \in Texts : PublishUnit(n, t)
         \/ Succeed
         \/ Fail

PSpec == PInit /\ [][PNext]_pvars /\ WF_pvars(Succeed \/ Fail)
============================================================================
