----------------------------- MODULE FileLoader -----------------------------
(***************************************************************************)
(* The unit loader of the Rust implementation (src/src/lib.rs): eval_unit, *)
(* which resolves a unit's imports at check time and again when it         *)
(* evaluates them, and FileLoader, whose cache and stack it consults. The  *)
(* files change under the loader (Edit), and the REPL keeps one loader     *)
(* across lines, whatever became of the previous line.                     *)
(***************************************************************************)
EXTENDS Units

CONSTANTS
  Modes,     (* TRUE for a REPL session, FALSE for `snel run FILE`          *)
  MaxForms,  (* bound: lines of a REPL session                              *)
  MaxEdits   (* bound: changes to the files during a run                    *)

ASSUME LoaderAssumption ==
  /\ Modes \subseteq BOOLEAN
  /\ MaxForms \in Nat \ {0}
  /\ MaxEdits \in Nat

VARIABLES
  disk,     (* source -> what reading it gives now                          *)
  remote,   (* whether --remote was passed                                  *)
  interactive,  (* whether this is a REPL session                           *)
  cache,    (* FileLoader.cache                                             *)
  stack,    (* FileLoader.stack: names being loaded, innermost last         *)
  acts,     (* the eval_unit calls in progress, innermost last              *)
  fault,    (* the error the innermost activation is being handed           *)
  outcome,  (* "ready", "running", "ok", "failed"                           *)
  sni,      (* name -> the text whose interface x.sni holds                 *)
  serial,   (* evaluations completed                                        *)
  evals,    (* name -> evaluations completed under that name                *)
  forms,    (* forms submitted, bounded by MaxForms                         *)
  edits     (* edits made, bounded by MaxEdits                              *)

env  == <<disk, remote, interactive, forms, edits>>
vars == <<disk, remote, interactive, cache, stack, acts, fault, outcome, sni, serial,
          evals, forms, edits>>

(* Mutants of Cached: no lookup; a unit still being loaded taken for loaded. *)
NeverCached(n) == FALSE
CachedOrLoading(n) ==
  cache[n].serial # 0 \/ \E i \in 1..Len(stack) : stack[i] = n

Cached(n) == cache[n].serial # 0
Current   == acts[Len(acts)]
Replace(a) == [acts EXCEPT ![Len(acts)] = a]
Pop(s) == SubSeq(s, 1, Len(s) - 1)
(* Mutant of Loading: only a unit that imports itself is noticed.           *)
LoadingLast == {stack[i] : i \in {j \in 1..Len(stack) : j = Len(stack)}}

Loading == {stack[i] : i \in 1..Len(stack)}

(* Mutant of RenderSni: the interface of what the file holds now.           *)
RenderSniOfFile ==
  {sni} \cup (IF Current.local
             THEN {[sni EXCEPT ![Current.name] = disk[Current.name]]} ELSE {})

(* The interface of a local unit is written beside it; a failed write is    *)
(* ignored.                                                                 *)
RenderSni ==
  {sni} \cup (IF Current.local
             THEN {[sni EXCEPT ![Current.name] = Current.text]} ELSE {})

Init ==
  /\ disk \in [Sources -> Texts \cup {Missing}]
  /\ remote \in BOOLEAN
  /\ interactive \in Modes
  /\ cache = [n \in Names |-> NoUnit]
  /\ stack = <<>>
  /\ acts = <<>>
  /\ fault = NoFault
  /\ outcome = "ready"
  /\ sni = [n \in Names |-> Missing]
  /\ serial = 0
  /\ evals = [n \in Names |-> 0]
  /\ forms = 0
  /\ edits = 0

----------------------------------------------------------------------------
(* `snel run` has one text.                                                 *)
FormsOfSession == IF interactive THEN MaxForms ELSE 1

(* A root text arrives: `snel run` hands it to eval_unit, which resolves    *)
(* imports first; the REPL checks the line against the names in scope and   *)
(* goes straight to decl_step.                                              *)
Submit(t) ==
  /\ outcome # "running"
  /\ forms < FormsOfSession
  /\ forms' = forms + 1
  /\ IF t.verdict = "parse" \/ (interactive /\ t.verdict = "check")
     THEN outcome' = "failed" /\ UNCHANGED acts
     ELSE /\ outcome' = "running"
          /\ acts' = <<Fresh(Root, FALSE, t, IF interactive THEN "eval" ELSE "check")>>
  /\ UNCHANGED <<disk, remote, interactive, cache, stack, fault, sni, serial, evals, edits>>

(* Another program writes a unit's file or changes what a url serves.       *)
Edit(s, t) ==
  /\ outcome = "running"
  /\ edits < MaxEdits
  /\ edits' = edits + 1
  /\ disk' = [disk EXCEPT ![s] = t]
  /\ t # disk[s]
  /\ UNCHANGED <<remote, interactive, cache, stack, acts, fault, outcome, sni, serial,
                 evals, forms>>

----------------------------------------------------------------------------
(* The innermost activation is at a `use` it has to resolve.                *)
Demanding ==
  /\ outcome = "running"
  /\ fault = NoFault
  /\ WantsUnit(Current)

Wanted == Declaration(Current)
Permitted(d) == d.url = NoUrl \/ remote

Raise(why) ==
  /\ fault' = [why |-> why, phase |-> Current.phase]
  /\ UNCHANGED <<cache, stack, acts, outcome, sni, serial, evals, env>>

LoadHit ==
  /\ Demanding
  /\ Cached(Wanted.name)
  /\ acts' = Replace(Receive(Current, Wanted.name, cache[Wanted.name]))
  /\ UNCHANGED <<cache, stack, fault, outcome, sni, serial, evals, env>>

LoadForbidden ==
  /\ Demanding
  /\ ~Cached(Wanted.name)
  /\ ~Permitted(Wanted)
  /\ Raise("remote")

LoadCycle ==
  /\ Demanding
  /\ ~Cached(Wanted.name)
  /\ Permitted(Wanted)
  /\ Wanted.name \in Loading
  /\ Raise("cycle")

(* The load gets as far as reading the text.                                *)
Reading ==
  /\ Demanding
  /\ ~Cached(Wanted.name)
  /\ Permitted(Wanted)
  /\ Wanted.name \notin Loading

LoadUnreadable ==
  /\ Reading
  /\ disk[SourceOf(Wanted)] = Missing
  /\ Raise("missing")

(* The push, the failed parse and the pop leave no trace.                   *)
LoadUnparsable ==
  /\ Reading
  /\ disk[SourceOf(Wanted)] # Missing
  /\ disk[SourceOf(Wanted)].verdict = "parse"
  /\ Raise("parse")

LoadBegin ==
  /\ Reading
  /\ disk[SourceOf(Wanted)] # Missing
  /\ disk[SourceOf(Wanted)].verdict # "parse"
  /\ stack' = Append(stack, Wanted.name)
  /\ acts' = Append(acts, Fresh(Wanted.name, Wanted.url = NoUrl,
                                disk[SourceOf(Wanted)], "check"))
  /\ UNCHANGED <<cache, fault, outcome, sni, serial, evals, env>>

----------------------------------------------------------------------------
(* The check-time pass steps over a declaration that is not a top-level use.*)
CheckSkip ==
  /\ outcome = "running"
  /\ fault = NoFault
  /\ ~Finished(Current)
  /\ Current.phase = "check"
  /\ Declaration(Current).place # "top"
  /\ acts' = Replace([Current EXCEPT !.pc = @ + 1])
  /\ UNCHANGED <<cache, stack, fault, outcome, sni, serial, evals, env>>

(* Every import is typed: the static check runs.                            *)
AtCheck ==
  /\ outcome = "running"
  /\ fault = NoFault
  /\ Current.phase = "check"
  /\ Finished(Current)

CheckAccept ==
  /\ AtCheck
  /\ Current.text.verdict # "check"
  /\ acts' = Replace([Current EXCEPT !.phase = "eval", !.pc = 1])
  /\ UNCHANGED <<cache, stack, fault, outcome, sni, serial, evals, env>>

CheckReject ==
  /\ AtCheck
  /\ Current.text.verdict = "check"
  /\ Raise("check")

(* Every declaration has been evaluated, as far as its uses go.             *)
AtEnd ==
  /\ outcome = "running"
  /\ fault = NoFault
  /\ Current.phase = "eval"
  /\ Finished(Current)

EvalFault ==
  /\ AtEnd
  /\ Current.text.verdict = "eval"
  /\ Raise("eval")

(* A load returns the value: pop, write the interface of a local unit,      *)
(* cache, and hand the unit to the caller.                                  *)
Publish ==
  /\ AtEnd
  /\ Current.text.verdict # "eval"
  /\ Len(acts) > 1
  /\ LET n == Current.name
         u == [text |-> Current.text, serial |-> serial + 1]
         caller == acts[Len(acts) - 1]
     IN /\ serial' = serial + 1
        /\ evals' = [evals EXCEPT ![n] = @ + 1]
        /\ stack' = Pop(stack)
        /\ cache' = [cache EXCEPT ![n] = u]
        /\ acts' = [Pop(acts) EXCEPT ![Len(acts) - 1] = Receive(caller, n, u)]
        /\ sni' \in RenderSni
  /\ UNCHANGED <<fault, outcome, env>>

Complete ==
  /\ AtEnd
  /\ Current.text.verdict # "eval"
  /\ Len(acts) = 1
  /\ outcome' = "ok"
  /\ acts' = <<>>
  /\ UNCHANGED <<cache, stack, fault, sni, serial, evals, env>>

----------------------------------------------------------------------------
(* Mutant of Catch: the use that failed is tried again.                     *)
CatchInPlace ==
  /\ outcome = "running"
  /\ fault # NoFault
  /\ Guarded(Current)
  /\ fault' = NoFault
  /\ UNCHANGED <<acts, cache, stack, outcome, sni, serial, evals, env>>

(* A `try` around the use evaluates its other operand instead.              *)
Catch ==
  /\ outcome = "running"
  /\ fault # NoFault
  /\ Guarded(Current)
  /\ fault' = NoFault
  /\ acts' = Replace([Current EXCEPT !.pc = @ + 1])
  /\ UNCHANGED <<cache, stack, outcome, sni, serial, evals, env>>

(* eval_unit returns the error: the load around it pops and returns it too, *)
(* caching nothing.                                                         *)
Propagate ==
  /\ outcome = "running"
  /\ fault # NoFault
  /\ ~Guarded(Current)
  /\ Len(acts) > 1
  /\ stack' = Pop(stack)
  /\ acts' = Pop(acts)
  /\ UNCHANGED <<cache, fault, outcome, sni, serial, evals, env>>

Abandon ==
  /\ outcome = "running"
  /\ fault # NoFault
  /\ ~Guarded(Current)
  /\ Len(acts) = 1
  /\ outcome' = "failed"
  /\ acts' = <<>>
  /\ fault' = NoFault
  /\ UNCHANGED <<cache, stack, sni, serial, evals, env>>

----------------------------------------------------------------------------
Load == \/ LoadHit
        \/ LoadForbidden
        \/ LoadCycle
        \/ LoadUnreadable
        \/ LoadUnparsable
        \/ LoadBegin

EvalUnit == \/ CheckSkip
            \/ CheckAccept
            \/ CheckReject
            \/ EvalFault
            \/ Publish
            \/ Complete
            \/ Catch
            \/ Propagate
            \/ Abandon

Interpreter == Load \/ EvalUnit

(* All forms are submitted and answered.                                    *)
Exhausted ==
  /\ outcome # "running"
  /\ forms = FormsOfSession
  /\ UNCHANGED vars

Next == \/ Interpreter
        \/ \E t \in Texts : Submit(t)
        \/ \E s \in Sources, t \in Texts \cup {Missing} : Edit(s, t)
        \/ Exhausted

Spec == Init /\ [][Next]_vars /\ WF_vars(Interpreter)
----------------------------------------------------------------------------
TypeOK ==
  /\ disk \in [Sources -> Texts \cup {Missing}]
  /\ remote \in BOOLEAN
  /\ interactive \in Modes
  /\ cache \in [Names -> Unit]
  /\ stack \in Seq(Names)
  /\ acts \in Seq(Activation)
  /\ fault \in Faults \cup {NoFault}
  /\ outcome \in {"ready", "running", "ok", "failed"}
  /\ sni \in [Names -> Texts \cup {Missing}]
  /\ serial \in Nat
  /\ evals \in [Names -> Nat]
  /\ forms \in 0..MaxForms
  /\ edits \in 0..MaxEdits

(* The stack names exactly the loads in progress, in order: what each push  *)
(* added, the pop of the same load removes, however the load ended. A REPL  *)
(* line that failed leaves nothing behind for the next line to trip over.   *)
StackMatchesLoads ==
  IF outcome = "running"
  THEN /\ Len(acts) = Len(stack) + 1
       /\ \A i \in 1..Len(stack) : acts[i + 1].name = stack[i]
  ELSE acts = <<>> /\ stack = <<>>

(* No unit is being loaded inside its own load, at whatever distance, and   *)
(* none is being loaded that is already cached: this is what bounds the     *)
(* recursion of load and eval_unit.                                         *)
NoReentry ==
  /\ \A i, j \in 1..Len(stack) : i # j => stack[i] # stack[j]
  /\ \A i \in 1..Len(stack) : ~Cached(stack[i])

(* "caching the result for the run" (SPEC section 8): a name is evaluated   *)
(* to the end at most once, in however many forms and at however many uses. *)
EvaluatedOnce == \A n \in Names : evals[n] <= 1

(* A published unit's top-level imports were published before it, so the    *)
(* import relation of what is in the cache has no cycle even if the files   *)
(* were edited into one while they were read.                               *)
ImportsPrecede ==
  \A n \in Names : Cached(n) =>
    \A m \in TopImports(cache[n].text) :
      Cached(m) /\ cache[m].serial < cache[n].serial

(* The unit an activation binds at evaluation is the one whose interface it *)
(* was checked against, although the two are separate calls of the loader   *)
(* and the file may have changed in between.                                *)
CheckedIsBound ==
  \A i \in 1..Len(acts) : \A n \in Names :
    (acts[i].typed[n] # 0 /\ acts[i].bound[n] # 0)
      => acts[i].typed[n] = acts[i].bound[n]

(* The .sni beside a unit states the interface of the text the running      *)
(* program has loaded, not of what the file holds by now.                   *)
InterfaceIsOfLoadedUnit ==
  \A n \in Names : sni[n] # Missing => (Cached(n) /\ sni[n] = cache[n].text)

(* What a name was found to mean it means for the rest of the run.          *)
CacheIsFinal ==
  [][\A n \in Names : Cached(n) => cache'[n] = cache[n]]_vars

(* Every form is answered: no file layout, cyclic or not, keeps the loader  *)
(* going for ever.                                                          *)
EveryFormAnswered == outcome = "running" ~> outcome # "running"

(* The loader implements what loading promises.                             *)
Promise == INSTANCE UnitLoading WITH
             loaded <- [n \in Names |-> cache[n].text],
             answer <- outcome
ImplementsUnitLoading == Promise!PSpec
=============================================================================
