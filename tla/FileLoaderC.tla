---------------------------- MODULE FileLoaderC ----------------------------
(***************************************************************************)
(* The unit loader of the C implementation: loader_load, loader_load_url   *)
(* and the fixed-size arrays of FileLoader (src/c/main.c), and             *)
(* eval_program (src/c/eval.c), which calls them at check time and at      *)
(* evaluation. It has no REPL and writes no .sni. err_src, the text error  *)
(* lines are counted in, is global: errsrc is the index of the activation  *)
(* whose text it holds.                                                    *)
(***************************************************************************)
EXTENDS Units

CONSTANTS
  LoaderMax, (* the values of LOADER_MAX, of which a build has one         *)
  MaxCalls,  (* eval_program calls that the process's stack has room for   *)
  MaxEdits   (* bound: changes to the files during a run                   *)

ASSUME LoaderCAssumption ==
  /\ LoaderMax \subseteq Nat \ {0}
  /\ MaxCalls \in Nat \ {0}
  /\ MaxEdits \in Nat

VARIABLES
  slots,    (* this build's LOADER_MAX: slots of the stack and of the cache *)
  disk,     (* source -> what reading it gives now                          *)
  remote,   (* g_remote                                                     *)
  cache,    (* the filled slots of cnames and cvals                         *)
  stack,    (* the first depth slots of stack                               *)
  acts,     (* the eval_program calls in progress, innermost last           *)
  errsrc,   (* the activation whose text g_err_src is                       *)
  fault,    (* the error the innermost activation is being handed           *)
  outcome,  (* "running", "ok", "failed", "crashed"                         *)
  serial,   (* evaluations completed                                        *)
  edits     (* edits made, bounded by MaxEdits                              *)

env  == <<slots, disk, remote, edits>>
vars == <<slots, disk, remote, cache, stack, acts, errsrc, fault, outcome,
          serial, edits>>

(* Every unit has a slot.                                                   *)
Room == IsFiniteSet(Names) /\ Cardinality(Names) <= slots

(* Mutant of Hits: the search ends one slot early.                          *)
HitsButLast(n) == {i \in 1..(Len(cache) - 1) : cache[i].name = n}

Hits(n) == {i \in 1..Len(cache) : cache[i].name = n}
Cached(n) == Hits(n) # {}
(* The search stops at the first slot that holds the name.                  *)
Lookup(n) ==
  IF Cached(n)
  THEN cache[CHOOSE i \in Hits(n) : \A j \in Hits(n) : i <= j].unit
  ELSE NoUnit

Current == acts[Len(acts)]
Replace(a) == [acts EXCEPT ![Len(acts)] = a]
Pop(s) == SubSeq(s, 1, Len(s) - 1)
(* Mutant of Loading: only a unit that imports itself is noticed.           *)
LoadingLast == {stack[i] : i \in {j \in 1..Len(stack) : j = Len(stack)}}

Loading == {stack[i] : i \in 1..Len(stack)}

(* Mutant of PushName: nobody looks whether the stack is full.              *)
PushAlways(n) == Append(stack, n)

(* stack[depth++] happens only while there is room; depth-- always does.    *)
PushName(n) == IF Len(stack) < slots THEN Append(stack, n) ELSE stack
PopName     == IF Len(stack) > 0 THEN Pop(stack) ELSE stack
Remember(n, u) ==
  IF Len(cache) < slots
  THEN Append(cache, [name |-> n, unit |-> u])
  ELSE cache

(* The text error lines are counted in while a unit is evaluated, and after *)
(* it: loader_load switches to the unit's text and back, loader_load_url    *)
(* leaves the importer's in place.                                          *)
EnterText(isLocal) == IF isLocal THEN Len(acts) + 1 ELSE errsrc
(* Mutant of LeaveText: the text is not put back.                           *)
KeepText(a)        == errsrc
LeaveText(a)       == a.outer

Init ==
  /\ slots \in LoaderMax
  /\ disk \in [Sources -> Texts \cup {Missing}]
  /\ remote \in BOOLEAN
  /\ cache = <<>>
  /\ stack = <<>>
  /\ \E t \in {x \in Texts : x.verdict # "parse"} :
       acts = <<[unit |-> Fresh(Root, FALSE, t, "check"), outer |-> 1]>>
  /\ errsrc = 1
  /\ fault = NoFault
  /\ outcome = "running"
  /\ serial = 0
  /\ edits = 0

Edit(s, t) ==
  /\ outcome = "running"
  /\ edits < MaxEdits
  /\ edits' = edits + 1
  /\ t # disk[s]
  /\ disk' = [disk EXCEPT ![s] = t]
  /\ UNCHANGED <<slots, remote, cache, stack, acts, errsrc, fault, outcome,
                 serial>>

----------------------------------------------------------------------------
Demanding ==
  /\ outcome = "running"
  /\ fault = NoFault
  /\ WantsUnit(Current.unit)

Wanted == Declaration(Current.unit)
Permitted(d) == d.url = NoUrl \/ remote

Raise(why) ==
  /\ fault' = [why |-> why, phase |-> Current.unit.phase]
  /\ UNCHANGED <<cache, stack, acts, errsrc, outcome, serial, env>>

LoadHit ==
  /\ Demanding
  /\ Cached(Wanted.name)
  /\ acts' = Replace([Current EXCEPT
                        !.unit = Receive(@, Wanted.name, Lookup(Wanted.name))])
  /\ UNCHANGED <<cache, stack, errsrc, fault, outcome, serial, env>>

LoadForbidden ==
  /\ Demanding
  /\ ~Cached(Wanted.name)
  /\ ~Permitted(Wanted)
  /\ Raise("remote")

LoadCycle ==
  /\ Demanding
  /\ ~Cached(Wanted.name)
  /\ Permitted(Wanted)
  /\ Wanted.name \in Loading
  /\ Raise("cycle")

(* read_file or fetch_url, then parse_unit: both before the push.           *)
Reading ==
  /\ Demanding
  /\ ~Cached(Wanted.name)
  /\ Permitted(Wanted)
  /\ Wanted.name \notin Loading

LoadUnreadable ==
  /\ Reading
  /\ disk[SourceOf(Wanted)] = Missing
  /\ Raise("missing")

LoadUnparsable ==
  /\ Reading
  /\ disk[SourceOf(Wanted)] # Missing
  /\ disk[SourceOf(Wanted)].verdict = "parse"
  /\ Raise("parse")

Loadable ==
  /\ Reading
  /\ disk[SourceOf(Wanted)] # Missing
  /\ disk[SourceOf(Wanted)].verdict # "parse"

(* The recursion through eval_program exhausts the stack of the process.    *)
LoadTooDeep ==
  /\ Loadable
  /\ Len(acts) >= MaxCalls
  /\ outcome' = "crashed"
  /\ acts' = <<>>
  /\ UNCHANGED <<cache, stack, errsrc, fault, serial, env>>

LoadBegin ==
  /\ Loadable
  /\ Len(acts) < MaxCalls
  /\ stack' = PushName(Wanted.name)
  /\ LET isLocal == Wanted.url = NoUrl
     IN /\ acts' = Append(acts, [unit  |-> Fresh(Wanted.name, isLocal,
                                                 disk[SourceOf(Wanted)], "check"),
                                 outer |-> errsrc])
        /\ errsrc' = EnterText(isLocal)
  /\ UNCHANGED <<cache, fault, outcome, serial, env>>

----------------------------------------------------------------------------
CheckSkip ==
  /\ outcome = "running"
  /\ fault = NoFault
  /\ ~Finished(Current.unit)
  /\ Current.unit.phase = "check"
  /\ Declaration(Current.unit).place # "top"
  /\ acts' = Replace([Current EXCEPT !.unit.pc = @ + 1])
  /\ UNCHANGED <<cache, stack, errsrc, fault, outcome, serial, env>>

(* check_unit, once the imports are typed.                                  *)
AtCheck ==
  /\ outcome = "running"
  /\ fault = NoFault
  /\ Current.unit.phase = "check"
  /\ Finished(Current.unit)

CheckAccept ==
  /\ AtCheck
  /\ Current.unit.text.verdict # "check"
  /\ acts' = Replace([Current EXCEPT !.unit.phase = "eval", !.unit.pc = 1])
  /\ UNCHANGED <<cache, stack, errsrc, fault, outcome, serial, env>>

CheckReject ==
  /\ AtCheck
  /\ Current.unit.text.verdict = "check"
  /\ Raise("check")

AtEnd ==
  /\ outcome = "running"
  /\ fault = NoFault
  /\ Current.unit.phase = "eval"
  /\ Finished(Current.unit)

EvalFault ==
  /\ AtEnd
  /\ Current.unit.text.verdict = "eval"
  /\ Raise("eval")

Publish ==
  /\ AtEnd
  /\ Current.unit.text.verdict # "eval"
  /\ Len(acts) > 1
  /\ LET n == Current.unit.name
         u == [text |-> Current.unit.text, serial |-> serial + 1]
     IN /\ serial' = serial + 1
        /\ cache' = Remember(n, u)
        /\ stack' = PopName
        /\ errsrc' = LeaveText(Current)
        /\ acts' = [Pop(acts) EXCEPT ![Len(acts) - 1].unit = Receive(@, n, u)]
  /\ UNCHANGED <<fault, outcome, env>>

Complete ==
  /\ AtEnd
  /\ Current.unit.text.verdict # "eval"
  /\ Len(acts) = 1
  /\ outcome' = "ok"
  /\ acts' = <<>>
  /\ UNCHANGED <<cache, stack, errsrc, fault, serial, env>>

----------------------------------------------------------------------------
(* Mutant of Catch: the use that failed is tried again.                     *)
CatchInPlace ==
  /\ outcome = "running"
  /\ fault # NoFault
  /\ Guarded(Current.unit)
  /\ fault' = NoFault
  /\ UNCHANGED <<acts, cache, stack, errsrc, outcome, serial, env>>

Catch ==
  /\ outcome = "running"
  /\ fault # NoFault
  /\ Guarded(Current.unit)
  /\ fault' = NoFault
  /\ acts' = Replace([Current EXCEPT !.unit.pc = @ + 1])
  /\ UNCHANGED <<cache, stack, errsrc, outcome, serial, env>>

Propagate ==
  /\ outcome = "running"
  /\ fault # NoFault
  /\ ~Guarded(Current.unit)
  /\ Len(acts) > 1
  /\ stack' = PopName
  /\ errsrc' = LeaveText(Current)
  /\ acts' = Pop(acts)
  /\ UNCHANGED <<cache, fault, outcome, serial, env>>

Abandon ==
  /\ outcome = "running"
  /\ fault # NoFault
  /\ ~Guarded(Current.unit)
  /\ Len(acts) = 1
  /\ outcome' = "failed"
  /\ acts' = <<>>
  /\ fault' = NoFault
  /\ UNCHANGED <<cache, stack, errsrc, serial, env>>

----------------------------------------------------------------------------
Load == \/ LoadHit
        \/ LoadForbidden
        \/ LoadCycle
        \/ LoadUnreadable
        \/ LoadUnparsable
        \/ LoadTooDeep
        \/ LoadBegin

EvalProgram == \/ CheckSkip
               \/ CheckAccept
               \/ CheckReject
               \/ EvalFault
               \/ Publish
               \/ Complete
               \/ Catch
               \/ Propagate
               \/ Abandon

Interpreter == Load \/ EvalProgram

Answered == outcome # "running" /\ UNCHANGED vars

Next == \/ Interpreter
        \/ \E s \in Sources, t \in Texts \cup {Missing} : Edit(s, t)
        \/ Answered

Spec == Init /\ [][Next]_vars /\ WF_vars(Interpreter)

----------------------------------------------------------------------------
(* The arrays are filled to their ends and never past them: a name or a     *)
(* unit for which there is no slot is left out, and what was in the slots   *)
(* is taken out again as the loads end, in whatever order they fill them.   *)
TypeOK ==
  /\ slots \in LoaderMax
  /\ disk \in [Sources -> Texts \cup {Missing}]
  /\ remote \in BOOLEAN
  /\ cache \in Seq([name : Names, unit : Unit])
  /\ Len(cache) <= slots
  /\ stack \in Seq(Names)
  /\ Len(stack) <= slots
  /\ acts \in Seq([unit : Activation, outer : Nat \ {0}])
  /\ errsrc \in Nat \ {0}
  /\ fault \in Faults \cup {NoFault}
  /\ outcome \in {"running", "ok", "failed", "crashed"}
  /\ serial \in Nat
  /\ edits \in 0..MaxEdits

(* "Caches loaded units and detects import cycles (mirrors src/lib.rs       *)
(* FileLoader)": no unit is loaded inside its own load, so the recursion of *)
(* loader_load through eval_program is bounded by the number of units. With *)
(* more units than slots this is not so: a unit that found the stack full   *)
(* is not seen there.                                                       *)
NoReentry ==
  Room => \A i, j \in 1..Len(acts) :
            i # j => acts[i].unit.name # acts[j].unit.name

(* The unit bound at evaluation is the one the check-time pass typed, if    *)
(* every unit has a slot; one that found the cache full is evaluated anew   *)
(* at each use.                                                             *)
CheckedIsBound ==
  Room => \A i \in 1..Len(acts) : \A n \in Names :
            (acts[i].unit.typed[n] # 0 /\ acts[i].unit.bound[n] # 0)
              => acts[i].unit.typed[n] = acts[i].unit.bound[n]

(* "Errors raised while evaluating the import belong to its text": whatever *)
(* loads came and went, failed or not, lines are counted in the text of the *)
(* unit being evaluated, if that is the command line's or came from a file. *)
(* Of a unit from a url this is not said: loader_load_url does not switch   *)
(* to its text.                                                             *)
FromUrl(i) == i > 1 /\ ~acts[i].unit.local
LinesAreOfOwnText ==
  (outcome = "running" /\ ~FromUrl(Len(acts))) => errsrc = Len(acts)

(* Every form is answered. The process ends for want of stack only if there *)
(* are more units than slots.                                               *)
EveryFormAnswered ==
  outcome = "running" ~> \/ outcome \in {"ok", "failed"}
                         \/ outcome = "crashed" /\ ~Room

(* Full arrays or not, the C loader implements what loading promises, to    *)
(* which the end of the process is a failure.                               *)
Promise == INSTANCE UnitLoading WITH
             loaded <- [n \in Names |-> Lookup(n).text],
             answer <- IF outcome = "crashed" THEN "failed" ELSE outcome
ImplementsUnitLoading == Promise!PSpec
=============================================================================
