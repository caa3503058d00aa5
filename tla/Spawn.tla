------------------------------- MODULE Spawn --------------------------------
(***************************************************************************)
(* io.spawn in both implementations (spawn in src/src/io.rs and            *)
(* src/c/io.c): the interpreter starts a program, writes all of its        *)
(* standard input into one pipe, closes it, reads the other pipe to its    *)
(* end and waits for the program. Pipes hold Capacity bytes. Both          *)
(* implementations run the same program on the same input, side by side.   *)
(***************************************************************************)
EXTENDS Integers, Sequences

CONSTANTS
  Programs,   (* what may be started: sequences of Steps                    *)
  Missing,    (* the program that is not there                              *)
  Inputs,     (* lengths of the input; byte i of it is the number i         *)
  Capacity,   (* bytes a pipe holds                                         *)
  ForkFails   (* whether fork may fail                                      *)

Twins == {"rust", "c"}

(* What a program does, step by step; then it exits. "copy" writes each     *)
(* byte as soon as it is read, "write" writes the byte 0.                   *)
Steps == {"read", "write", "drain", "copy", "closeIn", "closeOut"}

(* A program uses neither descriptor after it closed it.                    *)
UsesOpen(p) ==
  \A i, j \in DOMAIN p :
    i < j => /\ p[i] = "closeIn" => p[j] \notin {"read", "drain", "copy"}
             /\ p[i] = "closeOut" => p[j] \notin {"write", "copy"}

ASSUME SpawnAssumption ==
  /\ Missing \notin Seq(Steps)
  /\ Programs \ {Missing} \subseteq Seq(Steps)
  /\ \A p \in Programs \ {Missing} : UsesOpen(p)
  /\ Inputs \subseteq Nat
  /\ Capacity \in Nat \ {0}
  /\ ForkFails \in BOOLEAN

VARIABLES
  program, length,  (* what is run on how much input                        *)
  at,       (* twin -> where spawn is                                       *)
  written,  (* twin -> bytes of the input written                           *)
  input,    (* twin -> the pipe to the program                              *)
  output,   (* twin -> the pipe from it                                     *)
  got,      (* twin -> bytes read from it                                   *)
  child,    (* twin -> the program's process                                *)
  outcome   (* twin -> how spawn ended                                      *)

vars == <<program, length, at, written, input, output, got, child, outcome>>

NoChild == [state |-> "none", todo |-> <<>>, hand |-> <<>>,
            in |-> FALSE, out |-> FALSE]
Started == [state |-> "running", todo |-> program, hand |-> <<>>,
            in |-> TRUE, out |-> TRUE]
Unanswered == <<"none">>
Running(t) == child[t].state = "running"

Init ==
  /\ program \in Programs
  /\ length \in Inputs
  /\ at = [t \in Twins |-> "start"]
  /\ written = [t \in Twins |-> 0]
  /\ input = [t \in Twins |-> <<>>]
  /\ output = [t \in Twins |-> <<>>]
  /\ got = [t \in Twins |-> <<>>]
  /\ child = [t \in Twins |-> NoChild]
  /\ outcome = [t \in Twins |-> Unanswered]

Go(t, where) == at' = [at EXCEPT ![t] = where]
End(t, how) == Go(t, "done") /\ outcome' = [outcome EXCEPT ![t] = how]

----------------------------------------------------------------------------
(* In C the program keeps the descriptors that were copied to 0 and 1, so   *)
(* that only its exit closes a pipe; in Rust they are closed on exec.       *)
HasReader(t) == Running(t) /\ (t = "c" \/ child[t].in)

(* Mutant of HasWriter: a program that has nothing to say is taken for one  *)
(* that ended.                                                              *)
SaysSomething(t) == Running(t) /\ output[t] # <<>>

HasWriter(t) == Running(t) /\ (t = "c" \/ child[t].out)

HasRoom(pipe) == Len(pipe) < Capacity

(* Mutant of InputEnds: the program holds a copy of the other end too.      *)
InputEndsNever(t) == FALSE

InputEnds(t) == input[t] = <<>> /\ at[t] \in {"reading", "waiting", "done"}

----------------------------------------------------------------------------
(* Command::spawn reports a program it cannot execute; fork and execvp do   *)
(* not: the new process exits.                                              *)
Fork(t) ==
  /\ at[t] = "start"
  /\ IF program # Missing
     THEN /\ child' = [child EXCEPT ![t] = Started]
          /\ Go(t, "writing") /\ UNCHANGED outcome
     ELSE IF t = "c"
     THEN /\ child' = [child EXCEPT ![t] = [Started EXCEPT !.todo = <<>>]]
          /\ Go(t, "writing") /\ UNCHANGED outcome
     ELSE End(t, <<"error">>) /\ UNCHANGED child
  /\ UNCHANGED <<program, length, written, input, output, got>>

(* C goes on with pipes nobody is at the other end of.                      *)
ForkFailure(t) ==
  /\ ForkFails
  /\ at[t] = "start"
  /\ IF t = "c" THEN Go(t, "writing") /\ UNCHANGED outcome
                ELSE End(t, <<"error">>)
  /\ UNCHANGED <<program, length, written, input, output, got, child>>

Write(t) ==
  /\ at[t] = "writing"
  /\ written[t] < length
  /\ HasReader(t)
  /\ HasRoom(input[t])
  /\ written' = [written EXCEPT ![t] = @ + 1]
  /\ input' = [input EXCEPT ![t] = Append(@, written[t] + 1)]
  /\ UNCHANGED <<program, length, at, output, got, child, outcome>>

(* Nobody reads: Rust ignores the signal, write_all fails and spawn leaves  *)
(* the program alone; C does not ignore it.                                 *)
WriteRefused(t) ==
  /\ at[t] = "writing"
  /\ written[t] < length
  /\ ~HasReader(t)
  /\ End(t, IF t = "c" THEN <<"killed">> ELSE <<"error">>)
  /\ UNCHANGED <<program, length, written, input, output, got, child>>

CloseInput(t) ==
  /\ at[t] = "writing"
  /\ written[t] = length
  /\ Go(t, "reading")
  /\ UNCHANGED <<program, length, written, input, output, got, child, outcome>>

Read(t) ==
  /\ at[t] = "reading"
  /\ output[t] # <<>>
  /\ got' = [got EXCEPT ![t] = Append(@, Head(output[t]))]
  /\ output' = [output EXCEPT ![t] = Tail(@)]
  /\ UNCHANGED <<program, length, at, written, input, child, outcome>>

OutputEnd(t) ==
  /\ at[t] = "reading"
  /\ output[t] = <<>>
  /\ ~HasWriter(t)
  /\ Go(t, "waiting")
  /\ UNCHANGED <<program, length, written, input, output, got, child, outcome>>

(* Mutant of Over: nobody waits.                                            *)
OverAnyway(t) == TRUE

Over(t) == ~Running(t)

Wait(t) ==
  /\ at[t] = "waiting"
  /\ Over(t)
  /\ child' = [child EXCEPT ![t].state = IF @ = "exited" THEN "reaped" ELSE @]
  /\ End(t, <<"ok", got[t]>>)
  /\ UNCHANGED <<program, length, written, input, output, got>>

----------------------------------------------------------------------------
(* The program.                                                             *)
Doing(t, step) == Running(t) /\ child[t].todo # <<>> /\ Head(child[t].todo) = step
Rest(t) == [child[t] EXCEPT !.todo = Tail(@)]
Become(t, c) == child' = [child EXCEPT ![t] = c]
Elsewhere == <<program, length, at, written, got, outcome>>

(* "read" takes one byte, "drain" and "copy" one at a time to the end.      *)
ChildReads(t) ==
  /\ input[t] # <<>>
  /\ child[t].hand = <<>>
  /\ \/ Doing(t, "read") /\ Become(t, Rest(t))
     \/ Doing(t, "drain") /\ UNCHANGED child
     \/ Doing(t, "copy") /\ Become(t, [child[t] EXCEPT !.hand = <<Head(input[t])>>])
  /\ input' = [input EXCEPT ![t] = Tail(@)]
  /\ UNCHANGED <<Elsewhere, output>>

ChildAtEnd(t) ==
  /\ InputEnds(t)
  /\ child[t].hand = <<>>
  /\ \E step \in {"read", "drain", "copy"} : Doing(t, step)
  /\ Become(t, Rest(t))
  /\ UNCHANGED <<Elsewhere, input, output>>

(* Writing to an interpreter that went away ends the program.               *)
ChildWrites(t) ==
  /\ \/ Doing(t, "write")
     \/ Doing(t, "copy") /\ child[t].hand # <<>>
  /\ IF at[t] = "done"
     THEN Become(t, [NoChild EXCEPT !.state = "exited"]) /\ UNCHANGED output
     ELSE /\ HasRoom(output[t])
          /\ IF child[t].hand = <<>>
             THEN /\ output' = [output EXCEPT ![t] = Append(@, 0)]
                  /\ Become(t, Rest(t))
             ELSE /\ output' = [output EXCEPT ![t] = @ \o child[t].hand]
                  /\ Become(t, [child[t] EXCEPT !.hand = <<>>])
  /\ UNCHANGED <<Elsewhere, input>>

ChildCloses(t) ==
  /\ \/ Doing(t, "closeIn") /\ Become(t, [Rest(t) EXCEPT !.in = FALSE])
     \/ Doing(t, "closeOut") /\ Become(t, [Rest(t) EXCEPT !.out = FALSE])
  /\ UNCHANGED <<Elsewhere, input, output>>

ChildExits(t) ==
  /\ Running(t)
  /\ child[t].todo = <<>>
  /\ Become(t, [NoChild EXCEPT !.state = "exited"])
  /\ UNCHANGED <<Elsewhere, input, output>>

Parent(t) == \/ Fork(t) \/ ForkFailure(t) \/ Write(t) \/ WriteRefused(t)
             \/ CloseInput(t) \/ Read(t) \/ OutputEnd(t) \/ Wait(t)
Child(t) == \/ ChildReads(t) \/ ChildAtEnd(t) \/ ChildWrites(t)
            \/ ChildCloses(t) \/ ChildExits(t)

Next == \E t \in Twins : Parent(t) \/ Child(t)

(* The operating system runs both processes, and wakes one that is blocked  *)
(* on a pipe when it can go on.                                             *)
Fairness == \A t \in Twins : WF_vars(Parent(t)) /\ WF_vars(Child(t))

Spec == Init /\ [][Next]_vars /\ Fairness
----------------------------------------------------------------------------
Process ==
  [ state : {"none", "running", "exited", "reaped"}, todo : Seq(Steps),
    hand : Seq(1..length), in : BOOLEAN, out : BOOLEAN ]

TypeOK ==
  /\ at \in [Twins -> {"start", "writing", "reading", "waiting", "done"}]
  /\ written \in [Twins -> 0..length]
  /\ \A t \in Twins :
       /\ \A pipe \in {input[t], output[t]} :
            pipe \in Seq(0..length) /\ Len(pipe) <= Capacity
       /\ got[t] \in Seq(0..length)
       /\ child[t] \in Process
       /\ outcome[t][1] \in {"none", "ok", "error", "killed"}

(* What the program says of its input, whatever runs it: the bytes written  *)
(* by the first n steps, and how many bytes of input they took.             *)
Nothing == [took |-> 0, said |-> <<>>]
Bytes(from, to) == [i \in 1 .. to - from |-> from + i]
After(before, step) ==
  CASE step = "write" -> [before EXCEPT !.said = Append(@, 0)]
    [] step = "read"  ->
         [before EXCEPT !.took = IF @ = length THEN @ ELSE @ + 1]
    [] step = "drain" -> [before EXCEPT !.took = length]
    [] step = "copy"  -> [took |-> length,
                          said |-> before.said \o Bytes(before.took, length)]
    [] OTHER -> before
Says[n \in Nat] == IF n = 0 THEN Nothing ELSE After(Says[n - 1], program[n])

(* A value is everything the program wrote and nothing else, however its    *)
(* writes and the interpreter's reads and writes interleave. C is held to   *)
(* it when the program exists and could be started: it looks at neither.    *)
RightOutput ==
  \A t \in Twins :
    outcome[t][1] = "ok" /\ (t = "rust" \/ (program # Missing /\ child[t].state = "reaped"))
      => outcome[t][2] = Says[Len(program)].said

(* The value is given when the program, if it was started, is over and      *)
(* waited for: its effects precede whatever the caller does next.           *)
EffectsPrecede ==
  \A t \in Twins : outcome[t][1] = "ok" => child[t].state \in {"none", "reaped"}

(* spawn comes back: neither process waits for the other for ever.          *)
SpawnReturns == \A t \in Twins : <>(at[t] = "done")
=============================================================================
