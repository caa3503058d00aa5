# Snel in TLA+

Snel (graydon/snel) is a small, pure, vectorised language. It has two
interpreters that must agree, one in Rust (`src/src/`) and one in C99
(`src/c/`). Programs cannot loop, recurse or mutate, so what is difficult is
underneath: loading units that import each other from files that change,
sharing and reusing memory behind values that must look immutable, talking to a
child process through two pipes, a type checker on which the promise that every
program ends depends, an editor served one message at a time, and a printer, a
wire format and two readers that must be each other's inverses. This directory
holds a TLA+ model of those parts, the TLC configurations that check it on small
instances, and TLAPS proofs.

Paths below are relative to the repository's `src/`.

## The system

| Component | Source | State it keeps | Operations | What is hard |
|---|---|---|---|---|
| Unit loader | `src/lib.rs`, `src/main.rs`; `c/main.c`, `c/eval.c` | cache and stack of unit names, the `.sni` files; in C two arrays of 64 and one global error text | `eval_unit` / `eval_program`, `load`, `load_url`, `snel run`, a REPL line | nested loads, cycles, error paths, files that change between the two loads of a name, full arrays |
| Call frames | `src/eval.rs`; `c/eval.c`, `c/value.c` | frame pool, reference counts, the env a block writes into, in C the position each variable node remembers | `apply`, `decl_step`, blocks, variable lookup, `locals()` | a frame reused while somebody has it, written in place while shared, left dirty by an error; predicates called while a frame is half built |
| In-place column arithmetic | `src/ops.rs`; `c/ops.c` | reference counts of columns | `arith` on scalars and columns | which operand may be overwritten, errors halfway through a column, the least integer |
| `io.spawn` | `src/io.rs`; `c/io.c` | two pipes, a process | `spawn` | two processes blocked on each other, descriptors left open, processes that end early |
| Static checker | `src/check.rs`; `c/check.c` | scopes | `check_unit`, `infer`, `sub` | gradual types, aliases; termination rests on it |
| Evaluator, type tests, coercion | `src/eval.rs`, `src/ops.rs`; `c/eval.c` | the env | `eval`, `decl_step`, `apply`, `coerce`, `subtype`, `is` | agreement with the checker; types that have left their scope |
| Language server | `src/lsp.rs`; `c/lsp.c` | open documents: a map, in C a table of 64; messages sent and not read | `initialize`, `didOpen`, `didChange`, `didSave`, `didClose`, `hover`, `shutdown`, `exit`, anything else | what is published for which text, answers in their turn, a full table, positions in UTF-16 |
| Lexer, parser, printer | `src/lex.rs`, `parse.rs`, `print.rs`; `c/lex.c`, `parse.c`, `print.c` | a place in the text; pending doc lines | `lex`, one function per level of the grammar, `fmt` | brackets that must be printed because of what stands around, signs that join numbers, comments and docs |
| Wire format, trees as values | `src/wire.rs`, `c/wire.c`; `reflect`, `eval` and their inverses | bytes left to read | `encode`, `decode`, one pair per kind | chunks taken apart exactly where they were put together, cut input |
| REPL (Rust only) | `src/main.rs` | an env and a loader across lines | one line at a time | what a failed line leaves behind; the loader half is modelled |
| Pure operations | `src/ops.rs`; `c/ops.c` | none | some sixty builtins | nils, union columns, numeric edges; i64 arithmetic is modelled |
| JSON and CSV; other `io` calls; tools, editors, examples | the rest | none | text to values and back | not modelled |

How they interact. The command line and the REPL parse a text and hand it to
`eval_unit`, which resolves its top-level `use`s through the loader (each load
is a nested `eval_unit`), has the checker accept the rest with the types of
those imports, and evaluates the declarations, meeting every `use` again. The
evaluator calls `apply` for closures, `coerce` at every binding with a type
(which calls predicates, hence `apply`), the operations, and `io`. `fmt` parses a
text and prints the tree; `reflect` and `decode` make values of trees and bytes,
`eval` and `encode` take them back. The language server parses and checks the
text of an open document and publishes what is wrong with it. There are no
threads. The actors are the interpreter, whoever edits the files, the program
that was spawned, the editor, and the operating system.

Correctness, component by component:

- loader: no unit inside its own load; one evaluation per name; what was typed
  is what is bound; errors leave the loader usable; every form is answered.
- frames and columns: reuse and overwriting cannot be observed; counts never
  fall short (C) or are exact (Rust).
- spawn: the output is all that the program wrote, it is given after the
  program is over, and it is given.
- checker and evaluator: accepted units end, with values of the types that were
  inferred, failing on data only.
- language server: it is a map of documents; each request has one answer, about
  the text the editor then had; what is shown is true of the last text.
- text, trees, values, bytes: going one way and back is the identity, both
  spellings of C and Rust agree, cut input is refused.

## Modules

Each module names the code it stands for in its comments; `PROJECT.json` maps
every definition to lines.

| Module | What it models |
|---|---|
| `Units` | units as the loader sees them: the `use`s of a text and the first stage that refuses the rest of it; activations of `eval_unit` |
| `UnitLoading` | abstract: what loading promises. Units are published one by one, once, after their imports; a form is answered |
| `FileLoader` | the Rust loader, one action per exit of `load`, `load_url` and `eval_unit`; REPL sessions; files that change (`Edit`) |
| `FileLoaderC` | the C loader: arrays that may be full, linear cache, the error text, the end of the program's own stack |
| `Envs`, `Frames` | tabs as lists of bindings; what both implementations of `apply` keep, and what must be true of it |
| `PureCalls` | abstract: calls and blocks over immutable environments |
| `CallFrames`, `CallFramesC` | the Rust and C calls, each shown to implement `PureCalls` |
| `Columns` | integers from `-Half` to `Half - 1`, columns of them, `arith2`, the elements written before one fails |
| `PureColumns` | abstract: arithmetic on immutable columns |
| `InPlace` | both implementations of `arith` on counted columns, shown to implement `PureColumns` |
| `Spawn` | interpreter, pipes and child, for both implementations side by side |
| `Types` | types, values and syntax trees; free names; `sub` of the checker; `subtype`, `scalar_is`, `coerce` of the evaluator |
| `Checker` | `infer` and `check_unit` as operators |
| `Evaluator` | `eval`, `decl_step` and `apply` as a machine with a stack, running the units that `Checker` accepts |
| `Documents` | places in a text: lines, UTF-16 columns, the end of a token, the word under the cursor |
| `DocumentMap` | abstract: a map of documents, one request answered at a time |
| `LanguageServer` | both servers and an editor: every message they handle, the two stores of documents, shown to implement `DocumentMap` |
| `Nodes` | syntax trees and types, with every form of the language |
| `Lexer`, `Parser` | lexemes to tokens to trees, one operator per function of the grammar |
| `Printer` | trees to lexemes, with precedence, brackets and docs |
| `Reflection` | values and columns with their kinds, cases and nils; trees and types as values, and back |
| `Chunks` | the slots of a column of scalars as bytes: numbers, runs, the codings of a chunk and the choice between them, and their reader |
| `ColumnWire` | a column of scalars is written, cut anywhere, and read, one action per chunk |
| `Wire` | every other value to bytes and back, with the operators of `Chunks` |
| `RoundTrips` | a machine that takes a program from text to tree to value to bytes and all the way back, or a value to bytes |
| `Units_proofs` | lemmas on what both loaders keep of a unit |
| `FileLoader_proofs`, `FileLoaderC_proofs` | proofs about the loaders |
| `CallFrames_proofs` | proofs about the calls of both implementations: invariants, and the refinement of `PureCalls` |
| `InPlace_proofs` | proofs about columns: exact counts, and the refinement of `PureColumns` |
| `Spawn_proofs` | proofs about `Spawn`: when spawn answers, and with what |
| `LanguageServer_proofs` | proofs about both servers: the refinement of `DocumentMap`, what is shown, and the order of answers |
| `ColumnWire_proofs` | proofs about columns in bytes: what is written is read, what was cut is refused, no coding is shorter |
| `MC*` | instances for TLC |

Abstractions a reader should know of:

- *Loader.* A text is the sequence of its `use`s (name, url, and whether it is
  at top level, nested, or under a `try`) and a verdict: the first of parse,
  check and evaluation that refuses it. Values and interfaces are the text they
  come from. `serial` numbers evaluations so that properties can speak of which
  evaluation was typed and which was bound. The model's evaluation error comes
  after the uses of its text. `.sni` files that are already there are not read
  by either implementation.
- *Frames.* Values are opaque; a closure is its parameters and captured
  bindings; a call is entered, binds its parameters one by one (each step may
  run other calls, as coercing predicates do), runs its body, gives its frame
  back, coerces its result and leaves. Errors (`Leave`) are possible at every
  point. In C a block retains the env and nothing releases it, so counts leak;
  what is checked there is that they never fall short.
- *Columns.* One range of integers (`Half` is 2^63 in the code), elements or nil. f64, bit and union columns go
  through the same choice of buffer and are not distinguished.
- *Spawn.* A program is a sequence of steps (read, write, drain, copy, close)
  that the two twins run separately on their own pipes. `write_all` is one byte
  at a time, and so is reading, so every interleaving of partial reads and
  writes is there. A program does not use an end of a pipe that it has closed
  (`UsesOpen`); which error the system would give it is not modelled.
- *Types.* `str` and `sym` are left out, a predicate is a table of answers (and
  fails on the rest), a tab is a function from names, a column is the sequence
  of its elements, and a declared type is a value of a kind of its own (the code
  has a tab with the fields `type` and `pred`). Of the builtins there are
  `get`, `first`, `map` and `fold`: those that find a function, take one apart
  or call one. When an operand and its neighbour both fail, which error is
  reported is not a property here.

- *Language server.* The framing and the JSON reader give a message or nothing. A
  text comes with the byte of its problem, as parser and checker report it;
  whether the editor's messages are well-formed is not questioned. What the
  editor must be shown is a parameter (`Marked`, `Described`), written down in
  `MCLanguageServer` as the protocol counts and not computed by the code's
  definitions. `CountsAlike` says that on the texts of an instance the code
  computes just that: it leaves out texts whose problem is at a last word of
  several bytes, where the two implementations differ, and places behind
  characters of several bytes, where both are off (see below).
- *Text.* A lexeme is one model value, as is the blank or the line end between
  two: what is in a number or a string is not modelled, but whether a sign joins
  the number after it, and whether a comment documents the declaration after it,
  are. Layout is left out: `fmt` breaks wide lines and the parser skips ends of
  lines where it does not matter. An error is a refusal, whatever it says.
- *Bytes.* Words are `WordLen` bytes of `2^ByteBits` values, so the places where
  a number outgrows a byte or a chunk its length are close together. A float is
  its bits. `ColumnWire` has the columns whose cases are scalars; columns of
  columns and of tabs are in `Wire` only. The numbers or runs of a chunk are read
  together and refused if one of them is not all there, where the code reads them
  one by one: nothing is kept of a column that is refused.

All units of `MCEvaluator` (4392 of the passing run, the one of the other), and
204 that ascribe columns of columns and of tabs, were printed as Snel programs
and given to the C interpreter. It accepted and rejected the same ones, and each
ended with a value or the kind of error it ends with in the model, `loops` with
the end of the C stack. This comparison is not part of the runs.

## Runs

| Run | Instance | Shows |
|---|---|---|
| `rust_loader` | two names, a url, six texts in every combination of files, one edit at any moment, `snel run` and two REPL lines | the safety properties of the loader, the refinement of `UnitLoading`, and that every form is answered |
| `c_loader` | the same shape of instance, arrays of one slot, which the two units overflow, and of two; four loads within one another | full or not, the C loader stays within its arrays and publishes as promised; a form is answered unless loads go round for ever, which takes full arrays; with room no unit is in its own load and the unit that was typed is the one bound; error lines are counted in the text that is evaluated, url imports left out |
| `rust_frames` | two nested calls of two closures, two names, two values, one open block per call, four tabs, a pool of one | pooled, shared and copied-on-write frames implement pure environments; nothing leaks |
| `c_frames` | the same, with counts up to 2 and remembered positions | the same for C, whose counts leak |
| `in_place` | integers from -2 to 1, division, two literals of different lengths, a name, two scalars, three intermediate values, four columns | overwriting is never seen, whatever fails halfway |
| `spawn` | thirteen programs, inputs of 0 to 3 bytes, pipes of one byte, fork may fail | output, order of effects, and that spawn returns for programs that read before they say more than a pipe holds |
| `checked` | 4392 units, filled-in forms, of which the checker accepts 1669; room for four nested calls | accepted units end, with values of their types; nothing calls itself; they fail on data only, but for functions that were accepted by what a name stands for; no name is missing, but for those in the signature of a function that is given away |
| `lsp` | two documents, two texts (one with a problem behind a character of two UTF-16 units), two ids, up to two messages unread, tables of one and two documents | both servers are a map of documents; every request is answered once, in its turn, about the text the editor then had; what is shown when nothing is unread is what is wrong with that text |
| `round_trips` | every one of 33 forms of expression around every other around three leaves, some more around leaves that print specially, 21 texts of declarations, columns of up to three runs or of mixed kinds | text to tree to text, to values and to bytes, and back, lose nothing; bytes that were cut are refused |
| `c_columns` | 2347 columns of up to three runs of bits, bytes, integers and floats, with marks for nils, selectors and up to three cases; chunks of 16, runs of 15, words of two bytes of four bits; cut at every place | what is read is what was written, and no byte is left; columns that were cut are refused, and no others; of raw, run-length and packed chunks the shortest is written |
| `spawn_cat` (violation) | `cat` on more than two pipes hold | spawn waits for ever |
| `loops` (violation) | one unit | `get` and width subtyping let a function call itself |

Why the bounds are enough. *Loader:* two units give self-imports, cycles and
shared imports; a third adds longer cycles only, which the proofs cover for
every number (they hold for any set of names, urls and texts, any number of
edits and lines). In C the second of two names finds one slot taken, in the cache
and in the stack, and the code treats the 65th of 64 like it; with two slots
there is room. A name that was not pushed can be entered again: `MaxCalls`, the
loads that the program's own stack has room for, is above the number of names, so
it is reached only by going round. *Frames:* one call inside another is where
a frame can be confused with another's; a pool of one is empty, hit and full;
two closures capture their names in different orders, which is what remembered
positions could get wrong. *Columns:* with integers from -2 to 1 the least integer, overflow
and division by zero and -1 all occur; three operands let one be in use while
two are combined. *Spawn:* one-byte pipes are full and empty as often as can be,
and an input of three fills both and what a `copy` holds.
*Types:* each family isolates one way a value travels (through a function's
parameter and result, an ascription, a closure that leaves its block, a function
parameter, a tab of functions). Signatures of functions that are given to
functions or returned by them run over a type, a union with it, a declared type
and another name for that (`Signed`), wanted and given, which are what the two
subtype relations tell apart. Of the accepted units 378 end as `ThroughAName` or
`NamesItsOwn` say: 303 with a function refused whose signature the checker
accepted, 75 with an unbound type. The two properties leave those out by name, and
hold of the others. `MaxDepth` is not reached in the passing run: a state that
reached it would be an overflow, and `Terminates` would fail.
*Language server:* two documents are the fewest of which one can be confused
with the other, a table of one is full with the first, and a message behind
another is enough for an answer to be given about a text that is no longer the
editor's. The bound on unread messages is the editor's, not the server's.
*Round trips:* printing decides on brackets by what directly surrounds a node, so
every pair of forms, with a leaf that prints as one token, one that prints as a
sign and a number, and a name, meets every decision; columns of up to three runs
of lengths below, at and above `MaxRun` and `ChunkLen` make every kind of chunk
start and end at every kind of place. *Columns in bytes:* a chunk of 16 in runs
of 15 is the shortest one that can need a second run for the same value, and
lengths of 0, 1, 15 and 17 put the end of a run before, at and behind the end of
a chunk; of the values some take no byte when packed, some one and some all of a
word. What is checked there is proved for the sizes of the code.

Symmetry is used on allocations only (`Tabs`, `Cols`), in runs that check no
liveness. Deadlock checking is off in the runs of `Spawn`, `Evaluator`,
`LanguageServer` and `ColumnWire`, where a call, a unit, a session or a column
ends and nothing follows; the loader modules have an explicit step for having
ended, and the others can always go on.

## Fairness

- Loader: weak fairness of `Interpreter`, the loader's and evaluator's own next
  step: one thread that nothing in the process suspends. `Edit` and `Submit` are
  not fair. The bound on edits makes sessions finite but is not what makes forms
  end: with no bound the proofs of `NoReentry` still hold, and the number of
  nested loads is bounded by the number of names. In C it is so bounded if there
  is a slot for each name (`Room`); otherwise loads may go round until the
  program's stack is gone (`LoadTooDeep`), and `EveryFormAnswered` says that
  nothing else keeps a form from being answered.
- Spawn: weak fairness of each twin's interpreter and of each program: the
  system schedules both and wakes one that can go on. In the pipe model a side
  that can go on stays able to, so strong fairness is not needed.
- Evaluator: weak fairness of `Next`, the single thread.
- Language server: weak fairness of the server's step (`Serve`) and of the
  editor's reading what it is sent (`Receives`); the editor need not write.
- Frames, columns, columns in bytes and round trips have safety properties only.

## Proofs

`FileLoader_proofs` (for any names, urls, texts, numbers of lines and edits;
from the assumptions `UnitsAssumption` and `LoaderAssumption`, which say that
texts are texts, and that what stands for "none" is not one of them):

- `LoaderShape`: the type invariant and `StackMatchesLoads`. The two are
  inductive together: popping the stack and popping the activations only type
  when they have the lengths the second one states. Each action has one step.
- `LoaderInv` strengthens the rest. A caller stands at a `use` of exactly the
  unit being loaded above it (`Awaiting`), which is what makes handing over the
  result sound; each activation has in its past only names that are cached, with
  the serials it wrote down (`Sound`); a name was evaluated once if it is cached
  and never otherwise (`Counted`). It is inductive with `NoReentry`,
  `ImportsPrecede` and `InterfaceIsOfLoadedUnit`, and the theorems
  `LoaderNeverReenters`, `UnitsEvaluatedOnce`, `CacheIsOrdered`,
  `ImportsStayAsChecked` and `InterfacesMatchCache` follow from it;
  `CacheNeverChanges` is an action property from the same invariant (no run lists
  it or the type invariant: `ImplementsUnitLoading` says it of what is published).
- `LoaderKeepsPromise`: the initial states and steps of `FileLoader` map to
  those of `UnitLoading`, or to stutters.

`FileLoaderC_proofs` (for any lengths of the arrays, names, urls and texts, and
any number of loads within one another, `MaxCalls`):

- A step of the C loader leaves stack and activations alone, enters a load,
  leaves one, or ends the program (`Stays`, `Enters`, `Leaves`, `Stops`); each
  action is shown to be one of the four, and the invariants are proved for the
  four kinds.
- `ArraysAreNeverOverrun`: the type invariant, which bounds stack and cache by
  their slots; a load in progress is entered with a slot left or not pushed.
- `LinesAreAlwaysOfOwnText`, from `TextsInv`: each activation keeps the text that
  its return puts back. Imports of a url, which put no text of theirs, are left
  out by name (`FromUrl`).
- `NoUnitInItsOwnLoad`, from `StackInv`. The property speaks of runs with
  `Room == IsFiniteSet(Names) /\ Cardinality(Names) <= slots`: with the stack full
  a name is loaded without being pushed, and may come again in its own load.
- `ImportsStayAsChecked`, of runs with `Room` too, and `LoaderKeepsPromise`, where
  `Room` is assumed (the run checks the refinement without room as well), from
  `KeptInv`. The C cache is a list that is searched anew at every `use`; `Held`
  reads it as the map it stands for. No name that is being loaded is cached, no
  name is cached twice, and so a unit that is published takes a free slot and
  changes nothing of what was found before. The rest is the argument of the Rust
  loader, with the same lemmas on one activation (`Sound`, in `Units_proofs`).

`CallFrames_proofs` (for any names, values, closures, allocations, depth of
calls and blocks):

- `FramesInv(leak)`, with no leak, is inductive in Rust: types; `Counted`, the
  count of each tab is the number of references to it from the pool, from calls,
  from blocks and from reflected values, and its leak; free tabs are empty; pooled ones are new (`PooledIsFresh`); the frame of
  a call is there; no two calls share one; no name is bound twice. None of these
  is inductive alone: that a pooled frame is clean rests on its count being 1
  when `apply` gives it back, and that on counts being exact. Each action has
  one lemma on what it does to the references, and one on what it does to tabs.
- From it: `FramesAreTyped`, `PooledFramesAreClean`, `NoFrameIsShared`,
  `NamesAreBoundOnce`, `EveryFrameComesBack`.
- `FramesImplementPureCalls`, the refinement. Who only moves references changes
  no environment that is still referred to; who writes a tab has the only
  reference to it, and so is the only one to see it.
- In C counts leak, so `CInv` only says that they cover the references
  (`Covered`), and that is `FramesInv(leak)` for some leak (`CoveredForALeak`):
  in any one state the difference is a leak. Hence what was shown of Rust's
  actions for every leak holds of C's that do the same (`EnterIsAlike` and so on;
  among them that a remembered position, which is only used if the name is still
  there, is where a search would have ended, as no name is bound twice). Three
  actions are C's own: a block ends without a release, a declaration always
  copies, and a frame is given back as its count says (`GiveBackFacts`).
- From it: `CountsAlwaysCover`, `FramesAreSoundInC`, and
  `FramesImplementPureCallsInC`, the same refinement.

`InPlace_proofs` (for any `Half` but 0, any finite set of names and of literals,
any scalars, allocations and depth of the stack, one operation or more):

- Arithmetic stays in range (`WrapIsInt`, `QuotientIsInt`, `ArithIsElem`): a
  quotient that is not refused fits, and so does its remainder.
- `InPlaceInv` is inductive: types; each count covers the references of stack,
  names and literals, and in Rust equals them (`Tracks`, over `Holding`); each
  literal's column holds what the literal says. Each step only moves references
  (`Moved`), or fails (`Fails`), or gives a column (`Gives`). What vec_arith
  overwrites has count 1 or 0 and is one of its operands or free, so nothing that
  is left on the stack, named or in a literal refers to it (`OverwrittenFacts`).
- From it: `TypesAreKept`, `RustCountsAreExact`, `CountsNeverFallShort`.
- `OverwritingIsUnobservable`: the refinement of `PureColumns`. Who still refers
  to a column sees the elements it saw before (`SeenStays`), and what an
  operation gives is what it would give in a new column.

`Spawn_proofs` (for every program that uses open descriptors only, every input,
capacity and both implementations):

- `ProgramIsOver`: when spawn has given a value the program is over and was
  waited for. `SpawnInv` says at which point of `spawn` each state of the process
  can be met.
- `OutputIsRight`: that value is all the program wrote and nothing else. What a
  program is to write is a recursive function of its steps (`Says`), so the
  invariant speaks of the step the program is at: what was read of it, what is in
  the pipe and what it has yet to write are, one after the other, what it writes
  in all; what it has read, what is in its pipe and what spawn has not written
  yet are, together, the input. `Right` says this for each point of `spawn` and
  each state of the process, with which ends of the pipes are open there:
  spawn stops reading at the end of output only, and that is reached only when
  the program has closed its end or ended and the pipe is empty.
- `TypesHold`, from the same invariant.

`LanguageServer_proofs` (for any documents, texts, ids and words, any size of the
table in C and of the pipes, from `ServerAssumption`, and the last two from
`CountsAlike`):

- `TypesHold`: in C the table has each document once, which makes its entries as
  many as the documents it remembers.
- `ServersKeepAMap`: the refinement of `DocumentMap`. `EntryRemoved` is the lemma
  it turns on: dropping the last entry after it took the place of the one that
  goes leaves the map of the others. A message is handled in one of five ways
  (`Handled`), and only two of them change what is remembered.
- The other two are about messages that have not arrived. An invariant over the
  state alone would have to say what each of them will do; instead it says that
  there is a history: documents as the editor had them before each unread message
  and after the last (`ViewIs`), of which the first are those the server knows of
  (`Agreed`: what it remembers is what they were, and what it does not was closed,
  or there was no room). The editor adds to the end of the history, the server
  takes from its front (`ViewGrows`, `ViewShrinks`).
- `WhatIsShownIsCurrent`: as well, there are screens before each message that the
  editor has not read and after the last (`ShownBy`), and the last one shows what
  is wrong with the first documents of the history.
- `AnswersComeInOrder`: as well, each waiting request has a place among what is on
  its way, as a request or as its answer, in order, and what it is to be answered
  is what the documents before it call for (`InTurn`). Ids that wait are distinct,
  without which an answer could be taken for another's.
- These invariants quantify over sequences, so TLC cannot check them as they
  stand. On an instance, with the histories computed, it found them to hold.

`ColumnWire_proofs` (for any columns of scalars, any length of chunk and run, any
size of word and byte, from `ChunksAssumption`, that counts fit the bytes they
are kept in, and `InputsAssumption`, that columns have a slot of each case for
each element and a selector of an existing case):

- Numbers: what `Digits` takes apart `FromDigits` puts together, in as many bytes
  as the number needs, and `ZigZag` and two's complement have inverses on words.
- Codings: the runs of a chunk, one after the other, are the chunk (`RunsBack`);
  each way a chunk may be written has the size that the choice counts with, and is
  read from wherever it stands as the chunk and the place behind it
  (`CodedIsTagged`, `TaggedIsRead`). It is read from any bytes that begin
  with it and refused from any that end within it, which is why cutting and what
  follows need no argument of their own. The header likewise (`HeaderIsRead`).
- The machine: the writer has no choice, so where it is after k steps is a
  function of the column (`Way`, which `ThereIsAWay` shows to exist). `Inv` says
  that the writer is on its way, and that the reader, between any two chunks, is
  where the writer once was (`ReaderAt`): at the same slot of the same buffer, with
  the slots before it, at the byte that the writer then wrote next. Without the way
  the invariant would have to say what the rest of the bytes means, which is the
  theorem itself. What the reader reads next is what the writer then wrote, if it
  all came; if not, the bytes were cut. At the end of the way all is read, and
  `ColumnIsRebuilt` says that the buffers make the column.
- From it: `TypesHold`, `ColumnsComeBack`, `CutColumnsAreRefused`; and
  `NoChunkIsLonger`, an action property, from the sizes above.
- `Inv` speaks of a function on all numbers of steps, so TLC cannot check it; it
  checks what follows from it.

Induction over the natural numbers is available where the property can be
written as a set (`NatSetInduction`, from the library's theorem that a set of
natural numbers has a least element).

Only model-checked: liveness (`EveryFormAnswered`, `SpawnReturns`, `Terminates`,
`EveryRequestAnswered`, the fairness half of `UnitLoading`), which needs ENABLED;
the type system, the parser and printer, trees as values, and of the wire format
what nests (columns of columns and of tabs, tabs, functions), whose
operators are `RECURSIVE` over types, trees and values, so that no module that
uses them can hold a theorem. Hence `Soundness`, `OnlyDataFails`, `NamesAreBound`
and `NoRecursion` of `Evaluator`, and `Lossless` and `CutIsRefused` of
`RoundTrips`, are properties of the instances that were checked.

## Where the code and its documents disagree

With a run (`PROJECT.json`, findings):

- `spawn_cat`. Both implementations write all of the input before reading any
  output (`src/io.rs:202`, `c/io.c:134`).
- `loops`. `let f = fun(x: {}) -> i64 = get(x, "f")(x)  f({f = f})` is accepted
  and never ends; SPEC 5.5 and `src/eval.rs:656-660` say every program does.

Seen while modelling, without a run of their own:

- `let y: [[i64]] = [[1.0]]` succeeds, and the checker believes it: `coerce_col`
  compares the kind of an element with the kinds of the cases, so any column fits
  a case that is a column type (`src/ops.rs:215`, `c/ops.c:258`), where
  `SPEC.md:158-160` says that `coerce` decides exact conformance. `Soundness` is
  checked on units without ascribed columns of columns.
- A `use` in a block, a function or a `try` is resolved when it is evaluated, so
  a missing file or a cycle there is an evaluation error; SPEC 3.5 says compile
  error.
- C loader: with the 64-entry stack full a name is loaded without being pushed
  (`c/main.c:123-134`), so a cycle beyond it is not seen; with the cache full a
  unit is evaluated again at each use. Both occur in the run `c_loader`;
  `NoReentry` and `CheckedIsBound` are about arrays with `Room`. While a url import
  is evaluated, error lines are counted in its importer's text (`c/main.c:190`),
  where the comments at 127-128 and 149-150 say in its own: it occurs in the run
  too, and `LinesAreOfOwnText` leaves out url imports by name (`FromUrl`).
- `io.spawn` of a missing program is an error in Rust and `""` in C; a program
  that ends without reading makes SIGPIPE end the C interpreter, where
  `c/io.c:134` says the failure is ignored.
- C: a block retains its env once more than it releases it (`c/eval.c:1495`).
- `type a = i64  type a = a` makes the checkers' `sub` follow the name for ever
  (the C program ends with a segmentation fault); the bound on alias chains is
  in `deref_name` only.
- An alias is transparent to the checker on both sides of `sub`, and on the left
  only to the evaluator's `subtype`: with `type p = i64`, a `fun(i64) -> i64` is
  accepted where a `fun(i64) -> p` is wanted, and refused when it is given. It
  occurs in the run `checked`, and `OnlyDataFails` leaves out by name the functions
  that agree with what is wanted only by what a name stands for (`ThroughAName`).
- `fold` does not check that its function takes what it returns, nor that it
  returns the initial value's type: the second step may be refused, and an empty
  column gives the initial value under the function's result type.
- `x is T` on a union of a column and a scalar is typed `bit` and may give a
  column of bits; a type whose name left its block makes the checker refuse
  projections of its values.
- The REPL checks each line against the names of earlier lines but not their
  types (`src/main.rs:165-166`, `src/check.rs:46-50`): a `type` declared on one
  line is unknown in the annotations of the next.
- A signature that names a declared type is compared in the environment the
  callee captured, which need not have it: a function given to another may fail
  with `unbound type` (`src/eval.rs:681`), although a closure captures the type
  names that its own signature mentions (`SPEC.md:60-62`) and the checker has
  accepted the argument (126-127). It occurs in the run `checked`, and
  `NamesAreBound` leaves out by name the types that only the signature of the
  function being tested mentions (`NamesItsOwn`).
- The language servers differ: C keeps at most 64 documents, and saving or
  pointing at one it does not keep shows nothing (`c/lsp.c:59`); it leaves a
  message with an id but no method unanswered, to which Rust answers null; a
  `Content-Length` of 0 ends the C server only; what is said of `do` and `try`
  differs in its punctuation; so does the last column of a problem whose token
  ends the text. Both take the UTF-16 character of a request for a byte
  (`word_at`), so a word behind other letters than ASCII is another one.
- Programs that do not come back from `fmt` as they were, against SPEC 10.1 and
  `fuzz/fuzz_targets/roundtrip.rs:34-40`, and left out of the run `round_trips`:
  docs in a `mod` (read in braces, printed in brackets); `mod e {}`, printed as
  `({})` and then `{}`; `x |> not y`, printed as `not(y, x)`, which does not parse;
  `(fun(nil) -> f64?)?`, printed as `fun(nil) -> f64|nil|nil`, another type; a
  string that is not UTF-8, printed as a column, which no `use` takes. `fmt` drops
  ordinary comments and the docs of the file.
- An empty unit is a parse error in C, with no message, and a unit in Rust.
- `reflect_closure` makes one field of two parameters of one name.

## Not modelled

The digits of numbers and the escapes of strings, how values are printed, the
layout of wide lines, and which error is reported: text without control of its
own, which the repository's fuzzer and differential tests compare between the
two implementations. Of bytes that nothing encoded, only those that were cut.
JSON and CSV are conversions of text of the same kind. The remaining `io` calls
are one system call each. The environment of a REPL session and most builtins
are planned (below). Indexing, imports and documentation are left out of
`Checker` and `Evaluator`; `str` and `sym` too. Small-string storage and bit sets
are representation details behind `Envs` and `Columns`. Tools, editors and examples
are not part of the running system.

## Plan

In this order:

1. The environment of a REPL session: a line that fails after some of its
   declarations; composed with `FileLoader`.
2. More builtins in `Checker` and `Evaluator`: those that call functions
   (`map2`, `scan`, `filter`), indexing, arithmetic through aliases, so that
   `peel_num` and `num_binop` are covered.
3. Columns as `ops.c` handles them (cases, nils, selectors): indexing, `cat`,
   sorting and grouping against reference definitions, on the columns of
   `Reflection`.
