------------------------------- MODULE Frames -------------------------------
(***************************************************************************)
(* The frames both implementations of apply work with: counted tabs, a     *)
(* pool of empty ones, the calls in progress, and what the program         *)
(* reflected with locals(). What must be true of them is stated here; how  *)
(* they are handled is CallFrames (Rust) and CallFramesC.                  *)
(***************************************************************************)
EXTENDS Envs

CONSTANTS
  Tabs,     (* bound: allocations of tabs                                   *)
  NoTab,    (* no allocation                                                *)
  PoolMax,  (* 512: frames kept in the pool                                 *)
  MaxBlocks (* bound: open blocks of a call                                 *)

ASSUME FramesAssumption ==
  /\ NoTab \notin Tabs
  /\ PoolMax \in Nat
  /\ MaxBlocks \in Nat

VARIABLES
  tab,    (* allocation -> reference count and bindings; count 0 when free  *)
  pool,   (* the frame pool, last in first out                             *)
  calls,  (* apply calls in progress: closure, parameters bound, whether    *)
          (* the body returned, frame, env of each open block               *)
  held,   (* slot -> the tab a reflected value refers to                    *)
  read    (* the name last referred to and the value that gave               *)

frameVars == <<tab, pool, calls, held, read>>

Free == [rc |-> 0, env |-> <<>>]
FreeTabs == {t \in Tabs : tab[t].rc = 0}

Top == calls[Len(calls)]
Update(c) == [calls EXCEPT ![Len(calls)] = c]
Scope(c) == IF c.blocks = <<>> THEN c.frame ELSE c.blocks[Len(c.blocks)]
InBody(c) == ~c.returned /\ c.bound = Len(c.clo.params)

(* Dropping one reference of every tab in ts, a sequence, frees those that  *)
(* have no other.                                                           *)
Dropped(t, ts) == Cardinality({i \in 1..Len(ts) : ts[i] = t})
(* Mutant of Release: the reference is not dropped.                         *)
ReleaseNone(tb, ts) == tb

Release(tb, ts) ==
  [t \in Tabs |-> IF tb[t].rc = 0 \/ tb[t].rc > Dropped(t, ts)
                  THEN [tb[t] EXCEPT !.rc = @ - Dropped(t, ts)]
                  ELSE Free]

FramesInit ==
  /\ tab = [t \in Tabs |-> Free]
  /\ pool = <<>>
  /\ calls = <<>>
  /\ held = [h \in Slots |-> NoTab]
  /\ read = NoVal
----------------------------------------------------------------------------
Call ==
  [ clo : Closures, bound : Nat, returned : BOOLEAN,
    frame : Tabs \cup {NoTab}, blocks : Seq(Tabs) ]

TypeOK ==
  /\ tab \in [Tabs -> [rc : Nat, env : Env]]
  /\ pool \in Seq(Tabs)
  /\ Len(pool) <= PoolMax
  /\ calls \in Seq(Call)
  /\ held \in [Slots -> Tabs \cup {NoTab}]
  /\ read \in Binding \cup {NoVal}

(* A pooled frame is empty, pooled once, and nobody refers to it: what Rust *)
(* apply's get_mut(..).unwrap() and C apply's reuse rely on.                *)
PoolIsClean ==
  \A i \in 1..Len(pool) :
    /\ tab[pool[i]] = [rc |-> 1, env |-> <<>>]
    /\ \A j \in 1..Len(pool) : pool[i] = pool[j] => i = j
    /\ \A k \in 1..Len(calls) : calls[k].frame # pool[i]
    /\ \A h \in Slots : held[h] # pool[i]

(* No two calls in progress bind their arguments in the same frame.         *)
FramesAreOwn ==
  \A i, j \in 1..Len(calls) :
    (calls[i].frame = calls[j].frame /\ calls[i].frame # NoTab) => i = j

(* bind replaces the first entry of a name and get reads the last: they     *)
(* agree because no env ever has two, although apply appends the captured   *)
(* names without looking.                                                   *)
KeysUnique == \A t \in Tabs : OneBindingEach(tab[t].env)

(* A call, all calls and the reflected envs as the program sees them.       *)
SeenCall(tb, c) ==
  [clo |-> c.clo, bound |-> c.bound, returned |-> c.returned,
   env |-> IF c.returned THEN <<>> ELSE tb[c.frame].env,
   blocks |-> [b \in 1..Len(c.blocks) |-> tb[c.blocks[b]].env]]
SeenCalls == [i \in 1..Len(calls) |-> SeenCall(tab, calls[i])]
SeenHeld ==
  [h \in Slots |-> IF held[h] = NoTab THEN <<>> ELSE <<tab[held[h]].env>>]

(* The program cannot tell: with pooled, shared and copied-on-write frames  *)
(* every call, block and reflected env is what PureCalls says it is.        *)
Pure == INSTANCE PureCalls WITH calls <- SeenCalls, held <- SeenHeld
ImplementsPureCalls == Pure!PSpec

(* No tab is freed or pooled while the program can still reach it: the      *)
(* count is at least the number of references, leaked ones included.        *)
CountsCover ==
  \A t \in Tabs :
    LET frames == {i \in 1..Len(calls) : calls[i].frame = t}
        blocks == {r \in (1..Len(calls)) \X (1..MaxBlocks) :
                     /\ r[2] <= Len(calls[r[1]].blocks)
                     /\ calls[r[1]].blocks[r[2]] = t}
        slots  == {h \in Slots : held[h] = t}
    IN tab[t].rc >= Cardinality(frames) + Cardinality(blocks) + Cardinality(slots)

(* Frames come back: when nothing runs and nothing is reflected, every      *)
(* allocation is in the pool.                                               *)
NothingLeaks ==
  (calls = <<>> /\ \A h \in Slots : held[h] = NoTab)
    => \A t \in Tabs : tab[t].rc # 0 => \E i \in 1..Len(pool) : pool[i] = t
=============================================================================
