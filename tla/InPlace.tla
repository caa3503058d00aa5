------------------------------- MODULE InPlace ------------------------------
(***************************************************************************)
(* Functional-but-in-place arithmetic of both implementations: columns are *)
(* counted heap objects, and vec_arith overwrites an operand it holds the  *)
(* only reference to: the first (Rust: Rc::make_mut(a)), or the first or   *)
(* the second (C: rc == 1).                                                *)
(***************************************************************************)
EXTENDS Columns

CONSTANTS
  Names,     (* names of the program                                        *)
  Literals,  (* the columns its literals stand for, held by their AST nodes *)
  Scalars,   (* its scalars                                                 *)
  Cols,      (* bound: columns allocated                                    *)
  NoCol,     (* no column                                                   *)
  MaxStack,  (* bound: intermediate values                                  *)
  MaxCount   (* bound: references to one column                             *)

ASSUME InPlaceAssumption ==
  /\ Literals \subseteq Column /\ IsFiniteSet(Literals)
  /\ IsFiniteSet(Names)
  /\ Scalars \subseteq Elem
  /\ NoCol \notin Cols
  /\ MaxStack \in Nat
  /\ MaxCount \in Nat

VARIABLES
  twin,    (* the implementation that runs, "rust" or "c"                   *)
  heap,    (* column -> reference count and elements; count 0 when free     *)
  lit,     (* literal -> the column its node holds                          *)
  stack,   (* intermediate values, <<"num", e>> or <<"col", c>>             *)
  named    (* name -> its value, <<>> when it has none                      *)

vars == <<twin, heap, lit, stack, named>>

IsCol(v) == v # <<>> /\ v[1] = "col"
Free == [rc |-> 0, data |-> <<>>]
FreeCols == {c \in Cols : heap[c].rc = 0}

(* References to c among the values vs.                                     *)
Refs(c, vs) == Cardinality({i \in 1..Len(vs) : vs[i] = <<"col", c>>})

(* Mutant of Retain: a clone is not counted.                                *)
RetainNone(hp, v) == hp

Retain(hp, v) == IF IsCol(v) THEN [hp EXCEPT ![v[2]].rc = @ + 1] ELSE hp

(* Mutant of Release: references are not dropped.                           *)
ReleaseNone(hp, vs) == hp

(* Dropping the values vs frees the columns nothing else refers to.         *)
Release(hp, vs) ==
  [c \in Cols |-> IF hp[c].rc > Refs(c, vs)
                  THEN [hp[c] EXCEPT !.rc = @ - Refs(c, vs)]
                  ELSE Free]

Init ==
  /\ twin \in {"rust", "c"}
  /\ lit \in [Literals -> Cols]
  /\ \A l, m \in Literals : lit[l] = lit[m] => l = m
  /\ heap = [c \in Cols |->
               IF \E l \in Literals : lit[l] = c
               THEN [rc |-> 1, data |-> CHOOSE l \in Literals : lit[l] = c]
               ELSE Free]
  /\ stack = <<>>
  /\ named = [n \in Names |-> <<>>]

----------------------------------------------------------------------------
(* The heaps after an env lets go of v: in C the env of a block leaks, and  *)
(* what it refers to stays counted.                                         *)
LetGo(hp, v) == {Release(hp, <<v>>)} \cup (IF twin = "c" THEN {hp} ELSE {})

Countable(v) == IsCol(v) => heap[v[2]].rc < MaxCount

(* eval of a literal, a scalar or a name clones the value: one more         *)
(* reference, never a copy.                                                 *)
Push(v) ==
  /\ Len(stack) < MaxStack
  /\ Countable(v)
  /\ heap' = Retain(heap, v)
  /\ stack' = Append(stack, v)
  /\ UNCHANGED <<twin, lit, named>>

(* decl_step binds a clone of the value and returns the value.              *)
Bind(n) ==
  /\ stack # <<>>
  /\ LET v == stack[Len(stack)]
     IN /\ Countable(v)
        /\ named' = [named EXCEPT ![n] = v]
        /\ heap' \in LetGo(Retain(heap, v), named[n])
  /\ UNCHANGED <<twin, lit, stack>>

(* The environment the name lives in dies.                                  *)
Forget(n) ==
  /\ named[n] # <<>>
  /\ named' = [named EXCEPT ![n] = <<>>]
  /\ heap' \in LetGo(heap, named[n])
  /\ UNCHANGED <<twin, lit, stack>>

Pop ==
  /\ stack # <<>>
  /\ stack' = SubSeq(stack, 1, Len(stack) - 1)
  /\ heap' = Release(heap, <<stack[Len(stack)]>>)
  /\ UNCHANGED <<twin, lit, named>>

----------------------------------------------------------------------------
First  == stack[Len(stack) - 1]
Second == stack[Len(stack)]
Below  == SubSeq(stack, 1, Len(stack) - 2)

(* An error drops the operands and the values below them, down to a `try`.  *)
Unwind(hp) ==
  \E k \in 0..Len(Below) :
    /\ stack' = SubSeq(stack, 1, k)
    /\ heap' = Release(hp, SubSeq(Below, k + 1, Len(Below)))

(* Both operands are scalars.                                               *)
ScalarArith(op) ==
  /\ Len(stack) >= 2
  /\ ~IsCol(First) /\ ~IsCol(Second)
  /\ IF Overflows(op, First[2], Second[2])
     THEN Unwind(heap)
     ELSE /\ stack' = Append(Below, <<"num", Arith2(op, First[2], Second[2])>>)
          /\ UNCHANGED heap
  /\ UNCHANGED <<twin, lit, named>>

LengthMismatch ==
  /\ Len(stack) >= 2
  /\ IsCol(First) /\ IsCol(Second)
  /\ Len(heap[First[2]].data) # Len(heap[Second[2]].data)
  /\ Unwind(Release(heap, <<First, Second>>))
  /\ UNCHANGED <<twin, lit, named>>

(* Mutant of Unique: a column is overwritten while somebody else has it.    *)
UniqueButOne(hp, c) == hp[c].rc <= 2

Unique(hp, c) == hp[c].rc = 1

(* Where the result goes: the operand to overwrite, or a new column.        *)
Targets(hp, a, b) ==
  IF Unique(hp, a) THEN {a}
  ELSE IF twin = "c" /\ Unique(hp, b) THEN {b}
  ELSE {c \in Cols : hp[c].rc = 0}

(* vec_arith on the columns a and b of the heap hp, operands included. The  *)
(* result holds a reference of its own to its column; then the operands     *)
(* are dropped.                                                             *)
VecArith(op, hp, a, b) ==
  \E c \in Targets(hp, a, b) :
    LET x == hp[a].data
        y == hp[b].data
        o == IF hp[c].rc = 0 THEN x ELSE hp[c].data
        written == [hp EXCEPT ![c] = [rc |-> @.rc + 1, data |-> Written(op, x, y, o)]]
        dropped == Release(written, <<<<"col", a>>, <<"col", b>>>>)
    IN IF Failing(op, x, y) # {}
       THEN Unwind(Release(written, <<<<"col", a>>, <<"col", b>>, <<"col", c>>>>))
       ELSE stack' = Append(Below, <<"col", c>>) /\ heap' = dropped

(* Two columns of one length.                                               *)
ColumnArith(op) ==
  /\ Len(stack) >= 2
  /\ IsCol(First) /\ IsCol(Second)
  /\ Len(heap[First[2]].data) = Len(heap[Second[2]].data)
  /\ VecArith(op, heap, First[2], Second[2])
  /\ UNCHANGED <<twin, lit, named>>

(* A scalar operand is broadcast to a column of its own first.              *)
BroadcastArith(op) ==
  /\ Len(stack) >= 2
  /\ IsCol(First) # IsCol(Second)
  /\ \E c \in FreeCols :
       IF IsCol(First)
       THEN LET fresh == [rc |-> 1, data |-> Broadcast(Second[2], Len(heap[First[2]].data))]
            IN VecArith(op, [heap EXCEPT ![c] = fresh], First[2], c)
       ELSE LET fresh == [rc |-> 1, data |-> Broadcast(First[2], Len(heap[Second[2]].data))]
            IN VecArith(op, [heap EXCEPT ![c] = fresh], c, Second[2])
  /\ UNCHANGED <<twin, lit, named>>

Next == \/ \E l \in Literals : Push(<<"col", lit[l]>>)
        \/ \E e \in Scalars : Push(<<"num", e>>)
        \/ \E n \in Names : named[n] # <<>> /\ Push(named[n])
        \/ \E n \in Names : Bind(n) \/ Forget(n)
        \/ Pop
        \/ \E op \in Ops : ScalarArith(op) \/ ColumnArith(op) \/ BroadcastArith(op)
        \/ LengthMismatch

Spec == Init /\ [][Next]_vars
----------------------------------------------------------------------------
Value == {<<>>} \cup {<<"num", e>> : e \in Elem} \cup {<<"col", c>> : c \in Cols}

TypeOK ==
  /\ heap \in [Cols -> [rc : Nat, data : Column]]
  /\ lit \in [Literals -> Cols]
  /\ stack \in Seq(Value \ {<<>>})
  /\ named \in [Names -> Value]

(* How many references to c the program, its names and its operands hold.   *)
Holders(c) ==
  Refs(c, stack) + Cardinality({n \in Names : named[n] = <<"col", c>>})
                 + Cardinality({l \in Literals : lit[l] = c})

(* In Rust the count of a column is the number of references to it, after   *)
(* an error halfway through a division too: nothing leaks, and a column is  *)
(* overwritten whenever nobody else can reach it.                           *)
CountsExact == twin = "rust" => \A c \in Cols : heap[c].rc = Holders(c)

(* In C counts leak with the envs of blocks, but in neither implementation  *)
(* do they fall short: a column is neither freed nor overwritten while      *)
(* somebody else can reach it.                                              *)
CountsCover == \A c \in Cols : heap[c].rc >= Holders(c)

(* "safe and unobservable" (SPEC section 10.2): values stay immutable.      *)
Seen(v) == IF IsCol(v) THEN <<"col", heap[v[2]].data>> ELSE v
Pure == INSTANCE PureColumns WITH
          stack <- [i \in 1..Len(stack) |-> Seen(stack[i])],
          named <- [n \in Names |-> Seen(named[n])]
ImplementsPureColumns == Pure!PSpec
=============================================================================
