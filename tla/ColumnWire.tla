----------------------------- MODULE ColumnWire -----------------------------
(***************************************************************************)
(* A column of scalars is written to bytes, chunk by chunk, and read again *)
(* from as many of them as have come (encode_col and decode_col of         *)
(* src/c/wire.c, and the loops of the codecs they call).                   *)
(***************************************************************************)
EXTENDS Chunks

CONSTANT Inputs         (* the columns that may be written                  *)

VARIABLES
  status,       (* what goes on                                             *)
  column,       (* what is written                                          *)
  bytes,        (* what has been                                            *)
  part,         (* the buffer that is being written, and how many of its    *)
  off,          (*   slots have been                                        *)
  input,        (* the bytes that have come                                 *)
  place,        (* where the next one to be read is                         *)
  head,         (* what was said of the column before its buffers           *)
  done,         (* the buffers that have been read                          *)
  got           (* the slots of the next one that have been                 *)
vars == <<status, column, bytes, part, off, input, place, head, done, got>>

(* The buffers of a column, each with its kind: the marks of its nils, its  *)
(* selectors, and the slots of each case.                                   *)
Parts(c) ==
  [j \in 1..Len(c.present) |-> <<"bit", c.present[j]>>]
    \o [j \in 1..Len(c.sel) |-> <<"u8", c.sel[j]>>]
    \o c.cases

PartKinds(h) ==
  [j \in 1..h.present |-> "bit"] \o [j \in 1..h.sel |-> "u8"] \o h.kinds

(* The column that has been read.                                           *)
Rebuilt ==
  [len     |-> head.len,
   present |-> SubSeq(done, 1, head.present),
   sel     |-> SubSeq(done, head.present + 1, head.present + head.sel),
   cases   |-> [j \in 1..Len(head.kinds) |->
                  <<head.kinds[j], done[head.present + head.sel + j]>>]]

(* Columns as they are made: a slot of each case for each element.          *)
IsColumn(c) ==
  LET SlotsOf(S) == [1..c.len -> S]
  IN  /\ c \in [len : Nat, present : Seq(SlotsOf({0, 1})), sel : Seq(SlotsOf(Nat)),
                 cases : Seq(Scalars \X SlotsOf(Int))]
      /\ c.len < Power(Base, 4)
      /\ Len(c.present) <= 1 /\ Len(c.sel) <= 1 /\ Len(c.cases) \in 1..MaxCases
      /\ \A j \in 1..Len(c.cases), i \in 1..c.len :
           c.cases[j][2][i] \in Elements(c.cases[j][1])
      /\ \A q \in 1..Len(c.sel), i \in 1..c.len : c.sel[q][i] < Len(c.cases)

ASSUME InputsAssumption == \A c \in Inputs : IsColumn(c)

----------------------------------------------------------------------------
Init ==
  /\ status = "starting"
  /\ column \in Inputs
  /\ bytes = <<>> /\ part = 1 /\ off = 0
  /\ input = <<>> /\ place = 1
  /\ head = [len |-> 0, present |-> 0, sel |-> 0, kinds |-> <<>>]
  /\ done = <<>> /\ got = <<>>

UnchangedReader == UNCHANGED <<input, place, head, done, got>>
UnchangedWriter == UNCHANGED <<column, bytes, part, off>>

WriteHeader ==
  /\ status = "starting"
  /\ status' = "writing"
  /\ bytes' = Header(column)
  /\ UNCHANGED <<column, part, off>> /\ UnchangedReader

(* The slots of a buffer that come next.                                    *)
NextSlots ==
  SubSeq(Parts(column)[part][2], off + 1, Smaller(off + ChunkLen, column.len))

WriteChunk ==
  /\ status = "writing"
  /\ part <= Len(Parts(column))
  /\ off < column.len
  /\ bytes' = bytes \o Coded(Parts(column)[part][1], NextSlots)
  /\ off' = Smaller(off + ChunkLen, column.len)
  /\ UNCHANGED <<status, column, part>> /\ UnchangedReader

PartWritten ==
  /\ status = "writing"
  /\ part <= Len(Parts(column))
  /\ off >= column.len
  /\ part' = part + 1
  /\ off' = 0
  /\ UNCHANGED <<status, column, bytes>> /\ UnchangedReader

(* The bytes may be cut anywhere before they are read.                      *)
HandOver ==
  /\ status = "writing"
  /\ part > Len(Parts(column))
  /\ \E n \in 0..Len(bytes) : input' = SubSeq(bytes, 1, n)
  /\ status' = "arrived"
  /\ UNCHANGED <<place, head, done, got>> /\ UnchangedWriter

ReadHeader ==
  /\ status = "arrived"
  /\ LET r == RHeader(input, place)
     IN  IF r.ok
         THEN status' = "reading" /\ head' = r.v /\ place' = r.i
         ELSE status' = "refused" /\ UNCHANGED <<head, place>>
  /\ UNCHANGED <<input, done, got>> /\ UnchangedWriter

(* Mutant of ReadChunk: the last chunk of a buffer is as long as any.       *)
ReadFullChunk ==
  /\ status = "reading"
  /\ Len(done) < Len(PartKinds(head))
  /\ Len(got) < head.len
  /\ LET r == RChunk(PartKinds(head)[Len(done) + 1], ChunkLen, input, place)
     IN  IF r.ok
         THEN got' = got \o r.v /\ place' = r.i /\ UNCHANGED status
         ELSE status' = "refused" /\ UNCHANGED <<got, place>>
  /\ UNCHANGED <<input, head, done>> /\ UnchangedWriter

ReadChunk ==
  /\ status = "reading"
  /\ Len(done) < Len(PartKinds(head))
  /\ Len(got) < head.len
  /\ LET n == Smaller(head.len - Len(got), ChunkLen)
         r == RChunk(PartKinds(head)[Len(done) + 1], n, input, place)
     IN  IF r.ok
         THEN got' = got \o r.v /\ place' = r.i /\ UNCHANGED status
         ELSE status' = "refused" /\ UNCHANGED <<got, place>>
  /\ UNCHANGED <<input, head, done>> /\ UnchangedWriter

PartRead ==
  /\ status = "reading"
  /\ Len(done) < Len(PartKinds(head))
  /\ Len(got) >= head.len
  /\ done' = Append(done, got)
  /\ got' = <<>>
  /\ UNCHANGED <<status, input, place, head>> /\ UnchangedWriter

(* A selector must name a case.                                             *)
Finish ==
  /\ status = "reading"
  /\ Len(done) = Len(PartKinds(head))
  /\ status' = IF \A q \in 1..Len(Rebuilt.sel) : \A j \in 1..head.len :
                    Rebuilt.sel[q][j] < Len(head.kinds)
               THEN "done" ELSE "refused"
  /\ UnchangedReader /\ UnchangedWriter

Next ==
  \/ WriteHeader \/ WriteChunk \/ PartWritten \/ HandOver
  \/ ReadHeader \/ ReadChunk \/ PartRead \/ Finish

Spec == Init /\ [][Next]_vars

----------------------------------------------------------------------------
(* Parts of columns, headers and what can be read of either have their      *)
(* types, and bytes are bytes.                                              *)
Heads ==
  [len : Nat, present : 0..1, sel : 0..1, kinds : Seq({"bit", "i64", "f64", "u8"})]
TypeOK ==
  /\ status \in {"starting", "writing", "arrived", "reading", "done", "refused"}
  /\ column \in Inputs
  /\ bytes \in Seq(0..Base - 1) /\ input \in Seq(0..Base - 1)
  /\ part \in 1..Len(Parts(column)) + 1 /\ off \in 0..column.len
  /\ place \in 1..Len(input) + 1
  /\ head \in Heads
  /\ done \in Seq(Seq(Int)) /\ got \in Seq(Int)

(* A column that was read is the one that was written, and no byte is left: *)
(* the reader takes the chunks apart where the writer put them together,    *)
(* whatever the coding of each (encode_col and decode_col).                 *)
ColumnComesBack ==
  status = "done" => Rebuilt = column /\ place = Len(input) + 1

(* A column is refused if its bytes were cut, wherever that was, and only   *)
(* then (need, ru8, ru16, ru32 and ri64).                                   *)
RefusedIfCut ==
  /\ status = "done" => input = bytes
  /\ status = "refused" => input # bytes

(* No chunk could have been written shorter: the sizes that enc_u8s,        *)
(* enc_i64s and enc_f64s compare are those of what they write.              *)
Codings(kind, s) ==
  CASE kind = "bit" -> {<<0>> \o BitsAsBytes(s)}
    [] kind = "i64" -> {Raw(kind, s), InRuns(kind, s), Packed(s)}
    [] kind \in {"u8", "f64"} -> {Raw(kind, s), InRuns(kind, s)}

ChunkIsShortest ==
  \A other \in Codings(Parts(column)[part][1], NextSlots) :
    Len(bytes') <= Len(bytes) + Len(other)
ChunksAreShortest == [][off < off' => ChunkIsShortest]_vars
=============================================================================
