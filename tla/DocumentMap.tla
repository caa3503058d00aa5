---------------------------- MODULE DocumentMap -----------------------------
(***************************************************************************)
(* What a language server promises of the documents it remembers: a map    *)
(* from uris to the texts last received for them, with room for limit of   *)
(* them; a text for which there is no room is not remembered.              *)
(***************************************************************************)
EXTENDS Naturals, Sequences, FiniteSets

VARIABLES
  limit,   (* how many are remembered     *)
  unread,  (* messages not read           *)
  map      (* uri -> text, of some uris   *)

Init == limit \in Nat /\ unread = <<>> /\ map = [u \in {} |-> <<>>]

Arrive ==
  /\ Len(unread') = Len(unread) + 1
  /\ SubSeq(unread', 1, Len(unread)) = unread
  /\ UNCHANGED map

TextsOf(m) == IF m.method \in {"didOpen", "didChange"} THEN m.texts ELSE <<>>

HasRoom(u) == u \in DOMAIN map \/ Cardinality(DOMAIN map) < limit

Put(u, x) ==
  IF HasRoom(u)
  THEN map' = [v \in DOMAIN map \cup {u} |-> IF v = u THEN x ELSE map[v]]
  ELSE UNCHANGED map

Drop(u) == map' = [v \in DOMAIN map \ {u} |-> map[v]]

Read ==
  /\ unread # <<>>
  /\ unread' = Tail(unread)
  /\ LET m == Head(unread)
         xs == TextsOf(m)
     IN  IF m.method = "didClose" THEN Drop(m.uri)
         ELSE IF xs = <<>> THEN UNCHANGED map
         ELSE Put(m.uri, xs[Len(xs)])

Next == (Arrive \/ Read) /\ UNCHANGED limit

Spec == Init /\ [][Next]_<<limit, unread, map>>
=============================================================================
