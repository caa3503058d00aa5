------------------------ MODULE LanguageServer_proofs ------------------------
(***************************************************************************)
(* That both language servers keep a map of documents, that what an editor *)
(* shows in the end is current, and that its requests are answered in the  *)
(* order they were asked in. The first needs to know only what one message *)
(* does. The others are about what is on its way: whatever the server and  *)
(* the editor have not read yet, there are documents as the editor had     *)
(* them before each unread message, screens as it will show them after     *)
(* each unread answer, and a place among them for every request that       *)
(* waits; each step adds one to these at an end or takes one away.         *)
(***************************************************************************)
EXTENDS LanguageServer, SequenceTheorems, FiniteSetTheorems, TLAPS

----------------------------------------------------------------------------
(* A sequence without its last element.                                     *)
LEMMA FrontIsShorter ==
  ASSUME NEW S, NEW s \in Seq(S), Len(s) > 0
  PROVE  /\ SubSeq(s, 1, Len(s) - 1) \in Seq(S)
         /\ Len(SubSeq(s, 1, Len(s) - 1)) = Len(s) - 1
         /\ \A i \in 1..Len(s) - 1 : SubSeq(s, 1, Len(s) - 1)[i] = s[i]
  <1>1. Len(s) \in Nat
    BY LenProperties
  <1>2. 1 \in Int /\ Len(s) - 1 \in Int
    BY <1>1
  <1>3. \A i \in 1..Len(s) - 1 : s[i] \in S
    BY <1>1, ElementOfSeq
  <1>4. /\ SubSeq(s, 1, Len(s) - 1) \in Seq(S)
        /\ Len(SubSeq(s, 1, Len(s) - 1)) =
             IF 1 <= Len(s) - 1 THEN Len(s) - 1 - 1 + 1 ELSE 0
        /\ \A i \in 1..Len(s) - 1 - 1 + 1 : SubSeq(s, 1, Len(s) - 1)[i] = s[1 + i - 1]
    BY <1>2, <1>3, SubSeqProperties
  <1>5. \A k \in Nat : k > 0 =>
          /\ k - 1 - 1 + 1 = k - 1
          /\ (IF 1 <= k - 1 THEN k - 1 - 1 + 1 ELSE 0) = k - 1
    OBVIOUS
  <1>6. \A i \in Int : 1 + i - 1 = i
    OBVIOUS
  <1>7. 1..Len(s) - 1 \subseteq Int
    BY <1>2
  <1> QED
    BY <1>1, <1>4, <1>5, <1>6, <1>7, Zenon

LEMMA SingletonIsASeq ==
  ASSUME NEW S, NEW e \in S
  PROVE  <<e>> \in Seq(S) /\ Len(<<e>>) = 1 /\ <<e>>[1] = e
  OBVIOUS

Entries == [uri : Uris, text : Texts]

(* Tables in which every document has one entry, the documents they hold,   *)
(* and what they hold of them.                                              *)
Tables ==
  {t \in Seq(Entries) : \A i, j \in 1..Len(t) : t[i].uri = t[j].uri => i = j}
UrisOf(t) == {t[i].uri : i \in DOMAIN t}
MapOf(t) == [u \in UrisOf(t) |-> t[Min(At(t, u))].text]

(* The least of one number.                                                 *)
LEMMA LeastOfOne ==
  \A i \in Int : Min({i}) = i
  BY DEF Min

(* What a table and its entries are.                                        *)
LEMMA TableIsASeq ==
  ASSUME NEW t \in Tables
  PROVE  /\ t \in Seq(Entries) /\ Len(t) \in Nat /\ DOMAIN t = 1..Len(t)
         /\ \A i \in 1..Len(t) : t[i] \in Entries /\ t[i].uri \in Uris
            /\ t[i].text \in Texts
         /\ \A i, j \in 1..Len(t) : t[i].uri = t[j].uri => i = j
  <1>1. t \in Seq(Entries)
        /\ \A i, j \in 1..Len(t) : t[i].uri = t[j].uri => i = j
    BY DEF Tables
  <1>2. \A i \in 1..Len(t) : t[i] \in Entries
    BY <1>1, ElementOfSeq
  <1> QED
    BY <1>1, <1>2, LenProperties DEF Entries

(* The entry of a document is where doc_get finds it.                       *)
LEMMA FoundAt ==
  ASSUME NEW t \in Tables, NEW i \in 1..Len(t)
  PROVE  /\ At(t, t[i].uri) = {i} /\ Min(At(t, t[i].uri)) = i
         /\ t[i].uri \in UrisOf(t)
         /\ MapOf(t)[t[i].uri] = t[i].text
  <1>1. DOMAIN t = 1..Len(t)
        /\ \A j \in 1..Len(t) : t[i].uri = t[j].uri => i = j
    BY TableIsASeq
  <1>2. At(t, t[i].uri) = {i}
    BY <1>1 DEF At
  <1>3. Min(At(t, t[i].uri)) = i
    BY <1>2, LeastOfOne
  <1>4. t[i].uri \in UrisOf(t)
    BY <1>1 DEF UrisOf
  <1> QED
    BY <1>2, <1>3, <1>4 DEF MapOf

(* What a table holds, said without looking for an entry.                   *)
LEMMA MapOfTable ==
  ASSUME NEW t \in Tables, NEW D, NEW g \in [D -> Texts],
         \A i \in 1..Len(t) : t[i].uri \in D /\ g[t[i].uri] = t[i].text,
         \A u \in D : \E i \in 1..Len(t) : t[i].uri = u
  PROVE  UrisOf(t) = D /\ MapOf(t) = g
  <1>1. DOMAIN t = 1..Len(t)
    BY TableIsASeq
  <1>2. UrisOf(t) = D
    BY <1>1 DEF UrisOf
  <1>3. \A u \in D : MapOf(t)[u] = g[u]
    BY FoundAt
  <1>4. MapOf(t) = [u \in D |-> MapOf(t)[u]] /\ g = [u \in D |-> g[u]]
    BY <1>2 DEF MapOf
  <1> QED
    BY <1>2, <1>3, <1>4

(* A table holds one text of each of its documents.                         *)
LEMMA MapIsTyped ==
  ASSUME NEW t \in Tables
  PROVE  /\ MapOf(t) \in [UrisOf(t) -> Texts] /\ UrisOf(t) \subseteq Uris
         /\ \A u : u \in UrisOf(t) <=> At(t, u) # {}
         /\ \A u \in UrisOf(t) : \E i \in 1..Len(t) : t[i].uri = u
  <1>1. /\ DOMAIN t = 1..Len(t)
        /\ \A i \in 1..Len(t) : t[i].uri \in Uris /\ t[i].text \in Texts
    BY TableIsASeq
  <1>2. \A u \in UrisOf(t) : \E i \in 1..Len(t) : t[i].uri = u
    BY <1>1 DEF UrisOf
  <1>3. \A u \in UrisOf(t) : MapOf(t)[u] \in Texts
    BY <1>1, <1>2, FoundAt
  <1>4. MapOf(t) = [u \in UrisOf(t) |-> MapOf(t)[u]]
    BY DEF MapOf
  <1>5. UrisOf(t) \subseteq Uris
    BY <1>1, <1>2
  <1>6. \A u : u \in UrisOf(t) <=> At(t, u) # {}
    BY <1>1 DEF UrisOf, At
  <1> HIDE DEF MapOf, UrisOf
  <1>7. MapOf(t) \in [UrisOf(t) -> Texts]
    BY <1>3, <1>4
  <1> QED
    BY <1>2, <1>5, <1>6, <1>7

(* A table has as many entries as it holds documents.                       *)
LEMMA AsManyAsEntries ==
  ASSUME NEW t \in Tables
  PROVE  IsFiniteSet(UrisOf(t)) /\ Cardinality(UrisOf(t)) = Len(t)
  <1> DEFINE f == [i \in 1..Len(t) |-> t[i].uri]
  <1>1. /\ Len(t) \in Nat /\ DOMAIN t = 1..Len(t)
        /\ \A i, j \in 1..Len(t) : t[i].uri = t[j].uri => i = j
    BY TableIsASeq
  <1>2. f \in Bijection(1..Len(t), UrisOf(t))
    BY <1>1 DEF Bijection, Injection, Surjection, IsInjective, UrisOf
  <1>3. IsFiniteSet(1..Len(t)) /\ Cardinality(1..Len(t)) = Len(t)
    BY <1>1, FS_Interval
  <1>4. ExistsBijection(1..Len(t), UrisOf(t))
    BY <1>2 DEF ExistsBijection
  <1> QED
    BY <1>3, <1>4, FS_Bijection

With(g, u, x) == [v \in DOMAIN g \cup {u} |-> IF v = u THEN x ELSE g[v]]
Without(g, u) == [v \in DOMAIN g \ {u} |-> g[v]]

(* doc_put over an entry: the text of its document, and no other, is        *)
(* replaced.                                                                *)
LEMMA TextReplaced ==
  ASSUME NEW t \in Tables, NEW i \in 1..Len(t), NEW x \in Texts
  PROVE  /\ [t EXCEPT ![i] = Entry(t[i].uri, x)] \in Tables
         /\ Len([t EXCEPT ![i] = Entry(t[i].uri, x)]) = Len(t)
         /\ MapOf([t EXCEPT ![i] = Entry(t[i].uri, x)])
              = With(MapOf(t), t[i].uri, x)
  <1> DEFINE s == [t EXCEPT ![i] = Entry(t[i].uri, x)]
             u == t[i].uri
             g == With(MapOf(t), u, x)
  <1>1. /\ t \in Seq(Entries) /\ Len(t) \in Nat
        /\ \A j \in 1..Len(t) : t[j] \in Entries
        /\ \A j, k \in 1..Len(t) : t[j].uri = t[k].uri => j = k
    BY TableIsASeq
  <1> DEFINE e == Entry(u, x)
  <1>2. e \in Entries /\ e.uri = u /\ e.text = x
    BY <1>1 DEF Entries, Entry
  <1>3. s = [t EXCEPT ![i] = e]
    BY <1>1
  <1> HIDE DEF e
  <1>4. s \in Seq(Entries) /\ Len(s) = Len(t)
        /\ \A j \in 1..Len(t) : s[j] = IF j = i THEN e ELSE t[j]
    BY <1>1, <1>2, <1>3, ExceptSeq
  <1> HIDE DEF s
  <1>5. \A j \in 1..Len(t) : s[j].uri = t[j].uri /\ s[j].text
          = IF j = i THEN x ELSE t[j].text
    BY <1>2, <1>4
  <1>6. s \in Tables
    BY <1>1, <1>4, <1>5 DEF Tables
  <1>7. MapOf(t) \in [UrisOf(t) -> Texts] /\ u \in UrisOf(t)
    BY MapIsTyped, FoundAt
  <1>8. g \in [UrisOf(t) -> Texts]
        /\ \A v \in UrisOf(t) : g[v] = IF v = u THEN x ELSE MapOf(t)[v]
    BY <1>7 DEF With
  <1>9. \A j \in 1..Len(s) : s[j].uri \in UrisOf(t) /\ g[s[j].uri] = s[j].text
    BY <1>1, <1>4, <1>5, <1>8, FoundAt
  <1>10. \A v \in UrisOf(t) : \E j \in 1..Len(s) : s[j].uri = v
    BY <1>4, <1>5, MapIsTyped
  <1>11. MapOf(s) = g
    <2> HIDE DEF g
    <2> QED
      BY <1>6, <1>8, <1>9, <1>10, MapOfTable
  <1> QED
    BY <1>4, <1>6, <1>11 DEF s

(* doc_put of a document without an entry: one is appended.                 *)
LEMMA EntryAppended ==
  ASSUME NEW t \in Tables, NEW u \in Uris, u \notin UrisOf(t), NEW x \in Texts
  PROVE  /\ Append(t, Entry(u, x)) \in Tables
         /\ Len(Append(t, Entry(u, x))) = Len(t) + 1
         /\ MapOf(Append(t, Entry(u, x))) = With(MapOf(t), u, x)
  <1> DEFINE s == Append(t, Entry(u, x))
             g == With(MapOf(t), u, x)
             D == UrisOf(t) \cup {u}
  <1>1. /\ t \in Seq(Entries) /\ Len(t) \in Nat
        /\ \A j, k \in 1..Len(t) : t[j].uri = t[k].uri => j = k
    BY TableIsASeq
  <1>2. Entry(u, x) \in Entries /\ Entry(u, x).uri = u /\ Entry(u, x).text = x
    BY DEF Entries, Entry
  <1>3. /\ s \in Seq(Entries) /\ Len(s) = Len(t) + 1
        /\ \A j \in 1..Len(t) : s[j] = t[j]
        /\ s[Len(t) + 1] = Entry(u, x)
    BY <1>1, <1>2, AppendProperties
  <1> HIDE DEF s
  <1>4. \A j \in 1..Len(t) : t[j].uri \in UrisOf(t)
        /\ MapOf(t)[t[j].uri] = t[j].text
    BY FoundAt
  <1>5. \A j \in 1..Len(s) : j = Len(t) + 1 \/ j \in 1..Len(t)
    BY <1>1, <1>3
  <1>6. s \in Tables
    BY <1>1, <1>2, <1>3, <1>4, <1>5 DEF Tables
  <1>7. MapOf(t) \in [UrisOf(t) -> Texts]
    BY MapIsTyped
  <1>8. g \in [D -> Texts]
        /\ \A v \in D : g[v] = IF v = u THEN x ELSE MapOf(t)[v]
    BY <1>7 DEF With
  <1>9. \A j \in 1..Len(s) : s[j].uri \in D /\ g[s[j].uri] = s[j].text
    BY <1>2, <1>3, <1>4, <1>5, <1>8
  <1>10. \A v \in D : \E j \in 1..Len(s) : s[j].uri = v
    <2>1. Len(s) \in 1..Len(s) /\ s[Len(s)].uri = u
          /\ 1..Len(t) \subseteq 1..Len(s)
      BY <1>1, <1>2, <1>3
    <2> QED
      BY <1>3, <2>1, MapIsTyped
  <1>11. MapOf(s) = g
    <2> HIDE DEF g, D
    <2> QED
      BY <1>6, <1>8, <1>9, <1>10, MapOfTable
  <1> QED
    BY <1>3, <1>6, <1>11 DEF s

(* doc_del: the last entry takes the place of the one that goes, and what   *)
(* is held of the others stays.                                             *)
LEMMA EntryRemoved ==
  ASSUME NEW t \in Tables, NEW i \in 1..Len(t)
  PROVE  LET s == SubSeq([t EXCEPT ![i] = t[Len(t)]], 1, Len(t) - 1)
         IN  /\ s \in Tables
             /\ Len(s) = Len(t) - 1
             /\ MapOf(s) = Without(MapOf(t), t[i].uri)
  <1> DEFINE r == [t EXCEPT ![i] = t[Len(t)]]
             s == SubSeq(r, 1, Len(t) - 1)
             u == t[i].uri
             g == Without(MapOf(t), u)
             D == UrisOf(t) \ {u}
  <1>1. /\ t \in Seq(Entries) /\ Len(t) \in Nat
        /\ \A j \in 1..Len(t) : t[j] \in Entries
        /\ \A j, k \in 1..Len(t) : t[j].uri = t[k].uri => j = k
    BY TableIsASeq
  <1>2. Len(t) > 0 /\ Len(t) \in 1..Len(t)
    BY <1>1
  <1>3. r \in Seq(Entries) /\ Len(r) = Len(t)
        /\ \A j \in 1..Len(t) : r[j] = IF j = i THEN t[Len(t)] ELSE t[j]
    BY <1>1, <1>2, ExceptSeq
  <1> HIDE DEF r
  <1>4. s \in Seq(Entries) /\ Len(s) = Len(t) - 1
        /\ \A j \in 1..Len(t) - 1 : s[j] = r[j]
    BY <1>2, <1>3, FrontIsShorter
  <1> HIDE DEF s
  <1>5. \A j \in 1..Len(s) : j \in 1..Len(t) /\ j # Len(t)
        /\ s[j] = IF j = i THEN t[Len(t)] ELSE t[j]
    BY <1>1, <1>3, <1>4
  <1>6. s \in Tables
    BY <1>1, <1>2, <1>4, <1>5 DEF Tables
  <1>7. MapOf(t) \in [UrisOf(t) -> Texts]
    BY MapIsTyped
  <1>8. g \in [D -> Texts] /\ \A v \in D : g[v] = MapOf(t)[v]
    BY <1>7 DEF Without
  <1>9. \A j \in 1..Len(s) : s[j].uri \in D /\ g[s[j].uri] = s[j].text
    <2> TAKE j \in 1..Len(s)
    <2>1. PICK k \in 1..Len(t) : s[j] = t[k] /\ k # i
      BY <1>2, <1>5
    <2>2. t[k].uri \in UrisOf(t) /\ MapOf(t)[t[k].uri] = t[k].text
      BY FoundAt
    <2> QED
      BY <1>1, <1>8, <2>1, <2>2
  <1>10. \A v \in D : \E j \in 1..Len(s) : s[j].uri = v
    <2> TAKE v \in D
    <2>1. PICK k \in 1..Len(t) : t[k].uri = v /\ k # i
      BY MapIsTyped
    <2>2. CASE k = Len(t)
      <3>1. i \in 1..Len(s)
        BY <1>1, <1>4, <2>1, <2>2
      <3> QED
        BY <1>5, <2>1, <2>2, <3>1
    <2>3. CASE k # Len(t)
      <3>1. k \in 1..Len(s)
        BY <1>1, <1>4, <2>3
      <3> QED
        BY <1>5, <2>1, <3>1
    <2> QED
      BY <2>2, <2>3
  <1>11. MapOf(s) = g
    <2> HIDE DEF g, D
    <2> QED
      BY <1>6, <1>8, <1>9, <1>10, MapOfTable
  <1> QED
    BY <1>4, <1>6, <1>11 DEF s, r

----------------------------------------------------------------------------
Held == [u \in Remembered |-> DocGet(u)]

DocsTyped ==
  \/ /\ twin = "rust" /\ room = Cardinality(Uris)
     /\ DOMAIN docs \subseteq Uris /\ docs \in [DOMAIN docs -> Texts]
  \/ /\ twin = "c" /\ room \in Nat
     /\ docs \in Tables /\ Len(docs) <= room

(* What the map in Rust remembers is the map itself.                        *)
LEMMA HeldInRust ==
  ASSUME DocsTyped, twin = "rust"
  PROVE  /\ Remembered = DOMAIN docs /\ Held = docs
         /\ DOMAIN docs \subseteq Uris /\ docs \in [DOMAIN docs -> Texts]
         /\ \A u : Stored(u) <=> u \in DOMAIN docs
  <1>1. DOMAIN docs \subseteq Uris /\ docs \in [DOMAIN docs -> Texts]
    BY DEF DocsTyped
  <1>2. Remembered = DOMAIN docs
    BY DEF Remembered
  <1>3. \A u \in DOMAIN docs : DocGet(u) = docs[u]
    BY DEF DocGet
  <1>4. Held = docs
    <2>1. docs = [u \in DOMAIN docs |-> docs[u]]
      BY <1>1
    <2> QED
      BY <1>2, <1>3, <2>1 DEF Held
  <1> QED
    BY <1>1, <1>2, <1>4 DEF Stored

(* What the table in C remembers is what its entries hold.                  *)
LEMMA HeldInC ==
  ASSUME DocsTyped, twin = "c"
  PROVE  /\ Remembered = UrisOf(docs) /\ Held = MapOf(docs)
         /\ docs \in Tables /\ Len(docs) <= room
         /\ \A u : Stored(u) <=> At(docs, u) # {}
         /\ \A u : DocGet(u) = docs[Min(At(docs, u))].text
  <1>1. docs \in Tables /\ Len(docs) <= room
    BY DEF DocsTyped
  <1>2. Remembered = UrisOf(docs)
    BY DEF Remembered, UrisOf
  <1>3. \A u : DocGet(u) = docs[Min(At(docs, u))].text
    BY DEF DocGet
  <1>4. Held = MapOf(docs)
    BY <1>2, <1>3 DEF Held, MapOf
  <1> QED
    BY <1>1, <1>2, <1>3, <1>4 DEF Stored

(* What a server remembers, however it does: no more documents than it has  *)
(* room for.                                                                *)
LEMMA HeldIsTyped ==
  ASSUME DocsTyped
  PROVE  /\ twin \in {"rust", "c"} /\ room \in Nat
         /\ Held \in [Remembered -> Texts] /\ Remembered \subseteq Uris
         /\ \A u \in Remembered : DocGet(u) = Held[u] /\ Held[u] \in Texts
         /\ \A u : Stored(u) <=> u \in Remembered
         /\ IsFiniteSet(Remembered)
         /\ Cardinality(Remembered) \in Nat /\ Cardinality(Remembered) <= room
  <1>1. IsFiniteSet(Uris)
    BY ServerAssumption
  <1>2. twin \in {"rust", "c"} /\ room \in Nat
    BY <1>1, FS_CardinalityType DEF DocsTyped
  <1>3. \A u \in Remembered : DocGet(u) = Held[u]
    BY DEF Held
  <1>4. CASE twin = "rust"
    <2>1. Remembered \subseteq Uris /\ Held \in [Remembered -> Texts]
          /\ \A u : Stored(u) <=> u \in Remembered
      BY <1>4, HeldInRust
    <2>2. /\ IsFiniteSet(Remembered) /\ Cardinality(Remembered) \in Nat
          /\ Cardinality(Remembered) <= room
      BY <1>1, <1>4, <2>1, FS_Subset, FS_CardinalityType DEF DocsTyped
    <2> QED
      BY <1>2, <1>3, <2>1, <2>2
  <1>5. CASE twin = "c"
    <2>1. /\ Remembered = UrisOf(docs) /\ Held = MapOf(docs)
          /\ docs \in Tables /\ Len(docs) <= room
          /\ \A u : Stored(u) <=> At(docs, u) # {}
      BY <1>5, HeldInC
    <2>2. Remembered \subseteq Uris /\ Held \in [Remembered -> Texts]
          /\ \A u : Stored(u) <=> u \in Remembered
      BY <2>1, MapIsTyped
    <2>3. /\ IsFiniteSet(Remembered) /\ Cardinality(Remembered) \in Nat
          /\ Cardinality(Remembered) <= room
      BY <2>1, AsManyAsEntries, FS_CardinalityType
    <2> QED
      BY <1>2, <1>3, <2>2, <2>3
  <1> QED
    BY <1>2, <1>4, <1>5

(* A text that is received.                                                 *)
HeldAfterPut(u, x) ==
  IF u \in Remembered \/ Cardinality(Remembered) < room
  THEN With(Held, u, x) ELSE Held

(* doc_put does the same to what is remembered in both implementations, but *)
(* where C has no room.                                                     *)
LEMMA PutHeld ==
  ASSUME DocsTyped, NEW u \in Uris, NEW x \in Texts,
         docs' = DocPut(u, x), UNCHANGED server
  PROVE  DocsTyped' /\ Held' = HeldAfterPut(u, x)
  <1>1. twin' = twin /\ room' = room
    BY DEF server
  <1>2. CASE twin = "rust"
    <2>1. /\ Remembered = DOMAIN docs /\ Held = docs
          /\ DOMAIN docs \subseteq Uris /\ docs \in [DOMAIN docs -> Texts]
      BY <1>2, HeldInRust
    <2>2. docs' = With(docs, u, x)
      BY <1>2 DEF DocPut, With
    <2>3. /\ DOMAIN docs' = DOMAIN docs \cup {u} /\ DOMAIN docs' \subseteq Uris
          /\ docs' \in [DOMAIN docs' -> Texts]
      BY <2>1, <2>2 DEF With
    <2>4. DocsTyped'
      BY <1>1, <1>2, <2>3 DEF DocsTyped
    <2>5. Held' = docs'
      <3>1. (DocsTyped /\ twin = "rust" => Held = docs)'
        BY HeldInRust, PTL
      <3> QED
        BY <1>1, <1>2, <2>4, <3>1
    <2>6. u \in Remembered \/ Cardinality(Remembered) < room
      <3> SUFFICES ASSUME u \notin Remembered
                   PROVE Cardinality(Remembered) < room
        OBVIOUS
      <3>1. IsFiniteSet(Uris) /\ Cardinality(Uris) \in Nat
        BY ServerAssumption, FS_CardinalityType
      <3>2. Remembered \in SUBSET Uris
        BY <2>1
      <3>3. /\ IsFiniteSet(Remembered)
               /\ Cardinality(Remembered) <= Cardinality(Uris)
            /\ Cardinality(Uris) # Cardinality(Remembered)
        BY <3>1, <3>2, FS_Subset
      <3> QED
        BY <1>2, <3>1, <3>3, FS_CardinalityType DEF DocsTyped
    <2> QED
      BY <2>1, <2>2, <2>4, <2>5, <2>6 DEF HeldAfterPut
  <1>3. CASE twin = "c"
    <2>1. /\ Remembered = UrisOf(docs) /\ Held = MapOf(docs)
          /\ docs \in Tables /\ Len(docs) <= room /\ room \in Nat
             /\ Len(docs) \in Nat
          /\ \A v : Stored(v) <=> At(docs, v) # {}
      BY <1>3, HeldInC, HeldIsTyped, TableIsASeq
    <2>2. Cardinality(Remembered) = Len(docs)
      BY <2>1, AsManyAsEntries
    <2>3. Stored(u) <=> u \in UrisOf(docs)
      BY <2>1, MapIsTyped
    <2>4. docs' \in Tables /\ Len(docs') <= room
          /\ MapOf(docs') = HeldAfterPut(u, x)
      <3>1. CASE Stored(u)
        <4>1. PICK i \in 1..Len(docs) : docs[i].uri = u
          BY <2>1, <2>3, <3>1, MapIsTyped
        <4>2. Min(At(docs, u)) = i
          BY <2>1, <4>1, FoundAt
        <4>3. docs' = [docs EXCEPT ![i] = Entry(u, x)]
          <5>1. docs[i] \in Entries
            BY <2>1, TableIsASeq
          <5>2. [docs[i] EXCEPT !.text = x] = Entry(u, x)
            BY <4>1, <5>1 DEF Entries, Entry
          <5>3. docs' = [docs EXCEPT ![i].text = x]
            BY <1>3, <3>1, <4>2 DEF DocPut
          <5> QED
            BY <5>2, <5>3
        <4>4. /\ docs' \in Tables /\ Len(docs') = Len(docs)
              /\ MapOf(docs') = With(MapOf(docs), u, x)
          <5>1. docs' = [docs EXCEPT ![i] = Entry(docs[i].uri, x)]
            BY <4>1, <4>3
          <5> DEFINE d == [docs EXCEPT ![i] = Entry(docs[i].uri, x)]
          <5>2. /\ d \in Tables /\ Len(d) = Len(docs)
                /\ MapOf(d) = With(MapOf(docs), docs[i].uri, x)
            BY <2>1, TextReplaced
          <5> HIDE DEF d
          <5>3. docs' = d
            BY <5>1 DEF d
          <5> QED
            BY <4>1, <5>2, <5>3
        <4> QED
          BY <2>1, <2>3, <3>1, <4>4 DEF HeldAfterPut
      <3>2. CASE ~Stored(u) /\ Len(docs) < room
        <4>1. docs' = Append(docs, Entry(u, x))
          BY <1>3, <3>2 DEF DocPut
        <4>2. /\ docs' \in Tables /\ Len(docs') = Len(docs) + 1
              /\ MapOf(docs') = With(MapOf(docs), u, x)
          BY <2>1, <2>3, <3>2, <4>1, EntryAppended
        <4> QED
          BY <2>1, <2>2, <3>2, <4>2 DEF HeldAfterPut
      <3>3. CASE ~Stored(u) /\ ~(Len(docs) < room)
        <4>1. docs' = docs
          BY <1>3, <3>3 DEF DocPut
        <4> QED
          BY <2>1, <2>2, <2>3, <3>3, <4>1 DEF HeldAfterPut
      <3> QED
        BY <3>1, <3>2, <3>3
    <2>5. DocsTyped'
      BY <1>1, <1>3, <2>1, <2>4 DEF DocsTyped
    <2>6. Held' = MapOf(docs')
      <3>1. (DocsTyped /\ twin = "c" => Held = MapOf(docs))'
        BY HeldInC, PTL
      <3> QED
        BY <1>1, <1>3, <2>5, <3>1
    <2> QED
      BY <2>4, <2>5, <2>6
  <1> QED
    BY <1>2, <1>3 DEF DocsTyped

(* A document that is closed.                                               *)
LEMMA DelHeld ==
  ASSUME DocsTyped, NEW u \in Uris, docs' = DocDel(u), UNCHANGED server
  PROVE  DocsTyped' /\ Held' = Without(Held, u)
  <1>1. twin' = twin /\ room' = room
    BY DEF server
  <1>2. CASE twin = "rust"
    <2>1. /\ Remembered = DOMAIN docs /\ Held = docs
          /\ DOMAIN docs \subseteq Uris /\ docs \in [DOMAIN docs -> Texts]
      BY <1>2, HeldInRust
    <2>2. docs' = Without(docs, u)
      BY <1>2 DEF DocDel, Without
    <2>3. /\ DOMAIN docs' = DOMAIN docs \ {u} /\ DOMAIN docs' \subseteq Uris
          /\ docs' \in [DOMAIN docs' -> Texts]
      BY <2>1, <2>2 DEF Without
    <2>4. DocsTyped'
      BY <1>1, <1>2, <2>3 DEF DocsTyped
    <2>5. Held' = docs'
      <3>1. (DocsTyped /\ twin = "rust" => Held = docs)'
        BY HeldInRust, PTL
      <3> QED
        BY <1>1, <1>2, <2>4, <3>1
    <2> QED
      BY <2>1, <2>2, <2>4, <2>5
  <1>3. CASE twin = "c"
    <2>1. /\ Remembered = UrisOf(docs) /\ Held = MapOf(docs)
          /\ docs \in Tables /\ Len(docs) <= room /\ room \in Nat
             /\ Len(docs) \in Nat
          /\ \A v : Stored(v) <=> At(docs, v) # {}
      BY <1>3, HeldInC, HeldIsTyped, TableIsASeq
    <2>3. Stored(u) <=> u \in UrisOf(docs)
      BY <2>1, MapIsTyped
    <2>4. docs' \in Tables /\ Len(docs') <= room
          /\ MapOf(docs') = Without(MapOf(docs), u)
      <3>1. CASE Stored(u)
        <4>1. PICK i \in 1..Len(docs) : docs[i].uri = u
          BY <2>1, <2>3, <3>1, MapIsTyped
        <4>2. Min(At(docs, u)) = i
          BY <2>1, <4>1, FoundAt
        <4>3. docs' = SubSeq([docs EXCEPT ![i] = docs[Len(docs)]], 1,
              Len(docs) - 1)
          BY <1>3, <3>1, <4>2 DEF DocDel
        <4>4. /\ docs' \in Tables /\ Len(docs') = Len(docs) - 1
              /\ MapOf(docs') = Without(MapOf(docs), u)
          BY <2>1, <4>1, <4>3, EntryRemoved
        <4> QED
          BY <2>1, <4>4
      <3>2. CASE ~Stored(u)
        <4>1. docs' = docs
          BY <1>3, <3>2 DEF DocDel
        <4>2. MapOf(docs) = Without(MapOf(docs), u)
          <5>1. MapOf(docs) \in [UrisOf(docs) -> Texts] /\ u \notin UrisOf(docs)
            BY <2>1, <2>3, <3>2, MapIsTyped
          <5>2. UrisOf(docs) \ {u} = UrisOf(docs)
            BY <5>1
          <5>3. MapOf(docs) = [v \in UrisOf(docs) |-> MapOf(docs)[v]]
                /\ DOMAIN MapOf(docs) = UrisOf(docs)
            BY <5>1
          <5> QED
            BY <5>2, <5>3 DEF Without
        <4> QED
          BY <2>1, <4>1, <4>2
      <3> QED
        BY <3>1, <3>2
    <2>5. DocsTyped'
      BY <1>1, <1>3, <2>1, <2>4 DEF DocsTyped
    <2>6. Held' = MapOf(docs')
      <3>1. (DocsTyped /\ twin = "c" => Held = MapOf(docs))'
        BY HeldInC, PTL
      <3> QED
        BY <1>1, <1>3, <2>5, <3>1
    <2> QED
      BY <2>1, <2>4, <2>5, <2>6
  <1> QED
    BY <1>2, <1>3 DEF DocsTyped

(* Documents that are left alone.                                           *)
LEMMA HeldStays ==
  ASSUME DocsTyped, UNCHANGED <<docs, server>>
  PROVE  DocsTyped' /\ Held' = Held /\ Remembered' = Remembered
  BY DEF DocsTyped, Held, Remembered, DocGet, server

----------------------------------------------------------------------------
Methods ==
  {"initialize", "shutdown", "other", "exit", "didOpen", "didChange",
   "didSave", "didClose", "hover", "none"}
Requests == {"initialize", "shutdown", "other", "hover"}
MessageRecords ==
  [method : Methods, id : Ids \cup {NoId}, uri : Uris, texts : Seq(Texts),
   place : Places \cup {NoPlace}]
Messages ==
  {m \in MessageRecords :
     /\ m.id # NoId =>
          m.method \in Requests /\ (m.method = "hover" => m.place \in Places)
     /\ m.method = "didOpen" => Len(m.texts) <= 1}

Views == [Uris -> Texts \cup {Closed}]
Shows == {Clean} \cup {Diagnostics(t, x) : t \in {"rust", "c"}, x \in Texts}
Results == {Null, Capabilities} \cup Known
Answers == [id : Ids, result : Results]
Publications == [uri : Uris, diagnostics : Shows]

Typed ==
  /\ DocsTyped
  /\ text \in Views /\ crowded \in BOOLEAN
  /\ waiting \in Seq(Answers)
  /\ shown \in [Uris -> Shows]
  /\ inbox \in Seq(Messages)
  /\ outbox \in Seq(Answers \cup Publications)

(* What a text that is sent or a document that is closed makes of the       *)
(* editor's documents.                                                      *)
Carries(m) == m.method \in {"didOpen", "didChange"} /\ m.texts # <<>>
After(f, m) ==
  IF Carries(m) THEN [f EXCEPT ![m.uri] = m.texts[Len(m.texts)]]
  ELSE IF m.method = "didClose" THEN [f EXCEPT ![m.uri] = Closed]
  ELSE f

Open(f) == {u \in Uris : f[u] # Closed}
Expected(m, f) ==
  IF m.method = "initialize" THEN Capabilities
  ELSE IF m.method = "hover" /\ f[m.uri] # Closed
       THEN Described[f[m.uri]][m.place]
  ELSE Null

(* The values that stand for no text and no id are none.                    *)
LEMMA NoTextIsClosed ==
  Closed \notin Texts /\ NoId \notin Ids /\ IsFiniteSet(Uris) /\ AnyUri \in Uris
  BY ServerAssumption DEF AnyUri

(* The last of the texts of a message is a text.                            *)
LEMMA LastOfTexts ==
  ASSUME NEW xs \in Seq(Texts), xs # <<>>
  PROVE  xs[Len(xs)] \in Texts /\ Len(xs) \in Nat /\ Len(xs) > 0
  <1>1. Len(xs) \in Nat /\ Len(xs) > 0
    BY EmptySeq
  <1>2. Len(xs) \in 1..Len(xs)
    BY <1>1
  <1> QED
    BY <1>1, <1>2, ElementOfSeq

(* What a message makes of documents are documents.                         *)
LEMMA AfterIsAView ==
  ASSUME NEW f \in Views, NEW m \in Messages
  PROVE  After(f, m) \in Views
  <1>1. m.uri \in Uris /\ m.texts \in Seq(Texts)
    BY DEF Messages, MessageRecords
  <1>2. Carries(m) => m.texts[Len(m.texts)] \in Texts
    BY <1>1, LastOfTexts DEF Carries
  <1> QED
    BY <1>1, <1>2 DEF After, Views

(* The documents that are open can be counted.                              *)
LEMMA OpenIsFinite ==
  ASSUME NEW f
  PROVE  IsFiniteSet(Open(f)) /\ Cardinality(Open(f)) \in Nat
  <1>1. Open(f) \in SUBSET Uris
    BY DEF Open
  <1> QED
    BY <1>1, NoTextIsClosed, FS_Subset, FS_CardinalityType

(* What a request calls for is an answer, and of an open document the one   *)
(* that hover_text gives.                                                   *)
LEMMA ExpectedIsAResult ==
  ASSUME NEW f \in Views, NEW m \in Messages, m.id # NoId
  PROVE  /\ Expected(m, f) \in Results
         /\ m.method = "hover" /\ f[m.uri] # Closed =>
              Expected(m, f) = Hovered(f[m.uri], m.place)
  <1>1. m.uri \in Uris /\ (m.method = "hover" => m.place \in Places)
    BY DEF Messages, MessageRecords
  <1>2. f[m.uri] \in Texts \cup {Closed}
    BY <1>1 DEF Views
  <1>3. \A x \in Texts, place \in Places :
          Described[x][place] = Hovered(x, place)
          /\ Hovered(x, place) \in Results
    BY CountsAlike DEF Hovered, HoverText, Results
  <1> HIDE DEF Hovered
  <1> QED
    BY <1>1, <1>2, <1>3 DEF Expected, Results

----------------------------------------------------------------------------
(* What the editor sends.                                                   *)
Sending(m) ==
  /\ m \in Messages
  /\ inbox' = Append(inbox, m)
  /\ UNCHANGED <<server, shown, outbox, docs>>
  /\ text' = After(text, m) /\ text' \in Views
  /\ crowded' \in BOOLEAN /\ (crowded => crowded')
  /\ ~crowded' /\ Cardinality(Open(text)) <= room
       => Cardinality(Open(text')) <= room
  /\ IF m.id = NoId THEN waiting' = waiting
     ELSE /\ m.id \in Ids /\ ~Waits(m.id)
          /\ waiting' = Append(waiting, Answer(m.id, Expected(m, text)))

(* What an edit makes of the documents, and how it counts those that are    *)
(* open.                                                                    *)
LEMMA BecomesOpen ==
  ASSUME Typed, NEW u \in Uris, NEW x \in Texts \cup {Closed}, Becomes(u, x)
  PROVE  /\ text' = [text EXCEPT ![u] = x] /\ text' \in Views
         /\ waiting' = waiting
         /\ crowded' \in BOOLEAN /\ (crowded => crowded')
         /\ ~crowded' /\ Cardinality(Open(text)) <= room
              => Cardinality(Open(text')) <= room
  <1> DEFINE open == {v \in Uris : v = u \/ text[v] # Closed}
  <1>1. /\ text' = [text EXCEPT ![u] = x] /\ waiting' = waiting
        /\ crowded' = (crowded \/ (x # Closed /\ Cardinality(open) > room))
    BY DEF Becomes
  <1>2. text \in Views /\ crowded \in BOOLEAN /\ room \in Nat
    BY HeldIsTyped DEF Typed
  <1>3. text' \in Views
        /\ \A v \in Uris : text'[v] = IF v = u THEN x ELSE text[v]
    BY <1>1, <1>2 DEF Views
  <1>4. /\ IsFiniteSet(Open(text)) /\ Cardinality(Open(text)) \in Nat
        /\ Cardinality(Open(text')) \in Nat
    BY OpenIsFinite
  <1>5. CASE x = Closed
    <2>1. Open(text') \in SUBSET Open(text)
      BY <1>3, <1>5 DEF Open
    <2>2. Cardinality(Open(text')) <= Cardinality(Open(text))
      BY <1>4, <2>1, FS_Subset
    <2> QED
      BY <1>1, <1>2, <1>3, <1>4, <1>5, <2>2
  <1>6. CASE x # Closed
    <2>1. Open(text') = open
      BY <1>3, <1>6 DEF Open
    <2>2. /\ crowded' \in BOOLEAN /\ (crowded => crowded')
          /\ ~crowded' => ~(Cardinality(open) > room)
      BY <1>1, <1>6, Zenon
    <2> HIDE DEF open
    <2> QED
      BY <1>1, <1>2, <1>3, <1>4, <2>1, <2>2
  <1> QED
    BY <1>5, <1>6

(* A document that is opened.                                               *)
LEMMA OpensSends ==
  ASSUME Typed, NEW u \in Uris, NEW x \in Texts, Opens(u, x)
  PROVE  \E m \in Messages : Sending(m)
  <1> DEFINE m == Message("didOpen", NoId, u, <<x>>, NoPlace)
  <1>1. Becomes(u, x) /\ Sends(m)
    BY DEF Opens
  <1>2. <<x>> \in Seq(Texts) /\ Len(<<x>>) = 1 /\ <<x>>[1] = x /\ <<x>> # <<>>
    BY SingletonIsASeq
  <1>3. m.method = "didOpen" /\ m.id = NoId /\ m.uri = u /\ m.texts = <<x>>
        /\ m \in MessageRecords
    <2>1. "didOpen" \in Methods /\ "didChange" \in Methods
          /\ "didClose" \in Methods
      BY DEF Methods
    <2> QED
      BY <1>2, <2>1 DEF Message, MessageRecords
  <1> HIDE DEF m
  <1>4. m \in Messages
    <2>1. Len(m.texts) <= 1
      BY <1>2, <1>3
    <2> QED
      BY <1>3, <2>1 DEF Messages
  <1>5. After(text, m) = [text EXCEPT ![u] = x]
    BY <1>2, <1>3 DEF After, Carries
  <1>6. Sending(m)
    BY <1>1, <1>3, <1>4, <1>5, BecomesOpen DEF Sending, Sends
  <1> QED
    BY <1>4, <1>6

(* A text that is changed, in pieces or not at all: the last one sent is    *)
(* what it becomes.                                                         *)
LEMMA EditsSends ==
  ASSUME Typed, NEW u \in Uris, NEW xs \in Pieces, Edits(u, xs)
  PROVE  \E m \in Messages : Sending(m)
  <1> DEFINE m == Message("didChange", NoId, u, xs, NoPlace)
             x == Last(<<text[u]>> \o xs)
  <1>1. Becomes(u, x) /\ Sends(m) /\ text[u] # Closed
    BY DEF Edits
  <1>2. xs \in Seq(Texts)
    <2>1. CASE xs = <<>>
      BY <2>1, EmptySeq
    <2>2. CASE xs \in Texts \X Texts
      <3>1. xs = <<xs[1], xs[2]>> /\ xs[1] \in Texts /\ xs[2] \in Texts
        BY <2>2
      <3>2. <<xs[1], xs[2]>> \in Seq(Texts)
        BY <3>1
      <3> QED
        BY <3>1, <3>2
    <2> QED
      BY <2>1, <2>2 DEF Pieces
  <1>3. m.method = "didChange" /\ m.id = NoId /\ m.uri = u /\ m.texts = xs
        /\ m \in MessageRecords
    <2>1. "didOpen" \in Methods /\ "didChange" \in Methods
          /\ "didClose" \in Methods
      BY DEF Methods
    <2> QED
      BY <1>2, <2>1 DEF Message, MessageRecords
  <1> HIDE DEF m
  <1>4. m \in Messages
    BY <1>3 DEF Messages
  <1>5. text \in Views /\ text[u] \in Texts
    BY <1>1 DEF Typed, Views
  <1>6. x \in Texts /\ x = IF xs = <<>> THEN text[u] ELSE xs[Len(xs)]
    <2>1. <<text[u]>> \in Seq(Texts) /\ Len(<<text[u]>>) = 1
          /\ <<text[u]>>[1] = text[u]
      BY <1>5, SingletonIsASeq
    <2>2. Len(xs) \in Nat
          /\ (xs # <<>> => Len(xs) > 0 /\ xs[Len(xs)] \in Texts)
             /\ (xs = <<>> => Len(xs) = 0)
      BY <1>2, LenProperties, LastOfTexts, EmptySeq
    <2> DEFINE s == <<text[u]>> \o xs
    <2>3. Len(s) = 1 + Len(xs)
          /\ \A i \in 1..1 + Len(xs) :
               s[i] = IF i <= 1 THEN <<text[u]>>[i] ELSE xs[i - 1]
      BY <1>2, <2>1, ConcatProperties
    <2> HIDE DEF s
    <2>4. 1 + Len(xs) \in 1..1 + Len(xs) /\ 1 + Len(xs) - 1 = Len(xs)
      BY <2>2
    <2>5. s[Len(s)] = IF xs = <<>> THEN text[u] ELSE xs[Len(xs)]
      BY <2>1, <2>2, <2>3, <2>4
    <2> QED
      BY <1>5, <2>2, <2>5 DEF Last, s
  <1> HIDE DEF x
  <1>7. After(text, m) = [text EXCEPT ![u] = x]
    <2>1. CASE xs = <<>>
      BY <1>3, <1>5, <1>6, <2>1 DEF After, Carries, Views
    <2>2. CASE xs # <<>>
      BY <1>3, <1>6, <2>2 DEF After, Carries
    <2> QED
      BY <2>1, <2>2
  <1>8. Sending(m)
    BY <1>1, <1>3, <1>4, <1>6, <1>7, BecomesOpen DEF Sending, Sends
  <1> QED
    BY <1>4, <1>8

(* A document that is closed.                                               *)
LEMMA ClosesSends ==
  ASSUME Typed, NEW u \in Uris, Closes(u)
  PROVE  \E m \in Messages : Sending(m)
  <1> DEFINE m == Message("didClose", NoId, u, <<>>, NoPlace)
  <1>1. Becomes(u, Closed) /\ Sends(m)
    BY DEF Closes
  <1>2. <<>> \in Seq(Texts)
    BY EmptySeq
  <1>3. m.method = "didClose" /\ m.id = NoId /\ m.uri = u
        /\ m \in MessageRecords
    <2>1. "didOpen" \in Methods /\ "didChange" \in Methods
          /\ "didClose" \in Methods
      BY DEF Methods
    <2> QED
      BY <1>2, <2>1 DEF Message, MessageRecords
  <1> HIDE DEF m
  <1>4. m \in Messages
    BY <1>3 DEF Messages
  <1>5. After(text, m) = [text EXCEPT ![u] = Closed]
    BY <1>3 DEF After, Carries
  <1>6. Sending(m)
    BY <1>1, <1>3, <1>4, <1>5, BecomesOpen DEF Sending, Sends
  <1> QED
    BY <1>4, <1>6

(* A message without a text leaves the documents as they are.               *)
LEMMA TellsSends ==
  ASSUME Typed, NEW u \in Uris, NEW method \in Methods \ {"didClose"},
         Tells(method, u)
  PROVE  \E m \in Messages : Sending(m)
  <1> DEFINE m == Message(method, NoId, u, <<>>, NoPlace)
  <1>1. UNCHANGED <<text, crowded, waiting>> /\ Sends(m)
    BY DEF Tells
  <1>2. <<>> \in Seq(Texts) /\ Len(<<>>) = 0
    BY EmptySeq
  <1>3. m.method = method /\ m.id = NoId /\ m.uri = u /\ m.texts = <<>>
        /\ m \in MessageRecords
    BY <1>2 DEF Message, MessageRecords
  <1> HIDE DEF m
  <1>4. m \in Messages
    BY <1>2, <1>3 DEF Messages
  <1>5. After(text, m) = text
    BY <1>3 DEF After, Carries
  <1>6. text' \in Views /\ crowded' \in BOOLEAN
    BY <1>1 DEF Typed
  <1>7. Sending(m)
    BY <1>1, <1>3, <1>4, <1>5, <1>6 DEF Sending, Sends
  <1> QED
    BY <1>4, <1>7

(* A request is put with those that wait, with the answer it calls for.     *)
LEMMA AsksSends ==
  ASSUME Typed, NEW u \in Uris, NEW method \in Requests,
         NEW place \in Places \cup {NoPlace}, method = "hover"
           => place \in Places,
         NEW r, Asks(method, u, place, r),
         r = IF method = "initialize" THEN Capabilities
             ELSE IF method = "hover" /\ text[u] # Closed
                  THEN Described[text[u]][place]
             ELSE Null
  PROVE  \E m \in Messages : Sending(m)
  <1> DEFINE i == CHOOSE i \in FreeIds : TRUE
             m == Message(method, i, u, <<>>, place)
  <1>1. /\ UNCHANGED <<text, crowded>> /\ Sends(m) /\ FreeIds # {}
        /\ waiting' = Append(waiting, Answer(i, r))
    BY DEF Asks
  <1>2. i \in Ids /\ ~Waits(i)
    BY <1>1 DEF FreeIds
  <1> HIDE DEF i
  <1>3. <<>> \in Seq(Texts)
    BY EmptySeq
  <1>4. m.method = method /\ m.id = i /\ m.uri = u /\ m.texts = <<>>
        /\ m.place = place
        /\ m \in MessageRecords
    <2>1. method \in Methods
      BY DEF Methods, Requests
    <2> QED
      BY <1>2, <1>3, <2>1 DEF Message, MessageRecords
  <1> HIDE DEF m
  <1>5. m.id # NoId
    BY <1>2, <1>4, NoTextIsClosed
  <1>6. m \in Messages
    BY <1>4 DEF Messages, Requests
  <1>7. After(text, m) = text
    BY <1>4 DEF After, Carries, Requests
  <1>8. text' \in Views /\ crowded' \in BOOLEAN
    BY <1>1 DEF Typed
  <1>9. Expected(m, text) = r
    BY <1>4 DEF Expected
  <1>10. Sending(m)
    BY <1>1, <1>2, <1>4, <1>5, <1>6, <1>7, <1>8, <1>9 DEF Sending, Sends
  <1> QED
    BY <1>6, <1>10

(* Whatever the editor does, it sends one message.                          *)
LEMMA EditSends ==
  ASSUME Typed, Edit
  PROVE  \E m \in Messages : Sending(m)
  <1>1. AnyUri \in Uris
    BY NoTextIsClosed
  <1>2. ASSUME NEW u \in Uris, NEW x \in Texts, Opens(u, x)
        PROVE  \E m \in Messages : Sending(m)
    BY <1>2, OpensSends
  <1>3. ASSUME NEW u \in Uris, NEW xs \in Pieces, Edits(u, xs)
        PROVE  \E m \in Messages : Sending(m)
    BY <1>3, EditsSends
  <1>4. ASSUME NEW u \in Uris, Closes(u)
        PROVE  \E m \in Messages : Sending(m)
    BY <1>4, ClosesSends
  <1>5. ASSUME NEW u \in Uris, Tells("didSave", u)
        PROVE  \E m \in Messages : Sending(m)
    <2>1. "didSave" \in Methods \ {"didClose"}
      BY DEF Methods
    <2> QED
      BY <1>5, <2>1, TellsSends
  <1>6. ASSUME NEW u \in Uris, NEW place \in Places, AsksHover(u, place)
        PROVE  \E m \in Messages : Sending(m)
    <2> DEFINE r == IF text[u] = Closed THEN Null ELSE Described[text[u]][place]
    <2>1. Asks("hover", u, place, r) /\ "hover" \in Requests
      BY <1>6 DEF AsksHover, Requests
    <2>2. r = IF "hover" = "initialize" THEN Capabilities
              ELSE IF "hover" = "hover" /\ text[u] # Closed
                   THEN Described[text[u]][place]
              ELSE Null
      OBVIOUS
    <2> HIDE DEF r
    <2> QED
      BY <2>1, <2>2, AsksSends
  <1>7. ASSUME NEW method \in {"didOpen", "hover", "other", "none", "exit"},
               Tells(method, AnyUri)
        PROVE  \E m \in Messages : Sending(m)
    <2>1. method \in Methods \ {"didClose"}
      BY DEF Methods
    <2> QED
      BY <1>1, <1>7, <2>1, TellsSends
  <1>8. ASSUME Asks("initialize", AnyUri, NoPlace, Capabilities)
        PROVE  \E m \in Messages : Sending(m)
    <2>1. "initialize" \in Requests
      BY DEF Requests
    <2> QED
      BY <1>1, <1>8, <2>1, AsksSends
  <1>9. ASSUME NEW method \in {"shutdown", "other"},
               Asks(method, AnyUri, NoPlace, Null)
        PROVE  \E m \in Messages : Sending(m)
    <2>1. method \in Requests
      BY DEF Requests
    <2> QED
      BY <1>1, <1>9, <2>1, AsksSends
  <1> QED
    BY <1>2, <1>3, <1>4, <1>5, <1>6, <1>7, <1>8, <1>9 DEF Edit

----------------------------------------------------------------------------
LastText(m) == m.texts[Len(m.texts)]

(* What one message makes of what the server remembers, and what it makes   *)
(* the server say.                                                          *)
Published(m) ==
  /\ Carries(m) /\ m.id = NoId
  /\ docs' = DocPut(m.uri, LastText(m))
  /\ outbox' = Append(outbox, Publication(m.uri, LastText(m)))

Forgotten(m) ==
  /\ m.method = "didClose" /\ m.id = NoId
  /\ docs' = DocDel(m.uri) /\ outbox' = outbox

Republished(m) ==
  /\ m.method = "didSave" /\ m.id = NoId /\ Stored(m.uri)
  /\ docs' = docs
  /\ outbox' = Append(outbox, Publication(m.uri, DocGet(m.uri)))

Passed(m) ==
  /\ ~Carries(m) /\ m.method # "didClose" /\ m.id = NoId
  /\ docs' = docs /\ outbox' = outbox

Found(m) ==
  IF m.method = "initialize" THEN Capabilities
  ELSE IF m.method = "hover" /\ Stored(m.uri)
       THEN Hovered(DocGet(m.uri), m.place)
  ELSE Null

Replied(m) ==
  /\ m.id # NoId
  /\ docs' = docs
  /\ outbox' = Append(outbox, Answer(m.id, Found(m)))

Handled(m) ==
  Published(m) \/ Forgotten(m) \/ Republished(m) \/ Passed(m) \/ Replied(m)

(* One message more in the pipe, or none.                                   *)
LEMMA AppendOne ==
  ASSUME Typed, NEW o \in Answers \cup Publications
  PROVE  outbox \o <<o>> = Append(outbox, o) /\ outbox \o <<>> = outbox
  BY AppendIsConcat, ConcatEmptySeq DEF Typed

(* What is said of a word is an answer.                                     *)
LEMMA HoveredIsAResult ==
  ASSUME NEW x, NEW place
  PROVE  Hovered(x, place) \in Results
  BY DEF Hovered, HoverText, Results

(* What is published is no answer.                                          *)
LEMMA PublicationIsTyped ==
  ASSUME Typed, NEW u \in Uris, NEW x \in Texts
  PROVE  Publication(u, x) \in Publications /\ ~IsAnswer(Publication(u, x))
  <1>1. Diagnostics(twin, x) \in Shows
    BY HeldIsTyped DEF Typed, Shows
  <1> QED
    BY <1>1 DEF Publication, Publications, IsAnswer

(* What the server answers with is an answer.                               *)
LEMMA FoundIsTyped ==
  ASSUME Typed, NEW m \in Messages, m.id # NoId
  PROVE  /\ Found(m) \in Results /\ m.id \in Ids
         /\ Answer(m.id, Found(m)) \in Answers
         /\ IsAnswer(Answer(m.id, Found(m)))
  <1>1. Found(m) \in Results
    BY HoveredIsAResult DEF Found, Results
  <1>2. m.id \in Ids
    BY DEF Messages, MessageRecords
  <1> QED
    BY <1>1, <1>2 DEF Answer, Answers, IsAnswer

(* A request is replied to, and a notification with its method passed over. *)
LEMMA OneResponse ==
  ASSUME Typed, NEW m \in Messages, m.method \in Requests,
         Responds(m, Found(m))
  PROVE  Passed(m) \/ Replied(m)
  <1>1. docs' = docs
        /\ outbox' = outbox \o (IF m.id = NoId THEN <<>>
                                ELSE <<Answer(m.id, Found(m))>>)
    BY DEF Responds, Says
  <1>2. CASE m.id = NoId
    <2>1. outbox' = outbox
      BY <1>1, <1>2, ConcatEmptySeq DEF Typed
    <2> QED
      BY <1>1, <1>2, <2>1 DEF Passed, Carries, Requests
  <1>3. CASE m.id # NoId
    <2>1. Answer(m.id, Found(m)) \in Answers \cup Publications
      BY <1>3, FoundIsTyped
    <2>2. outbox \o <<Answer(m.id, Found(m))>>
            = Append(outbox, Answer(m.id, Found(m)))
      BY <2>1, AppendOne
    <2> QED
      BY <1>1, <1>3, <2>2 DEF Replied
  <1> QED
    BY <1>2, <1>3

(* didOpen and didChange publish the last text they carry, or do nothing.   *)
LEMMA Synchronised ==
  ASSUME Typed, NEW m \in Messages, m.method \in {"didOpen", "didChange"},
         IF m.texts = <<>> THEN Ignores ELSE Synchronises(m, LastText(m))
  PROVE  Published(m) \/ Passed(m)
  <1>1. m.id = NoId /\ m.uri \in Uris /\ m.texts \in Seq(Texts)
    BY DEF Messages, MessageRecords, Requests
  <1>2. CASE m.texts = <<>>
    BY <1>1, <1>2 DEF Ignores, Passed, Carries
  <1>3. CASE m.texts # <<>>
    <2>1. LastText(m) \in Texts
      BY <1>1, <1>3, LastOfTexts DEF LastText
    <2>2. Publication(m.uri, LastText(m)) \in Answers \cup Publications
      BY <1>1, <2>1, PublicationIsTyped
    <2>3. /\ docs' = DocPut(m.uri, LastText(m))
          /\ outbox' = outbox \o <<Publication(m.uri, LastText(m))>>
      BY <1>3 DEF Synchronises, Says, Remembers
    <2>4. outbox \o <<Publication(m.uri, LastText(m))>>
            = Append(outbox, Publication(m.uri, LastText(m)))
      BY <2>2, AppendOne
    <2> QED
      BY <1>1, <1>3, <2>3, <2>4 DEF Published, Carries
  <1> QED
    BY <1>2, <1>3

(* One message is read and handled in one of the five ways.                 *)
LEMMA ServeHandles ==
  ASSUME Typed, Serve
  PROVE  /\ inbox # <<>> /\ Head(inbox) \in Messages /\ inbox' = Tail(inbox)
         /\ UNCHANGED <<server, text, crowded, waiting, shown>>
         /\ Handled(Head(inbox))
  <1> DEFINE m == Head(inbox)
  <1>1. /\ inbox # <<>> /\ inbox' = Tail(inbox) /\ Handle(m)
        /\ UNCHANGED <<server, text, crowded, waiting, shown>>
    BY DEF Serve
  <1>2. m \in Messages
    BY <1>1, HeadTailProperties DEF Typed
  <1> HIDE DEF m
  <1>3. m.uri \in Uris /\ m.texts \in Seq(Texts)
        /\ (m.id # NoId => m.method \in Requests)
        /\ (m.method = "didOpen" => Len(m.texts) <= 1)
    BY <1>2 DEF Messages, MessageRecords
  <1>4. ASSUME m.method = "initialize", Responds(m, Capabilities)
        PROVE  Handled(m)
    <2>1. Found(m) = Capabilities /\ m.method \in Requests
      BY <1>4 DEF Found, Requests
    <2> QED
      BY <1>2, <1>4, <2>1, OneResponse DEF Handled
  <1>5. ASSUME m.method \in {"shutdown", "other"}, Responds(m, Null)
        PROVE  Handled(m)
    <2>1. Found(m) = Null /\ m.method \in Requests
      BY <1>5 DEF Found, Requests
    <2> QED
      BY <1>2, <1>5, <2>1, OneResponse DEF Handled
  <1>6. ASSUME m.method = "hover", Hover(m)
        PROVE  Handled(m)
    <2>1. m.method \in Requests
          /\ Found(m) = IF Stored(m.uri) THEN Hovered(DocGet(m.uri), m.place)
               ELSE Null
      BY <1>6 DEF Found, Requests
    <2>2. Responds(m, Found(m))
      BY <1>6, <2>1 DEF Hover
    <2> QED
      BY <1>2, <1>6, <2>1, <2>2, OneResponse DEF Handled
  <1>7. ASSUME m.method = "exit", Exit(m)
        PROVE  Handled(m)
    <2>1. m.id = NoId
      BY <1>3, <1>7 DEF Requests
    <2> QED
      BY <1>7, <2>1 DEF Exit, Handled, Passed, Carries
  <1>8. ASSUME m.method = "none", Ignores
        PROVE  Handled(m)
    <2>1. m.id = NoId
      BY <1>3, <1>8 DEF Requests
    <2> QED
      BY <1>8, <2>1 DEF Ignores, Handled, Passed, Carries
  <1>9. ASSUME m.method = "didOpen", DidOpen(m)
        PROVE  Handled(m)
    <2>1. m.texts # <<>> => LastText(m) = m.texts[1]
      <3> SUFFICES ASSUME m.texts # <<>> PROVE LastText(m) = m.texts[1]
        OBVIOUS
      <3>1. Len(m.texts) = 1
        <4>1. Len(m.texts) \in Nat /\ Len(m.texts) > 0
          BY <1>3, LastOfTexts
        <4>2. Len(m.texts) <= 1
          BY <1>3, <1>9
        <4>3. \A n \in Nat : n > 0 /\ n <= 1 => n = 1
          OBVIOUS
        <4> QED
          BY <4>1, <4>2, <4>3, Zenon
      <3> QED
        BY <3>1 DEF LastText
    <2>2. IF m.texts = <<>> THEN Ignores ELSE Synchronises(m, LastText(m))
      BY <1>9, <2>1 DEF DidOpen
    <2> QED
      BY <1>2, <1>9, <2>2, Synchronised DEF Handled
  <1>10. ASSUME m.method = "didChange", DidChange(m)
         PROVE  Handled(m)
    <2>1. IF m.texts = <<>> THEN Ignores ELSE Synchronises(m, LastText(m))
      BY <1>10 DEF DidChange, Last, LastText
    <2> QED
      BY <1>2, <1>10, <2>1, Synchronised DEF Handled
  <1>11. ASSUME m.method = "didSave", DidSave(m)
         PROVE  Handled(m)
    <2>1. m.id = NoId
      BY <1>3, <1>11 DEF Requests
    <2>2. CASE Stored(m.uri)
      <3>1. DocGet(m.uri) \in Texts
        BY <2>2, HeldIsTyped DEF Typed
      <3>2. Publication(m.uri, DocGet(m.uri)) \in Answers \cup Publications
        BY <1>3, <3>1, PublicationIsTyped
      <3>3. docs' = docs
            /\ outbox' = outbox \o <<Publication(m.uri, DocGet(m.uri))>>
        BY <1>11, <2>2 DEF DidSave, Says
      <3>4. outbox \o <<Publication(m.uri, DocGet(m.uri))>>
              = Append(outbox, Publication(m.uri, DocGet(m.uri)))
        BY <3>2, AppendOne
      <3> QED
        BY <1>11, <2>1, <2>2, <3>3, <3>4 DEF Handled, Republished
    <2>3. CASE ~Stored(m.uri)
      <3>1. docs' = docs /\ outbox' = outbox \o <<>>
        BY <1>11, <2>3 DEF DidSave, Says
      <3>2. outbox' = outbox
        BY <3>1, ConcatEmptySeq DEF Typed
      <3> QED
        BY <1>11, <2>1, <3>1, <3>2 DEF Handled, Passed, Carries
    <2> QED
      BY <2>2, <2>3
  <1>12. ASSUME m.method = "didClose", DidClose(m)
         PROVE  Handled(m)
    <2>1. m.id = NoId
      BY <1>3, <1>12 DEF Requests
    <2> QED
      BY <1>12, <2>1 DEF DidClose, Remembers, Handled, Forgotten
  <1>13. Handled(m)
    BY <1>1, <1>4, <1>5, <1>6, <1>7, <1>8, <1>9, <1>10, <1>11, <1>12 DEF Handle
  <1> QED
    BY <1>1, <1>2, <1>13 DEF m

----------------------------------------------------------------------------
HeldAfter(m) ==
  IF Carries(m) THEN HeldAfterPut(m.uri, LastText(m))
  ELSE IF m.method = "didClose" THEN Without(Held, m.uri)
  ELSE Held

(* What is remembered afterwards, in both implementations.                  *)
LEMMA HandledHeld ==
  ASSUME Typed, NEW m \in Messages, Handled(m), UNCHANGED server
  PROVE  DocsTyped' /\ Held' = HeldAfter(m)
  <1>1. DocsTyped /\ m.uri \in Uris /\ m.texts \in Seq(Texts)
    BY DEF Typed, Messages, MessageRecords
  <1>2. CASE Published(m)
    <2>1. LastText(m) \in Texts /\ docs' = DocPut(m.uri, LastText(m))
          /\ Carries(m)
      BY <1>1, <1>2, LastOfTexts DEF Published, LastText, Carries
    <2> QED
      BY <1>1, <2>1, PutHeld DEF HeldAfter
  <1>3. CASE Forgotten(m)
    <2>1. docs' = DocDel(m.uri) /\ ~Carries(m) /\ m.method = "didClose"
      BY <1>3 DEF Forgotten, Carries
    <2> QED
      BY <1>1, <2>1, DelHeld DEF HeldAfter
  <1>4. CASE Republished(m) \/ Passed(m) \/ Replied(m)
    <2>1. docs' = docs /\ ~Carries(m) /\ m.method # "didClose"
      BY <1>4 DEF Republished, Passed, Replied, Carries, Messages, Requests
    <2> QED
      BY <1>1, <2>1, HeldStays DEF HeldAfter
  <1> QED
    BY <1>2, <1>3, <1>4 DEF Handled

(* The values of the variables before anything is sent.                     *)
LEMMA InitTypes ==
  Init => Typed
  <1> SUFFICES ASSUME Init PROVE Typed
    OBVIOUS
  <1>1. DocsTyped
    <2>1. CASE twin = "rust" /\ room = Cardinality(Uris)
      <3>1. DOMAIN docs = {} /\ docs \in [{} -> Texts]
        BY DEF Init, NoDocs
      <3> QED
        BY <2>1, <3>1 DEF DocsTyped
    <2>2. CASE twin = "c" /\ room \in DocsMax
      <3>1. docs \in Seq(Entries) /\ Len(docs) = 0
        BY EmptySeq DEF Init, NoDocs
      <3>2. room \in Nat /\ Len(docs) <= room
        BY <2>2, <3>1, ServerAssumption
      <3>3. docs \in Tables
        BY <3>1 DEF Tables
      <3> QED
        BY <2>2, <3>2, <3>3 DEF DocsTyped
    <2> QED
      BY <2>1, <2>2 DEF Init
  <1>2. text \in Views /\ shown \in [Uris -> Shows] /\ crowded \in BOOLEAN
    <2>1. Clean \in Shows
      BY DEF Shows
    <2> QED
      BY <2>1 DEF Init, Views
  <1>3. waiting \in Seq(Answers) /\ inbox \in Seq(Messages)
        /\ outbox \in Seq(Answers \cup Publications)
    BY EmptySeq DEF Init
  <1> QED
    BY <1>1, <1>2, <1>3 DEF Typed

(* ... after the editor sends.                                              *)
LEMMA SendingTypes ==
  ASSUME Typed, NEW m, Sending(m)
  PROVE  Typed'
  <1>1. m \in Messages /\ inbox' = Append(inbox, m) /\ inbox' \in Seq(Messages)
    BY AppendProperties DEF Sending, Typed
  <1>2. DocsTyped'
    BY HeldStays DEF Sending, Typed
  <1>3. waiting' \in Seq(Answers)
    <2>1. CASE m.id = NoId
      BY <2>1 DEF Sending, Typed
    <2>2. CASE m.id # NoId
      <3>1. Expected(m, text) \in Results /\ m.id \in Ids
        BY <1>1, <2>2, ExpectedIsAResult DEF Sending, Typed
      <3>2. Answer(m.id, Expected(m, text)) \in Answers
        BY <3>1 DEF Answer, Answers
      <3> QED
        <4>1. waiting' = Append(waiting, Answer(m.id, Expected(m, text)))
          BY <2>2 DEF Sending
        <4> QED
          BY <3>2, <4>1, AppendProperties DEF Typed
    <2> QED
      BY <2>1, <2>2
  <1> QED
    BY <1>1, <1>2, <1>3 DEF Sending, Typed

(* ... after the server writes.                                             *)
LEMMA HandledTypes ==
  ASSUME Typed, NEW m \in Messages, Handled(m)
  PROVE  outbox' \in Seq(Answers \cup Publications)
  <1>1. m.uri \in Uris /\ m.texts \in Seq(Texts)
        /\ outbox \in Seq(Answers \cup Publications)
    BY DEF Typed, Messages, MessageRecords
  <1>2. CASE Published(m)
    <2>1. LastText(m) \in Texts
      BY <1>1, <1>2, LastOfTexts DEF Published, LastText, Carries
    <2>2. Publication(m.uri, LastText(m)) \in Answers \cup Publications
      BY <1>1, <2>1, PublicationIsTyped
    <2> QED
      BY <1>1, <1>2, <2>2, AppendProperties DEF Published
  <1>3. CASE Republished(m)
    <2>1. DocGet(m.uri) \in Texts
      BY <1>3, HeldIsTyped DEF Republished, Typed
    <2>2. Publication(m.uri, DocGet(m.uri)) \in Answers \cup Publications
      BY <1>1, <2>1, PublicationIsTyped
    <2> QED
      BY <1>1, <1>3, <2>2, AppendProperties DEF Republished
  <1>4. CASE Replied(m)
    <2>1. Answer(m.id, Found(m)) \in Answers \cup Publications
      BY <1>4, FoundIsTyped DEF Replied
    <2> QED
      BY <1>1, <1>4, <2>1, AppendProperties DEF Replied
  <1>5. CASE Forgotten(m) \/ Passed(m)
    BY <1>1, <1>5 DEF Forgotten, Passed
  <1> QED
    BY <1>2, <1>3, <1>4, <1>5 DEF Handled

(* An answer takes the request with its id from those that wait.            *)
LEMMA AnsweredTypes ==
  ASSUME Typed, NEW i
  PROVE  Answered(i) \in Seq(Answers)
  <1>1. CASE ~Waits(i)
    BY <1>1 DEF Answered, Typed
  <1>2. CASE Waits(i)
    <2> DEFINE k == Place(i)
    <2>1. waiting \in Seq(Answers) /\ Len(waiting) \in Nat
          /\ DOMAIN waiting = 1..Len(waiting)
      BY LenProperties DEF Typed
    <2>2. k \in 1..Len(waiting)
      BY <1>2, <2>1 DEF Waits, Place
    <2> HIDE DEF k
    <2>3. SubSeq(waiting, 1, k - 1) \in Seq(Answers)
      <3>1. \A j \in 1..k - 1 : waiting[j] \in Answers
        BY <2>1, <2>2, ElementOfSeq
      <3>2. 1 \in Int /\ k - 1 \in Int
        BY <2>2
      <3> QED
        BY <3>1, <3>2, SubSeqProperties
    <2>4. SubSeq(waiting, k + 1, Len(waiting)) \in Seq(Answers)
      <3>1. \A j \in k + 1..Len(waiting) : waiting[j] \in Answers
        BY <2>1, <2>2, ElementOfSeq
      <3>2. k + 1 \in Int /\ Len(waiting) \in Int
        BY <2>1, <2>2
      <3> QED
        BY <3>1, <3>2, SubSeqProperties
    <2>5. Answered(i)
            = SubSeq(waiting, 1, k - 1) \o SubSeq(waiting, k + 1, Len(waiting))
      BY <1>2 DEF Answered, RemoveAt, k
    <2> QED
      BY <2>3, <2>4, <2>5, ConcatProperties
  <1> QED
    BY <1>1, <1>2

(* ... after the editor reads.                                              *)
LEMMA ReceivesTypes ==
  ASSUME Typed, Receives
  PROVE  Typed'
  <1> DEFINE o == Head(outbox)
  <1>1. /\ outbox # <<>> /\ outbox' = Tail(outbox)
        /\ UNCHANGED <<server, text, crowded, inbox, docs>>
        /\ IF IsAnswer(o) THEN waiting' = Answered(o.id) /\ shown' = shown
           ELSE shown' = [shown EXCEPT ![o.uri] = o.diagnostics]
           /\ waiting' = waiting
    BY DEF Receives
  <1>2. o \in Answers \cup Publications
        /\ outbox' \in Seq(Answers \cup Publications)
    BY <1>1, HeadTailProperties DEF Typed
  <1> HIDE DEF o
  <1>3. DocsTyped'
    BY <1>1, HeldStays DEF Typed
  <1>4. waiting' \in Seq(Answers)
    BY <1>1, AnsweredTypes DEF Typed
  <1>5. shown' \in [Uris -> Shows]
    <2>1. CASE IsAnswer(o)
      BY <1>1, <2>1 DEF Typed
    <2>2. CASE ~IsAnswer(o)
      <3>1. o \in Publications
        BY <1>2, <2>2 DEF IsAnswer, Answers
      <3>2. o.uri \in Uris /\ o.diagnostics \in Shows
        BY <3>1 DEF Publications
      <3> QED
        BY <1>1, <2>2, <3>2 DEF Typed
    <2> QED
      BY <2>1, <2>2
  <1> QED
    BY <1>1, <1>2, <1>3, <1>4, <1>5 DEF Typed

(* ... after the server reads.                                              *)
LEMMA ServeTypes ==
  ASSUME Typed, Serve
  PROVE  Typed'
  <1>1. /\ inbox # <<>> /\ Head(inbox) \in Messages /\ inbox' = Tail(inbox)
        /\ UNCHANGED <<server, text, crowded, waiting, shown>>
        /\ Handled(Head(inbox))
    BY ServeHandles
  <1>2. DocsTyped'
    BY <1>1, HandledHeld
  <1>3. outbox' \in Seq(Answers \cup Publications)
    BY <1>1, HandledTypes
  <1>4. inbox' \in Seq(Messages)
    BY <1>1, HeadTailProperties DEF Typed
  <1> QED
    BY <1>1, <1>2, <1>3, <1>4 DEF Typed

(* ... after nothing.                                                       *)
LEMMA StutterTypes ==
  ASSUME Typed, UNCHANGED vars
  PROVE  Typed'
  <1>1. DocsTyped'
    BY HeldStays DEF Typed, vars
  <1> QED
    BY <1>1 DEF Typed, vars

(* The variables have values of their types in every state: the server      *)
(* remembers no more documents than it has room for, each of them once,     *)
(* what waits in the pipes are messages and answers, and what the editor    *)
(* shows is what is published of a text. The strengthening of the other     *)
(* theorems starts from it.                                                 *)
THEOREM TypesHold == Spec => []Typed
  <1>1. Init => Typed
    BY InitTypes
  <1>2. Typed /\ [Next]_vars => Typed'
    <2> SUFFICES ASSUME Typed, [Next]_vars PROVE Typed'
      OBVIOUS
    <2>1. CASE Edit
      BY <2>1, EditSends, SendingTypes
    <2> QED
      BY <2>1, ServeTypes, ReceivesTypes, StutterTypes DEF Next
  <1> QED
    BY <1>1, <1>2, PTL DEF Spec

----------------------------------------------------------------------------
(* The documents are a map of the texts last received.                      *)
LEMMA FrontOfAppend ==
  ASSUME NEW S, NEW s \in Seq(S), NEW e \in S
  PROVE  SubSeq(Append(s, e), 1, Len(s)) = s
  <1> DEFINE a == Append(s, e)
             b == SubSeq(a, 1, Len(s))
  <1>1. /\ a \in Seq(S) /\ Len(a) = Len(s) + 1 /\ Len(s) \in Nat
        /\ \A i \in 1..Len(s) : a[i] = s[i]
    BY AppendProperties, LenProperties
  <1> HIDE DEF a
  <1>2. Len(a) > 0 /\ Len(a) - 1 = Len(s)
    BY <1>1
  <1>3. b \in Seq(S) /\ Len(b) = Len(s) /\ \A i \in 1..Len(s) : b[i] = a[i]
    BY <1>1, <1>2, FrontIsShorter
  <1> HIDE DEF b
  <1>4. b = s
    BY <1>1, <1>3, SeqEqual
  <1> QED
    BY <1>4 DEF a, b

(* What a server remembers is the map of the abstract specification.        *)
LEMMA HeldIsTheMap ==
  Held = [u \in Remembered |-> DocGet(u)] /\ DOMAIN Held = Remembered
  BY DEF Held

(* A message that is sent is one more that is unread, and changes nothing   *)
(* that is remembered.                                                      *)
LEMMA EditArrives ==
  ASSUME Typed, Edit
  PROVE  Map!Next
  <1>1. PICK m \in Messages : Sending(m)
    BY EditSends
  <1>2. /\ Len(inbox') = Len(inbox) + 1 /\ SubSeq(inbox', 1, Len(inbox)) = inbox
    BY <1>1, AppendProperties, FrontOfAppend DEF Sending, Typed
  <1>3. Held' = Held /\ room' = room
    BY <1>1, HeldStays DEF Sending, Typed, server
  <1> QED
    BY <1>2, <1>3 DEF Map!Next, Map!Arrive, Held

(* A message that is read does to what is remembered what the abstract      *)
(* specification says of it.                                                *)
LEMMA ServeReads ==
  ASSUME Typed, Serve
  PROVE  Map!Next
  <1> DEFINE m == Head(inbox)
             xs == Map!TextsOf(m)
  <1>1. /\ inbox # <<>> /\ m \in Messages /\ inbox' = Tail(inbox)
        /\ UNCHANGED server /\ Handled(m)
    BY ServeHandles
  <1>2. Held' = HeldAfter(m) /\ room' = room
    BY <1>1, HandledHeld DEF server
  <1>3. IF m.method = "didClose" THEN Map!Drop(m.uri)
        ELSE IF xs = <<>> THEN UNCHANGED Held
        ELSE Map!Put(m.uri, xs[Len(xs)])
    <2> HIDE DEF m
    <2>1. CASE m.method = "didClose"
      <3>1. Held' = [v \in Remembered \ {m.uri} |-> Held[v]]
        BY <1>2, <2>1, HeldIsTheMap DEF HeldAfter, Carries, Without
      <3>2. Map!Drop(m.uri)
        BY <3>1, HeldIsTheMap DEF Map!Drop, Held
      <3> QED
        BY <2>1, <3>2
    <2>2. CASE m.method # "didClose" /\ ~Carries(m)
      <3>1. xs = <<>>
        BY <2>2 DEF Map!TextsOf, Carries
      <3>2. Held' = Held
        BY <1>2, <2>2 DEF HeldAfter
      <3> QED
        BY <2>2, <3>1, <3>2
    <2>3. CASE Carries(m)
      <3>1. xs = m.texts /\ xs # <<>> /\ m.method # "didClose"
        BY <2>3 DEF Map!TextsOf, Carries
      <3>2. Held' = HeldAfterPut(m.uri, xs[Len(xs)])
        BY <1>2, <2>3, <3>1 DEF HeldAfter, LastText
      <3> HIDE DEF xs
      <3>3. Map!Put(m.uri, xs[Len(xs)])
        <4> DEFINE x == xs[Len(xs)]
        <4> HIDE DEF x
        <4>1. Map!HasRoom(m.uri)
                <=> m.uri \in Remembered \/ Cardinality(Remembered) < room
          <5>1. DOMAIN [v \in Remembered |-> DocGet(v)] = Remembered
            OBVIOUS
          <5>2. Map!Cardinality(Remembered) = Cardinality(Remembered)
            BY Zenon DEF Map!Cardinality, Cardinality
          <5> QED
            BY <5>1, <5>2 DEF Map!HasRoom
        <4>2. Held' = IF Map!HasRoom(m.uri) THEN With(Held, m.uri, x) ELSE Held
          BY <3>2, <4>1 DEF HeldAfterPut, x
        <4>3. Map!Put(m.uri, x) <=>
                IF Map!HasRoom(m.uri) THEN Held' = With(Held, m.uri, x)
                  ELSE Held' = Held
          BY DEF Map!Put, With, Held
        <4> QED
          BY <4>2, <4>3 DEF x
      <3> QED
        BY <3>1, <3>3
    <2> QED
      BY <2>1, <2>2, <2>3
  <1> QED
    BY <1>1, <1>2, <1>3 DEF Map!Next, Map!Read, Held

(* Both implementations keep a map of documents: whatever is opened,        *)
(* changed, saved and closed in whatever order, the map in Rust and the     *)
(* table in C, in which the last entry takes the place of one that goes,    *)
(* hold of each document the text last received, and C none for which there *)
(* is no room.                                                              *)
THEOREM ServersKeepAMap == Spec => ImplementsDocumentMap
  <1>1. Init => Map!Init
    <2> SUFFICES ASSUME Init PROVE Map!Init
      OBVIOUS
    <2>1. Typed
      BY InitTypes
    <2>2. Remembered = {}
      BY DEF Init, NoDocs, Remembered
    <2>3. inbox = <<>> /\ room \in Nat
      BY <2>1, HeldIsTyped DEF Init, Typed
    <2> QED
      BY <2>2, <2>3 DEF Map!Init
  <1>2. Typed /\ [Next]_vars => [Map!Next]_<<room, inbox, Held>>
    <2> SUFFICES ASSUME Typed, [Next]_vars
                 PROVE [Map!Next]_<<room, inbox, Held>>
      OBVIOUS
    <2>1. ASSUME Receives \/ UNCHANGED vars
          PROVE  UNCHANGED <<room, inbox, Held>>
      <3>1. UNCHANGED <<server, inbox, docs>>
        BY <2>1 DEF Receives, vars
      <3> QED
        BY <3>1, HeldStays DEF Typed, server
    <2> QED
      BY <2>1, EditArrives, ServeReads DEF Next
  <1>3. Spec => []Typed
    BY TypesHold
  <1> QED
    BY <1>1, <1>2, <1>3, PTL DEF Spec, ImplementsDocumentMap, Map!Spec, Held

----------------------------------------------------------------------------
(* The states s that the elements of q lead through, one by one.            *)
Trail(s, q, steps) ==
  /\ Len(s) = Len(q) + 1
  /\ \A k \in 1..Len(q) : <<s[k], q[k], s[k + 1]>> \in steps

(* One step more.                                                           *)
LEMMA TrailGrows ==
  ASSUME NEW S, NEW M, NEW steps, NEW s \in Seq(S), NEW q \in Seq(M),
         Trail(s, q, steps), NEW e \in M, NEW f \in S,
         <<s[Len(q) + 1], e, f>> \in steps
  PROVE  Append(s, f) \in Seq(S) /\ Trail(Append(s, f), Append(q, e), steps)
  <1> DEFINE t == Append(s, f)
             r == Append(q, e)
  <1>1. /\ t \in Seq(S) /\ Len(t) = Len(s) + 1 /\ Len(q) \in Nat
           /\ Len(s) = Len(q) + 1
        /\ \A i \in 1..Len(s) : t[i] = s[i]
        /\ t[Len(s) + 1] = f
    BY AppendProperties, LenProperties DEF Trail
  <1>2. /\ r \in Seq(M) /\ Len(r) = Len(q) + 1
        /\ \A i \in 1..Len(q) : r[i] = q[i]
        /\ r[Len(q) + 1] = e
    BY AppendProperties
  <1> HIDE DEF t, r
  <1>3. \A k \in 1..Len(r) : <<t[k], r[k], t[k + 1]>> \in steps
    <2> TAKE k \in 1..Len(r)
    <2>1. CASE k \in 1..Len(q)
      <3>1. k \in 1..Len(s) /\ k + 1 \in 1..Len(s)
        BY <1>1, <2>1
      <3>2. t[k] = s[k] /\ t[k + 1] = s[k + 1] /\ r[k] = q[k]
        BY <1>1, <1>2, <2>1, <3>1
      <3> QED
        BY <2>1, <3>2 DEF Trail
    <2>2. CASE k = Len(q) + 1
      <3>1. k \in 1..Len(s)
        BY <1>1, <2>2
      <3>2. t[k] = s[Len(q) + 1] /\ t[k + 1] = f /\ r[k] = e
        BY <1>1, <1>2, <2>2, <3>1
      <3> QED
        BY <3>2
    <2> QED
      BY <1>1, <1>2, <2>1, <2>2
  <1>4. Trail(t, r, steps)
    BY <1>1, <1>2, <1>3 DEF Trail
  <1> QED
    BY <1>1, <1>4 DEF t, r

(* One step fewer.                                                          *)
LEMMA TrailShrinks ==
  ASSUME NEW S, NEW M, NEW steps, NEW s \in Seq(S), NEW q \in Seq(M),
         Trail(s, q, steps), q # <<>>
  PROVE  Tail(s) \in Seq(S) /\ Trail(Tail(s), Tail(q), steps)
  <1> DEFINE t == Tail(s)
             r == Tail(q)
  <1>1. Len(q) \in Nat /\ Len(q) > 0 /\ Len(s) = Len(q) + 1 /\ s # <<>>
    BY EmptySeq DEF Trail
  <1>2. /\ t \in Seq(S) /\ Len(t) = Len(s) - 1
        /\ \A i \in 1..Len(t) : t[i] = s[i + 1]
    BY <1>1, HeadTailProperties
  <1>3. /\ r \in Seq(M) /\ Len(r) = Len(q) - 1
        /\ \A i \in 1..Len(r) : r[i] = q[i + 1]
    BY <1>1, HeadTailProperties
  <1> HIDE DEF t, r
  <1>4. \A k \in 1..Len(r) : k \in 1..Len(t) /\ k + 1 \in 1..Len(t)
        /\ k + 1 \in 1..Len(q)
    BY <1>1, <1>2, <1>3
  <1>5. \A k \in 1..Len(r) : <<t[k], r[k], t[k + 1]>> \in steps
    <2> TAKE k \in 1..Len(r)
    <2>1. t[k] = s[k + 1] /\ r[k] = q[k + 1] /\ t[k + 1] = s[k + 1 + 1]
          /\ k + 1 \in 1..Len(q)
      BY <1>2, <1>3, <1>4
    <2> QED
      BY <2>1 DEF Trail
  <1>6. Trail(t, r, steps)
    BY <1>1, <1>2, <1>3, <1>5 DEF Trail
  <1> QED
    BY <1>2, <1>6 DEF t, r

(* Its first step, and where the rest of it begins and ends.                *)
LEMMA TrailStarts ==
  ASSUME NEW steps, NEW s, NEW q, Trail(s, q, steps), Len(q) \in Nat, Len(q) > 0
  PROVE  <<s[1], q[1], s[2]>> \in steps /\ 1 \in 1..Len(s) /\ 2 \in 1..Len(s)
  <1>1. Len(s) = Len(q) + 1
    BY DEF Trail
  <1>2. 1 \in 1..Len(q) /\ 1 \in 1..Len(s) /\ 2 \in 1..Len(s) /\ 1 + 1 = 2
    BY <1>1
  <1> QED
    BY <1>2 DEF Trail

(* The first is dropped.                                                    *)
LEMMA RestOfTrail ==
  ASSUME NEW S, NEW s \in Seq(S), NEW n \in Nat, n > 0, Len(s) = n + 1,
         NEW t, t = Tail(s)
  PROVE  /\ t[1] = s[2] /\ t[n] = s[n + 1]
         /\ \A k \in 1..Len(t) : t[k] = s[k + 1] /\ k + 1 \in 1..Len(s)
  <1>1. s # <<>>
    BY EmptySeq
  <1>2. Len(t) = Len(s) - 1 /\ \A i \in 1..Len(t) : t[i] = s[i + 1]
    BY <1>1, HeadTailProperties
  <1>3. /\ 1 \in 1..Len(t) /\ n \in 1..Len(t) /\ 1 + 1 = 2
        /\ \A k \in 1..Len(t) : k + 1 \in 1..Len(s)
    BY <1>2
  <1> QED
    BY <1>2, <1>3, Zenon

----------------------------------------------------------------------------
Follows == {p \in Views \X Messages \X Views : p[3] = After(p[1], p[2])}

(* What a server that remembers h may not know of the documents f.          *)
Agreed(h, c, f) ==
  \A u \in Uris : IF u \in DOMAIN h THEN f[u] = h[u] ELSE f[u] = Closed \/ c

Fits(f) == crowded \/ Cardinality(Open(f)) <= room

(* v are the editor's documents before each of the messages not read, and   *)
(* after the last.                                                          *)
ViewIs(v) ==
  /\ v \in Seq(Views) /\ Trail(v, inbox, Follows)
  /\ v[Len(inbox) + 1] = text
  /\ \A k \in 1..Len(v) : Fits(v[k])
  /\ Agreed(Held, crowded, v[1])

(* What follows documents after a message.                                  *)
LEMMA Following ==
  ASSUME NEW f, NEW m, NEW g
  PROVE  /\ <<f, m, g>> \in Follows => g = After(f, m) /\ f \in Views
            /\ m \in Messages /\ g \in Views
         /\ f \in Views /\ m \in Messages /\ g \in Views /\ g = After(f, m)
              => <<f, m, g>> \in Follows
  BY DEF Follows

(* A text that is remembered is the one the editor has; one that is not is  *)
(* of a document the table has no room for, when more have been open than   *)
(* it can hold.                                                             *)
LEMMA PutKeepsAgreed ==
  ASSUME Typed, NEW f \in Views, Agreed(Held, crowded, f),
         NEW u \in Uris, NEW x \in Texts, Fits([f EXCEPT ![u] = x])
  PROVE  Agreed(HeldAfterPut(u, x), crowded, [f EXCEPT ![u] = x])
  <1> DEFINE g == [f EXCEPT ![u] = x]
  <1>1. /\ Held \in [Remembered -> Texts] /\ Remembered \subseteq Uris
           /\ room \in Nat
        /\ IsFiniteSet(Remembered) /\ Cardinality(Remembered) \in Nat
           /\ DOMAIN Held = Remembered
    BY HeldIsTyped, HeldIsTheMap DEF Typed
  <1>2. \A v \in Uris : g[v] = IF v = u THEN x ELSE f[v]
    BY DEF Views
  <1>3. Fits(g)
    OBVIOUS
  <1> HIDE DEF g
  <1>4. CASE u \in Remembered \/ Cardinality(Remembered) < room
    <2>1. HeldAfterPut(u, x) = With(Held, u, x)
      BY <1>4 DEF HeldAfterPut
    <2>2. /\ DOMAIN With(Held, u, x) = Remembered \cup {u}
          /\ \A v \in Remembered \cup {u} :
               With(Held, u, x)[v] = IF v = u THEN x ELSE Held[v]
      BY <1>1 DEF With
    <2>3. Agreed(With(Held, u, x), crowded, g)
      BY <1>1, <1>2, <2>2 DEF Agreed
    <2> QED
      BY <2>1, <2>3 DEF g
  <1>5. CASE u \notin Remembered /\ ~(Cardinality(Remembered) < room)
    <2>1. HeldAfterPut(u, x) = Held
      BY <1>5 DEF HeldAfterPut
    <2>2. crowded
      <3> SUFFICES ASSUME ~crowded PROVE FALSE
        OBVIOUS
      <3>1. Remembered \cup {u} \in SUBSET Open(g)
        BY <1>1, <1>2, NoTextIsClosed DEF Agreed, Open
      <3>2. IsFiniteSet(Open(g)) /\ Cardinality(Open(g)) \in Nat
            /\ Cardinality(Open(g)) <= room
        BY <1>3, OpenIsFinite DEF Fits
      <3>3. Cardinality(Remembered \cup {u}) <= Cardinality(Open(g))
        BY <3>1, <3>2, FS_Subset
      <3>4. Cardinality(Remembered \cup {u}) = Cardinality(Remembered) + 1
        BY <1>1, <1>5, FS_AddElement
      <3> QED
        BY <1>1, <1>5, <3>2, <3>3, <3>4
    <2>3. Agreed(Held, crowded, g)
      BY <1>1, <1>2, <1>5, <2>2 DEF Agreed
    <2> QED
      BY <2>1, <2>3 DEF g
  <1> QED
    BY <1>4, <1>5

(* Whatever is read, what is remembered stays what the editor had it be.    *)
LEMMA MessageKeepsAgreed ==
  ASSUME Typed, NEW f \in Views, Agreed(Held, crowded, f),
         NEW m \in Messages, Fits(After(f, m))
  PROVE  Agreed(HeldAfter(m), crowded, After(f, m))
  <1>1. m.uri \in Uris /\ m.texts \in Seq(Texts)
    BY DEF Messages, MessageRecords
  <1>2. CASE Carries(m)
    <2>1. After(f, m) = [f EXCEPT ![m.uri] = LastText(m)]
          /\ LastText(m) \in Texts
      BY <1>1, <1>2, LastOfTexts DEF After, LastText, Carries
    <2>2. HeldAfter(m) = HeldAfterPut(m.uri, LastText(m))
      BY <1>2 DEF HeldAfter
    <2>3. Fits([f EXCEPT ![m.uri] = LastText(m)])
      BY <2>1
    <2> QED
      BY <1>1, <2>1, <2>2, <2>3, PutKeepsAgreed
  <1>3. CASE ~Carries(m) /\ m.method = "didClose"
    <2>1. HeldAfter(m) = Without(Held, m.uri)
      BY <1>3 DEF HeldAfter
    <2>2. \A v \in Uris : After(f, m)[v] = IF v = m.uri THEN Closed ELSE f[v]
      BY <1>1, <1>3 DEF After, Views
    <2>3. /\ DOMAIN Without(Held, m.uri) = DOMAIN Held \ {m.uri}
          /\ \A v \in DOMAIN Held \ {m.uri} : Without(Held, m.uri)[v] = Held[v]
      BY DEF Without
    <2> QED
      BY <2>1, <2>2, <2>3 DEF Agreed
  <1>4. CASE ~Carries(m) /\ m.method # "didClose"
    <2>1. HeldAfter(m) = Held /\ After(f, m) = f
      BY <1>4 DEF HeldAfter, After
    <2> QED
      BY <2>1
  <1> QED
    BY <1>2, <1>3, <1>4

(* An edit adds the documents it makes to the history.                      *)
LEMMA ViewGrows ==
  ASSUME Typed, NEW m \in Messages, Sending(m), NEW v, ViewIs(v)
  PROVE  \E w : w = Append(v, text') /\ ViewIs(w)'
  <1>1. PICK w : w = Append(v, text')
    OBVIOUS
  <1>2. /\ text \in Views /\ text' \in Views /\ inbox \in Seq(Messages)
           /\ inbox' = Append(inbox, m)
        /\ text' = After(text, m)
    BY DEF Sending, Typed
  <1>3. v \in Seq(Views) /\ Trail(v, inbox, Follows) /\ v[Len(inbox) + 1] = text
    BY DEF ViewIs
  <1>4. <<v[Len(inbox) + 1], m, text'>> \in Follows
    BY <1>2, <1>3, Following
  <1>5. /\ w \in Seq(Views) /\ Trail(w, inbox', Follows)
           /\ w[Len(inbox') + 1] = text'
        /\ \A k \in 1..Len(v) : w[k] = v[k]
        /\ w[1] = v[1] /\ Len(w) = Len(v) + 1
    <2>1. w \in Seq(Views) /\ Trail(w, inbox', Follows)
      <3>1. Append(v, text') \in Seq(Views)
            /\ Trail(Append(v, text'), Append(inbox, m), Follows)
        BY <1>2, <1>3, <1>4, TrailGrows
      <3> QED
        BY <1>1, <1>2, <3>1, Zenon
    <2>2. Len(v) \in Nat /\ Len(v) = Len(inbox) + 1 /\ Len(inbox) \in Nat
      BY <1>2, <1>3, LenProperties DEF Trail
    <2>3. Len(w) = Len(v) + 1 /\ w[Len(v) + 1] = text'
          /\ \A k \in 1..Len(v) : w[k] = v[k]
      BY <1>1, <1>2, <1>3, AppendProperties
    <2>4. Len(inbox') + 1 = Len(v) + 1 /\ 1 \in 1..Len(v)
      BY <2>1, <2>2, <2>3 DEF Trail
    <2> QED
      BY <2>1, <2>3, <2>4
  <1>6. Held' = Held /\ room' = room /\ crowded \in BOOLEAN
        /\ crowded' \in BOOLEAN /\ (crowded => crowded')
    BY HeldStays DEF Sending, Typed, server
  <1>7. \A f : Fits(f) => Fits(f)'
    BY <1>6 DEF Fits
  <1>8. Fits(text)
    <2>1. Len(inbox) + 1 \in 1..Len(v)
      BY <1>2, <1>3, LenProperties DEF Trail
    <2> QED
      BY <1>3, <2>1 DEF ViewIs
  <1>9. (crowded \/ Cardinality(Open(text)) <= room)
        => (crowded' \/ Cardinality(Open(text')) <= room')
    BY <1>6 DEF Sending
  <1>10. \A k \in 1..Len(w) : crowded' \/ Cardinality(Open(w[k])) <= room'
    <2> TAKE k \in 1..Len(w)
    <2>1. CASE k \in 1..Len(v)
      <3>1. Fits(v[k])
        BY <2>1 DEF ViewIs
      <3> QED
        BY <1>5, <1>6, <2>1, <3>1 DEF Fits
    <2>2. CASE k = Len(inbox') + 1
      BY <1>5, <1>8, <1>9, <2>2 DEF Fits
    <2>3. Len(v) \in Nat /\ Len(inbox') + 1 = Len(v) + 1
      BY <1>3, <1>5, LenProperties DEF Trail
    <2> QED
      BY <1>5, <2>1, <2>2, <2>3
  <1>11. Agreed(Held', crowded', w[1])
    BY <1>5, <1>6 DEF ViewIs, Agreed
  <1> QED
    BY <1>1, <1>5, <1>10, <1>11 DEF ViewIs, Fits

(* Reading a message takes the oldest from it.                              *)
LEMMA ViewShrinks ==
  ASSUME Typed, Serve, NEW v, ViewIs(v)
  PROVE  /\ ViewIs(Tail(v))'
         /\ v[1] \in Views /\ Tail(v)[1] = After(v[1], Head(inbox))
         /\ Tail(v)[1] \in Views
  <1>1. /\ inbox # <<>> /\ Head(inbox) \in Messages /\ inbox' = Tail(inbox)
        /\ UNCHANGED <<server, text, crowded, waiting, shown>>
        /\ Handled(Head(inbox))
    BY ServeHandles
  <1>2. v \in Seq(Views) /\ Trail(v, inbox, Follows)
        /\ v[Len(inbox) + 1] = text /\ inbox \in Seq(Messages)
    BY DEF ViewIs, Typed
  <1>3. PICK w : w = Tail(v)
    OBVIOUS
  <1>4. /\ w \in Seq(Views) /\ Trail(w, inbox', Follows)
        /\ w[1] = v[2] /\ w[Len(inbox') + 1] = text
        /\ \A k \in 1..Len(w) : w[k] = v[k + 1] /\ k + 1 \in 1..Len(v)
        /\ <<v[1], Head(inbox), v[2]>> \in Follows
        /\ 2 \in 1..Len(v)
    <2>1. w \in Seq(Views) /\ Trail(w, inbox', Follows)
      <3>1. Tail(v) \in Seq(Views) /\ Trail(Tail(v), Tail(inbox), Follows)
        BY <1>1, <1>2, TrailShrinks
      <3> QED
        BY <1>1, <1>3, <3>1, Zenon
    <2>2. /\ Len(inbox) \in Nat /\ Len(inbox) > 0 /\ Len(v) = Len(inbox) + 1
          /\ Head(inbox) = inbox[1]
      BY <1>1, <1>2, EmptySeq DEF Trail
    <2>3. <<v[1], Head(inbox), v[2]>> \in Follows /\ 2 \in 1..Len(v)
      BY <1>2, <2>2, TrailStarts
    <2>4. /\ w[1] = v[2] /\ w[Len(inbox)] = v[Len(inbox) + 1]
          /\ \A k \in 1..Len(w) : w[k] = v[k + 1] /\ k + 1 \in 1..Len(v)
      BY <1>2, <1>3, <2>2, RestOfTrail
    <2>5. Len(inbox') + 1 = Len(inbox)
      BY <1>1, <1>2, <2>2, HeadTailProperties
    <2> QED
      BY <1>1, <1>2, <2>1, <2>3, <2>4, <2>5, Zenon
  <1>5. w[1] = After(v[1], Head(inbox)) /\ v[1] \in Views /\ w[1] \in Views
    BY <1>4, Following
  <1>6. Held' = HeldAfter(Head(inbox)) /\ room' = room /\ crowded' = crowded
        /\ text' = text
    BY <1>1, HandledHeld DEF server
  <1>7. \A k \in 1..Len(w) : Fits(w[k])
    BY <1>4 DEF ViewIs
  <1>8. Fits(After(v[1], Head(inbox)))
    BY <1>4, <1>5 DEF ViewIs
  <1>9. Agreed(Held', crowded', w[1])
    BY <1>1, <1>5, <1>6, <1>8, MessageKeepsAgreed DEF ViewIs
  <1>10. ViewIs(w)'
    BY <1>4, <1>6, <1>7, <1>9 DEF ViewIs, Fits
  <1> QED
    BY <1>3, <1>5, <1>10

(* Nothing else changes it.                                                 *)
LEMMA ViewStays ==
  ASSUME Typed, UNCHANGED <<server, text, crowded, inbox, docs>>, NEW v,
         ViewIs(v)
  PROVE  ViewIs(v)'
  <1>1. Held' = Held /\ room' = room
    BY HeldStays DEF Typed, server
  <1> QED
    BY <1>1 DEF ViewIs, Fits

----------------------------------------------------------------------------
Screens == [Uris -> Shows]
Applied(f, o) ==
  IF IsAnswer(o) THEN f ELSE [f EXCEPT ![o.uri] = o.diagnostics]
Applies ==
  {p \in Screens \X (Answers \cup Publications) \X Screens :
     p[3] = Applied(p[1], p[2])}

(* s is what the editor shows before each of the messages it has not read,  *)
(* and after the last, when f are the documents the server knows of.        *)
ShownBy(f, s) ==
  /\ s \in Seq(Screens) /\ Trail(s, outbox, Applies)
  /\ s[1] = shown
  /\ \A u \in Uris :
       f[u] # Closed => s[Len(outbox) + 1][u] = Diagnostics(twin, f[u])

(* What follows a screen after a message.                                   *)
LEMMA Applying ==
  ASSUME NEW f, NEW o, NEW g
  PROVE  /\ <<f, o, g>> \in Applies => g = Applied(f, o)
         /\ f \in Screens /\ o \in Answers \cup Publications /\ g \in Screens
            /\ g = Applied(f, o)
              => <<f, o, g>> \in Applies
  BY DEF Applies

(* The last screen is what is to be shown in the end.                       *)
LEMMA LastScreen ==
  ASSUME Typed, NEW f, NEW s, ShownBy(f, s)
  PROVE  /\ s[Len(outbox) + 1] \in Screens /\ Len(outbox) \in Nat
            /\ Len(s) = Len(outbox) + 1
         /\ s \in Seq(Screens) /\ outbox \in Seq(Answers \cup Publications)
         /\ Len(s) \in Nat /\ 1 \in 1..Len(s)
  <1>1. /\ s \in Seq(Screens) /\ outbox \in Seq(Answers \cup Publications)
        /\ Len(s) = Len(outbox) + 1
    BY DEF ShownBy, Trail, Typed
  <1>2. Len(outbox) \in Nat /\ Len(s) \in Nat
    BY <1>1, LenProperties
  <1>3. Len(outbox) + 1 \in 1..Len(s) /\ 1 \in 1..Len(s)
    BY <1>1, <1>2
  <1> QED
    BY <1>1, <1>2, <1>3, ElementOfSeq

(* The server says one thing more.                                          *)
LEMMA ScreenGrows ==
  ASSUME Typed, UNCHANGED <<server, shown>>, NEW f, NEW s, ShownBy(f, s),
         NEW o \in Answers \cup Publications, outbox' = Append(outbox, o),
         NEW g, NEW r, r = Applied(s[Len(outbox) + 1], o), r \in Screens,
         \A u \in Uris : g[u] # Closed => r[u] = Diagnostics(twin, g[u])
  PROVE  ShownBy(g, Append(s, r))'
  <1>1. PICK t : t = Append(s, r)
    OBVIOUS
  <1>2. /\ s[Len(outbox) + 1] \in Screens /\ Len(outbox) \in Nat
           /\ Len(s) = Len(outbox) + 1
        /\ s \in Seq(Screens) /\ outbox \in Seq(Answers \cup Publications)
        /\ Len(s) \in Nat /\ 1 \in 1..Len(s)
    BY LastScreen
  <1>3. Trail(s, outbox, Applies) /\ s[1] = shown
    BY DEF ShownBy
  <1>4. <<s[Len(outbox) + 1], o, r>> \in Applies
    BY <1>2, Applying
  <1>5. t \in Seq(Screens) /\ Trail(t, outbox', Applies)
    <2>1. Append(s, r) \in Seq(Screens)
          /\ Trail(Append(s, r), Append(outbox, o), Applies)
      BY <1>2, <1>3, <1>4, TrailGrows
    <2> QED
      BY <1>1, <2>1, Zenon
  <1>6. Len(t) = Len(s) + 1 /\ t[Len(s) + 1] = r
        /\ \A k \in 1..Len(s) : t[k] = s[k]
    BY <1>1, <1>2, AppendProperties
  <1>7. t[1] = shown' /\ t[Len(outbox') + 1] = r
    <2>1. Len(outbox') + 1 = Len(s) + 1
      BY <1>5, <1>6 DEF Trail
    <2> QED
      BY <1>2, <1>3, <1>6, <2>1
  <1>8. twin' = twin
    BY DEF server
  <1>9. \A u \in Uris : g[u] # Closed
          => t[Len(outbox') + 1][u] = Diagnostics(twin', g[u])
    BY <1>7, <1>8
  <1>10. ShownBy(g, t)'
    BY <1>5, <1>7, <1>9 DEF ShownBy
  <1> QED
    BY <1>1, <1>10

(* It says nothing.                                                         *)
LEMMA ScreenStays ==
  ASSUME Typed, UNCHANGED <<server, shown, outbox>>, NEW f, NEW s,
         ShownBy(f, s),
         NEW g, \A u \in Uris : g[u] # Closed => g[u] = f[u]
  PROVE  ShownBy(g, s)'
  <1>1. twin' = twin
    BY DEF server
  <1>2. \A u \in Uris : g[u] # Closed
          => s[Len(outbox) + 1][u] = Diagnostics(twin, g[u])
    BY DEF ShownBy
  <1> QED
    BY <1>1, <1>2 DEF ShownBy

(* A publication of what a document is shows what is wrong with it.         *)
LEMMA PublishedIsShown ==
  ASSUME Typed, NEW f \in Views, NEW g \in Views, NEW s, ShownBy(f, s),
         UNCHANGED <<server, shown>>,
         NEW u \in Uris, NEW x \in Texts, g = [f EXCEPT ![u] = x],
         outbox' = Append(outbox, Publication(u, x))
  PROVE  \E t : ShownBy(g, t)'
  <1> DEFINE o == Publication(u, x)
             l == s[Len(outbox) + 1]
  <1>1. o \in Publications /\ ~IsAnswer(o) /\ o.uri = u
        /\ o.diagnostics = Diagnostics(twin, x)
    BY PublicationIsTyped DEF Publication
  <1>2. o.diagnostics \in Shows
    BY <1>1 DEF Publications
  <1>3. l \in Screens
    BY LastScreen
  <1>4. \A v \in Uris : f[v] # Closed => l[v] = Diagnostics(twin, f[v])
    BY DEF ShownBy
  <1>5. outbox' = Append(outbox, o)
    OBVIOUS
  <1> HIDE DEF o
  <1>6. PICK r : r = Applied(l, o)
    OBVIOUS
  <1> HIDE DEF l
  <1>7. r = [l EXCEPT ![u] = Diagnostics(twin, x)] /\ r \in Screens
    BY <1>1, <1>2, <1>3, <1>6 DEF Applied, Screens
  <1>8. \A v \in Uris : g[v] # Closed => r[v] = Diagnostics(twin, g[v])
    BY <1>3, <1>4, <1>7 DEF Screens, Views
  <1>9. r = Applied(s[Len(outbox) + 1], o)
    BY <1>6 DEF l
  <1>10. ShownBy(g, Append(s, r))'
    BY <1>1, <1>5, <1>7, <1>8, <1>9, ScreenGrows
  <1> QED
    BY <1>10

(* What the server says of a message brings the last screen up to what the  *)
(* server knows.                                                            *)
LEMMA ScreenServed ==
  ASSUME Typed, Serve, NEW f \in Views, Agreed(Held, crowded, f),
         NEW s, ShownBy(f, s), NEW g, g = After(f, Head(inbox))
  PROVE  \E t : ShownBy(g, t)'
  <1>1. PICK m \in Messages : m = Head(inbox) /\ Handled(m)
    BY ServeHandles
  <1>2. UNCHANGED <<server, shown>>
    BY ServeHandles
  <1>3. g \in Views /\ g = After(f, m)
    BY <1>1, AfterIsAView
  <1>4. m.uri \in Uris /\ m.texts \in Seq(Texts)
    BY DEF Messages, MessageRecords
  <1>5. \E t : ShownBy(g, t)'
    <2>1. CASE Published(m)
      <3>1. /\ LastText(m) \in Texts /\ g = [f EXCEPT ![m.uri] = LastText(m)]
            /\ outbox' = Append(outbox, Publication(m.uri, LastText(m)))
        BY <1>3, <1>4, <2>1, LastOfTexts DEF Published, After, LastText, Carries
      <3> QED
        BY <1>2, <1>3, <1>4, <3>1, PublishedIsShown
    <2>2. CASE Forgotten(m)
      <3>1. g = [f EXCEPT ![m.uri] = Closed] /\ outbox' = outbox
        BY <1>3, <2>2 DEF Forgotten, After, Carries
      <3>2. \A u \in Uris : g[u] # Closed => g[u] = f[u]
        BY <3>1 DEF Views
      <3> QED
        BY <1>2, <3>1, <3>2, ScreenStays
    <2>3. CASE Republished(m)
      <3>1. m.uri \in Remembered
        BY <2>3, HeldIsTyped DEF Republished, Typed
      <3>2. DocGet(m.uri) = f[m.uri] /\ f[m.uri] \in Texts
        BY <1>4, <3>1, HeldIsTyped, HeldIsTheMap DEF Agreed, Typed
      <3>3. g = f
        BY <1>3, <2>3 DEF Republished, After, Carries
      <3>4. g = [f EXCEPT ![m.uri] = f[m.uri]]
        BY <3>3 DEF Views
      <3>5. outbox' = Append(outbox, Publication(m.uri, f[m.uri]))
        BY <2>3, <3>2 DEF Republished
      <3> QED
        BY <1>2, <1>3, <1>4, <3>2, <3>4, <3>5, PublishedIsShown
    <2>4. CASE Passed(m)
      <3>1. g = f /\ outbox' = outbox
        BY <1>3, <2>4 DEF Passed, After
      <3> QED
        BY <1>2, <3>1, ScreenStays
    <2>5. CASE Replied(m)
      <3>1. g = f
        BY <1>3, <2>5 DEF Replied, After, Carries, Messages, Requests
      <3>2. PICK o \in Answers : o = Answer(m.id, Found(m)) /\ IsAnswer(o)
        BY <2>5, FoundIsTyped DEF Replied
      <3>3. outbox' = Append(outbox, o)
        BY <2>5, <3>2 DEF Replied
      <3>4. PICK r : r = Applied(s[Len(outbox) + 1], o)
        OBVIOUS
      <3>5. r = s[Len(outbox) + 1] /\ r \in Screens
        BY <3>2, <3>4, LastScreen DEF Applied
      <3>6. \A u \in Uris : f[u] # Closed => r[u] = Diagnostics(twin, f[u])
        BY <3>5 DEF ShownBy
      <3>7. ShownBy(f, Append(s, r))'
        BY <1>2, <3>3, <3>4, <3>5, <3>6, ScreenGrows
      <3> QED
        BY <3>1, <3>7
    <2> QED
      BY <1>1, <2>1, <2>2, <2>3, <2>4, <2>5 DEF Handled
  <1> QED
    BY <1>5

(* The editor reads one.                                                    *)
LEMMA ScreenRead ==
  ASSUME Typed, Receives, NEW f, NEW s, ShownBy(f, s)
  PROVE  ShownBy(f, Tail(s))'
  <1>1. /\ outbox # <<>> /\ outbox' = Tail(outbox) /\ UNCHANGED server
        /\ IF IsAnswer(Head(outbox)) THEN shown' = shown
           ELSE shown'
             = [shown EXCEPT ![Head(outbox).uri] = Head(outbox).diagnostics]
    BY DEF Receives
  <1>2. /\ Len(outbox) \in Nat /\ Len(s) = Len(outbox) + 1
        /\ s \in Seq(Screens) /\ outbox \in Seq(Answers \cup Publications)
    BY LastScreen
  <1>3. Trail(s, outbox, Applies) /\ s[1] = shown
    BY DEF ShownBy
  <1>4. Len(outbox) > 0 /\ Head(outbox) = outbox[1]
    BY <1>1, <1>2, EmptySeq
  <1>5. <<s[1], outbox[1], s[2]>> \in Applies
    BY <1>2, <1>3, <1>4, TrailStarts
  <1>6. s[2] = Applied(shown, Head(outbox))
    BY <1>3, <1>4, <1>5, Applying
  <1>7. shown' = s[2]
    BY <1>1, <1>6 DEF Applied
  <1>8. PICK t : t = Tail(s)
    OBVIOUS
  <1>9. t \in Seq(Screens) /\ Trail(t, outbox', Applies)
    <2>1. Tail(s) \in Seq(Screens) /\ Trail(Tail(s), Tail(outbox), Applies)
      BY <1>1, <1>2, <1>3, TrailShrinks
    <2> QED
      BY <1>1, <1>8, <2>1, Zenon
  <1>10. t[1] = s[2] /\ t[Len(outbox)] = s[Len(outbox) + 1]
    BY <1>2, <1>4, <1>8, RestOfTrail
  <1>11. Len(outbox') + 1 = Len(outbox) /\ twin' = twin
    BY <1>1, <1>2, <1>4, HeadTailProperties DEF server
  <1>12. \A u \in Uris : f[u] # Closed
           => t[Len(outbox') + 1][u] = Diagnostics(twin', f[u])
    BY <1>10, <1>11 DEF ShownBy
  <1>13. ShownBy(f, t)'
    BY <1>7, <1>9, <1>10, <1>12 DEF ShownBy
  <1> QED
    BY <1>8, <1>13

----------------------------------------------------------------------------
ShownInv ==
  \E v : ViewIs(v) /\ \E s : ShownBy(v[1], s)

(* The oldest documents of a history.                                       *)
LEMMA FirstOfView ==
  ASSUME Typed, NEW v, ViewIs(v)
  PROVE  v[1] \in Views /\ Agreed(Held, crowded, v[1])
         /\ Len(v) = Len(inbox) + 1 /\ 1 \in 1..Len(v)
         /\ v \in Seq(Views) /\ Len(inbox) \in Nat
  <1>1. v \in Seq(Views) /\ Len(v) = Len(inbox) + 1 /\ inbox \in Seq(Messages)
        /\ Agreed(Held, crowded, v[1])
    BY DEF ViewIs, Trail, Typed
  <1>2. Len(inbox) \in Nat
    BY <1>1, LenProperties
  <1>3. 1 \in 1..Len(v)
    BY <1>1, <1>2
  <1> QED
    BY <1>1, <1>2, <1>3, ElementOfSeq

(* The first screen is clean and no document is open.                       *)
LEMMA InitShownInv ==
  Init => ShownInv
  <1> SUFFICES ASSUME Init PROVE ShownInv
    OBVIOUS
  <1>1. Typed
    BY InitTypes
  <1>2. /\ text \in Views /\ inbox = <<>> /\ outbox = <<>> /\ shown \in Screens
        /\ text = [u \in Uris |-> Closed]
    BY <1>1 DEF Init, Typed, Screens
  <1> DEFINE v == <<text>>
             s == <<shown>>
  <1>3. v \in Seq(Views) /\ Len(v) = 1 /\ v[1] = text
    BY <1>2, SingletonIsASeq
  <1>4. s \in Seq(Screens) /\ Len(s) = 1 /\ s[1] = shown
    BY <1>2, SingletonIsASeq
  <1> HIDE DEF v, s
  <1>5. Len(inbox) = 0 /\ Len(outbox) = 0
    BY <1>2, EmptySeq
  <1>6. Trail(v, inbox, Follows) /\ Trail(s, outbox, Applies)
    BY <1>3, <1>4, <1>5 DEF Trail
  <1>7. Open(text) = {} /\ Cardinality(Open(text)) = 0
    BY <1>2, FS_EmptySet DEF Open
  <1>8. Fits(text)
    BY <1>1, <1>7, HeldIsTyped DEF Fits, Typed
  <1>9. Agreed(Held, crowded, text)
    <2>1. DOMAIN Held = {}
      BY HeldIsTheMap DEF Init, NoDocs, Remembered
    <2> QED
      BY <1>2, <2>1 DEF Agreed
  <1>10. ViewIs(v)
    <2>1. v[Len(inbox) + 1] = text /\ \A k \in 1..Len(v) : v[k] = text
      BY <1>3, <1>5
    <2> QED
      BY <1>3, <1>6, <1>8, <1>9, <2>1 DEF ViewIs
  <1>11. ShownBy(v[1], s)
    BY <1>2, <1>3, <1>4, <1>6 DEF ShownBy
  <1> QED
    BY <1>10, <1>11 DEF ShownInv

(* What the server knows, and so what is to be shown, is not changed by an  *)
(* edit.                                                                    *)
LEMMA EditKeepsShown ==
  ASSUME Typed, ShownInv, Edit
  PROVE  ShownInv'
  <1>1. PICK m \in Messages : Sending(m)
    BY EditSends
  <1>2. PICK v : ViewIs(v) /\ \E s : ShownBy(v[1], s)
    BY DEF ShownInv
  <1>3. PICK s : ShownBy(v[1], s)
    BY <1>2
  <1>4. PICK w : w = Append(v, text') /\ ViewIs(w)'
    BY <1>1, <1>2, ViewGrows
  <1>5. w[1] = v[1]
    <2>1. text' \in Views
      BY <1>1 DEF Sending
    <2> QED
      BY <1>2, <1>4, <2>1, FirstOfView, AppendProperties
  <1>6. ShownBy(w[1], s)'
    BY <1>1, <1>3, <1>5, ScreenStays DEF Sending
  <1> QED
    BY <1>4, <1>6 DEF ShownInv

(* The server knows more, and says so.                                      *)
LEMMA ServeKeepsShown ==
  ASSUME Typed, ShownInv, Serve
  PROVE  ShownInv'
  <1>1. PICK v : ViewIs(v) /\ \E s : ShownBy(v[1], s)
    BY DEF ShownInv
  <1>2. PICK s : ShownBy(v[1], s)
    BY <1>1
  <1>3. PICK w : w = Tail(v)
    OBVIOUS
  <1>4. ViewIs(w)' /\ w[1] = After(v[1], Head(inbox)) /\ v[1] \in Views
    BY <1>1, <1>3, ViewShrinks
  <1>5. Agreed(Held, crowded, v[1])
    BY <1>1 DEF ViewIs
  <1>6. \E t : ShownBy(w[1], t)'
    BY <1>2, <1>4, <1>5, ScreenServed
  <1> QED
    BY <1>4, <1>6 DEF ShownInv

(* The editor shows the next screen.                                        *)
LEMMA ReceivesKeepsShown ==
  ASSUME Typed, ShownInv, Receives
  PROVE  ShownInv'
  <1>1. PICK v : ViewIs(v) /\ \E s : ShownBy(v[1], s)
    BY DEF ShownInv
  <1>2. PICK s : ShownBy(v[1], s)
    BY <1>1
  <1>3. ViewIs(v)'
    BY <1>1, ViewStays DEF Receives
  <1>4. ShownBy(v[1], Tail(s))'
    BY <1>2, ScreenRead
  <1> QED
    BY <1>3, <1>4 DEF ShownInv

(* Nothing changes.                                                         *)
LEMMA StutterKeepsShown ==
  ASSUME Typed, ShownInv, UNCHANGED vars
  PROVE  ShownInv'
  <1>1. PICK v : ViewIs(v) /\ \E s : ShownBy(v[1], s)
    BY DEF ShownInv
  <1>2. PICK s : ShownBy(v[1], s)
    BY <1>1
  <1>3. ViewIs(v)'
    BY <1>1, ViewStays DEF vars
  <1>4. ShownBy(v[1], s)'
    BY <1>2, ScreenStays DEF vars
  <1> QED
    BY <1>3, <1>4 DEF ShownInv

(* So there is such a history and such screens in every state.              *)
LEMMA ShownInvHolds == Spec => []ShownInv
  <1>1. Init => ShownInv
    BY InitShownInv
  <1>2. Typed /\ ShownInv /\ [Next]_vars => ShownInv'
    BY EditKeepsShown, ServeKeepsShown, ReceivesKeepsShown, StutterKeepsShown
       DEF Next
  <1> QED
    BY <1>1, <1>2, TypesHold, PTL DEF Spec

(* When all is read, the editor shows of every open document what is wrong  *)
(* with the text it last sent, in both implementations and for documents    *)
(* that the table in C has no room for: for every set of documents and      *)
(* texts, size of the table and of the pipes.                               *)
THEOREM WhatIsShownIsCurrent == Spec => []ShownIsCurrent
  <1>1. Typed /\ ShownInv => ShownIsCurrent
    <2> SUFFICES ASSUME Typed, ShownInv, inbox = <<>>, outbox = <<>>,
                 NEW u \in Uris, text[u] # Closed
                 PROVE  shown[u] = Marked[text[u]]
      BY DEF ShownIsCurrent
    <2>1. PICK v : ViewIs(v) /\ \E s : ShownBy(v[1], s)
      BY DEF ShownInv
    <2>2. PICK s : ShownBy(v[1], s)
      BY <2>1
    <2>3. Len(inbox) = 0 /\ Len(outbox) = 0 /\ 0 + 1 = 1
      BY EmptySeq
    <2>4. v[1] = text
      BY <2>1, <2>3 DEF ViewIs
    <2>5. shown[u] = Diagnostics(twin, text[u])
      BY <2>2, <2>3, <2>4 DEF ShownBy
    <2>6. text[u] \in Texts /\ twin \in {"rust", "c"}
      BY HeldIsTyped DEF Typed, Views
    <2> QED
      BY <2>5, <2>6, CountsAlike
  <1> QED
    BY <1>1, TypesHold, ShownInvHolds, PTL

----------------------------------------------------------------------------
(* The requests w that wait are, in their order, what is awaited among out  *)
(* and in, at the places that at gives; v are the documents before each     *)
(* message of in, which decide what is to be answered.                      *)
InTurn(out, in, w, c, v, at) ==
  /\ at \in [1..Len(w) -> 1..Len(out) + Len(in)]
  /\ \A n, l \in 1..Len(w) : n < l => at[n] < at[l]
  /\ \A k \in 1..Len(out) : IsAnswer(out[k]) <=> \E n \in 1..Len(w) : at[n] = k
  /\ \A k \in 1..Len(in) :
       in[k].id # NoId <=> \E n \in 1..Len(w) : at[n] = Len(out) + k
  /\ \A n \in 1..Len(w) : at[n] <= Len(out) =>
       /\ out[at[n]].id = w[n].id
       /\ out[at[n]] = w[n] \/ (c /\ out[at[n]].result = Null)
  /\ \A n \in 1..Len(w) : \A k \in 1..Len(in) : at[n] = Len(out) + k =>
       in[k].id = w[n].id /\ w[n].result = Expected(in[k], v[k])

Outs == Answers \cup Publications

(* Room for one place more at the end.                                      *)
LEMMA OneMore ==
  \A p, q \in Nat : \A z \in 1..p + q :
    z # p + (q + 1) /\ z \in 1..p + (q + 1)
  OBVIOUS

(* A message that calls for no answer is sent.                              *)
LEMMA ToldInTurn ==
  ASSUME NEW out \in Seq(Outs), NEW in \in Seq(Messages),
         NEW w \in Seq(Answers),
         NEW c, NEW d, c => d, NEW v \in Seq(Views), Len(v) = Len(in) + 1,
         NEW at, InTurn(out, in, w, c, v, at),
         NEW m \in Messages, m.id = NoId, NEW f \in Views,
         NEW i, i = Append(in, m), NEW x, x = Append(v, f)
  PROVE  InTurn(out, i, w, d, x, at)
  <1>1. Len(out) \in Nat /\ Len(in) \in Nat /\ Len(w) \in Nat
    BY LenProperties
  <1>2. Len(i) = Len(in) + 1 /\ i[Len(in) + 1] = m
        /\ \A k \in 1..Len(in) : i[k] = in[k]
    BY AppendProperties
  <1>3. \A k \in 1..Len(in) : x[k] = v[k]
    <2>1. \A k \in 1..Len(v) : x[k] = v[k]
      BY AppendProperties
    <2> QED
      BY <1>1, <2>1
  <1>4. /\ at \in [1..Len(w) -> 1..Len(out) + Len(in)]
        /\ \A n \in 1..Len(w) : at[n] # Len(out) + (Len(in) + 1)
                                /\ at[n] \in 1..Len(out) + Len(i)
    <2>1. at \in [1..Len(w) -> 1..Len(out) + Len(in)]
      BY DEF InTurn
    <2>2. \A n \in 1..Len(w) : at[n] \in 1..Len(out) + Len(in)
      BY <2>1
    <2> QED
      BY <1>1, <1>2, <2>1, <2>2, OneMore, Zenon
  <1>5. at \in [1..Len(w) -> 1..Len(out) + Len(i)]
    BY <1>4
  <1>6. \A k \in 1..Len(i) : k \in 1..Len(in) \/ k = Len(in) + 1
    BY <1>1, <1>2
  <1>8. \A k \in 1..Len(i) :
          i[k].id # NoId <=> \E n \in 1..Len(w) : at[n] = Len(out) + k
    BY <1>2, <1>4, <1>6 DEF InTurn
  <1>9. \A n \in 1..Len(w) : \A k \in 1..Len(i) : at[n] = Len(out) + k =>
          i[k].id = w[n].id /\ w[n].result = Expected(i[k], x[k])
    <2> TAKE n \in 1..Len(w)
    <2> TAKE k \in 1..Len(i)
    <2> HAVE at[n] = Len(out) + k
    <2>1. k \in 1..Len(in)
      BY <1>4, <1>6
    <2>2. i[k] = in[k] /\ x[k] = v[k]
      BY <1>2, <1>3, <2>1
    <2> QED
      BY <2>1, <2>2 DEF InTurn
  <1>10. \A n \in 1..Len(w) : at[n] <= Len(out) =>
           /\ out[at[n]].id = w[n].id
           /\ out[at[n]] = w[n] \/ (d /\ out[at[n]].result = Null)
    BY DEF InTurn
  <1> QED
    BY <1>5, <1>8, <1>9, <1>10 DEF InTurn

(* A request is sent.                                                       *)
LEMMA AskedInTurn ==
  ASSUME NEW out \in Seq(Outs), NEW in \in Seq(Messages),
         NEW w \in Seq(Answers),
         NEW c, NEW v \in Seq(Views), Len(v) = Len(in) + 1,
         NEW at, InTurn(out, in, w, c, v, at),
         NEW m \in Messages, m.id # NoId, NEW f \in Views,
         NEW i, i = Append(in, m), NEW x, x = Append(v, f),
         NEW a \in Answers, a.id = m.id, a.result = Expected(m, v[Len(in) + 1]),
         NEW y, y = Append(w, a)
  PROVE  \E b : InTurn(out, i, y, c, x, b)
  <1> DEFINE last == Len(out) + (Len(in) + 1)
             b == [n \in 1..Len(w) + 1 |->
                     IF n = Len(w) + 1 THEN last ELSE at[n]]
  <1>1. Len(out) \in Nat /\ Len(in) \in Nat /\ Len(w) \in Nat
    BY LenProperties
  <1>2. Len(i) = Len(in) + 1 /\ i[Len(in) + 1] = m
        /\ \A k \in 1..Len(in) : i[k] = in[k]
    BY AppendProperties
  <1>3. Len(y) = Len(w) + 1 /\ y[Len(w) + 1] = a
        /\ \A n \in 1..Len(w) : y[n] = w[n]
    BY AppendProperties
  <1>4. x[Len(in) + 1] = v[Len(in) + 1] /\ \A k \in 1..Len(in) : x[k] = v[k]
    <2>1. \A k \in 1..Len(v) : x[k] = v[k]
      BY AppendProperties
    <2> QED
      BY <1>1, <2>1
  <1>5. \A n \in 1..Len(w) : at[n] \in Int /\ at[n] >= 1
        /\ at[n] <= Len(out) + Len(in)
    <2>1. at \in [1..Len(w) -> 1..Len(out) + Len(in)]
      BY DEF InTurn
    <2>2. \A n \in 1..Len(w) : at[n] \in 1..Len(out) + Len(in)
      BY <2>1
    <2>3. \A p, q \in Nat : \A z \in 1..p + q : z \in Int /\ z >= 1
          /\ z <= p + q
      OBVIOUS
    <2> QED
      BY <1>1, <2>2, <2>3, Zenon
  <1>6. /\ \A n \in 1..Len(y) : n \in 1..Len(w) \/ n = Len(w) + 1
        /\ \A n \in 1..Len(w) : n \in 1..Len(y) /\ n < Len(w) + 1
           /\ ~(Len(w) + 1 < n)
        /\ Len(w) + 1 \in 1..Len(y) /\ Len(w) + 1 \in Int
           /\ ~(Len(w) + 1 < Len(w) + 1)
    BY <1>1, <1>3
  <1>7. b[Len(w) + 1] = last /\ \A n \in 1..Len(w) : b[n] = at[n]
    BY <1>1, <1>3, <1>6
  <1>8. b \in [1..Len(y) -> 1..Len(out) + Len(i)]
    <2>1. last \in 1..Len(out) + Len(i)
          /\ \A n \in 1..Len(w) : at[n] \in 1..Len(out) + Len(i)
      BY <1>1, <1>2, <1>5
    <2>2. \A n \in 1..Len(w) + 1 :
            (IF n = Len(w) + 1 THEN last ELSE at[n]) \in 1..Len(out) + Len(i)
      BY <1>3, <1>6, <2>1, Zenon
    <2> QED
      BY <1>3, <2>2
  <1>9. last \in Int /\ last > Len(out)
        /\ \A n \in 1..Len(w) : at[n] < last /\ at[n] # last
    BY <1>1, <1>5
  <1> HIDE DEF b
  <1>10. \A n, l \in 1..Len(y) : n < l => b[n] < b[l]
    <2> TAKE n, l \in 1..Len(y)
    <2>1. CASE n \in 1..Len(w) /\ l \in 1..Len(w)
      BY <1>7, <2>1 DEF InTurn
    <2>2. CASE n \in 1..Len(w) /\ l = Len(w) + 1
      BY <1>7, <1>9, <2>2
    <2>3. CASE n = Len(w) + 1
      BY <1>6, <2>3
    <2> QED
      BY <1>6, <2>1, <2>2, <2>3
  <1>11. \A k \in 1..Len(out) : k # last /\ k \in Int
    BY <1>1
  <1>12. \A k \in 1..Len(out) : IsAnswer(out[k])
           <=> \E n \in 1..Len(y) : b[n] = k
    <2> TAKE k \in 1..Len(out)
    <2>1. (\E n \in 1..Len(y) : b[n] = k) <=> \E n \in 1..Len(w) : at[n] = k
      BY <1>6, <1>7, <1>11, Zenon
    <2> QED
      BY <2>1 DEF InTurn
  <1>13. \A k \in 1..Len(i) : \/ k \in 1..Len(in) /\ Len(out) + k # last
                              \/ k = Len(in) + 1 /\ Len(out) + k = last
    <2>1. \A p, q \in Nat : \A k \in 1..q + 1 :
            \/ k \in 1..q /\ p + k # p + (q + 1)
            \/ k = q + 1 /\ p + k = p + (q + 1)
      OBVIOUS
    <2> QED
      BY <1>1, <1>2, <2>1, Zenon
  <1>14. \A k \in 1..Len(i) :
           i[k].id # NoId <=> \E n \in 1..Len(y) : b[n] = Len(out) + k
    <2> TAKE k \in 1..Len(i)
    <2>1. CASE k \in 1..Len(in) /\ Len(out) + k # last
      <3>1. (\E n \in 1..Len(y) : b[n] = Len(out) + k)
              <=> \E n \in 1..Len(w) : at[n] = Len(out) + k
        BY <1>6, <1>7, <2>1, Zenon
      <3> QED
        BY <1>2, <2>1, <3>1 DEF InTurn
    <2>2. CASE k = Len(in) + 1 /\ Len(out) + k = last
      BY <1>2, <1>6, <1>7, <2>2, Zenon
    <2> QED
      BY <1>13, <2>1, <2>2
  <1>15. \A n \in 1..Len(y) : b[n] <= Len(out) =>
           /\ out[b[n]].id = y[n].id
           /\ out[b[n]] = y[n] \/ (c /\ out[b[n]].result = Null)
    <2> TAKE n \in 1..Len(y)
    <2>1. CASE n \in 1..Len(w)
      BY <1>3, <1>7, <2>1 DEF InTurn
    <2>2. CASE n = Len(w) + 1
      <3>1. ~(last <= Len(out))
        BY <1>1, <1>9
      <3> QED
        BY <1>7, <2>2, <3>1
    <2> QED
      BY <1>6, <2>1, <2>2
  <1>16. \A n \in 1..Len(y) : \A k \in 1..Len(i) : b[n] = Len(out) + k =>
           i[k].id = y[n].id /\ y[n].result = Expected(i[k], x[k])
    <2> TAKE n \in 1..Len(y)
    <2> TAKE k \in 1..Len(i)
    <2> HAVE b[n] = Len(out) + k
    <2>1. CASE n \in 1..Len(w)
      <3>1. at[n] = Len(out) + k /\ at[n] # last
        BY <1>7, <1>9, <2>1
      <3>2. k \in 1..Len(in)
        BY <1>13, <3>1
      <3> QED
        BY <1>2, <1>3, <1>4, <2>1, <3>1, <3>2 DEF InTurn
    <2>2. CASE n = Len(w) + 1
      <3>1. k = Len(in) + 1
        BY <1>7, <1>13, <2>2
      <3> QED
        BY <1>2, <1>3, <1>4, <2>2, <3>1
    <2> QED
      BY <1>6, <2>1, <2>2
  <1>17. InTurn(out, i, y, c, x, b)
    BY <1>8, <1>10, <1>12, <1>14, <1>15, <1>16 DEF InTurn
  <1> QED
    BY <1>17

----------------------------------------------------------------------------
(* The places are among those of what is on its way.                        *)
LEMMA TurnIsTyped ==
  ASSUME NEW out \in Seq(Outs), NEW in \in Seq(Messages),
         NEW w \in Seq(Answers),
         NEW c, NEW v, NEW at, InTurn(out, in, w, c, v, at)
  PROVE  /\ Len(out) \in Nat /\ Len(in) \in Nat /\ Len(w) \in Nat
         /\ at \in [1..Len(w) -> 1..Len(out) + Len(in)]
         /\ \A n \in 1..Len(w) : /\ at[n] \in 1..Len(out) + Len(in)
                                 /\ at[n] \in Int /\ at[n] >= 1
                                 /\ at[n] <= Len(out) + Len(in)
  <1>1. Len(out) \in Nat /\ Len(in) \in Nat /\ Len(w) \in Nat
    BY LenProperties
  <1>2. at \in [1..Len(w) -> 1..Len(out) + Len(in)]
    BY DEF InTurn
  <1>3. \A n \in 1..Len(w) : at[n] \in 1..Len(out) + Len(in)
    BY <1>2
  <1>4. \A p, q \in Nat : \A z \in 1..p + q : z \in Int /\ z >= 1 /\ z <= p + q
    OBVIOUS
  <1> QED
    BY <1>1, <1>2, <1>3, <1>4, Zenon

(* Arithmetic of places: a message that is read and answered keeps its      *)
(* place, after p that are said and before q - 1 that are not read.         *)
LEMMA PlaceMoves ==
  ASSUME NEW p \in Nat, NEW q \in Nat, q > 0
  PROVE  /\ p + q = (p + 1) + (q - 1) /\ 1 \in 1..q
         /\ \A k \in 1..q - 1 : p + (k + 1) = (p + 1) + k /\ k + 1 \in 1..q
         /\ \A k \in 1..p + 1 : k \in 1..p \/ k = p + 1
         /\ \A k \in 1..p + q : k <= p + 1
              => (k <= p /\ k \in 1..p) \/ k = p + 1
  OBVIOUS

(* One that is not answered gives up its place p + 1.                       *)
LEMMA PlaceShifts ==
  ASSUME NEW p \in Nat, NEW q \in Nat, q > 0
  PROVE  /\ \A z \in 1..p + q : z # p + 1 =>
              IF z <= p THEN z \in 1..p + (q - 1)
              ELSE z - 1 \in 1..p + (q - 1) /\ ~(z - 1 <= p)
              /\ \A k \in 1..p : z - 1 # k
         /\ \A z \in 1..p + q : \A k \in 1..q - 1 : z # p + 1 =>
              IF z <= p THEN z # p + k /\ z # p + (k + 1)
              ELSE z - 1 = p + k <=> z = p + (k + 1)
         /\ \A z, y \in 1..p + q : z # p + 1 /\ y # p + 1 /\ z < y =>
              (IF z <= p THEN z ELSE z - 1) < (IF y <= p THEN y ELSE y - 1)
  OBVIOUS

(* A message is read and something is said: an answer, if it asks for one.  *)
LEMMA ServedInTurn ==
  ASSUME NEW out \in Seq(Outs), NEW in \in Seq(Messages), in # <<>>,
         NEW w \in Seq(Answers),
         NEW c, NEW v \in Seq(Views), Len(v) = Len(in) + 1,
         NEW at, InTurn(out, in, w, c, v, at),
         NEW o \in Outs, IsAnswer(o) <=> in[1].id # NoId,
         IsAnswer(o) => /\ o \in Answers /\ o.id = in[1].id
                        /\ o.result = Expected(in[1], v[1])
                           \/ (c /\ o.result = Null),
         NEW r, r = Append(out, o), NEW i, i = Tail(in), NEW x, x = Tail(v)
  PROVE  InTurn(r, i, w, c, x, at)
  <1>1. /\ Len(out) \in Nat /\ Len(in) \in Nat /\ Len(w) \in Nat
        /\ at \in [1..Len(w) -> 1..Len(out) + Len(in)]
        /\ \A n \in 1..Len(w) : at[n] \in 1..Len(out) + Len(in)
    BY TurnIsTyped
  <1>2. Len(in) > 0
    BY EmptySeq
  <1>3. Len(r) = Len(out) + 1 /\ r[Len(out) + 1] = o
        /\ \A k \in 1..Len(out) : r[k] = out[k]
    BY AppendProperties
  <1>4. Len(i) = Len(in) - 1 /\ \A k \in 1..Len(i) : i[k] = in[k + 1]
    BY HeadTailProperties
  <1>5. \A k \in 1..Len(i) : x[k] = v[k + 1]
    <2>1. v # <<>>
      BY <1>1, EmptySeq
    <2>2. Len(x) = Len(v) - 1 /\ \A k \in 1..Len(x) : x[k] = v[k + 1]
      BY <2>1, HeadTailProperties
    <2>3. \A k \in 1..Len(i) : k \in 1..Len(x)
      BY <1>1, <1>4, <2>2
    <2> QED
      BY <2>2, <2>3
  <1>6. /\ Len(out) + Len(in) = (Len(out) + 1) + (Len(in) - 1)
           /\ 1 \in 1..Len(in)
        /\ \A k \in 1..Len(in) - 1 : Len(out) + (k + 1) = (Len(out) + 1) + k
           /\ k + 1 \in 1..Len(in)
        /\ \A k \in 1..Len(out) + 1 : k \in 1..Len(out) \/ k = Len(out) + 1
        /\ \A k \in 1..Len(out) + Len(in) : k <= Len(out) + 1
             => (k <= Len(out) /\ k \in 1..Len(out)) \/ k = Len(out) + 1
    BY <1>1, <1>2, PlaceMoves
  <1>7. at \in [1..Len(w) -> 1..Len(r) + Len(i)]
    BY <1>1, <1>2, <1>3, <1>4, <1>6, Zenon
  <1>8. \A n, l \in 1..Len(w) : n < l => at[n] < at[l]
    BY DEF InTurn
  <1>9. in[1].id # NoId <=> \E n \in 1..Len(w) : at[n] = Len(out) + 1
    <2>1. 1 \in 1..Len(in)
      BY <1>1, <1>2
    <2> QED
      BY <2>1 DEF InTurn
  <1>10. \A k \in 1..Len(r) : IsAnswer(r[k]) <=> \E n \in 1..Len(w) : at[n] = k
    <2> TAKE k \in 1..Len(r)
    <2>1. CASE k \in 1..Len(out)
      BY <1>3, <2>1 DEF InTurn
    <2>2. CASE k = Len(out) + 1
      BY <1>3, <1>9, <2>2, Zenon
    <2>3. k \in 1..Len(out) \/ k = Len(out) + 1
      BY <1>1, <1>2, <1>3, <1>6, Zenon
    <2> QED
      BY <2>1, <2>2, <2>3
  <1>11. \A k \in 1..Len(i) : k + 1 \in 1..Len(in)
         /\ Len(out) + (k + 1) = Len(r) + k
    BY <1>1, <1>2, <1>3, <1>4, <1>6, Zenon
  <1>12. \A k \in 1..Len(i) :
           i[k].id # NoId <=> \E n \in 1..Len(w) : at[n] = Len(r) + k
    BY <1>4, <1>11 DEF InTurn
  <1>13. \A n \in 1..Len(w) : at[n] <= Len(r) =>
           /\ r[at[n]].id = w[n].id
           /\ r[at[n]] = w[n] \/ (c /\ r[at[n]].result = Null)
    <2> TAKE n \in 1..Len(w)
    <2> HAVE at[n] <= Len(r)
    <2>1. (at[n] <= Len(out) /\ at[n] \in 1..Len(out)) \/ at[n] = Len(out) + 1
      BY <1>1, <1>2, <1>3, <1>6, Zenon
    <2>2. CASE at[n] <= Len(out) /\ at[n] \in 1..Len(out)
      BY <1>3, <2>2 DEF InTurn
    <2>3. CASE at[n] = Len(out) + 1
      <3>1. 1 \in 1..Len(in)
        BY <1>1, <1>2
      <3>2. in[1].id = w[n].id /\ w[n].result = Expected(in[1], v[1])
        BY <2>3, <3>1 DEF InTurn
      <3>3. IsAnswer(o) /\ o \in Answers /\ o.id = in[1].id
            /\ (o.result = Expected(in[1], v[1]) \/ (c /\ o.result = Null))
        BY <1>9, <2>3
      <3>4. w[n] \in Answers
        BY ElementOfSeq
      <3>5. o.result = w[n].result => o = w[n]
        <4>1. /\ o = [id |-> o.id, result |-> o.result]
              /\ w[n] = [id |-> w[n].id, result |-> w[n].result]
          BY <3>3, <3>4 DEF Answers
        <4>2. o.id = w[n].id
          BY <3>2, <3>3
        <4> QED
          BY <4>1, <4>2, Zenon
      <3>6. r[at[n]] = o
        BY <1>3, <2>3
      <3> QED
        BY <3>2, <3>3, <3>5, <3>6
    <2> QED
      BY <2>1, <2>2, <2>3
  <1>14. \A n \in 1..Len(w) : \A k \in 1..Len(i) : at[n] = Len(r) + k =>
           i[k].id = w[n].id /\ w[n].result = Expected(i[k], x[k])
    BY <1>4, <1>5, <1>11 DEF InTurn
  <1> QED
    BY <1>7, <1>8, <1>10, <1>12, <1>13, <1>14 DEF InTurn

(* A message is read and nothing is said.                                   *)
LEMMA SilentInTurn ==
  ASSUME NEW out \in Seq(Outs), NEW in \in Seq(Messages), in # <<>>,
         NEW w \in Seq(Answers),
         NEW c, NEW v \in Seq(Views), Len(v) = Len(in) + 1,
         NEW at, InTurn(out, in, w, c, v, at), in[1].id = NoId,
         NEW i, i = Tail(in), NEW x, x = Tail(v)
  PROVE  \E b : InTurn(out, i, w, c, x, b)
  <1> DEFINE b == [n \in 1..Len(w) |->
                     IF at[n] <= Len(out) THEN at[n] ELSE at[n] - 1]
  <1>1. /\ Len(out) \in Nat /\ Len(in) \in Nat /\ Len(w) \in Nat
        /\ at \in [1..Len(w) -> 1..Len(out) + Len(in)]
        /\ \A n \in 1..Len(w) : at[n] \in 1..Len(out) + Len(in)
    BY TurnIsTyped
  <1>2. Len(in) > 0
    BY EmptySeq
  <1>3. Len(i) = Len(in) - 1 /\ \A k \in 1..Len(i) : i[k] = in[k + 1]
    BY HeadTailProperties
  <1>4. \A k \in 1..Len(i) : x[k] = v[k + 1]
    <2>1. v # <<>>
      BY <1>1, EmptySeq
    <2>2. Len(x) = Len(v) - 1 /\ \A k \in 1..Len(x) : x[k] = v[k + 1]
      BY <2>1, HeadTailProperties
    <2>3. \A k \in 1..Len(i) : k \in 1..Len(x)
      BY <1>1, <1>3, <2>2
    <2> QED
      BY <2>2, <2>3
  <1>5. \A n \in 1..Len(w) : at[n] # Len(out) + 1
    <2>1. 1 \in 1..Len(in)
      BY <1>1, <1>2
    <2> QED
      BY <2>1 DEF InTurn
  <1>6. /\ \A z \in 1..Len(out) + Len(in) : z # Len(out) + 1 =>
             IF z <= Len(out) THEN z \in 1..Len(out) + (Len(in) - 1)
             ELSE z - 1 \in 1..Len(out) + (Len(in) - 1) /\ ~(z - 1 <= Len(out))
             /\ \A k \in 1..Len(out) : z - 1 # k
        /\ \A z \in 1..Len(out) + Len(in) : \A k \in 1..Len(in) - 1 :
             z # Len(out) + 1 =>
             IF z <= Len(out) THEN z # Len(out) + k /\ z # Len(out) + (k + 1)
             ELSE z - 1 = Len(out) + k <=> z = Len(out) + (k + 1)
        /\ \A z, y \in 1..Len(out) + Len(in) : z # Len(out) + 1
           /\ y # Len(out) + 1 /\ z < y =>
             (IF z <= Len(out) THEN z ELSE z - 1)
               < (IF y <= Len(out) THEN y ELSE y - 1)
    BY <1>1, <1>2, PlaceShifts
  <1>7. \A n \in 1..Len(w) : b[n]
          = IF at[n] <= Len(out) THEN at[n] ELSE at[n] - 1
    OBVIOUS
  <1>8. b \in [1..Len(w) -> 1..Len(out) + Len(i)]
    <2>1. \A n \in 1..Len(w) :
            (IF at[n] <= Len(out) THEN at[n] ELSE at[n] - 1)
              \in 1..Len(out) + Len(i)
      <3> TAKE n \in 1..Len(w)
      <3>1. /\ at[n] <= Len(out) => at[n] \in 1..Len(out) + (Len(in) - 1)
            /\ ~(at[n] <= Len(out)) => at[n] - 1 \in 1..Len(out) + (Len(in) - 1)
        BY <1>1, <1>5, <1>6, Zenon
      <3> QED
        BY <1>3, <3>1, Zenon
    <2> QED
      BY <2>1
  <1> HIDE DEF b
  <1>9. \A n, l \in 1..Len(w) : n < l => b[n] < b[l]
    <2> TAKE n, l \in 1..Len(w)
    <2> HAVE n < l
    <2>1. at[n] < at[l]
      BY DEF InTurn
    <2>2. (IF at[n] <= Len(out) THEN at[n] ELSE at[n] - 1)
            < (IF at[l] <= Len(out) THEN at[l] ELSE at[l] - 1)
      <3>1. /\ at[n] \in 1..Len(out) + Len(in) /\ at[n] # Len(out) + 1
            /\ at[l] \in 1..Len(out) + Len(in) /\ at[l] # Len(out) + 1
        BY <1>1, <1>5, Zenon
      <3>2. PICK z \in 1..Len(out) + Len(in) : z = at[n]
        BY <3>1
      <3>3. PICK y \in 1..Len(out) + Len(in) : y = at[l]
        BY <3>1
      <3>4. (IF z <= Len(out) THEN z ELSE z - 1)
              < (IF y <= Len(out) THEN y ELSE y - 1)
        BY <1>6, <2>1, <3>1, <3>2, <3>3, Zenon
      <3> QED
        BY <3>2, <3>3, <3>4
    <2> QED
      BY <1>7, <2>2
  <1>10. \A k \in 1..Len(out) : IsAnswer(out[k])
           <=> \E n \in 1..Len(w) : b[n] = k
    <2> TAKE k \in 1..Len(out)
    <2>1. \A n \in 1..Len(w) : b[n] = k <=> at[n] = k
      <3> TAKE n \in 1..Len(w)
      <3>1. CASE at[n] <= Len(out)
        BY <1>7, <3>1
      <3>2. CASE ~(at[n] <= Len(out))
        <4>1. at[n] - 1 # k
          BY <1>1, <1>2, <1>5, <1>6, <3>2, Zenon
        <4>2. k <= Len(out)
          BY <1>1
        <4> QED
          BY <1>7, <3>2, <4>1, <4>2
      <3> QED
        BY <3>1, <3>2
    <2> QED
      BY <2>1 DEF InTurn
  <1>11. \A k \in 1..Len(i) : k + 1 \in 1..Len(in)
    BY <1>1, <1>3
  <1>12. \A n \in 1..Len(w) : \A k \in 1..Len(i) : b[n] = Len(out) + k
           <=> at[n] = Len(out) + (k + 1)
    <2> TAKE n \in 1..Len(w)
    <2> TAKE k \in 1..Len(i)
    <2>1. /\ at[n] <= Len(out) => at[n] # Len(out) + k
             /\ at[n] # Len(out) + (k + 1)
          /\ ~(at[n] <= Len(out)) =>
               (at[n] - 1 = Len(out) + k <=> at[n] = Len(out) + (k + 1))
      <3>1. k \in 1..Len(in) - 1
        BY <1>3
      <3> QED
        BY <1>1, <1>5, <1>6, <3>1, Zenon
    <2> QED
      BY <1>7, <2>1
  <1>13. \A k \in 1..Len(i) :
           i[k].id # NoId <=> \E n \in 1..Len(w) : b[n] = Len(out) + k
    <2> TAKE k \in 1..Len(i)
    <2>1. in[k + 1].id # NoId
            <=> \E n \in 1..Len(w) : at[n] = Len(out) + (k + 1)
      BY <1>11 DEF InTurn
    <2> QED
      BY <1>3, <1>12, <2>1, Zenon
  <1>14. \A n \in 1..Len(w) : b[n] <= Len(out) =>
           /\ out[b[n]].id = w[n].id
           /\ out[b[n]] = w[n] \/ (c /\ out[b[n]].result = Null)
    <2> TAKE n \in 1..Len(w)
    <2>1. CASE at[n] <= Len(out)
      BY <1>7, <2>1 DEF InTurn
    <2>2. CASE ~(at[n] <= Len(out))
      <3>1. ~(at[n] - 1 <= Len(out))
        BY <1>1, <1>2, <1>5, <1>6, <2>2, Zenon
      <3> QED
        BY <1>7, <2>2, <3>1
    <2> QED
      BY <2>1, <2>2
  <1>15. \A n \in 1..Len(w) : \A k \in 1..Len(i) : b[n] = Len(out) + k =>
           i[k].id = w[n].id /\ w[n].result = Expected(i[k], x[k])
    <2> TAKE n \in 1..Len(w)
    <2> TAKE k \in 1..Len(i)
    <2> HAVE b[n] = Len(out) + k
    <2>1. at[n] = Len(out) + (k + 1)
      BY <1>12
    <2>2. in[k + 1].id = w[n].id /\ w[n].result = Expected(in[k + 1], v[k + 1])
      BY <1>11, <2>1 DEF InTurn
    <2> QED
      BY <1>3, <1>4, <2>2
  <1>16. InTurn(out, i, w, c, x, b)
    BY <1>8, <1>9, <1>10, <1>13, <1>14, <1>15 DEF InTurn
  <1> QED
    BY <1>16

----------------------------------------------------------------------------
(* Every place is one nearer when the first of p is read.                   *)
LEMMA PlaceRead ==
  ASSUME NEW p \in Nat, NEW q \in Nat, p > 0
  PROVE  /\ \A z \in 1..p + q : z # 1 =>
              /\ z - 1 \in 1..(p - 1) + q
              /\ z - 1 <= p - 1 <=> z <= p
         /\ \A k \in 1..p - 1 : k + 1 \in 1..p
         /\ \A z \in 1..p + q : \A k \in 1..p - 1 : z - 1 = k <=> z = k + 1
         /\ \A z \in 1..p + q : \A k \in 1..q : z - 1 = (p - 1) + k
              <=> z = p + k
         /\ \A z, y \in 1..p + q : z < y => z - 1 < y - 1
         /\ \A z \in 1..p + q : z # 1 /\ z <= p => z - 1 \in 1..p - 1
            /\ (z - 1) + 1 = z
         /\ \A k \in 1..p - 1 : k + 1 # 1
         /\ \A k \in 1..q : p + k # 1
  OBVIOUS

(* The editor reads what is no answer.                                      *)
LEMMA OtherReadInTurn ==
  ASSUME NEW out \in Seq(Outs), out # <<>>, NEW in \in Seq(Messages),
         NEW w \in Seq(Answers),
         NEW c, NEW v, NEW at, InTurn(out, in, w, c, v, at),
         ~IsAnswer(out[1]), NEW r, r = Tail(out)
  PROVE  \E b : InTurn(r, in, w, c, v, b)
  <1> DEFINE b == [n \in 1..Len(w) |-> at[n] - 1]
  <1>1. /\ Len(out) \in Nat /\ Len(in) \in Nat /\ Len(w) \in Nat
        /\ \A n \in 1..Len(w) : at[n] \in 1..Len(out) + Len(in)
    BY TurnIsTyped
  <1>2. Len(out) > 0 /\ 1 \in 1..Len(out)
    BY <1>1, EmptySeq
  <1>3. Len(r) = Len(out) - 1 /\ \A k \in 1..Len(r) : r[k] = out[k + 1]
    BY HeadTailProperties
  <1>4. \A n \in 1..Len(w) : at[n] # 1
    BY <1>2 DEF InTurn
  <1>5a. \A z \in 1..Len(out) + Len(in) : z # 1 =>
          /\ z - 1 \in 1..Len(r) + Len(in)
          /\ z - 1 <= Len(r) <=> z <= Len(out)
    BY <1>1, <1>2, <1>3, PlaceRead
  <1>5b. \A k \in 1..Len(r) : k + 1 \in 1..Len(out)
    BY <1>1, <1>2, <1>3, PlaceRead
  <1>5c. \A z \in 1..Len(out) + Len(in) : \A k \in 1..Len(r) : z - 1 = k
           <=> z = k + 1
    BY <1>1, <1>2, <1>3, PlaceRead
  <1>5d. \A z \in 1..Len(out) + Len(in) : \A k \in 1..Len(in) :
           z - 1 = Len(r) + k <=> z = Len(out) + k
    BY <1>1, <1>2, <1>3, PlaceRead
  <1>5e. \A z, y \in 1..Len(out) + Len(in) : z < y => z - 1 < y - 1
    BY <1>1, <1>2, <1>3, PlaceRead
  <1>5f. \A z \in 1..Len(out) + Len(in) : z # 1 /\ z <= Len(out)
           => z - 1 \in 1..Len(r) /\ (z - 1) + 1 = z
    BY <1>1, <1>2, <1>3, PlaceRead
  <1>6. \A n \in 1..Len(w) : b[n] = at[n] - 1
    OBVIOUS
  <1>7. b \in [1..Len(w) -> 1..Len(r) + Len(in)]
    <2>1. \A n \in 1..Len(w) : at[n] - 1 \in 1..Len(r) + Len(in)
      BY <1>1, <1>4, <1>5a, Zenon
    <2> QED
      BY <2>1
  <1> HIDE DEF b
  <1>8. \A n, l \in 1..Len(w) : n < l => b[n] < b[l]
    <2> TAKE n, l \in 1..Len(w)
    <2> HAVE n < l
    <2>1. at[n] < at[l]
      BY DEF InTurn
    <2>2. at[n] - 1 < at[l] - 1
      BY <1>1, <1>5e, <2>1, Zenon
    <2> QED
      BY <1>6, <2>2
  <1>9. \A k \in 1..Len(r) : IsAnswer(r[k]) <=> \E n \in 1..Len(w) : b[n] = k
    <2> TAKE k \in 1..Len(r)
    <2>1. ASSUME NEW n \in 1..Len(w) PROVE b[n] = k <=> at[n] = k + 1
      <3>1. at[n] - 1 = k <=> at[n] = k + 1
        BY <1>1, <1>5c, Zenon
      <3>2. b[n] = at[n] - 1
        BY <1>6
      <3> QED
        BY <3>1, <3>2, Zenon
    <2>2. r[k] = out[k + 1] /\ k + 1 \in 1..Len(out)
      BY <1>3, <1>5b
    <2>3. IsAnswer(out[k + 1]) <=> \E n \in 1..Len(w) : at[n] = k + 1
      BY <2>2 DEF InTurn
    <2> QED
      BY <2>1, <2>2, <2>3, Zenon
  <1>10. \A n \in 1..Len(w) : \A k \in 1..Len(in) : b[n] = Len(r) + k
           <=> at[n] = Len(out) + k
    <2> TAKE n \in 1..Len(w)
    <2> TAKE k \in 1..Len(in)
    <2>1. at[n] - 1 = Len(r) + k <=> at[n] = Len(out) + k
      BY <1>1, <1>5d, Zenon
    <2>2. b[n] = at[n] - 1
      BY <1>6
    <2> QED
      BY <2>1, <2>2, Zenon
  <1>11. \A k \in 1..Len(in) :
           in[k].id # NoId <=> \E n \in 1..Len(w) : b[n] = Len(r) + k
    BY <1>10 DEF InTurn
  <1>12. \A n \in 1..Len(w) : b[n] <= Len(r) =>
           /\ r[b[n]].id = w[n].id
           /\ r[b[n]] = w[n] \/ (c /\ r[b[n]].result = Null)
    <2> TAKE n \in 1..Len(w)
    <2> HAVE b[n] <= Len(r)
    <2>1. at[n] <= Len(out)
      BY <1>1, <1>4, <1>5a, <1>6, Zenon
    <2>2. b[n] \in 1..Len(r) /\ b[n] + 1 = at[n]
      BY <1>1, <1>4, <1>5f, <1>6, <2>1, Zenon
    <2>3. r[b[n]] = out[at[n]]
      BY <1>3, <2>2
    <2> QED
      BY <2>1, <2>3 DEF InTurn
  <1>13. \A n \in 1..Len(w) : \A k \in 1..Len(in) : b[n] = Len(r) + k =>
           in[k].id = w[n].id /\ w[n].result = Expected(in[k], v[k])
    BY <1>10 DEF InTurn
  <1>14. InTurn(r, in, w, c, v, b)
    BY <1>7, <1>8, <1>9, <1>11, <1>12, <1>13 DEF InTurn
  <1> QED
    BY <1>14

(* An answer is for the request that waits longest.                         *)
LEMMA FirstInTurn ==
  ASSUME NEW out \in Seq(Outs), out # <<>>, NEW in \in Seq(Messages),
         NEW w \in Seq(Answers),
         NEW c, NEW v, NEW at, InTurn(out, in, w, c, v, at), IsAnswer(out[1])
  PROVE  /\ Len(w) \in Nat /\ Len(w) > 0 /\ at[1] = 1 /\ w[1].id = out[1].id
         /\ \A n \in 1..Len(w) : n # 1 => at[n] # 1
  <1>1. /\ Len(out) \in Nat /\ Len(in) \in Nat /\ Len(w) \in Nat
        /\ \A n \in 1..Len(w) : at[n] \in Int /\ at[n] >= 1
    BY TurnIsTyped
  <1>2. Len(out) > 0 /\ 1 \in 1..Len(out)
    BY <1>1, EmptySeq
  <1>3. PICK n \in 1..Len(w) : at[n] = 1
    BY <1>2 DEF InTurn
  <1>4. 1 \in 1..Len(w) /\ Len(w) > 0
    BY <1>1, <1>3
  <1>5. \A l \in 1..Len(w) : 1 < l => at[1] < at[l]
    BY <1>4 DEF InTurn
  <1>6. n = 1
    <2> SUFFICES ASSUME n # 1 PROVE FALSE
      OBVIOUS
    <2>1. 1 < n
      BY <1>1
    <2>2. at[1] < 1 /\ at[1] \in Int /\ at[1] >= 1
      BY <1>1, <1>3, <1>4, <1>5, <2>1
    <2> QED
      BY <2>2
  <1>7. \A l \in 1..Len(w) : l # 1 => at[l] # 1
    <2> TAKE l \in 1..Len(w)
    <2> HAVE l # 1
    <2>1. 1 < l
      BY <1>1
    <2>2. 1 < at[l] /\ at[l] \in Int
      BY <1>1, <1>3, <1>5, <1>6, <2>1
    <2> QED
      BY <2>2
  <1>8. at[1] <= Len(out)
    BY <1>1, <1>2, <1>3, <1>6
  <1>9. out[1].id = w[1].id
    BY <1>3, <1>4, <1>6, <1>8 DEF InTurn
  <1> QED
    BY <1>1, <1>3, <1>4, <1>6, <1>7, <1>9

(* An answer is read: the first that waited waits no more.                  *)
LEMMA AnswerReadInTurn ==
  ASSUME NEW out \in Seq(Outs), out # <<>>, NEW in \in Seq(Messages),
         NEW w \in Seq(Answers),
         NEW c, NEW v, NEW at, InTurn(out, in, w, c, v, at), IsAnswer(out[1]),
         NEW r, r = Tail(out), NEW y, y = Tail(w)
  PROVE  \E b : InTurn(r, in, y, c, v, b)
  <1> DEFINE b == [n \in 1..Len(y) |-> at[n + 1] - 1]
  <1>1. /\ Len(out) \in Nat /\ Len(in) \in Nat /\ Len(w) \in Nat
        /\ \A n \in 1..Len(w) : at[n] \in 1..Len(out) + Len(in)
    BY TurnIsTyped
  <1>2. Len(out) > 0
    BY <1>1, EmptySeq
  <1>3. Len(r) = Len(out) - 1 /\ \A k \in 1..Len(r) : r[k] = out[k + 1]
    BY HeadTailProperties
  <1>4. Len(w) > 0 /\ at[1] = 1 /\ \A n \in 1..Len(w) : n # 1 => at[n] # 1
    BY FirstInTurn
  <1>5. Len(y) = Len(w) - 1 /\ \A n \in 1..Len(y) : y[n] = w[n + 1]
    <2>1. w # <<>>
      BY <1>4, EmptySeq
    <2> QED
      BY <2>1, HeadTailProperties
  <1>6a. \A z \in 1..Len(out) + Len(in) : z # 1 =>
          /\ z - 1 \in 1..Len(r) + Len(in)
          /\ z - 1 <= Len(r) <=> z <= Len(out)
    BY <1>1, <1>2, <1>3, PlaceRead
  <1>6b. \A k \in 1..Len(r) : k + 1 \in 1..Len(out)
    BY <1>1, <1>2, <1>3, PlaceRead
  <1>6c. \A z \in 1..Len(out) + Len(in) : \A k \in 1..Len(r) : z - 1 = k
           <=> z = k + 1
    BY <1>1, <1>2, <1>3, PlaceRead
  <1>6d. \A z \in 1..Len(out) + Len(in) : \A k \in 1..Len(in) :
           z - 1 = Len(r) + k <=> z = Len(out) + k
    BY <1>1, <1>2, <1>3, PlaceRead
  <1>6e. \A z, x \in 1..Len(out) + Len(in) : z < x => z - 1 < x - 1
    BY <1>1, <1>2, <1>3, PlaceRead
  <1>6f. \A z \in 1..Len(out) + Len(in) : z # 1 /\ z <= Len(out)
           => z - 1 \in 1..Len(r) /\ (z - 1) + 1 = z
    BY <1>1, <1>2, <1>3, PlaceRead
  <1>6g. \A k \in 1..Len(r) : k + 1 # 1
    BY <1>1, <1>2, <1>3, PlaceRead
  <1>6h. \A k \in 1..Len(in) : Len(out) + k # 1
    BY <1>1, <1>2, <1>3, PlaceRead
  <1>7. /\ \A n \in 1..Len(y) : n + 1 \in 1..Len(w) /\ n + 1 # 1 /\ n \in Int
        /\ \A n \in 1..Len(w) : n # 1 => n - 1 \in 1..Len(y) /\ (n - 1) + 1 = n
        /\ \A n, l \in 1..Len(y) : n < l => n + 1 < l + 1
    BY <1>1, <1>5
  <1>8. /\ \A n \in 1..Len(y) : b[n] = at[n + 1] - 1 /\ at[n + 1] # 1
                                /\ at[n + 1] \in 1..Len(out) + Len(in)
    BY <1>1, <1>4, <1>7
  <1>9. b \in [1..Len(y) -> 1..Len(r) + Len(in)]
    <2>1. \A n \in 1..Len(y) : at[n + 1] - 1 \in 1..Len(r) + Len(in)
      BY <1>6a, <1>8, Zenon
    <2> QED
      BY <2>1
  <1> HIDE DEF b
  <1>10. \A n, l \in 1..Len(y) : n < l => b[n] < b[l]
    <2> TAKE n, l \in 1..Len(y)
    <2> HAVE n < l
    <2>1. at[n + 1] < at[l + 1]
      BY <1>7 DEF InTurn
    <2>2. at[n + 1] - 1 < at[l + 1] - 1
      BY <1>6e, <1>8, <2>1, Zenon
    <2> QED
      BY <1>8, <2>2
  <1>11. \A k \in 1..Len(r) : (\E n \in 1..Len(y) : b[n] = k)
           <=> \E n \in 1..Len(w) : at[n] = k + 1
    <2> TAKE k \in 1..Len(r)
    <2>1. ASSUME NEW n \in 1..Len(y) PROVE b[n] = k <=> at[n + 1] = k + 1
      <3>1. at[n + 1] - 1 = k <=> at[n + 1] = k + 1
        BY <1>6c, <1>8, Zenon
      <3>2. b[n] = at[n + 1] - 1
        BY <1>8
      <3> QED
        BY <3>1, <3>2, Zenon
    <2>2. \A n \in 1..Len(w) : at[n] = k + 1 => n # 1
      BY <1>4, <1>6g
    <2>3. ASSUME NEW n \in 1..Len(w), at[n] = k + 1
          PROVE  \E l \in 1..Len(y) : b[l] = k
      <3>1. n - 1 \in 1..Len(y) /\ at[(n - 1) + 1] = k + 1
        BY <1>7, <2>2, <2>3
      <3> QED
        BY <2>1, <3>1
    <2>4. ASSUME NEW n \in 1..Len(y), b[n] = k
          PROVE  \E l \in 1..Len(w) : at[l] = k + 1
      BY <1>7, <2>1, <2>4
    <2> QED
      BY <2>3, <2>4
  <1>12. \A k \in 1..Len(r) : IsAnswer(r[k]) <=> \E n \in 1..Len(y) : b[n] = k
    <2> TAKE k \in 1..Len(r)
    <2>1. r[k] = out[k + 1] /\ k + 1 \in 1..Len(out)
      BY <1>3, <1>6b
    <2>2. IsAnswer(out[k + 1]) <=> \E n \in 1..Len(w) : at[n] = k + 1
      BY <2>1 DEF InTurn
    <2> QED
      BY <1>11, <2>1, <2>2, Zenon
  <1>13. \A n \in 1..Len(y) : \A k \in 1..Len(in) : b[n] = Len(r) + k
           <=> at[n + 1] = Len(out) + k
    <2> TAKE n \in 1..Len(y)
    <2> TAKE k \in 1..Len(in)
    <2>1. at[n + 1] - 1 = Len(r) + k <=> at[n + 1] = Len(out) + k
      BY <1>6d, <1>8, Zenon
    <2>2. b[n] = at[n + 1] - 1
      BY <1>8
    <2> QED
      BY <2>1, <2>2, Zenon
  <1>14. \A k \in 1..Len(in) : (\E n \in 1..Len(y) : b[n] = Len(r) + k)
           <=> \E n \in 1..Len(w) : at[n] = Len(out) + k
    <2> TAKE k \in 1..Len(in)
    <2>1. \A n \in 1..Len(w) : at[n] = Len(out) + k => n # 1
      BY <1>4, <1>6h
    <2>2. ASSUME NEW n \in 1..Len(w), at[n] = Len(out) + k
          PROVE  \E l \in 1..Len(y) : b[l] = Len(r) + k
      <3>1. n - 1 \in 1..Len(y) /\ at[(n - 1) + 1] = Len(out) + k
        BY <1>7, <2>1, <2>2
      <3> QED
        BY <1>13, <3>1
    <2>3. ASSUME NEW n \in 1..Len(y), b[n] = Len(r) + k
          PROVE  \E l \in 1..Len(w) : at[l] = Len(out) + k
      BY <1>7, <1>13, <2>3
    <2> QED
      BY <2>2, <2>3
  <1>15. \A k \in 1..Len(in) :
           in[k].id # NoId <=> \E n \in 1..Len(y) : b[n] = Len(r) + k
    <2> TAKE k \in 1..Len(in)
    <2>1. in[k].id # NoId <=> \E n \in 1..Len(w) : at[n] = Len(out) + k
      BY DEF InTurn
    <2> QED
      BY <1>14, <2>1, Zenon
  <1>16. \A n \in 1..Len(y) : b[n] <= Len(r) =>
           /\ r[b[n]].id = y[n].id
           /\ r[b[n]] = y[n] \/ (c /\ r[b[n]].result = Null)
    <2> TAKE n \in 1..Len(y)
    <2> HAVE b[n] <= Len(r)
    <2>1. at[n + 1] <= Len(out)
      BY <1>6a, <1>8, Zenon
    <2>2. b[n] \in 1..Len(r) /\ b[n] + 1 = at[n + 1]
      BY <1>6f, <1>8, <2>1, Zenon
    <2>3. r[b[n]] = out[at[n + 1]] /\ y[n] = w[n + 1] /\ n + 1 \in 1..Len(w)
      BY <1>3, <1>5, <1>7, <2>2
    <2> QED
      BY <2>1, <2>3 DEF InTurn
  <1>17. \A n \in 1..Len(y) : \A k \in 1..Len(in) : b[n] = Len(r) + k =>
           in[k].id = y[n].id /\ y[n].result = Expected(in[k], v[k])
    <2> TAKE n \in 1..Len(y)
    <2> TAKE k \in 1..Len(in)
    <2> HAVE b[n] = Len(r) + k
    <2>1. at[n + 1] = Len(out) + k /\ n + 1 \in 1..Len(w) /\ y[n] = w[n + 1]
      BY <1>5, <1>7, <1>13
    <2>2. in[k].id = w[n + 1].id /\ w[n + 1].result = Expected(in[k], v[k])
      BY <2>1 DEF InTurn
    <2> QED
      BY <2>1, <2>2
  <1>18. InTurn(r, in, y, c, v, b)
    BY <1>9, <1>10, <1>12, <1>15, <1>16, <1>17 DEF InTurn
  <1> QED
    BY <1>18

----------------------------------------------------------------------------
(* No id is asked with twice.                                               *)
Distinct(w) == \A n, l \in 1..Len(w) : n # l => w[n].id # w[l].id

(* For some history of the documents, the requests that wait are in turn.   *)
TurnsOf(v) == \E at : InTurn(outbox, inbox, waiting, crowded, v, at)
OrderInv == Distinct(waiting) /\ \E v : ViewIs(v) /\ TurnsOf(v)

(* Once too many documents were open, it stays so.                          *)
LEMMA TurnsWeaken ==
  ASSUME NEW out, NEW in, NEW w, NEW c, NEW d, c => d, NEW v, NEW at,
         InTurn(out, in, w, c, v, at)
  PROVE  InTurn(out, in, w, d, v, at)
  BY Zenon DEF InTurn

(* A request with an id that is free.                                       *)
LEMMA AskedIsDistinct ==
  ASSUME NEW w \in Seq(Answers), Distinct(w), NEW a \in Answers,
         \A n \in 1..Len(w) : w[n].id # a.id
  PROVE  Distinct(Append(w, a))
  <1> DEFINE y == Append(w, a)
  <1>1. /\ Len(w) \in Nat /\ Len(y) = Len(w) + 1 /\ y[Len(w) + 1] = a
        /\ \A n \in 1..Len(w) : y[n] = w[n]
    BY AppendProperties, LenProperties
  <1> HIDE DEF y
  <1>2. \A n \in 1..Len(y) : n \in 1..Len(w) \/ n = Len(w) + 1
    BY <1>1
  <1>3. Distinct(y)
    BY <1>1, <1>2 DEF Distinct
  <1> QED
    BY <1>3 DEF y

(* The first is dropped.                                                    *)
LEMMA TailIsDistinct ==
  ASSUME NEW w \in Seq(Answers), w # <<>>, Distinct(w)
  PROVE  Distinct(Tail(w))
  <1> DEFINE y == Tail(w)
  <1>1. /\ Len(w) \in Nat /\ Len(y) = Len(w) - 1
        /\ \A n \in 1..Len(y) : y[n] = w[n + 1]
    BY HeadTailProperties, LenProperties
  <1> HIDE DEF y
  <1>2. \A n, l \in 1..Len(y) : n # l => n + 1 \in 1..Len(w)
        /\ l + 1 \in 1..Len(w) /\ n + 1 # l + 1
    BY <1>1
  <1>3. Distinct(y)
    BY <1>1, <1>2 DEF Distinct
  <1> QED
    BY <1>3 DEF y

(* The one that waits longest is answered: it waits no more.                *)
LEMMA FirstIsAnswered ==
  ASSUME Typed, Distinct(waiting), waiting # <<>>, NEW i, waiting[1].id = i
  PROVE  Answered(i) = Tail(waiting)
  <1>1. waiting \in Seq(Answers) /\ Len(waiting) \in Nat /\ Len(waiting) > 0
        /\ DOMAIN waiting = 1..Len(waiting)
    BY LenProperties, EmptySeq DEF Typed
  <1>2. 1 \in 1..Len(waiting)
    BY <1>1
  <1>3. Waits(i)
    BY <1>1, <1>2 DEF Waits
  <1>4. Place(i) = 1
    <2>1. \A k \in 1..Len(waiting) : waiting[k].id = i => k = 1
      BY <1>2 DEF Distinct
    <2> QED
      BY <1>1, <1>2, <2>1 DEF Place
  <1>5. Answered(i)
          = SubSeq(waiting, 1, 1 - 1) \o SubSeq(waiting, 1 + 1, Len(waiting))
    BY <1>3, <1>4 DEF Answered, RemoveAt
  <1>6. SubSeq(waiting, 1, 0) = <<>>
    BY SubSeqEmpty
  <1>7. SubSeq(waiting, 2, Len(waiting)) = Tail(waiting)
        /\ Tail(waiting) \in Seq(Answers)
    BY <1>1, TailIsSubSeq, HeadTailProperties
  <1>8. 1 - 1 = 0 /\ 1 + 1 = 2
    OBVIOUS
  <1> QED
    BY <1>5, <1>6, <1>7, <1>8, ConcatEmptySeq

(* Nobody waits and nothing is on its way.                                  *)
LEMMA InitOrder ==
  Init => OrderInv
  <1> SUFFICES ASSUME Init PROVE OrderInv
    OBVIOUS
  <1>1. outbox = <<>> /\ inbox = <<>> /\ waiting = <<>>
    BY DEF Init
  <1>2. Len(<<>>) = 0
    BY EmptySeq
  <1>3. Distinct(waiting)
    BY <1>1, <1>2 DEF Distinct
  <1>4. PICK v : ViewIs(v)
    BY InitShownInv DEF ShownInv
  <1>5. PICK at : at = [n \in 1..0 |-> 1]
    OBVIOUS
  <1>6. InTurn(outbox, inbox, waiting, crowded, v, at)
    <2>1. 1..0 = {} /\ at \in [1..0 -> 1..0 + 0]
      BY <1>5
    <2> QED
      BY <1>1, <1>2, <2>1 DEF InTurn
  <1> QED
    BY <1>3, <1>4, <1>6 DEF OrderInv, TurnsOf

(* A history has one entry more than there are messages unread.             *)
LEMMA ViewLength ==
  ASSUME Typed, NEW v, ViewIs(v)
  PROVE  /\ v \in Seq(Views) /\ Len(v) = Len(inbox) + 1
            /\ v[Len(inbox) + 1] = text
         /\ inbox \in Seq(Messages) /\ outbox \in Seq(Outs)
            /\ waiting \in Seq(Answers)
  BY DEF ViewIs, Trail, Typed, Outs

(* A request takes the last place; what is no request takes none.           *)
LEMMA EditKeepsOrder ==
  ASSUME Typed, OrderInv, Edit
  PROVE  OrderInv'
  <1>1. PICK m \in Messages : Sending(m)
    BY EditSends
  <1>2. PICK v : ViewIs(v) /\ TurnsOf(v)
    BY DEF OrderInv
  <1>3. PICK at : InTurn(outbox, inbox, waiting, crowded, v, at)
    BY <1>2 DEF TurnsOf
  <1>4. PICK w : w = Append(v, text') /\ ViewIs(w)'
    BY <1>1, <1>2, ViewGrows
  <1>5. /\ inbox' = Append(inbox, m) /\ outbox' = outbox /\ text' \in Views
        /\ (crowded => crowded')
    BY <1>1 DEF Sending
  <1>6. /\ v \in Seq(Views) /\ Len(v) = Len(inbox) + 1
           /\ v[Len(inbox) + 1] = text
        /\ inbox \in Seq(Messages) /\ outbox \in Seq(Outs)
           /\ waiting \in Seq(Answers)
    BY <1>2, ViewLength
  <1>7. Distinct(waiting')
        /\ \E b : InTurn(outbox', inbox', waiting', crowded', w, b)
    <2>1. CASE m.id = NoId
      <3>1. waiting' = waiting
        BY <1>1, <2>1 DEF Sending
      <3>2. InTurn(outbox, inbox', waiting, crowded', w, at)
        BY <1>3, <1>4, <1>5, <1>6, <2>1, ToldInTurn
      <3> QED
        BY <1>5, <3>1, <3>2 DEF OrderInv
    <2>2. CASE m.id # NoId
      <3> DEFINE a == Answer(m.id, Expected(m, text))
      <3>1. m.id \in Ids /\ ~Waits(m.id) /\ waiting' = Append(waiting, a)
        BY <1>1, <2>2 DEF Sending
      <3>2. a \in Answers /\ a.id = m.id
            /\ a.result = Expected(m, v[Len(inbox) + 1])
        <4>1. text \in Views
          BY DEF Typed
        <4>2. Expected(m, text) \in Results
          BY <2>2, <4>1, ExpectedIsAResult
        <4> QED
          BY <1>6, <3>1, <4>2 DEF Answer, Answers
      <3> HIDE DEF a
      <3>3. \E b : InTurn(outbox, inbox', waiting', crowded, w, b)
        BY <1>3, <1>4, <1>5, <1>6, <2>2, <3>1, <3>2, AskedInTurn
      <3>4. PICK b : InTurn(outbox, inbox', waiting', crowded, w, b)
        BY <3>3
      <3>5. InTurn(outbox, inbox', waiting', crowded', w, b)
        BY <1>5, <3>4, TurnsWeaken
      <3>6. \A n \in 1..Len(waiting) : waiting[n].id # a.id
        <4>1. DOMAIN waiting = 1..Len(waiting)
          BY <1>6, LenProperties
        <4> QED
          BY <3>1, <3>2, <4>1 DEF Waits
      <3>7. Distinct(Append(waiting, a))
        BY <1>6, <3>2, <3>6, AskedIsDistinct DEF OrderInv
      <3> QED
        BY <1>5, <3>1, <3>5, <3>7
    <2> QED
      BY <2>1, <2>2
  <1> QED
    BY <1>4, <1>7 DEF OrderInv, TurnsOf

(* What the server knows of a document is what the editor had it be.        *)
LEMMA FoundIsExpected ==
  ASSUME Typed, NEW m \in Messages, m.id # NoId, NEW f \in Views,
         Agreed(Held, crowded, f)
  PROVE  Found(m) = Expected(m, f) \/ (crowded /\ Found(m) = Null)
  <1>1. m.uri \in Uris /\ (m.method = "hover" => m.place \in Places)
    BY DEF Messages, MessageRecords
  <1>2. /\ Held \in [Remembered -> Texts] /\ DOMAIN Held = Remembered
        /\ \A u \in Remembered : DocGet(u) = Held[u] /\ Held[u] \in Texts
        /\ \A u : Stored(u) <=> u \in Remembered
    BY HeldIsTyped DEF Typed
  <1>3. IF m.uri \in Remembered THEN f[m.uri] = DocGet(m.uri)
        /\ f[m.uri] # Closed
        ELSE f[m.uri] = Closed \/ crowded
    BY <1>1, <1>2, NoTextIsClosed DEF Agreed
  <1>4. m.method = "hover" /\ f[m.uri] # Closed
          => Expected(m, f) = Hovered(f[m.uri], m.place)
    BY ExpectedIsAResult
  <1> HIDE DEF Hovered, Stored, DocGet
  <1>5. CASE m.method = "hover" /\ Stored(m.uri)
    <2>1. Found(m) = Hovered(DocGet(m.uri), m.place)
      BY <1>5 DEF Found
    <2>2. m.uri \in Remembered
      BY <1>2, <1>5
    <2> QED
      BY <1>3, <1>4, <1>5, <2>1, <2>2
  <1>6. CASE m.method = "hover" /\ ~Stored(m.uri)
    <2>1. Found(m) = Null
      BY <1>6 DEF Found
    <2>2. f[m.uri] = Closed \/ crowded
      BY <1>2, <1>3, <1>6
    <2>3. f[m.uri] = Closed => Expected(m, f) = Null
      BY <1>6 DEF Expected
    <2> QED
      BY <2>1, <2>2, <2>3
  <1>7. CASE m.method # "hover"
    BY <1>7 DEF Found, Expected
  <1> QED
    BY <1>5, <1>6, <1>7

(* A request and its answer have the same place.                            *)
LEMMA ServeKeepsOrder ==
  ASSUME Typed, OrderInv, Serve
  PROVE  OrderInv'
  <1> DEFINE m == inbox[1]
  <1>1. /\ inbox # <<>> /\ m \in Messages /\ inbox' = Tail(inbox)
        /\ waiting' = waiting /\ crowded' = crowded
        /\ Handled(m)
    <2>1. Head(inbox) = m
      OBVIOUS
    <2> QED
      BY <2>1, ServeHandles
  <1> HIDE DEF m
  <1>2. PICK v : ViewIs(v) /\ TurnsOf(v)
    BY DEF OrderInv
  <1>3. PICK at : InTurn(outbox, inbox, waiting, crowded, v, at)
    BY <1>2 DEF TurnsOf
  <1>4. PICK w : w = Tail(v)
    OBVIOUS
  <1>5. ViewIs(w)' /\ v[1] \in Views /\ Agreed(Held, crowded, v[1])
    BY <1>2, <1>4, ViewShrinks DEF ViewIs
  <1>6. /\ v \in Seq(Views) /\ Len(v) = Len(inbox) + 1
        /\ inbox \in Seq(Messages) /\ outbox \in Seq(Outs)
           /\ waiting \in Seq(Answers)
    BY <1>2, ViewLength
  <1>7. \E b : InTurn(outbox', inbox', waiting, crowded, w, b)
    <2>1. CASE Published(m) \/ Republished(m)
      <3>1. PICK o : o \in Outs /\ ~IsAnswer(o) /\ outbox' = Append(outbox, o)
                 /\ m.id = NoId
        <4>1. m.uri \in Uris /\ m.texts \in Seq(Texts)
          BY <1>1 DEF Messages, MessageRecords
        <4>2. CASE Published(m)
          <5>1. LastText(m) \in Texts
            BY <4>1, <4>2, LastOfTexts DEF Published, Carries, LastText
          <5> QED
            BY <4>1, <4>2, <5>1, PublicationIsTyped DEF Published, Outs
        <4>3. CASE Republished(m)
          <5>1. DocGet(m.uri) \in Texts
            BY <4>1, <4>3, HeldIsTyped DEF Republished, Typed
          <5> QED
            BY <4>1, <4>3, <5>1, PublicationIsTyped DEF Republished, Outs
        <4> QED
          BY <2>1, <4>2, <4>3
      <3>2. ~IsAnswer(o) /\ inbox[1].id = NoId
        BY <3>1 DEF m
      <3>3. InTurn(outbox', inbox', waiting, crowded, w, at)
        BY <1>1, <1>3, <1>4, <1>6, <3>1, <3>2, ServedInTurn
      <3> QED
        BY <3>3
    <2>2. CASE Replied(m)
      <3>1. PICK o : o = Answer(m.id, Found(m))
        OBVIOUS
      <3>2. outbox' = Append(outbox, o) /\ m.id # NoId
        BY <2>2, <3>1 DEF Replied
      <3>3. o \in Answers /\ IsAnswer(o) /\ o \in Outs
        BY <1>1, <3>1, <3>2, FoundIsTyped DEF Outs
      <3>4. o.id = m.id
            /\ (o.result = Expected(m, v[1]) \/ (crowded /\ o.result = Null))
        <4>1. o.id = m.id /\ o.result = Found(m)
          BY <3>1 DEF Answer
        <4> QED
          BY <1>1, <1>5, <3>2, <4>1, FoundIsExpected
      <3>5. /\ inbox[1].id # NoId /\ o.id = inbox[1].id
            /\ o.result = Expected(inbox[1], v[1])
               \/ (crowded /\ o.result = Null)
        BY <3>2, <3>4 DEF m
      <3>6. InTurn(outbox', inbox', waiting, crowded, w, at)
        BY <1>1, <1>3, <1>4, <1>6, <3>2, <3>3, <3>5, ServedInTurn
      <3> QED
        BY <3>6
    <2>3. CASE Forgotten(m) \/ Passed(m)
      <3>1. outbox' = outbox /\ inbox[1].id = NoId
        BY <2>3 DEF Forgotten, Passed, m
      <3>2. \E b : InTurn(outbox, inbox', waiting, crowded, w, b)
        BY <1>1, <1>3, <1>4, <1>6, <3>1, SilentInTurn
      <3> QED
        BY <3>1, <3>2
    <2> QED
      BY <1>1, <2>1, <2>2, <2>3 DEF Handled
  <1> QED
    BY <1>1, <1>5, <1>7 DEF OrderInv, TurnsOf

(* What is read is the answer to the first that waits, or no answer.        *)
LEMMA ReceivesKeepsOrder ==
  ASSUME Typed, OrderInv, Receives
  PROVE  OrderInv'
  <1> DEFINE o == outbox[1]
  <1>1. /\ outbox # <<>> /\ outbox' = Tail(outbox)
        /\ UNCHANGED <<server, text, crowded, inbox, docs>>
        /\ IF IsAnswer(o) THEN waiting' = Answered(o.id) ELSE waiting' = waiting
    BY DEF Receives
  <1> HIDE DEF o
  <1>2. PICK v : ViewIs(v) /\ TurnsOf(v)
    BY DEF OrderInv
  <1>3. PICK at : InTurn(outbox, inbox, waiting, crowded, v, at)
    BY <1>2 DEF TurnsOf
  <1>4. ViewIs(v)'
    BY <1>1, <1>2, ViewStays
  <1>5. inbox \in Seq(Messages) /\ outbox \in Seq(Outs)
        /\ waiting \in Seq(Answers)
    BY <1>2, ViewLength
  <1>6. Distinct(waiting')
        /\ \E b : InTurn(outbox', inbox, waiting', crowded, v, b)
    <2>1. CASE IsAnswer(o)
      <3>1. Len(waiting) > 0 /\ waiting[1].id = o.id
        BY <1>1, <1>3, <1>5, <2>1, FirstInTurn DEF o
      <3>2. waiting # <<>>
        BY <3>1, EmptySeq
      <3>3. Distinct(waiting)
        BY DEF OrderInv
      <3>4. waiting' = Tail(waiting)
        BY <1>1, <2>1, <3>1, <3>2, <3>3, FirstIsAnswered
      <3>5. Distinct(Tail(waiting))
        BY <1>5, <3>2, <3>3, TailIsDistinct
      <3>6. \E b : InTurn(outbox', inbox, waiting', crowded, v, b)
        <4>1. IsAnswer(outbox[1])
          BY <2>1 DEF o
        <4> QED
          BY <1>1, <1>3, <1>5, <3>4, <4>1, AnswerReadInTurn
      <3> QED
        BY <3>4, <3>5, <3>6
    <2>2. CASE ~IsAnswer(o)
      <3>1. ~IsAnswer(outbox[1]) /\ waiting' = waiting
        BY <1>1, <2>2 DEF o
      <3>2. \E b : InTurn(outbox', inbox, waiting, crowded, v, b)
        BY <1>1, <1>3, <1>5, <3>1, OtherReadInTurn
      <3> QED
        BY <3>1, <3>2 DEF OrderInv
    <2> QED
      BY <2>1, <2>2
  <1>7. inbox' = inbox /\ crowded' = crowded
    BY <1>1
  <1> QED
    BY <1>4, <1>6, <1>7 DEF OrderInv, TurnsOf

(* Nothing changes.                                                         *)
LEMMA StutterKeepsOrder ==
  ASSUME Typed, OrderInv, UNCHANGED vars
  PROVE  OrderInv'
  <1>1. PICK v : ViewIs(v) /\ TurnsOf(v)
    BY DEF OrderInv
  <1>2. ViewIs(v)'
    BY <1>1, ViewStays DEF vars
  <1>3. /\ outbox' = outbox /\ inbox' = inbox /\ waiting' = waiting
        /\ crowded' = crowded
    BY DEF vars
  <1> QED
    BY <1>1, <1>2, <1>3 DEF OrderInv, TurnsOf

(* So the requests that wait are in turn in every state.                    *)
LEMMA OrderHolds == Spec => []OrderInv
  <1>1. Init => OrderInv
    BY InitOrder
  <1>2. Typed /\ OrderInv /\ [Next]_vars => OrderInv'
    BY EditKeepsOrder, ServeKeepsOrder, ReceivesKeepsOrder, StutterKeepsOrder
       DEF Next
  <1> QED
    BY <1>1, <1>2, TypesHold, PTL DEF Spec

(* Every request is answered once and in its turn, about the text the       *)
(* document had when it was asked: for every number of documents, ids and   *)
(* messages on their way.                                                   *)
THEOREM AnswersComeInOrder == Spec => []AnsweredInOrder
  <1>1. Typed /\ OrderInv => AnsweredInOrder
    <2> SUFFICES ASSUME Typed, OrderInv PROVE AnsweredInOrder
      OBVIOUS
    <2>1. PICK v : ViewIs(v) /\ TurnsOf(v)
      BY DEF OrderInv
    <2>2. PICK at : InTurn(outbox, inbox, waiting, crowded, v, at)
      BY <2>1 DEF TurnsOf
    <2>3. /\ Len(outbox) \in Nat /\ Len(inbox) \in Nat /\ Len(waiting) \in Nat
          /\ inbox \in Seq(Messages) /\ outbox \in Seq(Outs)
             /\ waiting \in Seq(Answers)
          /\ DOMAIN waiting = 1..Len(waiting)
      BY <2>1, ViewLength, LenProperties
    <2>4. \A n \in 1..Len(waiting) : at[n] \in 1..Len(outbox) + Len(inbox)
      BY <2>2 DEF InTurn
    <2>5. at \in [DOMAIN waiting -> 1 .. Way]
      BY <2>2, <2>3 DEF InTurn, Way
    <2>6. \A k \in 1 .. Way : Awaited(k) <=> \E n \in DOMAIN waiting : at[n] = k
      <3> TAKE k \in 1 .. Way
      <3>1. CASE k <= Len(outbox)
        <4>1. k \in 1..Len(outbox)
          BY <2>3, <3>1
        <4> QED
          BY <2>2, <2>3, <3>1, <4>1 DEF InTurn, Awaited, Sent
      <3>2. CASE ~(k <= Len(outbox))
        <4>0. /\ k \in 1..Len(outbox) + Len(inbox)
              /\ k - Len(outbox) \in 1..Len(inbox)
              /\ k = Len(outbox) + (k - Len(outbox))
          BY <2>3, <3>2 DEF Way
        <4>1. PICK j \in 1..Len(inbox) : j = k - Len(outbox)
                   /\ k = Len(outbox) + j
          BY <4>0
        <4>2. Sent(k) = inbox[j]
          BY <3>2, <4>1 DEF Sent
        <4>3. inbox[j].id # NoId
                <=> \E n \in 1..Len(waiting) : at[n] = Len(outbox) + j
          BY <2>2 DEF InTurn
        <4> QED
          BY <2>3, <3>2, <4>1, <4>2, <4>3 DEF Awaited
      <3> QED
        BY <3>1, <3>2
    <2>7. \A n \in DOMAIN waiting :
            /\ Sent(at[n]).id = waiting[n].id
            /\ at[n] <= Len(outbox) =>
                 \/ Sent(at[n]) = waiting[n]
                 \/ crowded /\ Sent(at[n]).result = Null
      <3> TAKE n \in DOMAIN waiting
      <3>0. n \in 1..Len(waiting)
        BY <2>3
      <3>1. CASE at[n] <= Len(outbox)
        <4>1. Sent(at[n]) = outbox[at[n]]
          BY <3>1 DEF Sent
        <4>2. /\ outbox[at[n]].id = waiting[n].id
              /\ outbox[at[n]] = waiting[n]
                 \/ (crowded /\ outbox[at[n]].result = Null)
          BY <2>2, <3>0, <3>1 DEF InTurn
        <4> QED
          BY <4>1, <4>2
      <3>2. CASE ~(at[n] <= Len(outbox))
        <4>1. PICK j \in 1..Len(inbox) : j = at[n] - Len(outbox)
                   /\ at[n] = Len(outbox) + j
          BY <2>3, <2>4, <3>0, <3>2
        <4>2. Sent(at[n]) = inbox[j]
          BY <3>2, <4>1 DEF Sent
        <4>3. inbox[j].id = waiting[n].id
          BY <2>2, <3>0, <4>1 DEF InTurn
        <4> QED
          BY <3>2, <4>2, <4>3
      <3> QED
        BY <3>1, <3>2
    <2>8. \A n, l \in DOMAIN waiting : n < l => at[n] < at[l]
      BY <2>2, <2>3 DEF InTurn
    <2> QED
      BY <2>5, <2>6, <2>7, <2>8 DEF AnsweredInOrder
  <1> QED
    BY <1>1, TypesHold, OrderHolds, PTL
==============================================================================
