--------------------------- MODULE LanguageServer ---------------------------
(***************************************************************************)
(* snel lsp in both implementations (src/src/lsp.rs, src/c/lsp.c): an      *)
(* editor writes JSON-RPC messages into a pipe, the server reads them one  *)
(* by one, remembers the texts of the open documents, publishes what is    *)
(* wrong with them and answers requests. What the parser and the checker   *)
(* find wrong with a text is given by Problem.                             *)
(***************************************************************************)
EXTENDS Documents

CONSTANTS
  Uris, Texts, Ids,
  Problem,    (* text -> byte at which something is wrong with it, or None  *)
  Known,      (* the words that hover_text describes                        *)
  Places,     (* <<line, character>>s the editor asks about                 *)
  Marked,     (* text -> what an editor is to show of it                    *)
  Described,  (* text -> place -> what it is to say of the word there       *)
  DocsMax,    (* entries of the table of documents in C (64): any of these  *)
  Backlog,    (* messages sent and not read (bound)                         *)
  Unseen      (* messages that the pipe from a server holds (bound)         *)

None == -1
Closed == <<"closed">>
NoId == "no id"

ASSUME ServerAssumption ==
  /\ IsFiniteSet(Uris) /\ Uris # {}
  /\ NoId \notin Ids /\ Closed \notin Texts
  /\ \A x \in Texts : Problem[x] = None \/ Problem[x] \in 0 .. Len(x)
  /\ DocsMax \subseteq Nat \ {0} /\ Backlog \in Nat \ {0} /\ Unseen \in Nat \ {0}

VARIABLES
  twin,     (* which implementation it is                                   *)
  room,     (* how many documents it can remember                           *)
  text,     (* the editor's documents: uri -> text, or Closed               *)
  crowded,  (* more than that have been open at a time                      *)
  waiting,  (* unanswered requests, with the answers they call for           *)
  shown,    (* uri -> what the editor shows to be wrong                      *)
  inbox,    (* messages sent and not read                                    *)
  outbox,   (* messages of the server the editor has not read                *)
  docs,     (* what the server remembers                                     *)
  gone      (* whether the server has returned                               *)

server == <<twin, room>>
vars ==
  <<server, text, crowded, waiting, shown, inbox, outbox, docs, gone>>

----------------------------------------------------------------------------
(* What is published of a text, and answered.                               *)
Clean == <<>>
Diagnostics(t, x) ==
  IF Problem[x] = None THEN Clean
  ELSE <<Position(x, Problem[x]), EndColumn(t, x, Problem[x])>>

Null == <<>>
HoverText(w) == IF w \in Known THEN w ELSE Null
Hovered(x, place) == HoverText(WordAt(x, place[1], place[2]))
Capabilities == <<"capabilities">>

(* The texts are those of which both implementations show and say what they *)
(* should: no problem is at a word of several bytes that ends the text, and *)
(* nobody asks about a word after a character of several bytes in its line. *)
ASSUME CountsAlike ==
  \A x \in Texts :
    /\ \A t \in {"rust", "c"} : Marked[x] = Diagnostics(t, x)
    /\ \A place \in Places : Described[x][place] = Hovered(x, place)

Publication(u, x) == [uri |-> u, diagnostics |-> Diagnostics(twin, x)]
Answer(i, r) == [id |-> i, result |-> r]

(* What a message says; fields a method does not look at are left out.      *)
Message(method, id, uri, texts, place) ==
  [method |-> method, id |-> id, uri |-> uri, texts |-> texts, place |-> place]
NoPlace == <<0, 0>>

----------------------------------------------------------------------------
(* The documents: a map in Rust, a table of at most DocsMax entries in C.   *)
NoDocs == <<>>
Entry(u, x) == [uri |-> u, text |-> x]
At(table, u) == {i \in DOMAIN table : table[i].uri = u}

Stored(u) == IF twin = "rust" THEN u \in DOMAIN docs ELSE At(docs, u) # {}
DocGet(u) ==
  IF twin = "rust" THEN docs[u] ELSE docs[Min(At(docs, u))].text

(* Mutant of DocPut: an entry is appended for every text.                   *)
DocAppended(u, x) ==
  IF twin = "rust" THEN [v \in DOMAIN docs \cup {u} |->
                           IF v = u THEN x ELSE docs[v]]
  ELSE IF Len(docs) < room THEN Append(docs, Entry(u, x))
  ELSE docs

DocPut(u, x) ==
  IF twin = "rust" THEN [v \in DOMAIN docs \cup {u} |->
                           IF v = u THEN x ELSE docs[v]]
  ELSE IF Stored(u) THEN [docs EXCEPT ![Min(At(docs, u))].text = x]
  ELSE IF Len(docs) < room THEN Append(docs, Entry(u, x))
  ELSE docs

(* Mutant of DocDel: the last entry is dropped, and not moved.              *)
DocDropped(u) ==
  IF twin = "rust" THEN [v \in DOMAIN docs \ {u} |-> docs[v]]
  ELSE IF ~Stored(u) THEN docs
  ELSE SubSeq(docs, 1, Len(docs) - 1)

(* The last entry takes the place of the one that goes.                     *)
DocDel(u) ==
  IF twin = "rust" THEN [v \in DOMAIN docs \ {u} |-> docs[v]]
  ELSE IF ~Stored(u) THEN docs
  ELSE SubSeq([docs EXCEPT ![Min(At(docs, u))] = docs[Len(docs)]],
              1, Len(docs) - 1)

----------------------------------------------------------------------------
(* The server: one message read and handled to the end.                     *)
Says(out) == outbox' = outbox \o out
Remembers(d) == docs' = d

(* A request is answered, a notification is not.                            *)
Responds(m, r) ==
  /\ Says(IF m.id = NoId THEN <<>> ELSE <<Answer(m.id, r)>>)
  /\ UNCHANGED <<docs, gone>>

Ignores == UNCHANGED <<outbox, docs, gone>>

Synchronises(m, x) ==
  /\ Says(<<Publication(m.uri, x)>>)
  /\ Remembers(DocPut(m.uri, x))
  /\ UNCHANGED gone

(* didOpen carries the text, didChange all of it, once for every change.    *)
DidOpen(m) ==
  IF m.texts = <<>> THEN Ignores ELSE Synchronises(m, m.texts[1])

(* Mutant of DidChange: the first change is taken.                          *)
DidChangeFirst(m) == DidOpen(m)

DidChange(m) ==
  IF m.texts = <<>> THEN Ignores ELSE Synchronises(m, Last(m.texts))

DidSave(m) ==
  /\ Says(IF Stored(m.uri) THEN <<Publication(m.uri, DocGet(m.uri))>>
          ELSE <<>>)
  /\ UNCHANGED <<docs, gone>>

DidClose(m) ==
  /\ Remembers(DocDel(m.uri))
  /\ UNCHANGED <<outbox, gone>>

(* Mutant of Hover: a document that is not open is not answered for.        *)
HoverOpen(m) ==
  IF Stored(m.uri) THEN Responds(m, Hovered(DocGet(m.uri), m.place))
  ELSE Ignores

Hover(m) ==
  Responds(m, IF Stored(m.uri) THEN Hovered(DocGet(m.uri), m.place) ELSE Null)

Exit(m) ==
  /\ gone' = TRUE
  /\ UNCHANGED <<outbox, docs>>

(* "other" is every method without a case; "none" a message that is not     *)
(* JSON or has no method.                                                   *)
Handle(m) ==
  \/ m.method = "initialize" /\ Responds(m, Capabilities)
  \/ m.method \in {"shutdown", "other"} /\ Responds(m, Null)
  \/ m.method = "exit" /\ Exit(m)
  \/ m.method = "didOpen" /\ DidOpen(m)
  \/ m.method = "didChange" /\ DidChange(m)
  \/ m.method = "didSave" /\ DidSave(m)
  \/ m.method = "didClose" /\ DidClose(m)
  \/ m.method = "hover" /\ Hover(m)
  \/ m.method = "none" /\ Ignores

Serve ==
  /\ ~gone /\ inbox # <<>> /\ Len(outbox) < Unseen
  /\ Handle(Head(inbox))
  /\ inbox' = Tail(inbox)
  /\ UNCHANGED <<server, text, crowded, waiting, shown>>

----------------------------------------------------------------------------
(* The editor. Ids are not used again before they are answered, texts are   *)
(* sent as they change, and nothing is sent after exit.                     *)
Leaving == gone \/ \E k \in DOMAIN inbox : inbox[k].method = "exit"

Sends(m) ==
  /\ ~Leaving /\ Len(inbox) < Backlog
  /\ inbox' = Append(inbox, m)
  /\ UNCHANGED <<server, shown, outbox, docs, gone>>

Becomes(u, x) ==
  LET open == {v \in Uris : v = u \/ text[v] # Closed}
  IN  /\ text' = [text EXCEPT ![u] = x]
      /\ crowded' = (crowded \/ (x # Closed /\ Cardinality(open) > room))
      /\ UNCHANGED waiting

Opens(u, x) ==
  /\ text[u] = Closed
  /\ Becomes(u, x)
  /\ Sends(Message("didOpen", NoId, u, <<x>>, NoPlace))

(* A change may come in pieces, each the whole text, or be empty.           *)
Edits(u, xs) ==
  /\ text[u] # Closed
  /\ Becomes(u, Last(<<text[u]>> \o xs))
  /\ Sends(Message("didChange", NoId, u, xs, NoPlace))

Closes(u) ==
  /\ text[u] # Closed
  /\ Becomes(u, Closed)
  /\ Sends(Message("didClose", NoId, u, <<>>, NoPlace))

Tells(method, u) ==
  /\ UNCHANGED <<text, crowded, waiting>>
  /\ Sends(Message(method, NoId, u, <<>>, NoPlace))

Waits(i) == \E k \in DOMAIN waiting : waiting[k].id = i

FreeIds == {i \in Ids : ~Waits(i)}

Asks(method, u, place, r) ==
  LET i == CHOOSE i \in FreeIds : TRUE
  IN  /\ FreeIds # {}
      /\ waiting' = Append(waiting, Answer(i, r))
      /\ UNCHANGED <<text, crowded>>
      /\ Sends(Message(method, i, u, <<>>, place))

AsksHover(u, place) ==
  Asks("hover", u, place,
       IF text[u] = Closed THEN Null ELSE Described[text[u]][place])

AnyUri == CHOOSE u \in Uris : TRUE
Pieces == {<<>>} \cup (Texts \X Texts)

Edit ==
  \/ \E u \in Uris :
       \/ \E x \in Texts : Opens(u, x)
       \/ \E xs \in Pieces : Edits(u, xs)
       \/ Closes(u)
       \/ Tells("didSave", u)
       \/ \E place \in Places : AsksHover(u, place)
  \/ \E method \in {"didOpen", "hover", "other", "none", "exit"} :
       Tells(method, AnyUri)
  \/ Asks("initialize", AnyUri, NoPlace, Capabilities)
  \/ \E method \in {"shutdown", "other"} : Asks(method, AnyUri, NoPlace, Null)

IsAnswer(o) == "id" \in DOMAIN o

(* Answers are matched with requests by their ids.                          *)
Place(i) == CHOOSE k \in DOMAIN waiting : waiting[k].id = i
Answered(i) == IF Waits(i) THEN RemoveAt(waiting, Place(i)) ELSE waiting

Receives ==
  /\ outbox # <<>>
  /\ outbox' = Tail(outbox)
  /\ LET o == Head(outbox)
     IN  IF IsAnswer(o)
         THEN /\ waiting' = Answered(o.id)
              /\ UNCHANGED shown
         ELSE /\ shown' = [shown EXCEPT ![o.uri] = o.diagnostics]
              /\ UNCHANGED waiting
  /\ UNCHANGED <<server, text, crowded, inbox, docs, gone>>

----------------------------------------------------------------------------
Init ==
  /\ \/ twin = "rust" /\ room = Cardinality(Uris)
     \/ twin = "c" /\ room \in DocsMax
  /\ text = [u \in Uris |-> Closed]
  /\ crowded = FALSE
  /\ waiting = <<>>
  /\ shown = [u \in Uris |-> Clean]
  /\ inbox = <<>> /\ outbox = <<>>
  /\ docs = NoDocs
  /\ gone = FALSE

Next == Edit \/ Serve \/ Receives

(* The server runs whenever it has something to read, and the editor reads  *)
(* what it writes.                                                          *)
Fairness == WF_vars(Serve) /\ WF_vars(Receives)

Spec == Init /\ [][Next]_vars /\ Fairness

----------------------------------------------------------------------------
(* What is on its way, oldest first: what the editor has not read, and what *)
(* the server has not. A request or its answer is awaited.                  *)
Way == Len(outbox) + Len(inbox)
Sent(k) == IF k <= Len(outbox) THEN outbox[k] ELSE inbox[k - Len(outbox)]
Awaited(k) == IF k <= Len(outbox) THEN IsAnswer(Sent(k)) ELSE Sent(k).id # NoId

(* Every request is answered once and in its turn, whatever its method and  *)
(* whatever came before: those that wait are, in the order they were asked  *)
(* in, those on their way, as a request or as its answer, and nothing else  *)
(* that is awaited is. The answer is about the text the document had when   *)
(* it was asked about, and never an older one; once more documents were     *)
(* open than the table in C holds, C may know nothing of one.               *)
AnsweredInOrder ==
  \E at \in [DOMAIN waiting -> 1 .. Way] :
    /\ \A n, l \in DOMAIN waiting : n < l => at[n] < at[l]
    /\ \A k \in 1 .. Way : Awaited(k) <=> \E n \in DOMAIN waiting : at[n] = k
    /\ \A n \in DOMAIN waiting :
         /\ Sent(at[n]).id = waiting[n].id
         /\ at[n] <= Len(outbox) =>
              \/ Sent(at[n]) = waiting[n]
              \/ crowded /\ Sent(at[n]).result = Null

(* When all is read, what the editor shows of an open document is what is   *)
(* wrong with the text it last sent (republished by a save or not), where   *)
(* the editor looks for it, in both implementations and also for documents  *)
(* that the table in C has no room for.                                     *)
ShownIsCurrent ==
  inbox = <<>> /\ outbox = <<>> =>
    \A u \in Uris : text[u] # Closed => shown[u] = Marked[text[u]]

(* The documents of a server are a map of the texts last received: so is    *)
(* the table of C, in which the last entry takes the place of one that      *)
(* goes.                                                                    *)
Remembered == IF twin = "rust" THEN DOMAIN docs
              ELSE {docs[i].uri : i \in DOMAIN docs}
Map == INSTANCE DocumentMap WITH
  limit <- room, unread <- inbox, map <- [u \in Remembered |-> DocGet(u)]
ImplementsDocumentMap == Map!Spec

(* No request waits for ever.                                               *)
EveryRequestAnswered == \A i \in Ids : Waits(i) ~> ~Waits(i)
=============================================================================
