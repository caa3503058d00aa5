CONSTANTS
  Uris = {u1, u2}
  Ids = {i1, i2}
  Texts <- Two
  Problem <- Checked
  Known <- Keywords
  Places <- Cursors
  Marked <- ShownOf
  Described <- SaidOf
  DocsMax = {1, 2}
  Backlog = 2
  Unseen = 1
SPECIFICATION Spec
INVARIANTS AnsweredInOrder ShownIsCurrent
PROPERTIES ImplementsDocumentMap EveryRequestAnswered
CHECK_DEADLOCK FALSE
