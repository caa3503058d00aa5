CONSTANTS
  a = a
  b = b
  site = site
  NoUrl = NoUrl
  Root = Root
  Missing = Missing
  Names = {a, b}
  Urls = {site}
  Texts <- LoaderTexts
  LoaderMax = {1, 2}
  MaxCalls = 4
  MaxEdits = 1
SPECIFICATION Spec
INVARIANTS TypeOK NoReentry CheckedIsBound LinesAreOfOwnText
PROPERTIES EveryFormAnswered ImplementsUnitLoading
