CONSTANTS
  a = a
  b = b
  site = site
  NoUrl = NoUrl
  Root = Root
  Missing = Missing
  Names = {a, b}
  Urls = {site}
  Texts <- LoaderTexts
  Modes <- OneShotAndRepl
  MaxForms = 2
  MaxEdits = 1
SPECIFICATION Spec
INVARIANTS NoReentry EvaluatedOnce ImportsPrecede CheckedIsBound InterfaceIsOfLoadedUnit
PROPERTIES EveryFormAnswered ImplementsUnitLoading
