\* Two images, two bases, every request, on both platforms, with and without auto-prime.
SPECIFICATION FairSpec
CONSTANTS
  app = app
  plugin = plugin
  None = None
  Image <- Images
  Base = {1, 2}
  Exporters <- Either
  Findable = {app}
  Lists <- AllLists
INVARIANTS ScopeHonoured AbsenceIsReal NameRecovered KeepsOnlyAsked
PROPERTIES LookupReturns
