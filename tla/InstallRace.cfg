\* macOS functions: concurrent callers over Dobby; hook 2 names an image that is primed.
SPECIFICATION Spec
CONSTANTS
  f = f
  g = g
  app = app
  plugin = plugin
  Thread = {a, b, c}
  N = 2
  Target <- Targets
  TargetOf <- PairTargetOf
  EngineOf <- AllDobby
  Image <- Images
  HomeOf <- Homes
  Exported = {f, g}
  OnDisk = {app, plugin}
  Scoped = {2}
  Optional = {2}
  AutoPrime = TRUE
  Faults = {"patch"}
INVARIANTS NoOrphanReplacement ForwardAcyclic
PROPERTIES InstallsOnce
