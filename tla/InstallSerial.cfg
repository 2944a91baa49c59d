\* Windows: one caller that retries. Hooks 1 and 3 are optional, hook 1 names
\* its image; transactions fail to begin or abort at any time.
SPECIFICATION FairSpec
CONSTANTS
  f = f
  g = g
  app = app
  plugin = plugin
  Thread = {a}
  N = 4
  Target <- Targets
  TargetOf <- StackedTargetOf
  EngineOf <- AllDetours
  Image <- Images
  HomeOf <- Homes
  Exported = {f, g}
  OnDisk = {app, plugin}
  Scoped = {1}
  Optional = {1, 3}
  AutoPrime = FALSE
  Faults = {"begin", "attach"}
INVARIANTS TypeOK OkMeansInstalled ChainComplete
PROPERTIES RetryInstalls
