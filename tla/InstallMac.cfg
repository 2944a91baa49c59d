\* macOS: one caller that retries, two hooks on a function over Dobby with every
\* fault, and two on a method whose class may come late.
SPECIFICATION FairSpec
CONSTANTS
  f = f
  g = g
  app = app
  plugin = plugin
  Thread = {a}
  N = 4
  Target <- Targets
  TargetOf <- MacTargetOf
  EngineOf <- MacEngines
  Image <- Images
  HomeOf <- Homes
  Exported = {f, g}
  OnDisk = {app, plugin}
  Scoped = {4}
  Optional = {1, 2, 3}
  AutoPrime = TRUE
  Faults = {"patch", "relocate"}
INVARIANTS DamageStaysLocal
PROPERTIES RetryInstalls
