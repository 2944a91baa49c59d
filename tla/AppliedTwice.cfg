\* Objective-C methods: two callers pass the same install guard.
SPECIFICATION Spec
CONSTANTS
  f = f
  g = g
  app = app
  plugin = plugin
  Thread = {a, b}
  N = 1
  Target <- Targets
  TargetOf <- FirstTargetOf
  EngineOf <- AllObjc
  Image <- Images
  HomeOf <- Homes
  Exported = {f, g}
  OnDisk = {app, plugin}
  Scoped = {}
  Optional = {}
  AutoPrime = TRUE
  Faults = {}
PROPERTIES AppliedAtMostOnce
