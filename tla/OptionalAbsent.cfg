\* auto-prime (the default feature set) and an optional hook whose image does not exist.
SPECIFICATION Spec
CONSTANTS
  f = f
  g = g
  app = app
  plugin = plugin
  Thread = {a}
  N = 2
  Target <- Targets
  TargetOf <- PairTargetOf
  EngineOf <- AllDobby
  Image <- Images
  HomeOf <- Homes
  Exported = {f, g}
  OnDisk = {app}
  Scoped = {2}
  Optional = {2}
  AutoPrime = TRUE
  Faults = {}
PROPERTIES OptionalAbsentIgnored
