\* Two threads call f and g while one thread installs.
SPECIFICATION FairDispatchSpec
CONSTANTS
  f = f
  g = g
  app = app
  Thread = {a}
  N = 3
  Target <- Targets
  TargetOf <- TargetsOf
  EngineOf <- AllObjc
  Image = {app}
  HomeOf <- Homes
  Exported = {f, g}
  OnDisk = {app}
  Scoped = {}
  Optional = {}
  AutoPrime = TRUE
  Faults = {}
  Caller = {x, y}
  ModeOf <- Modes
  Observer <- Observers
  Nothing = Nothing
  Forwards = {1, 3}
  Depth = 5
INVARIANTS FirstHitExactlyOnce StackBounded OwedPaid
PROPERTIES FallbackOnlyInWindow CallsReturn
