\* macOS: two threads inject the agent, with and without a log path.
SPECIFICATION FairAgentSpec
CONSTANTS
  f = f
  g = g
  app = app
  Thread = {a, b}
  N = 3
  Target <- Targets
  TargetOf <- TargetsOf
  EngineOf <- Engines
  Image = {app}
  HomeOf <- Homes
  Exported = {f, g}
  OnDisk = {app}
  Scoped = {}
  Optional = {}
  AutoPrime = TRUE
  Faults = {"patch", "relocate"}
  Path = {p}
  NoPath = NoPath
  DefaultPath = DefaultPath
INVARIANTS AgentTypeOK InstallsAlone AnswersAgree
PROPERTIES AppliedAtMostOnce ErrorsAreGenuine OneLog InjectionReturns
