\* Two hooks on one class that inherits the method.
SPECIFICATION Spec
CONSTANTS
  root = root
  base = base
  target = target
  rootMeta = rootMeta
  baseMeta = baseMeta
  targetMeta = targetMeta
  p = p
  q = q
  r = r
  s = s
  t = t
  Class <- Classes
  Above <- Lines
  Named <- Names
  MetaOf <- Metas
  Hook = {p, q}
  OnClass <- Shared
  KindOf <- Alike
  BadName <- Good
  Late = {}
  None = None
INVARIANTS Scoped
CHECK_DEADLOCK FALSE
