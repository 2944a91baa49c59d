\* Hooks on base and on target, and on target's class methods, while classes are
\* loaded and root gets the method. Every installation ends, so that the system stops.
SPECIFICATION Spec
CONSTANTS
  root = root
  base = base
  target = target
  rootMeta = rootMeta
  baseMeta = baseMeta
  targetMeta = targetMeta
  p = p
  q = q
  r = r
  s = s
  t = t
  Class <- Classes
  Above <- Lines
  Named <- Names
  MetaOf <- Metas
  Hook = {p, q, r, s, t}
  OnClass <- Apart
  KindOf <- Kinds
  BadName <- Bad
  Late = {root}
  None = None
INVARIANTS ObjcTypeOK Scoped HookInFront OriginalInLine
CHECK_DEADLOCK FALSE
