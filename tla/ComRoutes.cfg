\* A symbol, a vtable slot, a name and a pointer, with images and objects that come
\* and go. An access to an unmapped image ends the process.
SPECIFICATION FairSpec
CONSTANTS
  server = server
  other = other
  method = method
  factory = factory
  namesake = namesake
  None = None
  N = 5
  Image <- Images
  Function <- Functions
  HomeOf <- Homes
  RouteOf <- Routes
  PreferredOf <- Preferred
  Exports <- Symbols
  Imports <- ImportLists
  ResolveImages <- ResolveLists
  FallbackImage <- FallbackLists
  Named = {3}
  Optional = {3}
  OnDisk = {server, other}
  Volatile = {other}
  AutoPrime = TRUE
INVARIANTS ComTypeOK AtMostOneFunction LandsInScope PrimedOutlives
PROPERTIES SecondLookupIsLate SettledInstalls
CHECK_DEADLOCK FALSE
