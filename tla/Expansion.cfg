\* Every declaration in its own behaviour, which ends with the compiler's verdict.
SPECIFICATION Spec
CONSTANTS
  Items <- Declarations
INVARIANTS AcceptsExactly GeneratesWhatIsDeclared EveryArgumentCounts FirstHookOwnsBody
CHECK_DEADLOCK FALSE
