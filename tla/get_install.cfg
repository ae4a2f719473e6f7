SPECIFICATION Spec
CONSTANTS
  Deps <- MCDeps
  RepoDeps <- MCRepoDeps
  Initially = {"d"}
  Protected = {"p", "q"}
  Targets <- MCTargets
  MaxRuns = 2
  MaxVersion = 2
INVARIANTS
  TypeOK
  NeverReentered
  RefusedUntouched
  InOrder
PROPERTIES
  ProtectedConfirmed
  ExitHonest
  OnlyVerified
CHECK_DEADLOCK FALSE
