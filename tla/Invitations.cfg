SPECIFICATION Spec
CONSTANTS
  People = {p, q}
  Invites = {i1, i2}
  CustomRoles = {r}
  Keys = {k1, k2}
  Workers = {w, v}
  MaxAttempts = 2
  MaxClaims = 4
  MaxFailures = 2
  MaxGeneration = 2
  MaxRemovals = 1
  MaxHash = 2
  None = None
INVARIANTS
  TypeOK
  InvitationsAreHonoured
  MessagesAreCurrent
PROPERTIES
  LateResultsAreDropped
CONSTRAINT Scenarios
SYMMETRY Symmetry
CHECK_DEADLOCK FALSE
