SPECIFICATION MCSpec
CONSTANTS
  ann = ann
  bob = bob
  s1 = s1
  People = {ann, bob}
  Founders = {ann, bob}
  Sessions = {s1, s2}
  CustomRoles = {r1}
  Permissions = {"manage", "recover"}
  AdminPermissions = {"manage"}
  Recoverers = {ann, bob}
  RecoveryRole = r1
  Recoveries = {o1, o2}
  References = {x1, x2}
  Intents = {i1, i2}
  Invites = {v1, v2}
  Keys = {k1}
  MaxFailures = 2
  MaxMemberships = 2
  MaxVersion = 2
  MaxTokens = 2
  MaxHash = 2
  MaxGeneration = 2
  MaxInFlight = 2
  Admin = Admin
  None = None
INVARIANTS
  PlatformEntryIsGuarded
PROPERTIES
  AdministrationIsSafe
  RecoveryIsFourEyed
CHECK_DEADLOCK FALSE
