\* Administrators that remove, suspend, bind and unbind each other, custom Roles,
\* Workloads and API Keys created, disabled, removed and retried.
SPECIFICATION MCSpec
CONSTANTS
    Humans = {h1, h2}
    Workloads = {w1}
    Lockable = {}
    Memberships = {m1, m2, m3}
    AdminRole = AdminRole
    CustomRoles = {c1}
    ApiKeys = {a1, a2}
    Transactions = {t1, t2}
    IdempotencyKeys = {i1, i2}
    Operations = {"UpdateMembership", "BindRole", "UnbindRole", "UpdateAccess", "CreateRole", "UpdateRole", "DeleteRole", "CreateTenantWorkload", "UpdateTenantWorkload", "CreateAPIKey", "RevokeAPIKey"}
    None = None
    MaxVersion = 3
    h1 = h1
SYMMETRY Symmetry
INVARIANTS
  TypeOK
  AdministratorRemains
  ReferencesHold
  OneRowPerCommand
PROPERTIES
  CommandsAreLawful
CHECK_DEADLOCK FALSE
