\* The last administrator while his password is locked.
SPECIFICATION MCSpec
CONSTANTS
    Humans = {h1, h2}
    Workloads = {}
    Lockable = {h1, h2}
    Memberships = {m1, m2}
    AdminRole = AdminRole
    CustomRoles = {}
    ApiKeys = {}
    Transactions = {t1, t2}
    IdempotencyKeys = {i1, i2}
    Operations = {"UpdateMembership", "BindRole", "UnbindRole"}
    None = None
    MaxVersion = 3
    h1 = h1
SYMMETRY Symmetry
INVARIANT AdministratorRemains
CHECK_DEADLOCK FALSE
