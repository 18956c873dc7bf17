SPECIFICATION MCSpec
CONSTANTS
  Tenants = {1, 2}
  Snapshots = {s1, s2}
  MaxSequence = 3
  MaxAuthority = 3
  PageSize = 1
  BatchLimit = 2
  Manifests = {1, 2, 3, 4, 5, 6}
  MaxVersion = 3
  MaxGeneration = 2
  MaxRecovery = 1
  Entries = {e1, e2}
  Old = {e2}
  ReplayRequests = {1, 2, 3}
  Keys = {k1, k2}
  MaxDLQChanges = 2
  Callers = {c1, c2}
  Receivers = {r1, r2}
  Humans = {h1}
  APIKeys = {a1, a2}
  NeverExpiring = {a1}
  Requests = {q1}
  WorkloadTokenMaxTTL = 2
  DelegationMaxTTL = 1
  SessionContinuationMaxTTL = 2
  SubjectLife = 2
  MaxTime = 3
  MaxChanges = 2
  MaxIssued = 2
  Targets = {t1, t2}
  Scopes = {sc1, sc2}
  Bundles = {b1, b2}
  BootstrapManifests = {m1, m2}
  Environments = {v1, v2}
  Principals = {w1, w2}
  Runtimes = {p1}
  MaxInstallations = 3
  s1 = s1
  e1 = e1
  c1 = c1
  c2 = c2
  r1 = r1
  r2 = r2
  t1 = t1
  b1 = b1
  sc1 = sc1
  NoName = NoName
  Absent = Absent
  Nothing = Nothing
  None = None
  Missing = Missing
INVARIANTS
  RegistryIsConsistent
PROPERTIES
  ShadowIsFaithful
  AuthorityIsFenced
  ReplaysAreAccountable
  InvocationsAreAuthorized
CHECK_DEADLOCK FALSE
