SPECIFICATION MCSpec
CONSTANTS
    None = None
    Tenants = {t1, t2}
    Snapshots = {s1, s2}
    Workers = {w1, w2}
    Receivers = {r1}
    Restores = TRUE
    MaxEpoch = 2
    MaxSequence = 2
    MaxEvents = 2
    MaxNow = 1
    StaleAfter = 1
    Batch = 1
    MaxBeats = 2
    MaxAuthority = 2
    MaxExpiries = 0
    Parts = {"rebuild", "authority", "heartbeats"}
CHECK_DEADLOCK FALSE
VIEW View
SYMMETRY Symmetry
INVARIANTS
  TypeOK
  ProjectionIsFaithful
  AckedIsDurable
PROPERTIES
  ReplicaImplemented
  ActivationUnderAuthority
