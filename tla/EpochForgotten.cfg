SPECIFICATION MCSpec
CONSTANTS
    None = None
    Tenants = {t1}
    Snapshots = {s1, s2}
    Workers = {w1}
    Receivers = {r1}
    Restores = FALSE
    MaxEpoch = 2
    MaxSequence = 1
    MaxEvents = 2
    MaxNow = 0
    StaleAfter = 1
    Batch = 1
    MaxBeats = 0
    MaxAuthority = 0
    MaxExpiries = 0
    Parts = {"all"}
CHECK_DEADLOCK FALSE
INVARIANTS NewEpochRequiresSnapshot
