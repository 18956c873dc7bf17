SPECIFICATION MCFairSpec
CONSTANTS
    None = None
    Tenants = {t1}
    Snapshots = {s1, s2}
    Workers = {w1}
    Receivers = {r1}
    Restores = FALSE
    MaxEpoch = 1
    MaxSequence = 2
    MaxEvents = 2
    MaxNow = 0
    StaleAfter = 1
    Batch = 1
    MaxBeats = 0
    MaxAuthority = 0
    MaxExpiries = 1
    Parts = {"all"}
CHECK_DEADLOCK FALSE
PROPERTIES EventuallyCaughtUp
