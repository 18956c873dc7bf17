\* What ADR-0011 says of the Membership a switch validates.
SPECIFICATION MCSpec
CONSTANTS
    Sessions = {s1, s2}
    Grants = {g1, g2}
    Families = {f1, f2, f3}
    Tokens = {k1, k2, k3, k4}
    Tenants = {ta, tb}
    Closable = {ta, tb}
    Requests = {r1, r2}
    None = None
    AccessLifetime = 2
    IdleLifetime = 3
    AbsoluteLifetime = 4
    MaxStall = 1
    MaxNow = 4
    MaxCredential = 3
    MaxMembership = 2
    Parts = {"returning"}
SYMMETRY Symmetry
PROPERTY SwitchBindsRevalidatedMembership
CHECK_DEADLOCK FALSE
