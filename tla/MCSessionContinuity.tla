------------------------ MODULE MCSessionContinuity ------------------------
(***************************************************************************)
(* SessionContinuity for TLC: requests and Tenants are interchangeable.    *)
(* Scenarios bound the rows, each leaving out what it is not about; a run  *)
(* names the ones it asks about.                                           *)
(***************************************************************************)
EXTENDS SessionContinuity, FiniteSets, TLC

CONSTANT Parts    \* the scenarios of a run

VARIABLE part

Symmetry == Permutations(Requests) \cup Permutations(Tenants)

Used(table) == Cardinality({x \in DOMAIN table : table[x].status # "absent"})
Rows(sessions, grants, families, tokens) ==
    /\ Used(session) <= sessions /\ Used(grant) <= grants
    /\ Used(family) <= families /\ Used(token) <= tokens

NoTime == now = 0
SamePassword == credential.version = 1 /\ reset = NoReset
AllOpen == \A t \in Tenants : boundary[t].open
FirstMemberships == \A t \in Tenants : boundary[t].membership = 1

Closing == part = "closing" /\ Rows(1, 2, 3, 3) /\ NoTime /\ SamePassword /\ FirstMemberships
Replacing ==
    /\ part = "replacing" /\ NoTime /\ SamePassword /\ AllOpen
    /\ Rows(1, 2, 3, 3) \/ Rows(1, 1, 1, 4)
Resetting ==
    /\ part = "reset" /\ NoTime /\ AllOpen /\ FirstMemberships
    /\ Rows(1, 2, 2, 3) \/ Rows(2, 2, 2, 2)
    /\ credential.version = 3 => Rows(1, 1, 1, 1)
Ageing ==
    /\ part = "clock" /\ SamePassword /\ AllOpen /\ FirstMemberships
    /\ Rows(1, 1, 2, 3) \/ Rows(1, 2, 2, 2)

\* A Grant is left, its Membership replaced, and the Grant switched to again.
Returning == part = "returning" /\ Rows(1, 2, 3, 4) /\ NoTime /\ SamePassword /\ AllOpen

Scenario == Closing \/ Replacing \/ Resetting \/ Ageing \/ Returning

MCInit ==
    /\ Init
    /\ part \in Parts
MCNext == UNCHANGED part /\ Next /\ Scenario'
MCSpec == MCInit /\ [][MCNext]_<<vars, part>>
=============================================================================
