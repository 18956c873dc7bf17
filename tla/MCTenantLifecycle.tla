------------------------- MODULE MCTenantLifecycle -------------------------
(* Small instances of TenantLifecycle.  Tenants, Snapshots, Workers and     *)
(* Receivers are interchangeable in the safety runs, and what is left of a  *)
(* Snapshot that nothing refers to is never read: states that differ in     *)
(* nothing else are one state.                                              *)
EXTENDS TenantLifecycle, TLC

\* What changes besides the events, "all" for the runs that bound it by the
\* constants alone.
CONSTANT Parts
VARIABLE part

Symmetry == Permutations(Tenants) \cup Permutations(Snapshots) \cup Permutations(Workers)
                \cup Permutations(Receivers)

View ==
    <<part, owner, beats, grant, pipeline, view, broker, build, worker, expiries,
      [i \in Snapshots |-> IF Unused(i) THEN NoCut ELSE snapshot[i]]>>

Busy == {w \in Workers : worker[w].step # "idle" \/ worker[w].key # None}
Concerned == {event[p[1]][p[2]].tenant : p \in Committed}

AuthorityChanges == grant["lifecycle"].version + grant["heartbeat"].version + grant["reader"].version - 3
SameAuthority == AuthorityChanges = 0
OneOfEach == Cardinality(Concerned) <= 1 /\ Cardinality(Busy) <= 1

\* Two coordinators, or one and a second epoch.
Rebuilding ==
    /\ part = "rebuild" /\ SameAuthority /\ beats = {} /\ now = 0
    /\ epoch = 1 \/ Cardinality(Busy) <= 1
Revoking ==
    /\ part = "authority" /\ epoch = 1 /\ beats = {} /\ now = 0 /\ OneOfEach
    /\ grant["heartbeat"].version = 1 /\ Cardinality(Committed) + AuthorityChanges <= 3
Beating ==
    /\ part = "heartbeats" /\ SameAuthority /\ OneOfEach
    /\ Cardinality(Committed) + Cardinality(beats) + epoch + now <= IF Busy = {} THEN 6 ELSE 5
    /\ Cardinality(Committed) <= 1

Scenario == Rebuilding \/ Revoking \/ Beating \/ part = "all"

mcVars == <<vars, part>>
MCInit ==
    /\ Init
    /\ part \in Parts
MCNext == UNCHANGED part /\ Next /\ Scenario'
MCSpec == MCInit /\ [][MCNext]_mcVars

\* The scenario "all" leaves the fairness of FairSpec as it is.
MCFairSpec == MCSpec /\ Fairness
=============================================================================
