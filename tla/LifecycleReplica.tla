-------------------------- MODULE LifecycleReplica --------------------------
(***************************************************************************)
(* What IAM's lifecycle projection promises: its readers see either        *)
(* nothing or the facts of all Tenants at one point of the owner's log,    *)
(* never a mixture of two points, and a reader never sees a Tenant go      *)
(* back: to an older version, to another status of the same version, or    *)
(* out of disabled.                                                        *)
(***************************************************************************)
EXTENDS LifecycleOwner

VARIABLE view   \* None, or the facts readers see

replica == <<owner, view>>

\* new may be shown to readers that have seen old.
Covers(old, new) ==
    \A t \in Tenants :
        /\ old[t].version <= new[t].version
        /\ old[t].version = new[t].version => old[t].status = new[t].status
        /\ old[t].status = "disabled" => new[t].status = "disabled"

Init == OwnerInit /\ view = None

Refresh ==
    /\ \E e \in Epochs : \E s \in 0..length[e] :
          /\ e <= epoch
          /\ view # None => Covers(view, history[e][s])
          /\ view' = history[e][s]
    /\ UNCHANGED owner

Next == (OwnerNext /\ UNCHANGED view) \/ Refresh

Spec == Init /\ [][Next]_replica

=============================================================================
