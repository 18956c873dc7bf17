--------------------------- MODULE LifecycleOwner ---------------------------
(***************************************************************************)
(* Governance, the owner of the Tenants' lifecycle, as IAM sees it: a log  *)
(* of Lifecycle events per epoch, one sequence number and one Tenant       *)
(* version per event.  Governance is not part of this repository; what IAM *)
(* may rely on is taken from how biz/tenant_lifecycle.go and               *)
(* data/governance_snapshot_rebuild.go use its events and Snapshots.       *)
(*                                                                         *)
(* A new epoch starts its sequence at zero.  It continues from the state   *)
(* of the previous epoch, or, when Governance itself was restored from a   *)
(* backup, from an earlier one: then events that IAM has seen are lost.    *)
(***************************************************************************)
EXTENDS Integers, FiniteSets

CONSTANTS
    Tenants,
    None,
    Restores,      \* bound: whether a new epoch may start from a backup
    MaxEpoch,      \* bound: last epoch
    MaxSequence,   \* bound: last sequence number of an epoch
    MaxEvents,     \* bound: events of all epochs together
    MaxNow         \* bound: last tick of the clock

Epochs == 1..MaxEpoch
Sequences == 1..MaxSequence

ASSUME OwnerAssumption ==
    /\ MaxEpoch \in Nat \ {0} /\ MaxSequence \in Nat /\ MaxEvents \in Nat /\ MaxNow \in Nat
    /\ Restores \in BOOLEAN
    /\ None \notin Tenants

VARIABLES
    epoch,     \* the epoch of new events
    length,    \* per epoch: the sequence number of its last committed event
    history,   \* per epoch and sequence number: the facts of all Tenants there
    event,     \* per epoch and sequence number: the event's Tenant and commit time
    now

owner == <<epoch, length, history, event, now>>

LifecycleStatus == {"active", "frozen", "disabled"}
Fact == [version: Nat, status: LifecycleStatus \cup {"absent"}]
NoFact == [version |-> 0, status |-> "absent"]

OwnerInit ==
    /\ epoch = 1
    /\ length = [e \in Epochs |-> 0]
    /\ history = [e \in Epochs |-> [s \in 0..MaxSequence |-> [t \in Tenants |-> NoFact]]]
    /\ event = [e \in Epochs |-> [s \in Sequences |-> [tenant |-> None, at |-> 0]]]
    /\ now = 0

\* What may follow a status; a Tenant is created active, a disabled one stays so.
Successors(status) ==
    {to \in LifecycleStatus :
        \/ status = "absent" /\ to = "active"
        \/ status = "active" /\ to \in {"frozen", "disabled"}
        \/ status = "frozen" /\ to \in {"active", "disabled"}}

\* The positions of the log that hold an event.
Committed == {p \in Epochs \X Sequences : p[2] <= length[p[1]]}

CommitEvent(t, to) ==
    LET last == length[epoch]
        old == history[epoch][last][t]
    IN  /\ last < MaxSequence /\ Cardinality(Committed) < MaxEvents
        /\ to \in Successors(old.status)
        /\ length' = [length EXCEPT ![epoch] = last + 1]
        /\ history' = [history EXCEPT ![epoch][last + 1] =
              [history[epoch][last] EXCEPT ![t] = [version |-> old.version + 1, status |-> to]]]
        /\ event' = [event EXCEPT ![epoch][last + 1] = [tenant |-> t, at |-> now]]
        /\ UNCHANGED <<epoch, now>>

StartEpoch(from) ==
    /\ epoch < MaxEpoch
    /\ from \in 0..length[epoch]
    /\ from = length[epoch] \/ Restores
    /\ epoch' = epoch + 1
    /\ history' = [history EXCEPT ![epoch + 1][0] = history[epoch][from]]
    /\ UNCHANGED <<length, event, now>>

Tick ==
    /\ now < MaxNow
    /\ now' = now + 1
    /\ UNCHANGED <<epoch, length, history, event>>

OwnerNext ==
    \/ \E t \in Tenants, to \in LifecycleStatus : CommitEvent(t, to)
    \/ \E from \in 0..MaxSequence : StartEpoch(from)
    \/ Tick

OwnerTypeOK ==
    /\ epoch \in Epochs
    /\ length \in [Epochs -> 0..MaxSequence]
    /\ history \in [Epochs -> [0..MaxSequence -> [Tenants -> Fact]]]
    /\ event \in [Epochs -> [Sequences -> [tenant: Tenants \cup {None}, at: 0..MaxNow]]]
    /\ now \in 0..MaxNow

=============================================================================
