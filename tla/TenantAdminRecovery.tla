------------------------ MODULE TenantAdminRecovery ------------------------
(***************************************************************************)
(* A Tenant without anybody able to log in and administer it gets an       *)
(* administrator back: one Platform administrator requests it, another one *)
(* approves it under an approval reference, and somebody who has           *)
(* authenticated recently executes it.                                     *)
(*                                                                         *)
(* Each command is authorized by the lookup of module PlatformSessions in  *)
(* its own transaction, under the guards of the Platform and of the        *)
(* Tenant; the receipts of repeated commands are those of module           *)
(* PlatformAdministration.  Meanwhile the Tenant goes on: its Memberships  *)
(* change, passwords lock and unlock.                                      *)
(***************************************************************************)
EXTENDS PlatformSessions

CONSTANTS
  Recoveries,   \* recovery operations
  References    \* approval references, shared with bootstrap recoveries

ASSUME RecoveryAssumption == None \notin Recoveries

VARIABLES
  recovery,   \* tenant_admin_recovery_operations
  reserved,   \* iam_recovery_approval_references, by their operation
  tenantMember,  \* tenant_memberships: the latest row of each person
  tenantAdmins   \* bindings of tenant-admin to those rows

recoveryVars == <<recovery, reserved, tenantMember, tenantAdmins>>

RecoveryRow ==
  [status : {"none", "pending", "approved", "executed"}, target : People \cup {None},
   requester : People \cup {None}, approver : People \cup {None},
   reference : References \cup {None}, over : BOOLEAN]

RecoveryTypeOK ==
  /\ recovery \in [Recoveries -> RecoveryRow]
  /\ reserved \in [References -> Recoveries \cup {None, "bootstrap"}]
  /\ tenantMember \in [People -> {"none", "active", "suspended", "removed"}]
  /\ tenantAdmins \subseteq People

RecoveryInit ==
  /\ recovery = [o \in Recoveries |->
       [status |-> "none", target |-> None, requester |-> None, approver |-> None,
        reference |-> None, over |-> FALSE]]
  /\ reserved = [x \in References |-> None]
  /\ tenantMember = [p \in People |-> "none"]
  /\ tenantAdmins = {}

-----------------------------------------------------------------------------

\* CountActiveHumanTenantAdministrators counts them.
TenantAdministrators ==
  {p \in tenantAdmins : tenantMember[p] = "active" /\ LoginCapable(p)}

TenantAdminRecoveryLoginTarget(p) == p \in human /\ LoginCapable(p)

\* Mutant: the person must be able to log in; whether anybody else is, is not
\* asked.
ValidateTargetOnly(p) == TenantAdminRecoveryLoginTarget(p)

\* Under the guard of the Tenant.
ValidateRecoveryTarget(p) ==
  TenantAdministrators = {} /\ TenantAdminRecoveryLoginTarget(p)

Recoverer(t) == CheckPermission(t, {"recover"})
CallerOf(t) == session[t.session].person

CreateTenantAdminRecovery(p, requester) ==
  [status |-> "pending", target |-> p, requester |-> requester, approver |-> None,
   reference |-> None, over |-> FALSE]

RequestTenantAdminRecovery(t, o, p) ==
  /\ Recoverer(t) /\ recovery[o].status = "none"
  /\ ValidateRecoveryTarget(p)
  /\ recovery' = [recovery EXCEPT ![o] = CreateTenantAdminRecovery(p, CallerOf(t))]
  /\ UNCHANGED <<reserved, tenantMember, tenantAdmins>>

\* The primary key of the references admits each once.
ReserveRestoreRecoveryApproval(x, o) ==
  reserved[x] = None /\ reserved' = [reserved EXCEPT ![x] = o]

\* The approval has its own hour.
ApproveRecovery(row, approver, x) ==
  [row EXCEPT !.status = "approved", !.approver = approver, !.reference = x, !.over = FALSE]

ApproveTenantAdminRecovery(t, o, x) ==
  LET r == recovery[o]
  IN /\ Recoverer(t) /\ CallerOf(t) # r.requester
     /\ r.status = "pending" /\ ~r.over
     /\ ValidateRecoveryTarget(r.target)
     /\ ReserveRestoreRecoveryApproval(x, o)
     /\ recovery' = [recovery EXCEPT ![o] = ApproveRecovery(@, CallerOf(t), x)]
     /\ UNCHANGED <<tenantMember, tenantAdmins>>

\* The proof is an access token of the same person, maybe of another Session,
\* that stands for a recent authentication now.
RecoveryReauthentication(t, proof) ==
  /\ CallerOf(proof) = CallerOf(t)
  /\ ValidatePrincipal(proof) /\ session[proof.session].fresh

\* A Membership that is not removed becomes active; otherwise there is a new
\* one.  The binding is added when it is missing.
RestoreRecoveryAdministrator(p) ==
  /\ tenantMember' = [tenantMember EXCEPT ![p] = "active"]
  /\ tenantAdmins' = tenantAdmins \cup {p}

CompleteRecovery(row) == [row EXCEPT !.status = "executed"]

ExecuteTenantAdminRecovery(t, proof, o, x) ==
  LET r == recovery[o]
  IN /\ Recoverer(t)
     /\ r.status = "approved" /\ ~r.over /\ r.reference = x /\ r.requester # r.approver
     /\ ValidateRecoveryTarget(r.target)
     /\ RecoveryReauthentication(t, proof)
     /\ RestoreRecoveryAdministrator(r.target)
     /\ recovery' = [recovery EXCEPT ![o] = CompleteRecovery(@)]
     /\ UNCHANGED reserved

RecoveryElapses(o) ==
  /\ recovery[o].status \in {"pending", "approved"} /\ ~recovery[o].over
  /\ recovery' = [recovery EXCEPT ![o].over = TRUE]
  /\ UNCHANGED <<reserved, tenantMember, tenantAdmins>>

\* A bootstrap recovery takes a reference of the same table.
BootstrapRecoveryApproved(x) ==
  /\ ReserveRestoreRecoveryApproval(x, "bootstrap")
  /\ UNCHANGED <<recovery, tenantMember, tenantAdmins>>

\* Administration of the Tenant itself, see module TenantAdministration: a
\* Membership begins, is suspended or resumed, or ends with its bindings, and
\* tenant-admin is bound or unbound.
TenantChanges(p) ==
  /\ \/ /\ tenantMember' \in {[tenantMember EXCEPT ![p] = st] : st \in {"active", "suspended"}}
        /\ tenantAdmins' \in {tenantAdmins, tenantAdmins \cup {p}, tenantAdmins \ {p}}
     \/ /\ tenantMember[p] \in {"active", "suspended"}
        /\ tenantMember' = [tenantMember EXCEPT ![p] = "removed"]
        /\ tenantAdmins' = tenantAdmins \ {p}
  /\ UNCHANGED <<recovery, reserved>>

RecoveryNext ==
  \/ \E t \in access, o \in Recoveries :
       \/ \E p \in People : RequestTenantAdminRecovery(t, o, p)
       \/ \E x \in References :
            \/ ApproveTenantAdminRecovery(t, o, x)
            \/ \E proof \in access : ExecuteTenantAdminRecovery(t, proof, o, x)
  \/ \E o \in Recoveries : RecoveryElapses(o)
  \/ \E x \in References : BootstrapRecoveryApproved(x)
  \/ \E p \in People : TenantChanges(p)

-----------------------------------------------------------------------------
(* What recovery promises. *)

Executes(o) == recovery[o].status # "executed" /\ recovery'[o].status = "executed"

\* An approval that waited while the Tenant found an administrator, or while
\* another approval was executed, adds no second one, and the person restored
\* really is an administrator able to log in afterwards, whatever was left of
\* an earlier Membership (ValidateRecoveryTarget, RestoreRecoveryAdministrator).
RecoveryOnlyReplacesALoss ==
  [][\A o \in Recoveries : Executes(o) =>
       TenantAdministrators = {} /\ TenantAdministrators' = {recovery[o].target}]_recoveryVars

\* Two people stand behind an administrator who was restored, and an approval
\* reference stands for one operation, of whatever kind
\* (ApproveTenantAdminRecovery, ReserveRestoreRecoveryApproval).
RecoveriesAreFourEyed ==
  \A o \in Recoveries : recovery[o].status \in {"approved", "executed"} =>
    recovery[o].requester # recovery[o].approver /\ reserved[recovery[o].reference] = o

\* A recovery takes two people and an approval of its own, and only replaces an
\* administrator who is still missing when it is executed.
RecoveryIsFourEyed ==
  [](RecoveryTypeOK /\ RecoveriesAreFourEyed) /\ RecoveryOnlyReplacesALoss
=============================================================================
