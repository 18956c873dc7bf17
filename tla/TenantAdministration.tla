----------------------- MODULE TenantAdministration -----------------------
(***************************************************************************)
(* The administration of one Tenant: Memberships, Role Bindings, custom    *)
(* Roles, Workloads, API Keys and Tenant Access, written by                *)
(* biz/tenant_authorization.go, biz/tenant_roles.go and                    *)
(* biz/tenant_workload.go through the idempotency ledger of                *)
(* biz/idempotency.go.                                                     *)
(*                                                                         *)
(* Each command is one READ COMMITTED transaction.  Some take the Tenant's *)
(* administration guard (an advisory lock) first, all lock their           *)
(* idempotency identity, and a committed result is kept for ever.  Open is *)
(* the part of a transaction that locks, reads and refuses; Commit is the  *)
(* part that writes, rechecks the row versions and records the result.     *)
(* Between the two every transaction that needs none of the locks held may *)
(* commit.  A refusal or a replay changes nothing, so it is no step.       *)
(*                                                                         *)
(* The deferred constraints of the schema that repeat a rule of the code   *)
(* (tenant_role_bindings_role_fk, check_workload_relations and             *)
(* lock_membership_principal) are left out as guards and stated as         *)
(* properties: the code alone must never need them.                        *)
(***************************************************************************)
EXTENDS Integers, FiniteSets

CONSTANTS
    Humans, Workloads,   \* Principals
    Lockable,            \* Humans whose only login is a password
    Memberships,         \* row identities
    AdminRole,           \* the system Role tenant-admin
    CustomRoles,
    ApiKeys,
    Transactions,        \* transactions open at the same time
    IdempotencyKeys,
    Operations,          \* bound: the operations clients call
    None,
    MaxVersion           \* bound: last version of a row

Principals == Humans \cup Workloads
Roles == CustomRoles \cup {AdminRole}

ASSUME PrincipalAssumption ==
    /\ Lockable \subseteq Humans /\ Humans \cap Workloads = {}
    /\ None \notin Principals \cup Memberships
    /\ AdminRole \notin CustomRoles
    /\ IsFiniteSet(Memberships)
    /\ MaxVersion \in Nat \ {0}

VARIABLES
    member,    \* tenant_memberships
    bound,     \* tenant_role_bindings: <<membership, role>>
    role,      \* the custom rows of tenant_roles
    workload,  \* workload_principals with the status of their principals row
    apiKey,    \* api_keys
    accessRow, \* tenant_access
    locked,    \* Humans whose password credential is locked after failures
    ledger,    \* tenant_mutation_results: the identities with a result
    tx         \* the command of each open transaction

rows == <<member, bound, role, workload, apiKey, accessRow>>
vars == <<member, bound, role, workload, apiKey, accessRow, locked, ledger, tx>>

-----------------------------------------------------------------------------
MembershipStatus == {"active", "suspended", "removed"}
Versions == 1..(MaxVersion - 1)  \* the versions a command may expect

OperationNames ==
    {"UpdateMembership", "RemoveMember", "BindRole", "UnbindRole", "CreateRole", "UpdateRole", "DeleteRole",
     "CreateTenantWorkload", "UpdateTenantWorkload", "CreateAPIKey", "RevokeAPIKey", "UpdateAccess"}
Identity == [actor: Humans, op: OperationNames, key: IdempotencyKeys]

RowVersions == 0..MaxVersion  \* 0: no row
MembershipRow == [principal: Principals \cup {None}, version: RowVersions,
                  status: MembershipStatus \cup {"absent"}]
\* origin records which command made a row that no expected version protects.
RoleRow == [status: {"absent", "live", "deleted"}, version: RowVersions, origin: {None} \cup Identity]
WorkloadRow == [status: {"absent", "active", "disabled"}, version: RowVersions,
                membership: Memberships \cup {None}, origin: {None} \cup Identity]
ApiKeyRow == [status: {"absent", "active", "revoked"}, workload: Workloads \cup {None},
              origin: {None} \cup Identity]
AccessRow == [status: {"active", "suspended"}, version: RowVersions]

\* A command: who calls what with which key, on which row at which version.
Call(ops, fields) ==
    {[op |-> o, actor |-> a, key |-> k, args |-> f] :
        o \in ops \cap Operations, a \in Humans, k \in IdempotencyKeys, f \in fields}
Commands ==
    Call({"UpdateMembership"}, [target: Memberships, status: MembershipStatus, version: Versions])
    \cup Call({"BindRole", "UnbindRole"}, [target: Memberships, role: Roles, version: Versions])
    \cup Call({"CreateRole"}, {None})
    \cup Call({"UpdateRole", "DeleteRole"}, [target: CustomRoles, version: Versions])
    \cup Call({"CreateTenantWorkload"}, [roles: SUBSET Roles \ {{}}])
    \cup Call({"UpdateTenantWorkload"}, [target: Workloads, status: {"active", "disabled"}, version: Versions])
    \cup Call({"CreateAPIKey"}, [workload: Workloads])
    \cup Call({"RevokeAPIKey"}, [target: ApiKeys])
    \cup Call({"UpdateAccess"}, [status: {"active", "suspended"}, version: Versions])

Idle == [op |-> "idle"]

\* The Tenant after its bootstrap: one administrator, and the other Humans
\* members without a Role.
Init ==
    /\ \E of \in [Humans -> Memberships], first \in Humans :
          /\ \A g, h \in Humans : of[g] = of[h] => g = h
          /\ member = [m \in Memberships |->
                IF \E h \in Humans : of[h] = m
                THEN [principal |-> CHOOSE h \in Humans : of[h] = m, version |-> 1, status |-> "active"]
                ELSE [principal |-> None, version |-> 0, status |-> "absent"]]
          /\ bound = {<<of[first], AdminRole>>}
    /\ role = [r \in CustomRoles |-> [status |-> "absent", version |-> 0, origin |-> None]]
    /\ workload = [w \in Workloads |-> [status |-> "absent", version |-> 0, membership |-> None,
                                        origin |-> None]]
    /\ apiKey = [k \in ApiKeys |-> [status |-> "absent", workload |-> None, origin |-> None]]
    /\ accessRow = [status |-> "active", version |-> 1]
    /\ locked = {}
    /\ ledger = {}
    /\ tx = [t \in Transactions |-> Idle]

-----------------------------------------------------------------------------
(***************************************************************************)
(* Administrators.                                                         *)
(***************************************************************************)
RoleExists(r) == r # AdminRole => role[r].status = "live"

\* An active Human Membership bound to tenant-admin.
IsAdministrator(m) ==
    member[m].principal \in Humans /\ member[m].status = "active" /\ <<m, AdminRole>> \in bound

\* The same, not asking for an active Membership.
AnyBoundPrincipal(h) ==
    \E m \in Memberships : member[m].principal = h /\ <<m, AdminRole>> \in bound
IsActiveHumanAdministratorPrincipal(h) ==
    \E m \in Memberships : member[m].principal = h /\ IsAdministrator(m)

\* What IsActiveHumanAdministrator and the count add: a login that works now.
LoginCapableAdministrators ==
    {m \in Memberships : IsAdministrator(m) /\ member[m].principal \notin locked}

protectLastAdministrator(m) ==
    m \in LoginCapableAdministrators => Cardinality(LoginCapableAdministrators) > 1

-----------------------------------------------------------------------------
(***************************************************************************)
(* Open: the locks, the ledger and the checks of a command.                *)
(***************************************************************************)
\* mutationIdentity: removing a Member is an operation of its own name.
OperationOf(c) ==
    IF c.op = "UpdateMembership" /\ c.args.status = "removed" THEN "RemoveMember" ELSE c.op
IdentityOf(c) == [actor |-> c.actor, op |-> OperationOf(c), key |-> c.key]

\* The operations that recheck their actor call requireTenantRoleAdministrator.
AdministratorOperations ==
    {"BindRole", "UnbindRole", "CreateRole", "UpdateRole", "DeleteRole", "CreateTenantWorkload"}

\* UpdateMembership without the guard.
GuardedRoleOperations == AdministratorOperations
GuardedOperations == AdministratorOperations \cup {"UpdateMembership"}

\* LockAdministrationGuard
GuardFree(c) ==
    c.op \in GuardedOperations => \A t \in Transactions : tx[t].op \notin GuardedOperations

requireTenantRoleAdministrator(c) ==
    c.op \in AdministratorOperations => IsActiveHumanAdministratorPrincipal(c.actor)

\* executeMutation up to the mutation: the identity is locked and has no result.
LedgerFree(c) ==
    /\ IdentityOf(c) \notin ledger
    /\ \A t \in Transactions : tx[t] # Idle => IdentityOf(tx[t]) # IdentityOf(c)

CheckUpdateMembership(c) ==
    LET m == c.args.target
    IN  /\ member[m].status # "absent" /\ member[m].version = c.args.version
        /\ member[m].status = "removed" => c.args.status = "removed"
        /\ (member[m].status = "active" /\ c.args.status # "active") => protectLastAdministrator(m)

CheckUnbindRole(c) ==
    /\ RoleExists(c.args.role)
    /\ c.args.role = AdminRole => protectLastAdministrator(c.args.target)

mutableTenantRole(r, version) == role[r].status = "live" /\ role[r].version = version

\* Mutant: a deletion does not look for bindings.
NeverReferenced(r) == FALSE

\* Invitations hold Roles too; they are no part of this module.
RoleReferenced(r) == \E m \in Memberships : <<m, r>> \in bound

\* What the mutation of each operation reads and refuses before it writes.
Accepts(c) ==
    CASE c.op = "UpdateMembership" -> CheckUpdateMembership(c)
      [] c.op = "BindRole" -> RoleExists(c.args.role)
      [] c.op = "UnbindRole" -> CheckUnbindRole(c)
      [] c.op = "UpdateRole" -> mutableTenantRole(c.args.target, c.args.version)
      [] c.op = "DeleteRole" -> /\ mutableTenantRole(c.args.target, c.args.version)
                                /\ ~ RoleReferenced(c.args.target)
      [] c.op = "CreateTenantWorkload" -> \A r \in c.args.roles : RoleExists(r)
      [] OTHER -> TRUE

Open(t) ==
    \E c \in Commands :
        /\ tx[t] = Idle
        /\ GuardFree(c)
        /\ requireTenantRoleAdministrator(c)
        /\ LedgerFree(c)
        /\ Accepts(c)
        /\ tx' = [tx EXCEPT ![t] = c]
        /\ UNCHANGED <<rows, locked, ledger>>

\* An error, a lost connection or a crash before the commit.
Rollback(t) ==
    /\ tx[t] # Idle
    /\ tx' = [tx EXCEPT ![t] = Idle]
    /\ UNCHANGED <<rows, locked, ledger>>

-----------------------------------------------------------------------------
(***************************************************************************)
(* Commit: the writes of a command.                                        *)
(***************************************************************************)
\* A commit that leaves no result behind.
ForgetMutation(t) == tx' = [tx EXCEPT ![t] = Idle] /\ UNCHANGED <<ledger, locked>>
SaveMutation(t) ==
    /\ ledger' = ledger \cup {IdentityOf(tx[t])}
    /\ tx' = [tx EXCEPT ![t] = Idle]
    /\ UNCHANGED locked

Writing(t, op) == tx[t] # Idle /\ tx[t].op = op

LockedAt(m, version) == member[m].version = version
\* Binding and Membership each count the change.
BumpTwice(m) == [member EXCEPT ![m].version = @ + 2]
bumpMembershipVersion(m) == [member EXCEPT ![m].version = @ + 1]

RevokeActiveAPIKeys(w) ==
    [k \in ApiKeys |-> IF apiKey[k].workload = w /\ apiKey[k].status = "active"
                       THEN [apiKey[k] EXCEPT !.status = "revoked"] ELSE apiKey[k]]

DisableTenantWorkloadForMembership(m) ==
    LET w == member[m].principal
    IN  /\ workload[w].membership = m /\ workload[w].version < MaxVersion
        /\ workload' = [workload EXCEPT ![w].status = "disabled", ![w].membership = None,
                                        ![w].version = @ + 1]
        /\ apiKey' = RevokeActiveAPIKeys(w)

UpdateMembership(t) ==
    /\ Writing(t, "UpdateMembership")
    /\ LET m == tx[t].args.target
       IN  /\ LockedAt(m, tx[t].args.version)
           /\ member' = [member EXCEPT ![m].status = tx[t].args.status, ![m].version = @ + 1]
           /\ IF tx[t].args.status = "removed" /\ member[m].principal \in Workloads
              THEN DisableTenantWorkloadForMembership(m)
              ELSE UNCHANGED <<workload, apiKey>>
    /\ SaveMutation(t)
    /\ UNCHANGED <<bound, role, accessRow>>

BindRole(t) ==
    /\ Writing(t, "BindRole")
    /\ LET m == tx[t].args.target
       IN  /\ LockedAt(m, tx[t].args.version)
           /\ <<m, tx[t].args.role>> \notin bound
           /\ bound' = bound \cup {<<m, tx[t].args.role>>}
           /\ member' = bumpMembershipVersion(m)
    /\ SaveMutation(t)
    /\ UNCHANGED <<role, workload, apiKey, accessRow>>

UnbindRole(t) ==
    /\ Writing(t, "UnbindRole")
    /\ LET m == tx[t].args.target
       IN  /\ LockedAt(m, tx[t].args.version)
           /\ <<m, tx[t].args.role>> \in bound
           /\ bound' = bound \ {<<m, tx[t].args.role>>}
           /\ member' = bumpMembershipVersion(m)
    /\ SaveMutation(t)
    /\ UNCHANGED <<role, workload, apiKey, accessRow>>

CreateRole(t) ==
    /\ Writing(t, "CreateRole")
    /\ \E r \in CustomRoles :
          /\ role[r].status = "absent"
          /\ role' = [role EXCEPT ![r] = [status |-> "live", version |-> 1, origin |-> IdentityOf(tx[t])]]
    /\ SaveMutation(t)
    /\ UNCHANGED <<member, bound, workload, apiKey, accessRow>>

UpdateRole(t) ==
    /\ Writing(t, "UpdateRole")
    /\ mutableTenantRole(tx[t].args.target, tx[t].args.version)
    /\ role' = [role EXCEPT ![tx[t].args.target].version = @ + 1]
    /\ SaveMutation(t)
    /\ UNCHANGED <<member, bound, workload, apiKey, accessRow>>

DeleteRole(t) ==
    /\ Writing(t, "DeleteRole")
    /\ mutableTenantRole(tx[t].args.target, tx[t].args.version)
    /\ role' = [role EXCEPT ![tx[t].args.target].status = "deleted"]
    /\ SaveMutation(t)
    /\ UNCHANGED <<member, bound, workload, apiKey, accessRow>>

NewMembership(m, p) ==
    /\ member[m].status = "absent"
    /\ member' = [member EXCEPT ![m] = [principal |-> p, version |-> 1, status |-> "active"]]

CreateTenantWorkload(t) ==
    /\ Writing(t, "CreateTenantWorkload")
    /\ \E w \in Workloads, m \in Memberships :
          /\ workload[w].status = "absent"
          /\ NewMembership(m, w)
          /\ workload' = [workload EXCEPT ![w] = [status |-> "active", version |-> 1, membership |-> m,
                                                  origin |-> IdentityOf(tx[t])]]
          /\ bound' = bound \cup ({m} \X tx[t].args.roles)
    /\ SaveMutation(t)
    /\ UNCHANGED <<role, apiKey, accessRow>>

\* The Workload row is locked from its read to the commit.  Enabling one whose
\* Membership was removed gives it a new Membership without Roles.
UpdateTenantWorkload(t) ==
    /\ Writing(t, "UpdateTenantWorkload")
    /\ LET w == tx[t].args.target
           to == tx[t].args.status
       IN  /\ workload[w].version = tx[t].args.version
           /\ IF to = "active" /\ workload[w].membership = None
              THEN \E m \in Memberships :
                      /\ NewMembership(m, w)
                      /\ workload' = [workload EXCEPT ![w].status = to, ![w].version = @ + 1,
                                                      ![w].membership = m]
              ELSE /\ workload' = [workload EXCEPT ![w].status = to, ![w].version = @ + 1]
                   /\ UNCHANGED member
           /\ apiKey' = IF to = "disabled" THEN RevokeActiveAPIKeys(w) ELSE apiKey
    /\ SaveMutation(t)
    /\ UNCHANGED <<bound, role, accessRow>>

\* GetTenantWorkload locks the row; the trigger on api_keys asks for the Membership.
MayHoldKey(w) ==
    /\ workload[w].status = "active"
    /\ workload[w].membership # None /\ member[workload[w].membership].status = "active"

CreateAPIKey(t) ==
    /\ Writing(t, "CreateAPIKey")
    /\ MayHoldKey(tx[t].args.workload)
    /\ \E k \in ApiKeys :
          /\ apiKey[k].status = "absent"
          /\ apiKey' = [apiKey EXCEPT ![k] = [status |-> "active", workload |-> tx[t].args.workload,
                                              origin |-> IdentityOf(tx[t])]]
    /\ SaveMutation(t)
    /\ UNCHANGED <<member, bound, role, workload, accessRow>>

\* Revoking a revoked key is a success that changes nothing but the ledger.
RevokeAPIKey(t) ==
    /\ Writing(t, "RevokeAPIKey")
    /\ apiKey[tx[t].args.target].status # "absent"
    /\ apiKey' = [apiKey EXCEPT ![tx[t].args.target].status = "revoked"]
    /\ SaveMutation(t)
    /\ UNCHANGED <<member, bound, role, workload, accessRow>>

\* The only mutation of Tenant Access; it takes no guard.
UpdateAccess(t) ==
    /\ Writing(t, "UpdateAccess")
    /\ accessRow.version = tx[t].args.version
    /\ accessRow' = [status |-> tx[t].args.status, version |-> accessRow.version + 1]
    /\ SaveMutation(t)
    /\ UNCHANGED <<member, bound, role, workload, apiKey>>

\* Login failures lock a credential and time unlocks it; neither asks the guard.
ToggleCredentialLock(h) ==
    /\ locked' = IF h \in locked THEN locked \ {h} ELSE locked \cup {h}
    /\ UNCHANGED <<rows, ledger, tx>>

Commit(t) ==
    \/ UpdateMembership(t)
    \/ BindRole(t)
    \/ UnbindRole(t)
    \/ CreateRole(t)
    \/ UpdateRole(t)
    \/ DeleteRole(t)
    \/ CreateTenantWorkload(t)
    \/ UpdateTenantWorkload(t)
    \/ CreateAPIKey(t)
    \/ RevokeAPIKey(t)
    \/ UpdateAccess(t)

Next ==
    \/ \E t \in Transactions : Open(t) \/ Commit(t) \/ Rollback(t)
    \/ \E h \in Lockable : ToggleCredentialLock(h)

Spec == Init /\ [][Next]_vars

-----------------------------------------------------------------------------
(***************************************************************************)
(* Properties.                                                             *)
(***************************************************************************)
\* The rows have the types of their tables and every open transaction runs a
\* command a client may send.
TypeOK ==
    /\ member \in [Memberships -> MembershipRow]
    /\ bound \subseteq Memberships \X Roles
    /\ role \in [CustomRoles -> RoleRow]
    /\ workload \in [Workloads -> WorkloadRow]
    /\ apiKey \in [ApiKeys -> ApiKeyRow]
    /\ accessRow \in AccessRow
    /\ locked \subseteq Lockable
    /\ ledger \subseteq Identity
    /\ tx \in [Transactions -> Commands \cup {Idle}]

\* protectLastAdministrator promises that the Tenant keeps an active Human
\* Membership bound to tenant-admin, whichever removals, suspensions and
\* unbindings are in flight together.
AdministratorRemains == \E m \in Memberships : IsAdministrator(m)

\* requireTenantRoleAdministrator: whoever changes Role Bindings, custom Roles
\* or gives a new Workload its Roles is an administrator of the Tenant at the
\* moment the change commits, not only when the transaction checked it.
RoleChangesByAdministrators ==
    [][\A t \in Transactions :
          /\ tx[t] # Idle /\ tx'[t] = Idle /\ rows' # rows
          /\ tx[t].op \in AdministratorOperations
          => \E m \in Memberships : member[m].principal = tx[t].actor /\ IsAdministrator(m)]_vars

\* RoleReferenced and the guard: no Membership is ever bound to a deleted Role,
\* though a binding, a new Workload and a deletion may run at the same time.
BoundRolesExist == \A b \in bound : RoleExists(b[2])

\* Disabling a Workload or removing its Membership revokes its API Keys, and no
\* key issued meanwhile escapes: an active key belongs to an active Workload
\* with a current Membership.
ActiveKeyHasLiveWorkload ==
    \A k \in ApiKeys : apiKey[k].status = "active" =>
        /\ workload[apiKey[k].workload].status = "active"
        /\ workload[apiKey[k].workload].membership # None

\* The Workload's profile and its Memberships agree: the only Membership that
\* is not removed is the one the profile names, and an active Workload has one.
WorkloadHasOneMembership ==
    \A w \in Workloads :
        /\ \A m \in Memberships :
              member[m].principal = w => (member[m].status # "removed" <=> workload[w].membership = m)
        /\ workload[w].status = "active" => workload[w].membership # None

\* executeMutation: however often a client retries an idempotency key, alone
\* or concurrently, one command creates one Role, Workload or API Key.
OneRowPerCommand ==
    /\ \A r, s \in CustomRoles : role[r].origin = role[s].origin => r = s \/ role[r].origin = None
    /\ \A v, w \in Workloads : workload[v].origin = workload[w].origin => v = w \/ workload[v].origin = None
    /\ \A j, k \in ApiKeys : apiKey[j].origin = apiKey[k].origin => j = k \/ apiKey[j].origin = None

\* A removed Membership, a deleted Role and a revoked API Key never come back,
\* and an identity of the ledger is never given up.
EndedStaysEnded ==
    [][/\ \A m \in Memberships : member[m].status = "removed" => member'[m].status = "removed"
       /\ \A r \in CustomRoles : role[r].status = "deleted" => role'[r] = role[r]
       /\ \A k \in ApiKeys : apiKey[k].status = "revoked" => apiKey'[k] = apiKey[k]
       /\ ledger \subseteq ledger']_vars

\* No row refers to one that ended, though the commands that end and those that
\* refer run at the same time: bindings and Roles, keys and Workloads, profiles
\* and Memberships (RoleReferenced, DisableTenantWorkloadForMembership).
ReferencesHold == BoundRolesExist /\ ActiveKeyHasLiveWorkload /\ WorkloadHasOneMembership

\* Role changes commit for current administrators only, and no command takes
\* back an end (requireTenantRoleAdministrator, executeMutation).
CommandsAreLawful == RoleChangesByAdministrators /\ EndedStaysEnded
=============================================================================
