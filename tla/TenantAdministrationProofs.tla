-------------------- MODULE TenantAdministrationProofs --------------------
(***************************************************************************)
(* Proofs about TenantAdministration, for any number of Principals, rows,  *)
(* idempotency keys and concurrent transactions.                           *)
(*                                                                         *)
(* A command is checked when its transaction opens and takes effect when   *)
(* it commits.  What it was checked against holds in between because every *)
(* command that could change it needs the administration guard: the        *)
(* inductive invariant says that one transaction holds the guard and that  *)
(* the conclusions it drew are still true.                                 *)
(***************************************************************************)
EXTENDS TenantAdministration, FiniteSetTheorems, TLAPS

-----------------------------------------------------------------------------
\* Which arguments a command carries follows from its operation.
LEMMA CommandShape ==
  ASSUME NEW c \in Commands
  PROVE  /\ c # Idle /\ c.op # "idle"
         /\ c.op \in GuardedOperations \cup {"UpdateTenantWorkload", "CreateAPIKey", "RevokeAPIKey", "UpdateAccess"}
         /\ c.actor \in Humans /\ c.key \in IdempotencyKeys
         /\ c.op = "UpdateMembership" =>
               c.args \in [target: Memberships, status: MembershipStatus, version: Versions]
         /\ c.op \in {"BindRole", "UnbindRole"} =>
               c.args \in [target: Memberships, role: Roles, version: Versions]
         /\ c.op \in {"UpdateRole", "DeleteRole"} => c.args \in [target: CustomRoles, version: Versions]
         /\ c.op = "CreateTenantWorkload" => c.args \in [roles: SUBSET Roles]
         /\ c.op = "UpdateTenantWorkload" =>
               c.args \in [target: Workloads, status: {"active", "disabled"}, version: Versions]
         /\ c.op = "CreateAPIKey" => c.args \in [workload: Workloads]
         /\ c.op = "RevokeAPIKey" => c.args \in [target: ApiKeys]
         /\ c.op = "UpdateAccess" => c.args \in [status: {"active", "suspended"}, version: Versions]
  <1> DEFINE Shaped(ops, fields) ==
               c.op \in ops /\ c.actor \in Humans /\ c.key \in IdempotencyKeys /\ c.args \in fields
  <1>1. ASSUME NEW ops, NEW fields, c \in Call(ops, fields)
        PROVE  Shaped(ops, fields)
    BY <1>1 DEF Call
  <1>2. \/ Shaped({"UpdateMembership"}, [target: Memberships, status: MembershipStatus, version: Versions])
        \/ Shaped({"BindRole", "UnbindRole"}, [target: Memberships, role: Roles, version: Versions])
        \/ Shaped({"CreateRole"}, {None})
        \/ Shaped({"UpdateRole", "DeleteRole"}, [target: CustomRoles, version: Versions])
        \/ Shaped({"CreateTenantWorkload"}, [roles: SUBSET Roles \ {{}}])
        \/ Shaped({"UpdateTenantWorkload"}, [target: Workloads, status: {"active", "disabled"}, version: Versions])
        \/ Shaped({"CreateAPIKey"}, [workload: Workloads])
        \/ Shaped({"RevokeAPIKey"}, [target: ApiKeys])
        \/ Shaped({"UpdateAccess"}, [status: {"active", "suspended"}, version: Versions])
    <2> HIDE DEF Shaped
    <2> QED
      BY <1>1 DEF Commands
  <1>3. c.op \in GuardedOperations \cup {"UpdateTenantWorkload", "CreateAPIKey", "RevokeAPIKey", "UpdateAccess"}
    BY <1>2 DEF GuardedOperations, AdministratorOperations
  <1>4. c.op # "idle" /\ c # Idle
    <2>1. c.op # "idle"
      BY <1>3 DEF GuardedOperations, AdministratorOperations
    <2> QED
      BY <2>1 DEF Idle
  <1>5. c.op = "CreateTenantWorkload" => c.args \in [roles: SUBSET Roles]
    BY <1>2
  <1> QED
    BY <1>2, <1>3, <1>4, <1>5

-----------------------------------------------------------------------------
(***************************************************************************)
(* Types.                                                                  *)
(***************************************************************************)
\* The Tenant starts with well-formed rows and no transaction.
LEMMA InitTypes == Init => TypeOK
  BY PrincipalAssumption
     DEF Init, TypeOK, MembershipRow, RoleRow, WorkloadRow, ApiKeyRow, AccessRow, MembershipStatus,
         RowVersions, Principals, Roles

\* An identity of the ledger is made of its command.
LEMMA IdentityType ==
  ASSUME NEW c \in Commands
  PROVE  IdentityOf(c) \in Identity
  <1>1. OperationOf(c) \in OperationNames
    BY CommandShape DEF OperationOf, OperationNames, GuardedOperations, AdministratorOperations
  <1> QED
    BY <1>1, CommandShape DEF IdentityOf, Identity

\* What every commit does to the ledger and to the open transactions.
LEMMA CommitFrame ==
  ASSUME TypeOK, NEW t \in Transactions, Commit(t)
  PROVE  /\ tx[t] \in Commands
         /\ tx' = [tx EXCEPT ![t] = Idle]
         /\ ledger' = ledger \cup {IdentityOf(tx[t])}
         /\ locked' = locked
  <1>1. tx[t] # Idle /\ SaveMutation(t)
    BY DEF Commit, UpdateMembership, BindRole, UnbindRole, CreateRole, UpdateRole, DeleteRole,
           CreateTenantWorkload, UpdateTenantWorkload, CreateAPIKey, RevokeAPIKey, UpdateAccess, Writing
  <1> QED
    BY <1>1 DEF SaveMutation, TypeOK

\* Every commit writes well-formed rows.
LEMMA CommitTypes ==
  ASSUME TypeOK, NEW t \in Transactions, Commit(t)
  PROVE  TypeOK'
  <1> USE PrincipalAssumption
  <1> DEFINE c == tx[t]
  <1>1. c \in Commands /\ tx' = [tx EXCEPT ![t] = Idle] /\ locked' = locked
        /\ ledger' = ledger \cup {IdentityOf(c)}
    BY CommitFrame
  <1>2. IdentityOf(c) \in Identity
    BY <1>1, IdentityType
  <1>3. /\ tx' \in [Transactions -> Commands \cup {Idle}]
        /\ ledger' \subseteq Identity /\ locked' \subseteq Lockable
    BY <1>1, <1>2 DEF TypeOK
  <1>4. member' \in [Memberships -> MembershipRow] /\ bound' \subseteq Memberships \X Roles
    <2>1. CASE UpdateMembership(t)
      BY <2>1, <1>1, CommandShape
         DEF UpdateMembership, Writing, LockedAt, TypeOK, MembershipRow, MembershipStatus, Versions, RowVersions
    <2>2. CASE BindRole(t) \/ UnbindRole(t)
      BY <2>2, <1>1, CommandShape
         DEF BindRole, UnbindRole, Writing, LockedAt, bumpMembershipVersion, TypeOK, MembershipRow, Versions,
             RowVersions
    <2>3. CASE CreateTenantWorkload(t)
      <3>1. PICK w \in Workloads, m \in Memberships :
               NewMembership(m, w) /\ bound' = bound \cup ({m} \X c.args.roles)
        BY <2>3 DEF CreateTenantWorkload
      <3>2. c.args.roles \subseteq Roles
        BY <2>3, <1>1, CommandShape DEF CreateTenantWorkload, Writing
      <3>3. [principal |-> w, version |-> 1, status |-> "active"] \in MembershipRow
        BY DEF MembershipRow, MembershipStatus, RowVersions, Principals
      <3> QED
        BY <3>1, <3>2, <3>3 DEF NewMembership, TypeOK
    <2>4. CASE UpdateTenantWorkload(t)
      <3>1. bound' = bound
        BY <2>4 DEF UpdateTenantWorkload
      <3>2. c.args.target \in Workloads
        BY <2>4, <1>1, CommandShape DEF UpdateTenantWorkload, Writing
      <3>3. CASE member' = member
        BY <3>1, <3>3 DEF TypeOK
      <3>4. CASE \E m \in Memberships : NewMembership(m, c.args.target)
        BY <3>1, <3>2, <3>4
           DEF NewMembership, TypeOK, MembershipRow, MembershipStatus, RowVersions, Principals
      <3> QED
        BY <2>4, <3>3, <3>4 DEF UpdateTenantWorkload
    <2>5. CASE UNCHANGED <<member, bound>>
      BY <2>5 DEF TypeOK
    <2> QED
      BY <2>1, <2>2, <2>3, <2>4, <2>5
         DEF Commit, CreateRole, UpdateRole, DeleteRole, CreateAPIKey, RevokeAPIKey, UpdateAccess
  <1>5. role' \in [CustomRoles -> RoleRow] /\ accessRow' \in AccessRow
    <2>1. CASE CreateRole(t)
      BY <2>1, <1>1, <1>2 DEF CreateRole, TypeOK, RoleRow, RowVersions
    <2>2. CASE UpdateRole(t) \/ DeleteRole(t)
      BY <2>2, <1>1, CommandShape
         DEF UpdateRole, DeleteRole, Writing, mutableTenantRole, TypeOK, RoleRow, Versions, RowVersions
    <2>3. CASE UpdateAccess(t)
      BY <2>3, <1>1, CommandShape DEF UpdateAccess, Writing, TypeOK, AccessRow, Versions, RowVersions
    <2>4. CASE UNCHANGED <<role, accessRow>>
      BY <2>4 DEF TypeOK
    <2> QED
      BY <2>1, <2>2, <2>3, <2>4
         DEF Commit, UpdateMembership, BindRole, UnbindRole, CreateTenantWorkload, UpdateTenantWorkload,
             CreateAPIKey, RevokeAPIKey
  <1>6. workload' \in [Workloads -> WorkloadRow]
    <2>1. CASE UpdateMembership(t)
      <3>1. CASE workload' = workload
        BY <3>1 DEF TypeOK
      <3>2. CASE DisableTenantWorkloadForMembership(c.args.target) /\ member[c.args.target].principal \in Workloads
        <4> DEFINE w == member[c.args.target].principal
        <4>1. workload[w] \in WorkloadRow /\ workload[w].version + 1 \in RowVersions
          <5>1. workload[w] \in WorkloadRow
            BY <3>2 DEF TypeOK
          <5>2. workload[w].version < MaxVersion
            BY <3>2 DEF DisableTenantWorkloadForMembership
          <5> QED
            BY <5>1, <5>2 DEF WorkloadRow, RowVersions
        <4>2. [workload[w] EXCEPT !.status = "disabled", !.membership = None, !.version = @ + 1] \in WorkloadRow
          BY <4>1 DEF WorkloadRow
        <4>3. workload' = [workload EXCEPT ![w] = [workload[w] EXCEPT !.status = "disabled", !.membership = None,
                                                                    !.version = @ + 1]]
          BY <3>2 DEF DisableTenantWorkloadForMembership, TypeOK
        <4> QED
          BY <3>2, <4>2, <4>3 DEF TypeOK
      <3> QED
        BY <2>1, <3>1, <3>2 DEF UpdateMembership
    <2>2. CASE CreateTenantWorkload(t)
      BY <2>2, <1>2 DEF CreateTenantWorkload, TypeOK, WorkloadRow, RowVersions
    <2>3. CASE UpdateTenantWorkload(t)
      <3>1. c.args \in [target: Workloads, status: {"active", "disabled"}, version: Versions]
        BY <2>3, <1>1, CommandShape DEF UpdateTenantWorkload, Writing
      <3> QED
        <4> DEFINE w == c.args.target
        <4>1. /\ workload[w] \in WorkloadRow /\ workload[w].version + 1 \in RowVersions
              /\ c.args.status \in {"absent", "active", "disabled"}
          BY <2>3, <3>1 DEF UpdateTenantWorkload, TypeOK, WorkloadRow, Versions, RowVersions
        <4>2. ASSUME NEW m \in Memberships,
                     workload' = [workload EXCEPT ![w].status = c.args.status, ![w].version = @ + 1,
                                                  ![w].membership = m]
              PROVE  workload' \in [Workloads -> WorkloadRow]
          BY <3>1, <4>1, <4>2 DEF TypeOK, WorkloadRow
        <4>3. CASE workload' = [workload EXCEPT ![w].status = c.args.status, ![w].version = @ + 1]
          BY <3>1, <4>1, <4>3 DEF TypeOK, WorkloadRow
        <4> QED
          BY <2>3, <4>2, <4>3 DEF UpdateTenantWorkload
    <2>4. CASE workload' = workload
      BY <2>4 DEF TypeOK
    <2> QED
      BY <2>1, <2>2, <2>3, <2>4
         DEF Commit, BindRole, UnbindRole, CreateRole, UpdateRole, DeleteRole, CreateAPIKey, RevokeAPIKey,
             UpdateAccess
  <1>7. apiKey' \in [ApiKeys -> ApiKeyRow]
    <2>1. CASE CreateAPIKey(t)
      BY <2>1, <1>1, <1>2, CommandShape DEF CreateAPIKey, Writing, TypeOK, ApiKeyRow
    <2>2. CASE RevokeAPIKey(t)
      BY <2>2 DEF RevokeAPIKey, TypeOK, ApiKeyRow
    <2>3. CASE \E w \in Workloads : apiKey' = RevokeActiveAPIKeys(w)
      BY <2>3 DEF RevokeActiveAPIKeys, TypeOK, ApiKeyRow
    <2>4. CASE apiKey' = apiKey
      BY <2>4 DEF TypeOK
    <2>5. UpdateTenantWorkload(t) => apiKey' = apiKey \/ \E w \in Workloads : apiKey' = RevokeActiveAPIKeys(w)
      BY <1>1, CommandShape DEF UpdateTenantWorkload, Writing
    <2>6. UpdateMembership(t) => apiKey' = apiKey \/ \E w \in Workloads : apiKey' = RevokeActiveAPIKeys(w)
      BY DEF UpdateMembership, DisableTenantWorkloadForMembership
    <2> QED
      BY <2>1, <2>2, <2>3, <2>4, <2>5, <2>6
         DEF Commit, BindRole, UnbindRole, CreateRole, UpdateRole, DeleteRole, CreateTenantWorkload,
             UpdateAccess
  <1> QED
    BY <1>3, <1>4, <1>5, <1>6, <1>7 DEF TypeOK

\* Every step keeps the types.
LEMMA NextTypes == TypeOK /\ [Next]_vars => TypeOK'
  <1> SUFFICES ASSUME TypeOK, [Next]_vars PROVE TypeOK'
    OBVIOUS
  <1>1. CASE \E t \in Transactions : Commit(t)
    BY <1>1, CommitTypes
  <1>2. CASE \E t \in Transactions : Open(t) \/ Rollback(t)
    BY <1>2 DEF Open, Rollback, rows, TypeOK
  <1>3. CASE \E h \in Lockable : ToggleCredentialLock(h)
    BY <1>3 DEF ToggleCredentialLock, rows, TypeOK
  <1>4. CASE UNCHANGED vars
    BY <1>4 DEF vars, TypeOK
  <1> QED
    BY <1>1, <1>2, <1>3, <1>4 DEF Next

\* TypeOK for every number of rows and concurrent transactions: no command of
\* the administration API writes a row its table does not allow.
THEOREM Types == Spec => []TypeOK
  BY InitTypes, NextTypes, PTL DEF Spec

-----------------------------------------------------------------------------
(***************************************************************************)
(* The administration guard.                                               *)
(***************************************************************************)
\* The advisory lock: one open transaction holds the guard.
GuardHeldOnce ==
    \A s, t \in Transactions :
        tx[s].op \in GuardedOperations /\ tx[t].op \in GuardedOperations => s = t

\* A transaction opens only when it finds the guard free, and gives it up when
\* it ends.
LEMMA GuardStep == TypeOK /\ GuardHeldOnce /\ [Next]_vars => GuardHeldOnce'
  <1> SUFFICES ASSUME TypeOK, GuardHeldOnce, [Next]_vars PROVE GuardHeldOnce'
    OBVIOUS
  <1>1. Idle.op \notin GuardedOperations
    BY DEF Idle, GuardedOperations, AdministratorOperations
  <1>2. ASSUME NEW t \in Transactions, tx' = [tx EXCEPT ![t] = Idle] PROVE GuardHeldOnce'
    BY <1>1, <1>2 DEF GuardHeldOnce, TypeOK
  <1>3. ASSUME NEW t \in Transactions, Open(t) PROVE GuardHeldOnce'
    <2>1. PICK c \in Commands : GuardFree(c) /\ tx' = [tx EXCEPT ![t] = c]
      BY <1>3 DEF Open
    <2> QED
      BY <2>1 DEF GuardFree, GuardHeldOnce, TypeOK
  <1>4. CASE tx' = tx
    BY <1>4 DEF GuardHeldOnce
  <1> QED
    BY <1>2, <1>3, <1>4, CommitFrame DEF Next, Rollback, ToggleCredentialLock, vars

\* A commit without the guard leaves Roles, bindings and the Memberships there
\* are alone; the only row it may add is the Membership of a Workload.
LEMMA UnguardedCommit ==
  ASSUME TypeOK, NEW t \in Transactions, Commit(t), tx[t].op \notin GuardedOperations
  PROVE  /\ bound' = bound /\ role' = role
         /\ \A m \in Memberships : member[m].status # "absent" => member'[m] = member[m]
         /\ \A m \in Memberships : IsAdministrator(m)' <=> IsAdministrator(m)
  <1>1. CreateAPIKey(t) \/ RevokeAPIKey(t) \/ UpdateAccess(t) \/ UpdateTenantWorkload(t)
    BY DEF Commit, UpdateMembership, BindRole, UnbindRole, CreateRole, UpdateRole, DeleteRole,
           CreateTenantWorkload, Writing, GuardedOperations, AdministratorOperations
  <1>2. bound' = bound /\ role' = role
    BY <1>1 DEF CreateAPIKey, RevokeAPIKey, UpdateAccess, UpdateTenantWorkload
  <1>3. CASE member' = member
    BY <1>2, <1>3 DEF IsAdministrator
  <1>4. ASSUME NEW w \in Workloads, NEW n \in Memberships, NewMembership(n, w)
        PROVE  /\ \A m \in Memberships : member[m].status # "absent" => member'[m] = member[m]
               /\ \A m \in Memberships : IsAdministrator(m)' <=> IsAdministrator(m)
    BY <1>2, <1>4, PrincipalAssumption DEF NewMembership, IsAdministrator, TypeOK
  <1>5. UpdateTenantWorkload(t) =>
           member' = member \/ \E w \in Workloads, n \in Memberships : NewMembership(n, w)
    BY CommitFrame, CommandShape DEF UpdateTenantWorkload, Writing
  <1> QED
    BY <1>1, <1>2, <1>3, <1>4, <1>5 DEF CreateAPIKey, RevokeAPIKey, UpdateAccess

\* The shape of a step: one that opens a command, one that commits a command,
\* one that touches no row.
LEMMA StepShape ==
  ASSUME TypeOK, [Next]_vars
  PROVE  \/ \E t \in Transactions : Open(t)
         \/ \E t \in Transactions : Commit(t)
         \/ /\ UNCHANGED <<rows, ledger>>
            /\ \A s \in Transactions : tx'[s] = Idle \/ tx'[s] = tx[s]
            /\ Lockable = {} => locked' = locked
  BY DEF Next, Rollback, ToggleCredentialLock, vars, rows, TypeOK

-----------------------------------------------------------------------------
(***************************************************************************)
(* Roles.                                                                  *)
(***************************************************************************)
\* requireTenantRoleAdministrator still holds.
ActorHolds(c) == c.op \in AdministratorOperations => IsActiveHumanAdministratorPrincipal(c.actor)

\* The Roles a command binds still exist and the one it deletes is unbound.
RolesHold(c) ==
    /\ c.op = "BindRole" => RoleExists(c.args.role)
    /\ c.op = "CreateTenantWorkload" => \A r \in c.args.roles : RoleExists(r)
    /\ c.op = "DeleteRole" => ~ RoleReferenced(c.args.target)

RoleChecks == \A t \in Transactions : tx[t] # Idle => ActorHolds(tx[t]) /\ RolesHold(tx[t])

RoleInv == TypeOK /\ GuardHeldOnce /\ RoleChecks /\ BoundRolesExist

\* The checks of an open command are about rows that change under the guard.
LEMMA RoleChecksStep == RoleInv /\ [Next]_vars => RoleChecks'
  <1> SUFFICES ASSUME RoleInv, [Next]_vars, NEW s \in Transactions, tx'[s] # Idle
               PROVE  (ActorHolds(tx[s]) /\ RolesHold(tx[s]))'
    BY DEF RoleChecks
  <1> USE DEF RoleInv
  <1>1. ASSUME tx[s] # Idle, tx'[s] = tx[s], bound' = bound, role' = role,
               \A m \in Memberships : IsAdministrator(m) => IsAdministrator(m)',
               \A m \in Memberships : member[m].status # "absent" => member'[m] = member[m]
        PROVE  (ActorHolds(tx[s]) /\ RolesHold(tx[s]))'
    <2>1. ActorHolds(tx[s]) /\ RolesHold(tx[s])
      BY <1>1 DEF RoleChecks
    <2>2. ASSUME NEW m \in Memberships, IsAdministrator(m)
          PROVE  member'[m].principal = member[m].principal /\ IsAdministrator(m)'
      BY <1>1, <2>2 DEF IsAdministrator
    <2> QED
      BY <1>1, <2>1, <2>2
         DEF ActorHolds, RolesHold, IsActiveHumanAdministratorPrincipal, RoleExists, RoleReferenced
  <1>2. CASE \E t \in Transactions : Commit(t)
    <2>1. PICK t \in Transactions : Commit(t)
      BY <1>2
    <2>2. s # t /\ tx'[s] = tx[s]
      BY <2>1, CommitFrame DEF TypeOK
    <2>3. tx[s] \in Commands /\ tx[t] \in Commands
      BY <2>1, <2>2, CommitFrame DEF TypeOK
    <2>4. CASE tx[s].op \in GuardedOperations
      <3>1. tx[t].op \notin GuardedOperations
        BY <2>2, <2>4 DEF GuardHeldOnce
      <3> QED
        BY <1>1, <2>1, <2>2, <3>1, UnguardedCommit
    <2>5. CASE tx[s].op \notin GuardedOperations
      <3>1. tx'[s].op \notin GuardedOperations
        BY <2>2, <2>5
      <3> QED
        BY <3>1 DEF ActorHolds, RolesHold, GuardedOperations, AdministratorOperations
    <2> QED
      BY <2>4, <2>5
  <1>3. CASE \E t \in Transactions : Open(t)
    <2>1. PICK t \in Transactions, c \in Commands :
             /\ requireTenantRoleAdministrator(c) /\ Accepts(c)
             /\ tx' = [tx EXCEPT ![t] = c] /\ UNCHANGED rows
      BY <1>3 DEF Open
    <2>2. CASE s = t
      <3>1. tx'[s] = c
        BY <2>1, <2>2 DEF TypeOK
      <3>2. ActorHolds(c) /\ RolesHold(c)
        BY <2>1 DEF requireTenantRoleAdministrator, ActorHolds, Accepts, RolesHold
      <3> QED
        <4>1. member' = member /\ bound' = bound /\ role' = role
          BY <2>1 DEF rows
        <4>2. ActorHolds(tx[s])'
          BY <3>1, <3>2, <4>1 DEF ActorHolds, IsActiveHumanAdministratorPrincipal, IsAdministrator
        <4>3. RolesHold(tx[s])'
          BY <3>1, <3>2, <4>1 DEF RolesHold, RoleExists, RoleReferenced
        <4> QED
          BY <4>2, <4>3
    <2>3. CASE s # t
      BY <1>1, <2>1, <2>3 DEF TypeOK, rows, IsAdministrator
    <2> QED
      BY <2>2, <2>3
  <1>4. CASE UNCHANGED rows /\ tx'[s] = tx[s]
    BY <1>1, <1>4 DEF rows, IsAdministrator
  <1> QED
    BY <1>2, <1>3, <1>4, StepShape

\* A binding is added only for a Role that exists, and a Role goes only when no
\* binding names it.
LEMMA BoundRolesStep == RoleInv /\ [Next]_vars => BoundRolesExist'
  <1> SUFFICES ASSUME RoleInv, [Next]_vars PROVE BoundRolesExist'
    OBVIOUS
  <1> USE DEF RoleInv
  <1>1. CASE UNCHANGED <<bound, role>>
    BY <1>1 DEF BoundRolesExist, RoleExists
  <1>2. ASSUME NEW t \in Transactions, Commit(t) PROVE BoundRolesExist'
    <2>1. tx[t] \in Commands /\ RolesHold(tx[t])
      BY <1>2, CommitFrame, CommandShape DEF RoleChecks
    <2>2. CASE bound' \subseteq bound /\ role' = role
      BY <2>2 DEF BoundRolesExist, RoleExists
    <2>3. CASE BindRole(t)
      BY <2>1, <2>3 DEF BindRole, Writing, RolesHold, BoundRolesExist, RoleExists
    <2>4. CASE CreateTenantWorkload(t)
      <3>1. PICK m \in Memberships : bound' = bound \cup ({m} \X tx[t].args.roles)
        BY <2>4 DEF CreateTenantWorkload
      <3>2. role' = role /\ \A r \in tx[t].args.roles : RoleExists(r)
        BY <2>1, <2>4 DEF CreateTenantWorkload, Writing, RolesHold
      <3> QED
        BY <3>1, <3>2 DEF BoundRolesExist, RoleExists
    <2>5. CASE CreateRole(t) \/ UpdateRole(t)
      BY <2>1, <2>5, CommandShape
         DEF CreateRole, UpdateRole, Writing, mutableTenantRole, BoundRolesExist, RoleExists, TypeOK, RoleRow, Roles
    <2>6. CASE DeleteRole(t)
      <3>1. /\ bound' = bound
            /\ role' = [role EXCEPT ![tx[t].args.target].status = "deleted"]
            /\ ~ RoleReferenced(tx[t].args.target)
        BY <2>1, <2>6 DEF DeleteRole, Writing, RolesHold
      <3>2. \A b \in bound : b \in Memberships \X Roles /\ b[2] # tx[t].args.target
        <4> TAKE b \in bound
        <4>1. b \in Memberships \X Roles
          BY DEF TypeOK
        <4>2. b[1] \in Memberships /\ b = <<b[1], b[2]>>
          BY <4>1
        <4> QED
          BY <3>1, <4>1, <4>2 DEF RoleReferenced
      <3> QED
        BY <3>1, <3>2 DEF BoundRolesExist, RoleExists, TypeOK, Roles
    <2> QED
      BY <1>2, <2>2, <2>3, <2>4, <2>5, <2>6
         DEF Commit, UpdateMembership, UnbindRole, UpdateTenantWorkload, CreateAPIKey, RevokeAPIKey, UpdateAccess
  <1> QED
    BY <1>1, <1>2, StepShape DEF Open, rows

\* The first administrator is bound to a Role that always exists.
LEMMA RoleInvariance == Spec => []RoleInv
  <1>1. Init => RoleInv
    <2> SUFFICES ASSUME Init PROVE RoleInv
      OBVIOUS
    <2>1. GuardHeldOnce /\ RoleChecks
      BY DEF Init, GuardHeldOnce, RoleChecks, Idle, GuardedOperations, AdministratorOperations
    <2>2. BoundRolesExist
      BY DEF Init, BoundRolesExist, RoleExists
    <2> QED
      BY <2>1, <2>2, InitTypes DEF RoleInv
  <1>2. RoleInv /\ [Next]_vars => RoleInv'
    BY NextTypes, GuardStep, RoleChecksStep, BoundRolesStep DEF RoleInv
  <1> QED
    BY <1>1, <1>2, PTL DEF Spec

\* No Membership is ever bound to a deleted Role: the code never relies on the
\* foreign key of tenant_role_bindings.
THEOREM RolesAreNotOrphaned == Spec => []BoundRolesExist
  <1>1. RoleInv => BoundRolesExist
    BY DEF RoleInv
  <1> QED
    BY <1>1, RoleInvariance, PTL

\* Whoever changes bindings, Roles or a new Workload's Roles is an
\* administrator when the change commits: requireTenantRoleAdministrator cannot
\* be overtaken.
THEOREM ActorIsAdministrator == Spec => RoleChangesByAdministrators
  <1>1. RoleInv /\ [Next]_vars =>
           [\A t \in Transactions :
               /\ tx[t] # Idle /\ tx'[t] = Idle /\ rows' # rows
               /\ tx[t].op \in AdministratorOperations
               => \E m \in Memberships : member[m].principal = tx[t].actor /\ IsAdministrator(m)]_vars
    BY DEF RoleInv, RoleChecks, ActorHolds, IsActiveHumanAdministratorPrincipal
  <1> QED
    BY <1>1, RoleInvariance, PTL DEF Spec, RoleChangesByAdministrators

-----------------------------------------------------------------------------
(***************************************************************************)
(* The last administrator.                                                 *)
(***************************************************************************)
\* The command ends the administratorship of c.args.target, if there is one.
Demotes(c) ==
    \/ c.op = "UpdateMembership" /\ c.args.status # "active"
    \/ c.op = "UnbindRole" /\ c.args.role = AdminRole

\* protectLastAdministrator still holds: somebody else stays.
SomebodyStays(c) ==
    Demotes(c) => \E m \in Memberships \ {c.args.target} : IsAdministrator(m)

DemotionChecks == \A t \in Transactions : tx[t] # Idle => SomebodyStays(tx[t])

AdministratorInv == TypeOK /\ GuardHeldOnce /\ locked = {} /\ DemotionChecks /\ AdministratorRemains

\* More than one member leaves another one.
LEMMA AnotherMember ==
  ASSUME NEW S, IsFiniteSet(S), NEW m \in S, Cardinality(S) > 1
  PROVE  \E n \in S : n # m
  <1>1. IsFiniteSet(S \ {m}) /\ Cardinality(S \ {m}) = Cardinality(S) - 1
    BY FS_RemoveElement
  <1>2. Cardinality(S) \in Nat
    BY FS_CardinalityType
  <1>3. S \ {m} # {}
    BY <1>1, <1>2, FS_EmptySet
  <1> QED
    BY <1>3

\* What protectLastAdministrator concludes when nobody is locked out.
LEMMA ProtectionLeavesSomebody ==
  ASSUME TypeOK, locked = {}, AdministratorRemains, NEW n \in Memberships, protectLastAdministrator(n)
  PROVE  \E m \in Memberships \ {n} : IsAdministrator(m)
  <1>1. \A m \in Memberships : m \in LoginCapableAdministrators <=> IsAdministrator(m)
    BY DEF LoginCapableAdministrators
  <1>2. CASE ~ IsAdministrator(n)
    BY <1>2 DEF AdministratorRemains
  <1>3. CASE IsAdministrator(n)
    <2>1. IsFiniteSet(LoginCapableAdministrators) /\ LoginCapableAdministrators \subseteq Memberships
      BY PrincipalAssumption, FS_Subset DEF LoginCapableAdministrators
    <2>2. n \in LoginCapableAdministrators /\ Cardinality(LoginCapableAdministrators) > 1
      BY <1>1, <1>3 DEF protectLastAdministrator
    <2>3. \E m \in LoginCapableAdministrators : m # n
      BY <2>1, <2>2, AnotherMember
    <2> QED
      BY <1>1, <2>1, <2>3
  <1> QED
    BY <1>2, <1>3

\* An accepted command that demotes leaves somebody.
LEMMA AcceptedDemotion ==
  ASSUME TypeOK, locked = {}, AdministratorRemains, NEW c \in Commands, Accepts(c)
  PROVE  SomebodyStays(c)
  <1>1. CASE c.op = "UpdateMembership" /\ c.args.status # "active"
    <2>1. c.args.target \in Memberships /\ CheckUpdateMembership(c)
      BY <1>1, CommandShape DEF Accepts
    <2>2. CASE member[c.args.target].status = "active"
      BY <1>1, <2>1, <2>2, ProtectionLeavesSomebody DEF CheckUpdateMembership, SomebodyStays
    <2>3. CASE member[c.args.target].status # "active"
      BY <2>1, <2>3 DEF AdministratorRemains, IsAdministrator, SomebodyStays
    <2> QED
      BY <2>2, <2>3
  <1>2. CASE c.op = "UnbindRole" /\ c.args.role = AdminRole
    <2>1. c.args.target \in Memberships /\ protectLastAdministrator(c.args.target)
      BY <1>2, CommandShape DEF Accepts, CheckUnbindRole
    <2> QED
      BY <2>1, ProtectionLeavesSomebody DEF SomebodyStays
  <1>3. CASE ~ Demotes(c)
    BY <1>3 DEF SomebodyStays
  <1> QED
    BY <1>1, <1>2, <1>3 DEF Demotes

\* The conclusion of an open command outlives the commits of the others.
LEMMA DemotionChecksStep ==
  ASSUME AdministratorInv, [Next]_vars
  PROVE  DemotionChecks'
  <1> SUFFICES ASSUME NEW s \in Transactions, tx'[s] # Idle
               PROVE  SomebodyStays(tx[s])'
    BY DEF DemotionChecks
  <1> USE DEF AdministratorInv
  <1>1. ASSUME tx[s] # Idle, tx'[s] = tx[s], \A m \in Memberships : IsAdministrator(m) => IsAdministrator(m)'
        PROVE  SomebodyStays(tx[s])'
    <2>1. SomebodyStays(tx[s])
      BY <1>1 DEF DemotionChecks
    <2> QED
      BY <1>1, <2>1 DEF SomebodyStays, Demotes
  <1>2. CASE \E t \in Transactions : Commit(t)
    <2>1. PICK t \in Transactions : Commit(t)
      BY <1>2
    <2>2. s # t /\ tx'[s] = tx[s]
      BY <2>1, CommitFrame DEF TypeOK
    <2>3. CASE tx[s].op \in GuardedOperations
      <3>1. tx[t].op \notin GuardedOperations
        BY <2>2, <2>3 DEF GuardHeldOnce
      <3> QED
        BY <1>1, <2>1, <2>2, <3>1, UnguardedCommit
    <2>4. CASE tx[s].op \notin GuardedOperations
      BY <2>2, <2>4 DEF SomebodyStays, Demotes, GuardedOperations, AdministratorOperations
    <2> QED
      BY <2>3, <2>4
  <1>3. CASE \E t \in Transactions : Open(t)
    <2>1. PICK t \in Transactions, c \in Commands : Accepts(c) /\ tx' = [tx EXCEPT ![t] = c] /\ UNCHANGED rows
      BY <1>3 DEF Open
    <2>2. member' = member /\ bound' = bound
      BY <2>1 DEF rows
    <2>3. CASE s = t
      <3>1. tx'[s] = c /\ SomebodyStays(c)
        BY <2>1, <2>3, AcceptedDemotion DEF TypeOK
      <3> QED
        BY <2>2, <3>1 DEF SomebodyStays, Demotes, IsAdministrator
    <2>4. CASE s # t
      BY <1>1, <2>1, <2>2, <2>4 DEF TypeOK, IsAdministrator
    <2> QED
      BY <2>3, <2>4
  <1>4. CASE UNCHANGED rows /\ tx'[s] = tx[s]
    BY <1>1, <1>4 DEF rows, IsAdministrator
  <1> QED
    BY <1>2, <1>3, <1>4, StepShape

\* A commit that demotes leaves the one its check found; the others demote
\* nobody.
LEMMA AdministratorStep ==
  ASSUME AdministratorInv, [Next]_vars
  PROVE  AdministratorRemains'
  <1> USE DEF AdministratorInv
  <1>1. CASE UNCHANGED <<member, bound>>
    BY <1>1 DEF AdministratorRemains, IsAdministrator
  <1>2. ASSUME NEW t \in Transactions, Commit(t) PROVE AdministratorRemains'
    <2>1. tx[t] \in Commands /\ SomebodyStays(tx[t])
      BY <1>2, CommitFrame, CommandShape DEF DemotionChecks
    <2>2. PICK a \in Memberships : IsAdministrator(a)
      BY DEF AdministratorRemains
    <2>3. CASE tx[t].op \notin GuardedOperations
      BY <1>2, <2>2, <2>3, UnguardedCommit DEF AdministratorRemains
    <2>4. CASE UpdateMembership(t)
      <3>1. /\ tx[t].args.target \in Memberships /\ bound' = bound
            /\ member' = [member EXCEPT ![tx[t].args.target].status = tx[t].args.status,
                                        ![tx[t].args.target].version = @ + 1]
        BY <2>1, <2>4, CommandShape DEF UpdateMembership, Writing
      <3>2. CASE tx[t].args.status = "active"
        BY <2>2, <3>1, <3>2 DEF AdministratorRemains, IsAdministrator, TypeOK, MembershipRow
      <3>3. CASE tx[t].args.status # "active"
        <4>1. PICK m \in Memberships \ {tx[t].args.target} : IsAdministrator(m)
          BY <2>1, <2>4, <3>3 DEF UpdateMembership, Writing, SomebodyStays, Demotes
        <4> QED
          BY <3>1, <4>1 DEF AdministratorRemains, IsAdministrator, TypeOK
      <3> QED
        BY <3>2, <3>3
    <2>5. CASE UnbindRole(t)
      <3>1. /\ tx[t].args.target \in Memberships
            /\ bound' = bound \ {<<tx[t].args.target, tx[t].args.role>>}
            /\ member' = [member EXCEPT ![tx[t].args.target].version = @ + 1]
        BY <2>1, <2>5, CommandShape DEF UnbindRole, Writing, bumpMembershipVersion
      <3>2. CASE tx[t].args.role # AdminRole
        BY <2>2, <3>1, <3>2 DEF AdministratorRemains, IsAdministrator, TypeOK, MembershipRow
      <3>3. CASE tx[t].args.role = AdminRole
        <4>1. PICK m \in Memberships \ {tx[t].args.target} : IsAdministrator(m)
          BY <2>1, <2>5, <3>3 DEF UnbindRole, Writing, SomebodyStays, Demotes
        <4> QED
          BY <3>1, <4>1 DEF AdministratorRemains, IsAdministrator, TypeOK
      <3> QED
        BY <3>2, <3>3
    <2>6. CASE BindRole(t)
      <3>1. /\ tx[t].args.target \in Memberships /\ bound \subseteq bound'
            /\ member' = [member EXCEPT ![tx[t].args.target].version = @ + 1]
        BY <2>1, <2>6, CommandShape DEF BindRole, Writing, bumpMembershipVersion
      <3> QED
        BY <2>2, <3>1 DEF AdministratorRemains, IsAdministrator, TypeOK, MembershipRow
    <2>7. CASE CreateTenantWorkload(t)
      <3>1. PICK w \in Workloads, m \in Memberships : NewMembership(m, w) /\ bound \subseteq bound'
        BY <2>7 DEF CreateTenantWorkload
      <3>2. a # m
        BY <2>2, <3>1 DEF NewMembership, IsAdministrator
      <3> QED
        BY <2>2, <3>1, <3>2 DEF NewMembership, AdministratorRemains, IsAdministrator, TypeOK
    <2> QED
      BY <1>1, <1>2, <2>3, <2>4, <2>5, <2>6, <2>7
         DEF Commit, CreateRole, UpdateRole, DeleteRole, UpdateTenantWorkload, CreateAPIKey, RevokeAPIKey,
             UpdateAccess, Writing, GuardedOperations, AdministratorOperations
  <1> QED
    BY <1>1, <1>2, StepShape DEF Open, rows

\* AdministratorRemains: however many administrators remove, suspend and unbind
\* each other at the same time, one keeps the Tenant, provided no password can be
\* locked (every administrator has another login).
THEOREM LastAdministratorStays ==
  ASSUME Lockable = {}
  PROVE  Spec => []AdministratorRemains
  <1>1. Init => AdministratorInv
    <2> SUFFICES ASSUME Init PROVE AdministratorInv
      OBVIOUS
    <2>1. PICK of \in [Humans -> Memberships], first \in Humans :
             /\ \A g, h \in Humans : of[g] = of[h] => g = h
             /\ member = [m \in Memberships |->
                   IF \E h \in Humans : of[h] = m
                   THEN [principal |-> CHOOSE h \in Humans : of[h] = m, version |-> 1, status |-> "active"]
                   ELSE [principal |-> None, version |-> 0, status |-> "absent"]]
             /\ bound = {<<of[first], AdminRole>>}
      BY DEF Init
    <2>2. of[first] \in Memberships /\ \E h \in Humans : of[h] = of[first]
      BY <2>1
    <2>3. (CHOOSE h \in Humans : of[h] = of[first]) \in Humans
      BY <2>2
    <2>4. AdministratorRemains
      BY <2>1, <2>2, <2>3 DEF AdministratorRemains, IsAdministrator
    <2>5. GuardHeldOnce /\ DemotionChecks /\ locked = {}
      BY DEF Init, GuardHeldOnce, DemotionChecks, Idle, GuardedOperations, AdministratorOperations
    <2> QED
      BY <2>4, <2>5, InitTypes DEF AdministratorInv
  <1>2. AdministratorInv /\ [Next]_vars => AdministratorInv'
    <2> SUFFICES ASSUME AdministratorInv, [Next]_vars PROVE AdministratorInv'
      OBVIOUS
    <2>1. TypeOK' /\ GuardHeldOnce'
      BY NextTypes, GuardStep DEF AdministratorInv
    <2>2. locked' = {}
      BY <2>1 DEF TypeOK
    <2> QED
      BY <2>1, <2>2, DemotionChecksStep, AdministratorStep DEF AdministratorInv
  <1>3. AdministratorInv => AdministratorRemains
    BY DEF AdministratorInv
  <1> QED
    BY <1>1, <1>2, <1>3, PTL DEF Spec
-----------------------------------------------------------------------------
(***************************************************************************)
(* Workloads and their API Keys.                                           *)
(***************************************************************************)
\* The Membership a command is about is there, and removed only if it is to be.
TargetHolds(c) ==
    c.op = "UpdateMembership" =>
        /\ member[c.args.target].status # "absent"
        /\ c.args.status # "removed" => member[c.args.target].status # "removed"

TargetChecks == \A t \in Transactions : tx[t] # Idle => TargetHolds(tx[t])

\* What the schema's references say of rows that are there or not.
WorkloadRefs ==
    /\ \A w \in Workloads : workload[w].status = "absent" => workload[w].membership = None
    /\ \A k \in ApiKeys : apiKey[k].status = "active" => apiKey[k].workload \in Workloads

WorkloadInv ==
    TypeOK /\ GuardHeldOnce /\ TargetChecks /\ WorkloadRefs /\ WorkloadHasOneMembership
    /\ ActiveKeyHasLiveWorkload

\* Membership statuses change under the guard only.
LEMMA TargetChecksStep ==
  ASSUME TypeOK, GuardHeldOnce, TargetChecks, [Next]_vars
  PROVE  TargetChecks'
  <1> SUFFICES ASSUME NEW s \in Transactions, tx'[s] # Idle, tx'[s].op = "UpdateMembership"
               PROVE  TargetHolds(tx[s])'
    BY DEF TargetChecks, TargetHolds
  <1>1. ASSUME tx[s] # Idle, tx'[s] = tx[s],
               \A m \in Memberships : member[m].status # "absent" => member'[m] = member[m]
        PROVE  TargetHolds(tx[s])'
    <2>1. TargetHolds(tx[s]) /\ tx[s].args.target \in Memberships
      BY <1>1, CommandShape DEF TargetChecks, TypeOK
    <2> QED
      BY <1>1, <2>1 DEF TargetHolds
  <1>2. CASE \E t \in Transactions : Commit(t)
    <2>1. PICK t \in Transactions : Commit(t)
      BY <1>2
    <2>2. s # t /\ tx'[s] = tx[s]
      BY <2>1, CommitFrame DEF TypeOK
    <2>3. tx[t].op \notin GuardedOperations
      BY <2>2 DEF GuardHeldOnce, GuardedOperations
    <2> QED
      BY <1>1, <2>1, <2>2, <2>3, UnguardedCommit
  <1>3. CASE \E t \in Transactions : Open(t)
    <2>1. PICK t \in Transactions, c \in Commands : Accepts(c) /\ tx' = [tx EXCEPT ![t] = c] /\ UNCHANGED rows
      BY <1>3 DEF Open
    <2>2. member' = member
      BY <2>1 DEF rows
    <2>3. CASE s = t
      <3>1. tx'[s] = c
        BY <2>1, <2>3 DEF TypeOK
      <3>2. CheckUpdateMembership(c)
        BY <2>1, <3>1 DEF Accepts
      <3> QED
        BY <2>2, <3>1, <3>2 DEF CheckUpdateMembership, TargetHolds
    <2>4. CASE s # t
      BY <1>1, <2>1, <2>2, <2>4 DEF TypeOK
    <2> QED
      BY <2>3, <2>4
  <1>4. CASE UNCHANGED rows /\ tx'[s] = tx[s]
    BY <1>1, <1>4 DEF rows
  <1> QED
    BY <1>2, <1>3, <1>4, StepShape

\* Revoking the keys of a Workload leaves no active one and invents none.
LEMMA RevokedKeys ==
  ASSUME TypeOK, NEW w \in Workloads, apiKey' = RevokeActiveAPIKeys(w), NEW k \in ApiKeys,
         apiKey'[k].status = "active"
  PROVE  apiKey'[k] = apiKey[k] /\ apiKey[k].workload # w
  BY DEF RevokeActiveAPIKeys, TypeOK, ApiKeyRow

\* Removing a Workload's Membership ends the Workload and its keys together.
LEMMA RemovalStep ==
  ASSUME WorkloadInv, NEW t \in Transactions, UpdateMembership(t), TypeOK'
  PROVE  WorkloadRefs' /\ WorkloadHasOneMembership' /\ ActiveKeyHasLiveWorkload'
  <1> DEFINE m == tx[t].args.target
  <1> USE DEF WorkloadInv
  <1>1. tx[t] \in Commands /\ tx[t].op = "UpdateMembership" /\ TargetHolds(tx[t])
    BY DEF UpdateMembership, Writing, TargetChecks, TypeOK
  <1>2. tx[t].args \in [target: Memberships, status: MembershipStatus, version: Versions]
    BY <1>1, CommandShape
  <1>3. /\ member' = [member EXCEPT ![m].status = tx[t].args.status, ![m].version = @ + 1]
        /\ member[m].status # "absent"
        /\ tx[t].args.status # "removed" => member[m].status # "removed"
    BY <1>1 DEF UpdateMembership, TargetHolds
  <1>4. /\ \A n \in Memberships : member'[n].principal = member[n].principal
        /\ \A n \in Memberships \ {m} : member'[n] = member[n]
        /\ member'[m].status = tx[t].args.status
    BY <1>2, <1>3 DEF TypeOK, MembershipRow
  <1>5. CASE tx[t].args.status = "removed" /\ member[m].principal \in Workloads
    <2> DEFINE w == member[m].principal
    <2>1. DisableTenantWorkloadForMembership(m)
      BY <1>5 DEF UpdateMembership
    <2>2. /\ workload[w].membership = m
          /\ workload'[w].membership = None /\ workload'[w].status = "disabled"
          /\ \A v \in Workloads \ {w} : workload'[v] = workload[v]
          /\ apiKey' = RevokeActiveAPIKeys(w)
      BY <1>5, <2>1 DEF DisableTenantWorkloadForMembership, TypeOK, WorkloadRow
    <2>3. WorkloadRefs'
      BY <1>5, <2>2, RevokedKeys DEF WorkloadRefs
    <2>4. WorkloadHasOneMembership'
      <3> SUFFICES ASSUME NEW v \in Workloads
                   PROVE  /\ \A n \in Memberships : member'[n].principal = v =>
                                (member'[n].status # "removed" <=> workload'[v].membership = n)
                          /\ workload'[v].status = "active" => workload'[v].membership # None
        BY DEF WorkloadHasOneMembership
      <3>1. CASE v = w
        <4>1. ASSUME NEW n \in Memberships, member'[n].principal = w
              PROVE  member'[n].status = "removed" /\ n # None
          <5>1. member[n].status # "removed" <=> n = m
            BY <1>4, <1>5, <2>2, <4>1 DEF WorkloadHasOneMembership
          <5> QED
            BY <1>4, <1>5, <5>1, PrincipalAssumption
        <4> QED
          BY <2>2, <3>1, <4>1
      <3>2. CASE v # w
        BY <1>4, <1>5, <2>2, <3>2 DEF WorkloadHasOneMembership
      <3> QED
        BY <3>1, <3>2
    <2>5. ActiveKeyHasLiveWorkload'
      <3>1. \A k \in ApiKeys : apiKey'[k].status = "active" => apiKey'[k] = apiKey[k] /\ apiKey[k].workload # w
        BY <1>5, <2>2, RevokedKeys
      <3>2. ASSUME NEW k \in ApiKeys, apiKey'[k].status = "active"
            PROVE  /\ workload'[apiKey'[k].workload].status = "active"
                   /\ workload'[apiKey'[k].workload].membership # None
        <4>1. apiKey'[k] = apiKey[k] /\ apiKey[k].workload \in Workloads \ {w}
          BY <3>1, <3>2 DEF WorkloadRefs
        <4> QED
          BY <2>2, <3>2, <4>1 DEF ActiveKeyHasLiveWorkload
      <3> QED
        BY <3>2 DEF ActiveKeyHasLiveWorkload
    <2> QED
      BY <2>3, <2>4, <2>5
  <1>6. CASE ~ (tx[t].args.status = "removed" /\ member[m].principal \in Workloads)
    <2>1. workload' = workload /\ apiKey' = apiKey
      BY <1>6 DEF UpdateMembership
    <2>2. WorkloadRefs' /\ ActiveKeyHasLiveWorkload'
      BY <2>1 DEF WorkloadRefs, ActiveKeyHasLiveWorkload
    <2>3. WorkloadHasOneMembership'
      <3>1. ASSUME NEW v \in Workloads, NEW n \in Memberships, member'[n].principal = v
            PROVE  member'[n].status # "removed" <=> workload'[v].membership = n
        <4>1. member[n].status # "removed" <=> workload[v].membership = n
          BY <1>4, <3>1 DEF WorkloadHasOneMembership
        <4>2. CASE n = m
          BY <1>3, <1>4, <1>6, <2>1, <3>1, <4>1, <4>2
        <4>3. CASE n # m
          BY <1>4, <2>1, <4>1, <4>3
        <4> QED
          BY <4>2, <4>3
      <3> QED
        BY <2>1, <3>1 DEF WorkloadHasOneMembership
    <2> QED
      BY <2>2, <2>3
  <1> QED
    BY <1>5, <1>6

\* Creating a Workload or enabling one again gives it its only Membership;
\* disabling it takes its keys.
LEMMA WorkloadWriteStep ==
  ASSUME WorkloadInv, NEW t \in Transactions, CreateTenantWorkload(t) \/ UpdateTenantWorkload(t)
  PROVE  WorkloadRefs' /\ WorkloadHasOneMembership' /\ ActiveKeyHasLiveWorkload'
  <1> USE DEF WorkloadInv
  <1>1. ASSUME NEW w \in Workloads, NEW m \in Memberships, NewMembership(m, w),
               workload[w].membership = None, workload'[w].membership = m, workload'[w].status = "active",
               \A v \in Workloads \ {w} : workload'[v] = workload[v], apiKey' = apiKey
        PROVE  WorkloadRefs' /\ WorkloadHasOneMembership' /\ ActiveKeyHasLiveWorkload'
    <2>1. /\ member[m].status = "absent" /\ member'[m].principal = w /\ member'[m].status = "active"
          /\ \A n \in Memberships \ {m} : member'[n] = member[n]
      BY <1>1 DEF NewMembership, TypeOK
    <2>2. WorkloadRefs'
      BY <1>1 DEF WorkloadRefs
    <2>3. WorkloadHasOneMembership'
      <3> SUFFICES ASSUME NEW v \in Workloads
                   PROVE  /\ \A n \in Memberships : member'[n].principal = v =>
                                (member'[n].status # "removed" <=> workload'[v].membership = n)
                          /\ workload'[v].status = "active" => workload'[v].membership # None
        BY DEF WorkloadHasOneMembership
      <3>1. CASE v = w
        BY <1>1, <2>1, <3>1, PrincipalAssumption DEF WorkloadHasOneMembership
      <3>2. CASE v # w
        BY <1>1, <2>1, <3>2 DEF WorkloadHasOneMembership
      <3> QED
        BY <3>1, <3>2
    <2>4. ActiveKeyHasLiveWorkload'
      BY <1>1, PrincipalAssumption DEF ActiveKeyHasLiveWorkload, WorkloadRefs
    <2> QED
      BY <2>2, <2>3, <2>4
  <1>2. CASE CreateTenantWorkload(t)
    <2>1. PICK w \in Workloads, m \in Memberships :
             /\ workload[w].status = "absent" /\ NewMembership(m, w)
             /\ workload' = [workload EXCEPT ![w] = [status |-> "active", version |-> 1, membership |-> m,
                                                     origin |-> IdentityOf(tx[t])]]
      BY <1>2 DEF CreateTenantWorkload
    <2>2. apiKey' = apiKey
      BY <1>2 DEF CreateTenantWorkload
    <2> QED
      BY <1>1, <2>1, <2>2 DEF WorkloadRefs, TypeOK
  <1>3. CASE UpdateTenantWorkload(t)
    <2> DEFINE w == tx[t].args.target
               to == tx[t].args.status
    <2>1. w \in Workloads /\ to \in {"active", "disabled"}
      <3>1. tx[t] \in Commands /\ tx[t].op = "UpdateTenantWorkload"
        BY <1>3 DEF UpdateTenantWorkload, Writing, TypeOK
      <3> QED
        BY <3>1, CommandShape
    <2>2. CASE to = "active" /\ workload[w].membership = None
      <3>1. PICK m \in Memberships :
               /\ NewMembership(m, w)
               /\ workload' = [workload EXCEPT ![w].status = to, ![w].version = @ + 1, ![w].membership = m]
        BY <1>3, <2>2 DEF UpdateTenantWorkload
      <3>2. apiKey' = apiKey
        BY <1>3, <2>2 DEF UpdateTenantWorkload
      <3>3. /\ workload'[w].membership = m /\ workload'[w].status = "active"
            /\ \A v \in Workloads \ {w} : workload'[v] = workload[v]
        BY <2>1, <2>2, <3>1 DEF TypeOK, WorkloadRow
      <3> QED
        BY <1>1, <2>1, <2>2, <3>1, <3>2, <3>3
    <2>3. CASE ~ (to = "active" /\ workload[w].membership = None)
      <3>1. /\ workload' = [workload EXCEPT ![w].status = to, ![w].version = @ + 1] /\ member' = member
            /\ apiKey' = IF to = "disabled" THEN RevokeActiveAPIKeys(w) ELSE apiKey
        BY <1>3, <2>3 DEF UpdateTenantWorkload
      <3>2. /\ workload'[w].membership = workload[w].membership /\ workload'[w].status = to
            /\ \A v \in Workloads \ {w} : workload'[v] = workload[v]
        BY <2>1, <3>1 DEF TypeOK, WorkloadRow
      <3>3. WorkloadHasOneMembership'
        <4> SUFFICES ASSUME NEW v \in Workloads
                     PROVE  /\ \A n \in Memberships : member'[n].principal = v =>
                                  (member'[n].status # "removed" <=> workload'[v].membership = n)
                            /\ workload'[v].status = "active" => workload'[v].membership # None
          BY DEF WorkloadHasOneMembership
        <4>1. workload'[v].membership = workload[v].membership
          BY <2>1, <3>2
        <4>2. workload'[v].status = "active" => workload[v].membership # None
          BY <2>1, <2>3, <3>2 DEF WorkloadHasOneMembership
        <4> QED
          BY <3>1, <4>1, <4>2 DEF WorkloadHasOneMembership
      <3>4. CASE to = "disabled"
        <4>1. apiKey' = RevokeActiveAPIKeys(w)
          BY <3>1, <3>4
        <4>2. \A k \in ApiKeys : apiKey'[k].status = "active" => apiKey'[k] = apiKey[k] /\ apiKey[k].workload # w
          BY <2>1, <4>1, RevokedKeys
        <4> QED
          BY <2>1, <3>2, <3>3, <3>4, <4>2 DEF WorkloadRefs, ActiveKeyHasLiveWorkload
      <3>5. CASE to = "active"
        <4>1. apiKey' = apiKey /\ workload[w].membership # None
          BY <2>3, <3>1, <3>5
        <4> QED
          BY <2>1, <3>2, <3>3, <3>5, <4>1 DEF WorkloadRefs, ActiveKeyHasLiveWorkload
      <3> QED
        BY <2>1, <3>4, <3>5
    <2> QED
      BY <2>2, <2>3
  <1> QED
    BY <1>2, <1>3

\* The commands that touch no Workload.
LEMMA OtherCommitStep ==
  ASSUME WorkloadInv, NEW t \in Transactions,
         \/ BindRole(t) \/ UnbindRole(t) \/ CreateRole(t) \/ UpdateRole(t) \/ DeleteRole(t)
         \/ CreateAPIKey(t) \/ RevokeAPIKey(t) \/ UpdateAccess(t)
  PROVE  WorkloadRefs' /\ WorkloadHasOneMembership' /\ ActiveKeyHasLiveWorkload'
  <1> USE DEF WorkloadInv
  <1>1. workload' = workload
    BY DEF BindRole, UnbindRole, CreateRole, UpdateRole, DeleteRole, CreateAPIKey, RevokeAPIKey, UpdateAccess
  <1>2. \A m \in Memberships : member'[m].principal = member[m].principal /\ member'[m].status = member[m].status
    BY DEF BindRole, UnbindRole, CreateRole, UpdateRole, DeleteRole, CreateAPIKey, RevokeAPIKey, UpdateAccess,
           bumpMembershipVersion, TypeOK, MembershipRow
  <1>3. WorkloadHasOneMembership'
    BY <1>1, <1>2 DEF WorkloadHasOneMembership
  <1>4. CASE CreateAPIKey(t)
    <2>1. tx[t].args.workload \in Workloads
      <3>1. tx[t] \in Commands /\ tx[t].op = "CreateAPIKey"
        BY <1>4 DEF CreateAPIKey, Writing, TypeOK
      <3> QED
        BY <3>1, CommandShape
    <2>2. PICK k \in ApiKeys :
             apiKey' = [apiKey EXCEPT ![k] = [status |-> "active", workload |-> tx[t].args.workload,
                                              origin |-> IdentityOf(tx[t])]]
      BY <1>4 DEF CreateAPIKey
    <2>3. MayHoldKey(tx[t].args.workload)
      BY <1>4 DEF CreateAPIKey
    <2> QED
      BY <1>1, <1>3, <2>1, <2>2, <2>3 DEF MayHoldKey, WorkloadRefs, ActiveKeyHasLiveWorkload, TypeOK
  <1>5. CASE RevokeAPIKey(t)
    <2>1. apiKey' = [apiKey EXCEPT ![tx[t].args.target].status = "revoked"]
      BY <1>5 DEF RevokeAPIKey
    <2>2. \A k \in ApiKeys : apiKey'[k].status = "active" => apiKey'[k] = apiKey[k]
      BY <2>1 DEF TypeOK, ApiKeyRow
    <2> QED
      BY <1>1, <1>3, <2>2 DEF WorkloadRefs, ActiveKeyHasLiveWorkload
  <1>6. CASE apiKey' = apiKey
    BY <1>1, <1>3, <1>6 DEF WorkloadRefs, ActiveKeyHasLiveWorkload
  <1> QED
    BY <1>4, <1>5, <1>6 DEF BindRole, UnbindRole, CreateRole, UpdateRole, DeleteRole, UpdateAccess

\* The Tenant starts without Workloads and every step keeps their rows in order.
LEMMA WorkloadInvariance == Spec => []WorkloadInv
  <1>1. Init => WorkloadInv
    <2> SUFFICES ASSUME Init PROVE WorkloadInv
      OBVIOUS
    <2>1. GuardHeldOnce /\ TargetChecks
      BY DEF Init, GuardHeldOnce, TargetChecks, Idle, GuardedOperations, AdministratorOperations
    <2>2. WorkloadRefs /\ ActiveKeyHasLiveWorkload
      BY DEF Init, WorkloadRefs, ActiveKeyHasLiveWorkload
    <2>3. \A m \in Memberships : member[m].principal \notin Workloads
      <3>1. PICK of \in [Humans -> Memberships] :
               member = [m \in Memberships |->
                   IF \E h \in Humans : of[h] = m
                   THEN [principal |-> CHOOSE h \in Humans : of[h] = m, version |-> 1, status |-> "active"]
                   ELSE [principal |-> None, version |-> 0, status |-> "absent"]]
        BY DEF Init
      <3> SUFFICES ASSUME NEW m \in Memberships PROVE member[m].principal \in Humans \cup {None}
        BY PrincipalAssumption DEF Principals
      <3> QED
        BY <3>1
    <2>4. WorkloadHasOneMembership
      BY <2>3 DEF Init, WorkloadHasOneMembership
    <2> QED
      BY <2>1, <2>2, <2>4, InitTypes DEF WorkloadInv
  <1>2. WorkloadInv /\ [Next]_vars => WorkloadInv'
    <2> SUFFICES ASSUME WorkloadInv, [Next]_vars PROVE WorkloadInv'
      OBVIOUS
    <2>1. TypeOK' /\ GuardHeldOnce' /\ TargetChecks'
      BY NextTypes, GuardStep, TargetChecksStep DEF WorkloadInv
    <2>2. ASSUME NEW t \in Transactions, Commit(t)
          PROVE  WorkloadRefs' /\ WorkloadHasOneMembership' /\ ActiveKeyHasLiveWorkload'
      BY <2>1, <2>2, RemovalStep, WorkloadWriteStep, OtherCommitStep DEF Commit
    <2>3. CASE UNCHANGED rows
      BY <2>1, <2>3 DEF WorkloadInv, rows, WorkloadRefs, WorkloadHasOneMembership, ActiveKeyHasLiveWorkload
    <2> QED
      BY <2>1, <2>2, <2>3, StepShape DEF WorkloadInv, Open
  <1> QED
    BY <1>1, <1>2, PTL DEF Spec

\* No API Key survives its Workload: disabling, removing and issuing may race.
THEOREM KeysEndWithWorkload == Spec => []ActiveKeyHasLiveWorkload
  <1>1. WorkloadInv => ActiveKeyHasLiveWorkload
    BY DEF WorkloadInv
  <1> QED
    BY <1>1, WorkloadInvariance, PTL

\* The profile of a Workload and its Memberships always agree: the code never
\* relies on the deferred trigger check_workload_relations.
THEOREM ProfileNamesMembership == Spec => []WorkloadHasOneMembership
  <1>1. WorkloadInv => WorkloadHasOneMembership
    BY DEF WorkloadInv
  <1> QED
    BY <1>1, WorkloadInvariance, PTL
-----------------------------------------------------------------------------
(***************************************************************************)
(* The idempotency ledger, and what never comes back.                      *)
(***************************************************************************)
\* LockMutation and FindMutation: an identity is executed by one transaction
\* and only while it has no result.
IdentityHeldOnce ==
    \A s, t \in Transactions : tx[s] # Idle /\ tx[t] # Idle =>
        /\ IdentityOf(tx[s]) \notin ledger
        /\ IdentityOf(tx[s]) = IdentityOf(tx[t]) => s = t

\* A row made by a command is there with the command's result.
OriginsSaved ==
    /\ \A r \in CustomRoles : role[r].origin \in ledger \cup {None}
    /\ \A w \in Workloads : workload[w].origin \in ledger \cup {None}
    /\ \A k \in ApiKeys : apiKey[k].origin \in ledger \cup {None}

LedgerInv == TypeOK /\ IdentityHeldOnce /\ OriginsSaved /\ OneRowPerCommand

\* A transaction opens with an identity nobody holds and leaves it with a result.
LEMMA IdentityStep ==
  ASSUME TypeOK, IdentityHeldOnce, [Next]_vars
  PROVE  IdentityHeldOnce'
  <1> SUFFICES ASSUME NEW s \in Transactions, NEW u \in Transactions, tx'[s] # Idle, tx'[u] # Idle
               PROVE  /\ IdentityOf(tx'[s]) \notin ledger'
                      /\ IdentityOf(tx'[s]) = IdentityOf(tx'[u]) => s = u
    BY DEF IdentityHeldOnce, IdentityOf, OperationOf
  <1>1. CASE \E t \in Transactions : Commit(t)
    <2>1. PICK t \in Transactions : Commit(t)
      BY <1>1
    <2>2. tx[t] # Idle /\ tx' = [tx EXCEPT ![t] = Idle] /\ ledger' = ledger \cup {IdentityOf(tx[t])}
      BY <2>1, CommitFrame, CommandShape
    <2>3. s # t /\ u # t /\ tx'[s] = tx[s] /\ tx'[u] = tx[u]
      BY <2>2 DEF TypeOK
    <2> QED
      BY <2>2, <2>3 DEF IdentityHeldOnce
  <1>2. CASE \E t \in Transactions : Open(t)
    <2>1. PICK t \in Transactions, c \in Commands : LedgerFree(c) /\ tx' = [tx EXCEPT ![t] = c] /\ ledger' = ledger
      BY <1>2 DEF Open
    <2>2. \A v \in Transactions : tx'[v] = IF v = t THEN c ELSE tx[v]
      BY <2>1 DEF TypeOK
    <2> QED
      BY <2>1, <2>2 DEF LedgerFree, IdentityHeldOnce
  <1>3. CASE ledger' = ledger /\ \A v \in Transactions : tx'[v] = Idle \/ tx'[v] = tx[v]
    <2>1. tx'[s] = tx[s] /\ tx'[u] = tx[u]
      BY <1>3
    <2> QED
      BY <1>3, <2>1 DEF IdentityHeldOnce
  <1> QED
    BY <1>1, <1>2, <1>3, StepShape

\* A commit gives at most one new row an origin, and that origin is new.
LEMMA OriginStep ==
  ASSUME LedgerInv, NEW t \in Transactions, Commit(t)
  PROVE  OriginsSaved' /\ OneRowPerCommand'
  <1> DEFINE id == IdentityOf(tx[t])
  <1> USE DEF LedgerInv
  <1>1. id \notin ledger /\ ledger' = ledger \cup {id}
    BY CommitFrame, CommandShape DEF IdentityHeldOnce
  <1>2. CASE CreateRole(t)
    <2>1. workload' = workload /\ apiKey' = apiKey
      BY <1>2 DEF CreateRole
    <2>2. PICK r \in CustomRoles : role' = [role EXCEPT ![r] = [status |-> "live", version |-> 1, origin |-> id]]
      BY <1>2 DEF CreateRole
    <2>3. role'[r].origin = id /\ \A q \in CustomRoles \ {r} : role'[q] = role[q]
      BY <2>2 DEF TypeOK
    <2>4. OriginsSaved'
      BY <1>1, <2>1, <2>3 DEF OriginsSaved
    <2>5. OneRowPerCommand'
      BY <1>1, <2>1, <2>3 DEF OneRowPerCommand, OriginsSaved
    <2> QED
      BY <2>4, <2>5
  <1>3. CASE CreateTenantWorkload(t)
    <2>1. role' = role /\ apiKey' = apiKey
      BY <1>3 DEF CreateTenantWorkload
    <2>2. PICK w \in Workloads, m \in Memberships :
             workload' = [workload EXCEPT ![w] = [status |-> "active", version |-> 1, membership |-> m, origin |-> id]]
      BY <1>3 DEF CreateTenantWorkload
    <2>3. workload'[w].origin = id /\ \A v \in Workloads \ {w} : workload'[v] = workload[v]
      BY <2>2 DEF TypeOK
    <2>4. OriginsSaved'
      BY <1>1, <2>1, <2>3 DEF OriginsSaved
    <2>5. OneRowPerCommand'
      BY <1>1, <2>1, <2>3 DEF OneRowPerCommand, OriginsSaved
    <2> QED
      BY <2>4, <2>5
  <1>4. CASE CreateAPIKey(t)
    <2>1. role' = role /\ workload' = workload
      BY <1>4 DEF CreateAPIKey
    <2>2. PICK k \in ApiKeys :
             apiKey' = [apiKey EXCEPT ![k] = [status |-> "active", workload |-> tx[t].args.workload, origin |-> id]]
      BY <1>4 DEF CreateAPIKey
    <2>3. apiKey'[k].origin = id /\ \A j \in ApiKeys \ {k} : apiKey'[j] = apiKey[j]
      BY <2>2 DEF TypeOK
    <2>4. OriginsSaved'
      BY <1>1, <2>1, <2>3 DEF OriginsSaved
    <2>5. OneRowPerCommand'
      BY <1>1, <2>1, <2>3 DEF OneRowPerCommand, OriginsSaved
    <2> QED
      BY <2>4, <2>5
  <1>5. CASE ~ (CreateRole(t) \/ CreateTenantWorkload(t) \/ CreateAPIKey(t))
    <2>0. \/ UpdateMembership(t) \/ BindRole(t) \/ UnbindRole(t) \/ UpdateRole(t) \/ DeleteRole(t)
          \/ UpdateTenantWorkload(t) \/ RevokeAPIKey(t) \/ UpdateAccess(t)
      BY <1>5 DEF Commit
    <2>1. \A r \in CustomRoles : role'[r].origin = role[r].origin
      <3>1. \A r \in CustomRoles : role[r] \in RoleRow
        BY DEF TypeOK
      <3>2. role' = role \/ \E q : \/ role' = [role EXCEPT ![q].version = @ + 1]
                                  \/ role' = [role EXCEPT ![q].status = "deleted"]
        BY <2>0 DEF UpdateMembership, BindRole, UnbindRole, UpdateRole, DeleteRole, UpdateTenantWorkload,
                    RevokeAPIKey, UpdateAccess
      <3> QED
        BY <3>1, <3>2 DEF TypeOK, RoleRow
    <2>2. \A w \in Workloads : workload'[w].origin = workload[w].origin
      <3>1. CASE UpdateMembership(t)
        <4> DEFINE w == member[tx[t].args.target].principal
        <4>1. CASE workload' = workload
          BY <4>1
        <4>2. CASE w \in Workloads /\ DisableTenantWorkloadForMembership(tx[t].args.target)
          <5>1. /\ workload'[w].origin = workload[w].origin
                /\ \A v \in Workloads \ {w} : workload'[v] = workload[v]
            BY <4>2 DEF DisableTenantWorkloadForMembership, TypeOK, WorkloadRow
          <5> QED
            BY <5>1
        <4> QED
          BY <3>1, <4>1, <4>2 DEF UpdateMembership
      <3>2. CASE UpdateTenantWorkload(t)
        <4> DEFINE w == tx[t].args.target
        <4>1. tx[t] \in Commands /\ tx[t].op = "UpdateTenantWorkload"
          BY <3>2 DEF UpdateTenantWorkload, Writing, TypeOK
        <4>2. w \in Workloads
          BY <4>1, CommandShape
        <4>3. ASSUME NEW st, NEW m,
                     \/ workload' = [workload EXCEPT ![w].status = st, ![w].version = @ + 1, ![w].membership = m]
                     \/ workload' = [workload EXCEPT ![w].status = st, ![w].version = @ + 1]
              PROVE  /\ workload'[w].origin = workload[w].origin
                     /\ \A v \in Workloads \ {w} : workload'[v] = workload[v]
          BY <4>2, <4>3 DEF TypeOK, WorkloadRow
        <4>4. \E st, m :
                 \/ workload' = [workload EXCEPT ![w].status = st, ![w].version = @ + 1, ![w].membership = m]
                 \/ workload' = [workload EXCEPT ![w].status = st, ![w].version = @ + 1]
          BY <3>2, Zenon DEF UpdateTenantWorkload
        <4>5. workload'[w].origin = workload[w].origin /\ \A v \in Workloads \ {w} : workload'[v] = workload[v]
          BY <4>3, <4>4, Zenon
        <4> QED
          BY <4>5
      <3> QED
        BY <2>0, <3>1, <3>2 DEF BindRole, UnbindRole, UpdateRole, DeleteRole, RevokeAPIKey, UpdateAccess
    <2>3. \A k \in ApiKeys : apiKey'[k].origin = apiKey[k].origin
      <3>1. CASE \E w : apiKey' = RevokeActiveAPIKeys(w)
        BY <3>1 DEF RevokeActiveAPIKeys, TypeOK, ApiKeyRow
      <3>2. CASE RevokeAPIKey(t)
        BY <3>2 DEF RevokeAPIKey, TypeOK, ApiKeyRow
      <3>3. CASE apiKey' = apiKey
        BY <3>3
      <3> QED
        BY <2>0, <3>1, <3>2, <3>3
           DEF UpdateMembership, DisableTenantWorkloadForMembership, BindRole, UnbindRole, UpdateRole, DeleteRole,
               UpdateTenantWorkload, UpdateAccess
    <2>4. OriginsSaved'
      BY <1>1, <2>1, <2>2, <2>3 DEF OriginsSaved
    <2>5. OneRowPerCommand'
      BY <2>1, <2>2, <2>3 DEF OneRowPerCommand
    <2> QED
      BY <2>4, <2>5
  <1> QED
    BY <1>2, <1>3, <1>4, <1>5

\* OneRowPerCommand: a client may repeat a command as often as it likes, at the
\* same time or later; executeMutation makes one row of it.
THEOREM RetriesCreateOnce == Spec => []OneRowPerCommand
  <1>1. Init => LedgerInv
    <2> SUFFICES ASSUME Init PROVE LedgerInv
      OBVIOUS
    <2>1. IdentityHeldOnce
      BY DEF Init, IdentityHeldOnce
    <2>2. OriginsSaved /\ OneRowPerCommand
      BY DEF Init, OriginsSaved, OneRowPerCommand
    <2> QED
      BY <2>1, <2>2, InitTypes DEF LedgerInv
  <1>2. LedgerInv /\ [Next]_vars => LedgerInv'
    <2> SUFFICES ASSUME LedgerInv, [Next]_vars PROVE LedgerInv'
      OBVIOUS
    <2>1. TypeOK' /\ IdentityHeldOnce'
      BY NextTypes, IdentityStep DEF LedgerInv
    <2>2. CASE UNCHANGED <<rows, ledger>>
      BY <2>1, <2>2 DEF LedgerInv, OriginsSaved, OneRowPerCommand, rows
    <2> QED
      BY <2>1, <2>2, OriginStep, StepShape DEF LedgerInv, Open
  <1>3. LedgerInv => OneRowPerCommand
    BY DEF LedgerInv
  <1> QED
    BY <1>1, <1>2, <1>3, PTL DEF Spec

\* A removed Membership, a deleted Role and a revoked API Key never come back,
\* and no result leaves the ledger: the code never relies on the trigger
\* lock_membership_principal.
THEOREM EndsAreFinal == Spec => EndedStaysEnded
  <1> DEFINE Final == /\ \A m \in Memberships : member[m].status = "removed" => member'[m].status = "removed"
                      /\ \A r \in CustomRoles : role[r].status = "deleted" => role'[r] = role[r]
                      /\ \A k \in ApiKeys : apiKey[k].status = "revoked" => apiKey'[k] = apiKey[k]
                      /\ ledger \subseteq ledger'
  <1>1. WorkloadInv /\ [Next]_vars => [Final]_vars
    <2> SUFFICES ASSUME WorkloadInv, [Next]_vars PROVE Final
      OBVIOUS
    <2> USE DEF WorkloadInv
    <2>1. CASE UNCHANGED <<rows, ledger>>
      BY <2>1 DEF rows
    <2>2. ASSUME NEW t \in Transactions, Commit(t) PROVE Final
      <3>1. tx[t] \in Commands /\ tx[t] # Idle /\ ledger \subseteq ledger'
        BY <2>2, CommitFrame, CommandShape
      <3>2. ASSUME NEW m \in Memberships, member[m].status = "removed" PROVE member'[m].status = "removed"
        <4>1. CASE UpdateMembership(t)
          <5>1. /\ tx[t].args.target \in Memberships
                /\ member' = [member EXCEPT ![tx[t].args.target].status = tx[t].args.status,
                                            ![tx[t].args.target].version = @ + 1]
            BY <3>1, <4>1, CommandShape DEF UpdateMembership, Writing
          <5>2. m = tx[t].args.target => tx[t].args.status = "removed"
            BY <3>1, <3>2, <4>1 DEF TargetChecks, TargetHolds, UpdateMembership, Writing
          <5> QED
            BY <3>2, <5>1, <5>2 DEF TypeOK, MembershipRow
        <4>2. CASE BindRole(t) \/ UnbindRole(t)
          BY <3>2, <4>2 DEF BindRole, UnbindRole, bumpMembershipVersion, TypeOK, MembershipRow
        <4>3. CASE CreateTenantWorkload(t) \/ UpdateTenantWorkload(t)
          BY <3>2, <4>3 DEF CreateTenantWorkload, UpdateTenantWorkload, NewMembership, TypeOK
        <4>4. CASE member' = member
          BY <3>2, <4>4
        <4> QED
          BY <2>2, <4>1, <4>2, <4>3, <4>4
             DEF Commit, CreateRole, UpdateRole, DeleteRole, CreateAPIKey, RevokeAPIKey, UpdateAccess
      <3>3. ASSUME NEW r \in CustomRoles, role[r].status = "deleted" PROVE role'[r] = role[r]
        BY <2>2, <3>3
           DEF Commit, UpdateMembership, BindRole, UnbindRole, CreateRole, UpdateRole, DeleteRole, mutableTenantRole,
               CreateTenantWorkload, UpdateTenantWorkload, CreateAPIKey, RevokeAPIKey, UpdateAccess, TypeOK
      <3>4. ASSUME NEW k \in ApiKeys, apiKey[k].status = "revoked" PROVE apiKey'[k] = apiKey[k]
        <4>1. CASE \E w : apiKey' = RevokeActiveAPIKeys(w)
          BY <3>4, <4>1 DEF RevokeActiveAPIKeys
        <4>2. CASE CreateAPIKey(t)
          BY <3>4, <4>2 DEF CreateAPIKey, TypeOK
        <4>3. CASE RevokeAPIKey(t)
          <5>1. apiKey[k] \in ApiKeyRow /\ [apiKey[k] EXCEPT !.status = "revoked"] = apiKey[k]
            BY <3>4 DEF TypeOK, ApiKeyRow
          <5> QED
            BY <4>3, <5>1 DEF RevokeAPIKey, TypeOK
        <4>4. CASE apiKey' = apiKey
          BY <4>4
        <4> QED
          BY <2>2, <4>1, <4>2, <4>3, <4>4
             DEF Commit, UpdateMembership, DisableTenantWorkloadForMembership, BindRole, UnbindRole, CreateRole,
                 UpdateRole, DeleteRole, CreateTenantWorkload, UpdateTenantWorkload, UpdateAccess
      <3> QED
        BY <3>1, <3>2, <3>3, <3>4
    <2> QED
      BY <2>1, <2>2, StepShape DEF Open
  <1> QED
    BY <1>1, WorkloadInvariance, PTL DEF Spec, EndedStaysEnded

\* No row refers to one that ended, whatever commands run at the same time
\* (RoleReferenced, DisableTenantWorkloadForMembership, createHumanMembership).
THEOREM ReferencesTheorem == Spec => []ReferencesHold
BY RolesAreNotOrphaned, KeysEndWithWorkload, ProfileNamesMembership, PTL DEF ReferencesHold

\* Role changes commit for current administrators only and no end is taken back
\* (requireTenantRoleAdministrator, executeMutation).
THEOREM CommandsTheorem == Spec => CommandsAreLawful
BY ActorIsAdministrator, EndsAreFinal, PTL DEF CommandsAreLawful

=============================================================================
