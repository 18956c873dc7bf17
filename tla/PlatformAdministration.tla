----------------------- MODULE PlatformAdministration -----------------------
(***************************************************************************)
(* The commands of Platform administrators: Memberships, roles and their   *)
(* bindings, Invitations, the access of a Tenant.                          *)
(*                                                                         *)
(* A command is authorized in one request step and carried out in another: *)
(* "caps" are the capabilities in between, and everything may change while *)
(* one waits.  A caller that got no answer repeats the command with its    *)
(* key, so carrying one out may leave it in "caps".  A refused command     *)
(* changes nothing.  Who the recipient of an Invitation is has been proved *)
(* by a Session or a password, as in module Invitations, whose dispatcher  *)
(* also sends these messages.                                              *)
(***************************************************************************)
EXTENDS PlatformSessions

CONSTANTS
  Invites,        \* Invitation identities
  Keys,           \* idempotency keys
  MaxGeneration,  \* bound: generations of an Invitation
  MaxInFlight     \* bound: commands waiting

ASSUME GenerationAssumption == MaxGeneration \in Nat \ {0}

VARIABLES
  caps,     \* capabilities: token and command
  ledger,   \* platform_mutation receipts
  applied,  \* identities of commands that took effect
  repeated, \* and of those that did so more than once
  inv,      \* platform_invitations
  refs,     \* platform_invitation_roles
  mail,     \* messages in platform_invitation_outbox that are to be sent
  inbox,    \* messages delivered
  tenant    \* tenant_access of a Tenant

invitationVars == <<inv, refs, mail, inbox>>
commandVars == <<caps, ledger, applied, repeated>>
adminVars == <<commandVars, invitationVars, tenant>>

Operations ==
  {"update", "bind", "unbind", "createRole", "updateRole", "deleteRole",
   "invite", "resend", "cancel", "readInvitations", "access"}
Command ==
  [op : Operations, person : People \cup {None}, status : {"", "active", "suspended", "removed"},
   roles : SUBSET Roles, permissions : SUBSET Permissions, id : Invites \cup {None},
   version : 0..MaxVersion, key : Keys]
Receipt == [actor : People, command : Command]
InvitationRow ==
  [status : {"absent", "pending", "accepted", "cancelled", "expired"},
   email : People \cup {None}, roles : SUBSET Roles, over : BOOLEAN,
   generation : 0..MaxGeneration, version : 0..MaxVersion,
   created : (0..MaxMemberships) \X (0..MaxVersion)]

AdministrationTypeOK ==
  /\ \A k \in caps : k.token \in Token /\ k.command \in Command
  /\ ledger \subseteq Receipt
  /\ applied \subseteq People \X Operations \X Keys /\ repeated \subseteq applied
  /\ inv \in [Invites -> InvitationRow]
  /\ refs \subseteq Invites \X Roles
  /\ mail \subseteq Invites \X (1..MaxGeneration)
  /\ inbox \subseteq Invites \X (1..MaxGeneration)
  /\ tenant.status \in {"active", "suspended"} /\ tenant.version \in 1..MaxVersion

AdministrationInit ==
  /\ caps = {} /\ ledger = {} /\ applied = {} /\ repeated = {}
  /\ inv = [i \in Invites |->
       [status |-> "absent", email |-> None, roles |-> {}, over |-> FALSE,
        generation |-> 0, version |-> 0, created |-> <<0, 0>>]]
  /\ refs = {} /\ mail = {} /\ inbox = {}
  /\ tenant = [status |-> "active", version |-> 1]

-----------------------------------------------------------------------------
(* The frame of a command. *)

\* What the operations need, of the permissions this model tells apart.
PolicyOf(op) == {"manage"}

\* The expected version a caller read: the current one now, an old one by the
\* time the command is carried out.
Blank == [op |-> "access", person |-> None, status |-> "", roles |-> {},
          permissions |-> {}, id |-> None, version |-> 0, key |-> CHOOSE k \in Keys : TRUE]

Keyed(k) == [Blank EXCEPT !.key = k]

OnMember(k, p, st) ==
  [Keyed(k) EXCEPT !.op = "update", !.person = p, !.status = st, !.version = member[p].version]
OnBinding(k, op, p, r) ==
  [Keyed(k) EXCEPT !.op = op, !.person = p, !.roles = {r}, !.version = member[p].version]
OnRole(k, op, r, ps) ==
  [Keyed(k) EXCEPT !.op = op, !.roles = {r}, !.permissions = ps, !.version = role[r].version]
OnInvitation(k, op, i) == [Keyed(k) EXCEPT !.op = op, !.id = i, !.version = inv[i].version]
ToCreateRole(k, ps) == [Keyed(k) EXCEPT !.op = "createRole", !.permissions = ps]
ToInvite(k, p, r) == [Keyed(k) EXCEPT !.op = "invite", !.person = p, !.roles = {r}]
ToRead(k) == [Keyed(k) EXCEPT !.op = "readInvitations"]
OnTenant(k, st) == [Keyed(k) EXCEPT !.status = st, !.version = tenant.version]

Commands(k) ==
  LET members == {p \in People : member[p].gen > 0}
      defined == {r \in Roles : role[r].present}
      created == {i \in Invites : inv[i].status # "absent"}
      granting == SUBSET Permissions \ {{}}
  IN {OnMember(k, p, st) : p \in members, st \in {"active", "suspended", "removed"}}
     \cup {OnBinding(k, op, p, r) : op \in {"bind", "unbind"}, p \in members, r \in defined}
     \cup {ToCreateRole(k, ps) : ps \in granting}
     \cup {OnRole(k, "updateRole", r, ps) : r \in defined, ps \in granting}
     \cup {OnRole(k, "deleteRole", r, {}) : r \in defined}
     \cup {ToInvite(k, p, r) : p \in People, r \in defined}
     \cup {OnInvitation(k, op, i) : op \in {"resend", "cancel"}, i \in created}
     \cup {ToRead(k)}
     \cup {OnTenant(k, st) : st \in {"active", "suspended"}}

AuthorizeAdministration(t, c) ==
  /\ Cardinality(caps) < MaxInFlight
  /\ CheckPermission(t, PolicyOf(c.op))
  /\ caps' = caps \cup {[token |-> t, command |-> c]}
  /\ UNCHANGED <<platformVars, ledger, applied, repeated, invitationVars, tenant>>

\* The caller gives up, or the command was refused.
CommandEnds(k) ==
  /\ caps' = caps \ {k}
  /\ UNCHANGED <<platformVars, ledger, applied, repeated, invitationVars, tenant>>

\* Mutant: what was authorized stays authorized.
AuthorizedBefore(k) == TRUE

\* Under the guard: the token, the Session, the Membership and the permission
\* are looked up again.
withinAuthorized(k) == CheckPermission(k.token, PolicyOf(k.command.op))

ActorOf(k) == session[k.token.session].person

FindPlatformMutation(k) ==
  {e \in ledger : e.actor = ActorOf(k) /\ e.command.op = k.command.op
                    /\ e.command.key = k.command.key}

SavePlatformMutation(k) ==
  ledger' = ledger \cup {[actor |-> ActorOf(k), command |-> k.command]}

\* A command takes effect; if its identity had one before, that is noted.
NoteEffect(k) ==
  LET identity == <<ActorOf(k), k.command.op, k.command.key>>
  IN /\ applied' = applied \cup {identity}
     /\ repeated' = repeated \cup (applied \cap {identity})

-----------------------------------------------------------------------------
(* Memberships and bindings. *)

\* Active Memberships that hold platform-admin.
ListPlatformAdministratorCandidates ==
  {p \in human : member[p].status = "active" /\ <<p, member[p].gen, Admin>> \in bindings}

AdministratorsAbleToLogIn == {p \in ListPlatformAdministratorCandidates : LoginCapable(p)}

protectPlatformAdministrator(p) == AdministratorsAbleToLogIn # {p}

UpdatePlatformMembershipStatus(row, status) ==
  [row EXCEPT !.status = status, !.version = @ + 1]

AdvancePlatformMembershipVersion(row) == [row EXCEPT !.version = @ + 1]

\* Sessions are left alone: the lookup of their authority reads the status.
UpdateMembership(c) ==
  LET m == member[c.person]
  IN /\ m.version = c.version /\ m.version < MaxVersion
     /\ m.status # "removed"
     /\ m.status = "active" /\ c.status # "active" => protectPlatformAdministrator(c.person)
     /\ member' = [member EXCEPT ![c.person] = UpdatePlatformMembershipStatus(@, c.status)]
     /\ UNCHANGED <<bindings, role, invitationVars, tenant>>

mutablePlatformMembership(p, version) ==
  member[p].status = "active" /\ member[p].version = version /\ member[p].version < MaxVersion

BindMembershipRole(b) ==
  /\ CreatePlatformRoleBinding(b[1], b[2], {b[3]})
  /\ member' = [member EXCEPT ![b[1]] = AdvancePlatformMembershipVersion(@)]

BindRole(c) ==
  \E r \in c.roles :
    LET b == <<c.person, member[c.person].gen, r>>
    IN /\ mutablePlatformMembership(c.person, c.version)
       /\ role[r].present /\ b \notin bindings
       /\ BindMembershipRole(b)
       /\ UNCHANGED <<role, invitationVars, tenant>>

RemovePlatformMembershipRoleBinding(b) == bindings' = bindings \ {b}

UnbindMembershipRole(b) ==
  /\ RemovePlatformMembershipRoleBinding(b)
  /\ member' = [member EXCEPT ![b[1]] = AdvancePlatformMembershipVersion(@)]

\* A binding of a Membership that is not active may go too.
UnbindRole(c) ==
  \E r \in c.roles :
    LET b == <<c.person, member[c.person].gen, r>>
    IN /\ member[c.person].version = c.version /\ c.version < MaxVersion
       /\ role[r].present /\ b \in bindings
       /\ r = Admin => protectPlatformAdministrator(c.person)
       /\ UnbindMembershipRole(b)
       /\ UNCHANGED <<role, invitationVars, tenant>>

-----------------------------------------------------------------------------
(* Invitations. *)

FindPendingPlatformInvitation(p) == {i \in Invites : inv[i].status = "pending" /\ inv[i].email = p}

\* The last change of the addressee's Membership dates the Invitation.
CreatePlatformInvitation(p, rs) ==
  [status |-> "pending", email |-> p, roles |-> rs, over |-> FALSE, generation |-> 1,
   version |-> 1, created |-> <<member[p].gen, member[p].version>>]

ResendPlatformInvitation(row) ==
  [row EXCEPT !.status = "pending", !.over = FALSE, !.generation = @ + 1, !.version = @ + 1]

TransitionPlatformInvitationTerminal(row, status) ==
  [row EXCEPT !.status = status, !.version = @ + 1]

ClearPlatformInvitationRoles(some) == {x \in refs : x[1] \notin some}

CancelPlatformInvitationDeliveries(some) == {x \in mail : x[1] \notin some}

\* What ran out among some Invitations ends, its roles and messages with it.
expirePlatformInvitation(some) ==
  LET over == {i \in some : inv[i].status = "pending" /\ inv[i].over}
  IN /\ \A i \in over : inv[i].version < MaxVersion
     /\ inv' = [i \in Invites |-> IF i \in over
          THEN TransitionPlatformInvitationTerminal(inv[i], "expired") ELSE inv[i]]
     /\ refs' = ClearPlatformInvitationRoles(over)
     /\ mail' = CancelPlatformInvitationDeliveries(over)

AddPlatformInvitationRole(i, rs) == {i} \X rs
CreatePlatformInvitationDelivery(i, g) == {<<i, g>>}

\* The roles and the message of generation g, once the old ones are gone.
AddInvitationReferences(i, old, rs, g) ==
  /\ refs' = ClearPlatformInvitationRoles({i} \cup old) \cup AddPlatformInvitationRole(i, rs)
  /\ mail' = CancelPlatformInvitationDeliveries({i} \cup old)
               \cup CreatePlatformInvitationDelivery(i, g)

\* An open Invitation with the same roles is the answer, with others a
\* conflict.  One that ran out ends in the same transaction.
CreateInvitation(c) ==
  LET pending == FindPendingPlatformInvitation(c.person)
      old == {i \in pending : inv[i].over}
  IN /\ \/ /\ pending # {} /\ old = {}
           /\ \A i \in pending : inv[i].roles = c.roles
           /\ UNCHANGED <<inv, refs, mail>>
        \/ /\ pending = old /\ \A r \in c.roles : role[r].present
           /\ \A i \in old : inv[i].version < MaxVersion
           /\ \E i \in Invites :
                /\ inv[i].status = "absent"
                /\ inv' = [j \in Invites |->
                     IF j = i THEN CreatePlatformInvitation(c.person, c.roles)
                     ELSE IF j \in old THEN TransitionPlatformInvitationTerminal(inv[j], "expired")
                     ELSE inv[j]]
                /\ AddInvitationReferences(i, old, c.roles, 1)
     /\ UNCHANGED <<member, bindings, role, inbox, tenant>>

ResendInvitation(c) ==
  LET v == inv[c.id]
  IN /\ v.version = c.version /\ v.version < MaxVersion
     /\ v.status \in {"pending", "expired"} /\ v.generation < MaxGeneration
     /\ FindPendingPlatformInvitation(v.email) \subseteq {c.id}
     /\ \A r \in v.roles : role[r].present
     /\ inv' = [inv EXCEPT ![c.id] = ResendPlatformInvitation(@)]
     /\ AddInvitationReferences(c.id, {}, v.roles, v.generation + 1)
     /\ UNCHANGED <<member, bindings, role, inbox, tenant>>

clearInvitationReferences(i) ==
  /\ refs' = ClearPlatformInvitationRoles({i})
  /\ mail' = CancelPlatformInvitationDeliveries({i})

EndInvitation(i, status) ==
  /\ inv' = [inv EXCEPT ![i] = TransitionPlatformInvitationTerminal(@, status)]
  /\ clearInvitationReferences(i)

CancelInvitation(c) ==
  LET v == inv[c.id]
  IN /\ v.version = c.version /\ v.version < MaxVersion
     /\ v.status = "pending" /\ ~v.over
     /\ EndInvitation(c.id, "cancelled")
     /\ UNCHANGED <<member, bindings, role, inbox, tenant>>

\* Reading a page ends what ran out.
ListInvitations(c) ==
  /\ expirePlatformInvitation(Invites)
  /\ UNCHANGED <<member, bindings, role, inbox, tenant>>

-----------------------------------------------------------------------------
(* Roles and Tenants. *)

\* Bindings of removed Memberships count as well.
RoleReferenced(r) == (\E b \in bindings : b[3] = r) \/ (\E x \in refs' : x[2] = r)

mutablePlatformRole(r, version) ==
  role[r].present /\ r # Admin /\ role[r].version = version /\ version < MaxVersion

CreateCustomPlatformRole(r, ps) ==
  role' = [role EXCEPT ![r] = [present |-> TRUE, version |-> 1, permissions |-> ps]]

CreateRole(c) ==
  \E r \in CustomRoles :
    /\ ~role[r].present
    /\ CreateCustomPlatformRole(r, c.permissions)
    /\ UNCHANGED <<member, bindings, invitationVars, tenant>>

UpdateCustomPlatformRole(r, ps) ==
  role' = [role EXCEPT ![r].version = @ + 1, ![r].permissions = ps]

UpdateRole(c) ==
  \E r \in c.roles :
    /\ mutablePlatformRole(r, c.version)
    /\ UpdateCustomPlatformRole(r, c.permissions)
    /\ UNCHANGED <<member, bindings, invitationVars, tenant>>

ListExpiredPlatformInvitationsForRole(r) ==
  {i \in Invites : <<i, r>> \in refs /\ inv[i].status = "pending" /\ inv[i].over}

DeleteCustomPlatformRole(r) == role' = [role EXCEPT ![r].present = FALSE, ![r].permissions = {}]

\* Invitations that ran out release the role first.
DeleteRole(c) ==
  \E r \in c.roles :
    /\ mutablePlatformRole(r, c.version)
    /\ expirePlatformInvitation(ListExpiredPlatformInvitationsForRole(r))
    /\ ~RoleReferenced(r)
    /\ DeleteCustomPlatformRole(r)
    /\ UNCHANGED <<member, bindings, inbox, tenant>>

UpdateTargetTenantAccess(status) == tenant' = [status |-> status, version |-> tenant.version + 1]

UpdateTenantAccess(c) ==
  /\ tenant.version = c.version /\ c.version < MaxVersion
  /\ UpdateTargetTenantAccess(c.status)
  /\ UNCHANGED <<member, bindings, role, invitationVars>>

-----------------------------------------------------------------------------

Mutation(c) ==
  \/ c.op = "update" /\ UpdateMembership(c)
  \/ c.op = "bind" /\ BindRole(c)
  \/ c.op = "unbind" /\ UnbindRole(c)
  \/ c.op = "createRole" /\ CreateRole(c)
  \/ c.op = "updateRole" /\ UpdateRole(c)
  \/ c.op = "deleteRole" /\ DeleteRole(c)
  \/ c.op = "invite" /\ CreateInvitation(c)
  \/ c.op = "resend" /\ ResendInvitation(c)
  \/ c.op = "cancel" /\ CancelInvitation(c)
  \/ c.op = "access" /\ UpdateTenantAccess(c)

\* The answer may get lost: the caller still has the command.
Answered(k) == caps' \in {caps, caps \ {k}}

\* Authority, then the receipt of the same identity, then the change, its audit
\* and its receipt: one transaction under the guard.
mutate(k) ==
  /\ withinAuthorized(k)
  /\ FindPlatformMutation(k) = {}
  /\ Mutation(k.command)
  /\ SavePlatformMutation(k) /\ NoteEffect(k)
  /\ Answered(k)
  /\ UNCHANGED <<human, linked, sessionVars, foundingVars>>

\* Reading writes no receipt.
read(k) ==
  /\ withinAuthorized(k)
  /\ k.command.op = "readInvitations" /\ ListInvitations(k.command)
  /\ caps' = caps \ {k}
  /\ UNCHANGED <<human, linked, sessionVars, foundingVars, ledger, applied, repeated>>

-----------------------------------------------------------------------------
(* Recipients. *)

Dispatch(x) ==
  /\ x \in mail
  /\ mail' = mail \ {x} /\ inbox' = inbox \cup {x}
  /\ UNCHANGED <<platformVars, commandVars, inv, refs, tenant>>

InvitationElapses(i) ==
  /\ inv[i].status = "pending" /\ ~inv[i].over
  /\ inv' = [inv EXCEPT ![i].over = TRUE]
  /\ UNCHANGED <<platformVars, commandVars, refs, mail, inbox, tenant>>

\* Nobody who is a member, and no removed person by an Invitation from before
\* the last change of the removed Membership.
ExistingPlatformMembership(p, i) ==
  \/ member[p].status = "none"
  \/ member[p].status = "removed" /\ inv[i].created = <<member[p].gen, member[p].version>>

CreateMembership(p, rs) ==
  LET gen == member[p].gen + 1
  IN CreatePlatformMembership(p, gen) /\ CreatePlatformRoleBinding(p, gen, rs)

Accept(p, i) ==
  /\ p \in human /\ inv[i].email = p
  /\ <<i, inv[i].generation>> \in inbox
  /\ inv[i].status = "pending" /\ ~inv[i].over /\ inv[i].version < MaxVersion
  /\ \A r \in inv[i].roles : role[r].present
  /\ ExistingPlatformMembership(p, i) /\ member[p].gen < MaxMemberships
  /\ CreateMembership(p, inv[i].roles)
  /\ EndInvitation(i, "accepted")
  /\ UNCHANGED <<human, linked, role, sessionVars, foundingVars, commandVars, inbox, tenant>>

AdministrationNext ==
  \/ \E t \in access, k \in Keys : \E c \in Commands(k) : AuthorizeAdministration(t, c)
  \/ \E k \in caps : mutate(k) \/ read(k) \/ CommandEnds(k)
  \/ \E x \in mail : Dispatch(x)
  \/ \E i \in Invites : InvitationElapses(i) \/ \E p \in People : Accept(p, i)

Init == PlatformInit /\ AdministrationInit
Next == (SessionNext /\ UNCHANGED adminVars) \/ AdministrationNext
vars == <<platformVars, adminVars>>
Spec == Init /\ [][Next]_vars

TypeOK == PlatformTypeOK /\ AdministrationTypeOK

-----------------------------------------------------------------------------
(* What administration promises. *)

\* A receipt is written only while its actor has a Session with the permission:
\* authority that went away between the authorization of a command and its
\* transaction is not used (withinAuthorized looks it up again).
ChangesAreAuthorized ==
  [][\A e \in ledger' \ ledger :
       \E t \in access : session[t.session].person = e.actor
                          /\ CheckPermission(t, PolicyOf(e.command.op))]_vars

\* A command that is repeated with its key, because the answer got lost, takes
\* effect once (mutateWithPrecondition and the receipt it saves).
RetriedCommandsTakeEffectOnce == repeated = {}

\* Two administrators who remove or demote each other at the same time never
\* leave a Platform without anybody who can log in and administer it: only a
\* locked password can do that (protectPlatformAdministrator).
AdministrationKeepsAnAdministrator ==
  [][AdministratorsAbleToLogIn # {} /\ AdministratorsAbleToLogIn' = {} => cred' # cred]_vars

\* Open Invitations and bindings never name a role that was deleted, an
\* Invitation that ran out and is resent included (DeleteRole, RoleReferenced).
GrantedRolesExist ==
  /\ \A b \in bindings : role[b[3]].present
  /\ \A i \in Invites : inv[i].status = "pending" => \A r \in inv[i].roles : role[r].present

\* Only the current message of an open Invitation waits to be sent
\* (clearInvitationReferences, ResendInvitation).
OnlyCurrentMessagesWait ==
  \A x \in mail : inv[x[1]].status = "pending" /\ inv[x[1]].generation = x[2]

\* Commands that wait, repeat or race keep the Platform in order: authority is
\* that of the commit, a repetition does nothing, no deleted role is granted, no
\* replaced message waits, and an administrator remains.
AdministrationIsSafe ==
  /\ [](TypeOK /\ RetriedCommandsTakeEffectOnce /\ GrantedRolesExist
          /\ OnlyCurrentMessagesWait)
  /\ ChangesAreAuthorized
  /\ AdministrationKeepsAnAdministrator
=============================================================================
