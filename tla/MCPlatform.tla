----------------------------- MODULE MCPlatform -----------------------------
EXTENDS PlatformSystem

CONSTANTS ann, bob, s1

\* The scenario that is explored.
VARIABLE part

TenantUntouched ==
  /\ \A o \in Recoveries : recovery[o].status = "none"
  /\ \A x \in References : reserved[x] = None
  /\ \A p \in People : tenantMember[p] = "none"
\* Nobody was given the role for recoveries, and the Tenant does not change.
NoRecovery == TenantUntouched /\ (~role[RecoveryRole].present \/ ledger # {})
NoCommands == caps = {} /\ ledger = {} /\ \A i \in Invites : inv[i].status = "absent"
Idle == NoRecovery /\ NoCommands
NoPasswords == \A p \in People : attempt[p] = None /\ cred[p].version = 0
Ran(ops) == /\ \A k \in caps : k.command.op \in ops
            /\ \A e \in ledger : e.command.op \in ops
FirstSessionsOnly == \A s \in Existing : session[s].token = 1 /\ session[s].fresh

\* One Session of one person: tokens, passwords and their deadlines.
OneSession == Idle /\ Existing \subseteq {s1} /\ attempt[ann] = None /\ cred[ann].version = 0

\* An empty Platform.
Founding == Idle /\ NoPasswords /\ FirstSessionsOnly /\ Cardinality(human) < 2

\* One Session each, with its access token.
OneSessionEach ==
  /\ FirstSessionsOnly
  /\ \A s, u \in Existing : session[s].person = session[u].person => s = u
  /\ \A s \in Existing : \E t \in access : t.session = s
  /\ \A s \in Existing : ~session[s].over /\ session[s].status = "active"

\* Two administrators change each other's Membership, while passwords lock.
Colleagues ==
  /\ NoRecovery /\ Ran({"update", "unbind"}) /\ OneSessionEach
  /\ Cardinality(ledger) < 2 \/ caps = {}
  /\ attempt[ann] = None /\ cred[ann].version = 0 /\ cred[bob].hash = 1
  /\ \A s \in Existing : session[s].person = IF s = s1 THEN ann ELSE bob
  /\ \A i \in Invites : inv[i].status = "absent"

\* One Session at most, commands one at a time, and no password moves.
OneAdministrator ==
  /\ NoRecovery /\ NoPasswords /\ OneSessionEach /\ Existing \subseteq {s1}
  /\ \A s \in Existing : session[s].person = ann
  /\ Cardinality(caps) < 2

\* Roles and Invitations; a lost answer may repeat a command.
Office ==
  /\ OneAdministrator /\ Cardinality(ledger) < 4
  /\ Ran({"createRole", "deleteRole", "invite", "resend", "cancel", "readInvitations"})
  /\ \A i \in Invites : inv[i].status = "absent" \/ Admin \notin inv[i].roles

\* A role changes, and the access of a Tenant.
Desk == OneAdministrator /\ Ran({"createRole", "updateRole", "access"})

\* A colleague is removed and invited again.
Return ==
  /\ NoRecovery /\ OneSessionEach /\ Cardinality(caps) < 2
  /\ Ran({"update", "bind", "invite"})
  /\ \A p \in People : cred[p].version = 0 /\ (attempt[p] # None => p = bob /\ attempt[p].valid)
  /\ \A k \in caps : k.command.person = bob

\* Two administrators restore an administrator of the Tenant.
Recovering ==
  /\ NoCommands /\ role[RecoveryRole].present
  /\ OneSessionEach /\ (Cardinality(Existing) < 2 => TenantUntouched)
  /\ attempt[ann] = None /\ cred[ann].version = 0 /\ cred[bob].hash = 1
  /\ \A s \in Existing : session[s].person = IF s = s1 THEN ann ELSE bob
  /\ \A o \in Recoveries : recovery[o].target # ann /\ (recovery[o].over => recovery[o].reference = None)
  /\ tenantMember[ann] \in {"none", "active"}
  /\ Cardinality({o \in Recoveries : recovery[o].status # "none"})
       + Cardinality({x \in References : reserved[x] = "bootstrap"}) < 3

\* Everything starts from an empty Platform.
Scenario ==
  \/ part = "session" /\ OneSession
  \/ part = "colleagues" /\ Colleagues
  \/ part = "office" /\ Office
  \/ part = "desk" /\ Desk
  \/ part = "return" /\ Return
  \/ part = "recovery" /\ Recovering
  \/ Founding

\* The steps within a scenario.
MCInit ==
  /\ SystemInit
  /\ part \in {"session", "colleagues", "office", "desk", "return", "recovery"}
MCNext == UNCHANGED part /\ SystemNext /\ Scenario'
MCSpec == MCInit /\ [][MCNext]_<<systemVars, part>>
=============================================================================
