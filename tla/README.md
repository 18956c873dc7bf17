# Verification of ani-iam

TLA+ models of the identity and access service in `src/`, checked by TLC on small
instances and, where it matters most, proved by TLAPS for every instance. Paths
below are relative to `src/`; `biz/` and `data/` stand for `internal/biz/` and
`internal/data/`.

## 1. The system

IAM is a Go service over one PostgreSQL database, with Redis for short-lived login
state and a NATS JetStream broker. Every write is a READ COMMITTED transaction that
orders itself against others by advisory locks, row locks and optimistic row versions;
several replicas of the process run at once. What makes it hard is therefore rarely a
data structure and mostly what happens between two statements, two transactions, two
processes, or a call and its answer.

| Component | State | Operations | Interacts with | What is hard | What must hold |
|---|---|---|---|---|---|
| Tenant sessions (`biz/session.go`, `biz/authentication.go`, `data/session_postgres.go`, `data/target_slice.go`) | `sessions`, `session_grants`, `refresh_token_families`, `refresh_tokens`, `password_credentials` | login, refresh, tenant switch, logout, reuse detection, reset | online authorization reads its rows; Memberships, Tenant Access and lifecycle close its boundaries | lookups are unlocked and go stale before the commit; the reset uses four statements and no session lock | one lineage of Refresh Tokens; revocation reaches Access Tokens; a reset ends what the old password opened |
| Tenant administration (`biz/tenant_authorization.go`, `biz/tenant_roles.go`, `biz/tenant_workload.go`) | `tenant_memberships`, `tenant_role_bindings`, `tenant_roles`, `workload_principals`, `api_keys`, `tenant_access` | update and remove members, bind, unbind, Role CRUD, Workload and key commands | idempotency ledger; credential lock of the login path | some commands take the administration guard and some do not; checks precede commits | an administrator remains; Roles that are bound exist; keys end with their Workload |
| Idempotency ledger (`biz/idempotency.go`) | `tenant_mutation_results` | lock an identity, replay, insert | every command of the administration | retries while the first attempt runs | one effect per identity |
| Lifecycle projection (`biz/tenant_lifecycle.go`, `data/core_broker.go`) | `tenant_lifecycle_pipelines`, facts, receipts, DLQ | receive an event or heartbeat, quarantine, acknowledge, replay | Governance through NATS; login and refresh read it | loss, duplication, reordering, epochs, clock | facts are the owner's; gaps are noticed; "fresh" means recent |
| Snapshot rebuild (`biz/tenant_snapshot_rebuild.go`, `data/governance_snapshot_rebuild.go`) | rebuilds with generation, page cursor, applied position, authority fingerprint | begin, load page, catch up, activate, abandon | Governance over HTTP; the projection | several coordinators, crashes, expiry, grants that change meanwhile | only complete generations become visible; it finishes |
| Bootstrap (`biz/core_bootstrap*.go`, `data/core_bootstrap*.go`) | the Tenant's operation, its receipts, jobs with leases, attempts, results, the Invitation of the intended administrator, recoveries | announce, claim, work, finish, retry, reissue, accept, request, approve and execute a recovery | the broker and its authority; administration guard | leases that expire under a live worker; a recipient, a reissue and a recovery at once | the intended person is appointed, once; no job lost or done twice |
| Broker authority, DLQ administration (`data/core_broker*.go`, `biz/core_dlq_administration.go`) | bindings, Grants, manifests, approvals; dead letters and replay attempts | apply a manifest, approve a job, replay a message, audit a failure | projection, bootstrap | authority that changes between receipt and use; a commit whose answer is lost | nothing executes across a revocation; a replay is one attempt with one outcome |
| Legacy Core projection and rebuild (`biz/core_lifecycle_projection.go`, `biz/core_snapshot_rebuild.go`) | rows by generation, receipts, rebuild cursor | receive, begin, load, catch up, activate | Core through the broker | order, gaps, authority and aging while a rebuild runs | a switch is exact, never backward |
| Invitations (`biz/invitation*.go`) | Invitations, their Roles and generations, Memberships, passwords | create, resend, cancel, read, expire, accept by Session or password | notification outbox; administration guard; login lockout | the password is verified outside of the lock; acceptance races cancellation, resend and removal | who joins was invited, with Roles that exist, proved by the current password |
| Notification outbox (`biz/identity_notification*.go`) | rows with claim, attempt and outcome | enqueue, cancel, claim, submit, finish | Invitations, Platform Invitations, email codes | lost answers, expired claims | only the current secret is mailed; outcomes count once |
| Password actions (`biz/password_action*.go`), invited accounts | actions, notifications, accounts; challenges | request, deliver, complete; prove an address | sessions (reset); outbox | a purpose that is out of date, replaced actions, guesses | an action is used once, a setup never overwrites, an account is earned |
| Platform sessions and administration, tenant administrator recovery (`biz/platform_*.go`, `biz/tenant_admin_recovery.go`) | Platform Memberships, Roles, Sessions, Invitations, receipts; recoveries and approval references | provision, log in, refresh, reset, commands; request, approve, execute | the Tenant's administrators | authorized in one step, carried out in another; two persons, expiry, single use | authority is current at the commit; four eyes; an administrator remains |
| OIDC flows (`biz/oidc_*.go`) | Redis operations and states, identity links | begin, callback, exchange, finish, link | sessions of both boundaries | four steps over two systems and a provider | states spent once, codes stay with their flow, links current |
| Login throttles, limits, API Key use (`data/login_throttle_redis.go` and others) | Redis buckets, counters and pending uses | check, record, allow, flush | login, invitations, key authentication | counters that expire under a check; a flush that is lost | guessing is throttled; uses are not lost |
| Online authorization (`biz/authorization.go`, `biz/principal_validation.go`) | none; reads rows, appends audit | CheckPermission, ValidatePrincipal | all of the above | unlocked statements with changes between them | "allowed" was true at one instant, and is on record |
| Workload invocation and registry (`biz/workload_*.go`) | Workload tokens, delegations, continuations; bundles, manifests, Grants | issue, verify, admit; install, bootstrap | online authorization | revocation between two checks; lifetimes nested in each other | no use after revocation; a chain of installations |
| Listings (`data/*_query*.go`, `biz/*_query.go`) | none; cursors held by callers | page | every table above | rows come and go between pages | a walk goes forward and misses nothing that was there throughout |
| RPC services, servers, commands, codecs, generated code, SDK | none of their own | translation, wiring | all | nothing that changes state | not modelled |

## 2. Modules

| Module | What it is | Checked by |
|---|---|---|
| `SessionContinuity` | sessions, Tokens, reset and online validation | `MCSessionContinuity`; `SessionContinuityProofs` |
| `TenantAdministration` | administration commands, guard and ledger | `MCTenantAdministration`; `TenantAdministrationProofs` |
| `LifecycleOwner` | *external*: Governance's log, modelled from what IAM accepts of it | with `TenantLifecycle` |
| `LifecycleReplica` | abstract: what readers of the projection are promised | implemented by `TenantLifecycle` |
| `TenantLifecycle` | receiver, projection, DLQ and snapshot coordinators | `MCTenantLifecycle`; `TenantLifecycleProofs` |
| `FirstAdministrator` | abstract: how a Tenant gets its first administrator | implemented by `TenantBootstrap` |
| `TenantBootstrap` | operation, jobs, Invitation, recoveries | `MCTenantBootstrap`; `TenantBootstrapProofs` |
| `NotificationOutbox` | claims, submissions and outcomes of messages | with `Invitations`; `InvitationsProofs` |
| `Invitations` | Invitations of one Tenant with the outbox | `MCInvitations`; `InvitationsProofs` |
| `PlatformSessions` | how people enter and leave the Platform | `MCPlatform`; `PlatformProofs` |
| `PlatformAdministration` | commands of Platform administrators, over `PlatformSessions` | `MCPlatform`; `PlatformProofs` |
| `TenantAdminRecovery` | four-eyes recovery, over `PlatformSessions` | `MCPlatform`; `PlatformProofs` |
| `PlatformSystem` | the three together: each transaction is of one of them | `MCPlatform`; `PlatformProofs` |
| `PasswordActions`, `InvitedAccounts` | setting and resetting passwords, accounts of invited persons | `MCCredentials`; `CredentialsProofs` |
| `OIDCFlows`, `Throttles`, `OnlineAuthorization`, `Listings` | login flows, Redis counters, CheckPermission and ValidatePrincipal, paged lists | `MCCredentials`; `CredentialsProofs` |
| `CoreProjection` | the legacy Core projection: how its rows are written | `MCIntegration` |
| `BrokerAuthority`, `DLQAdministration` | who may use the broker, replays | `MCIntegration`; `IntegrationProofs` |
| `WorkloadInvocation`, `WorkloadRegistry` | tokens, delegations and continuations of Workloads; offline installation | `MCIntegration`; `IntegrationProofs` |

An `MC` module holds symmetry sets, a view, and a variable `part` that selects one
scenario per behaviour: the scenarios bound what happens besides the question asked.
`MCCredentials` and `MCIntegration` put components that share no state (or only
accounts) beside each other; `part` says which of them moves, so that a run is the sum
of its components and not their product.

`PROJECT.json` maps each definition to the lines it models. Definitions commented as a
mutant, or as what the code does not do (`KeepGrantVersion`, `OutcomeOverHole`, ...),
are unused by the specifications: they replace another definition in the mutation tests
of section 7.

### 2.1 SessionContinuity

One Human Principal. A request (`request[r]`) is a lookup followed by a commit:
`LookupRefresh`/`RotateRefreshSession`, `LookupConsumedRefresh`/`RevokeRefreshReuse`,
`LookupLogin`/`CommitLogin`, `LookupLogout`/`LogoutSession`,
`LookupTenantSwitch`/`SwitchTenant` (three ends: new Grant, new Family on a live Grant,
rotation inside a live Family). The lookup keeps what the use case carries to the
transaction: row versions, the boundary it saw and the time it read. The commit
compares with the rows as they are then, and a mismatch leaves `AbandonRequest`.
Transactions on one Session hold its advisory lock and are one action each.

The reset is not atomic here. It holds the credential row, and for `refresh_tokens`,
`refresh_token_families`, `session_grants` and `sessions` in turn takes a statement
snapshot (`ScanRows`), then waits for and holds the matching rows (`HoldRows`), which is
how READ COMMITTED works. `Held...` are the rows that others cannot lock meanwhile, and
`StillActive` is the recheck of an `UPDATE`'s condition on a row it waited for.
`RollbackReset` is a failure at any point.

`Authorized(a)` is the query of online validation. Memberships, Tenant Access and
lifecycle are one `boundary` record per Tenant that the environment opens, closes and
gives a new Membership; signatures and digests are identities.

### 2.2 TenantAdministration

One Tenant. A command is `Open` (locks, reads, checks; a refusal changes nothing and is
no step) and its commit action, one per operation, with everything the transaction
writes: removing a Workload's Membership also disables the Workload, clears its profile
and revokes its keys (`DisableTenantWorkloadForMembership`). `GuardFree` and
`LedgerFree` are the advisory locks held from `Open` to the end. `UpdateTenantWorkload`,
`CreateAPIKey`, `RevokeAPIKey` and `UpdateAccess` take no guard, as in the code, and are
protected by row locks and versions only. Deferred constraints of the schema that repeat
a rule of the code are properties, not guards. `ToggleCredentialLock` is the login path
locking a password.

### 2.3 TenantLifecycle

`LifecycleOwner` keeps `event[e][s]`, the `history` of all facts after each event and
the current `epoch`; `StartEpoch(from)` begins an epoch with the facts at the end of
the previous one or, when `Restores` allows (a database restored from a backup), at an
earlier point of it.

A receiver takes an unacknowledged message (`Receive`, one transaction: authority,
de-duplication, projection, receipt), may be refused (`ReceiveRefused`, then
`Quarantine`), and acknowledges (`Ack`). `LoseDelivery` is a crash or a lost acknowledgement. Messages not acknowledged
may be delivered any number of times in any order; JetStream with one pending message
does less, so this over-approximates.

A worker runs `ReconcileNext`: `ResumeBuild` or `StartRecovery`, `BeginSnapshot` (asks
Governance under a request key) or `BeginKnown` (asks again under the same key),
`SaveBuild`, `LoadPage`, `CatchUp`, `Activate`, each a transaction of its own, with
`AbandonBuild` where the code finds the rebuild unavailable. `GiveUp` is an error or a
timeout, `Crash` loses the worker's memory including its request key. Durable builds
survive both.

The model has one clock: database, IAM and Governance time agree. Snapshot identities
are reused once nothing refers to them, so that two are enough. Reasons of a change,
the `published` watermark and audit rows are left out.

`ReplicaImplemented` says that what readers see implements `LifecycleReplica`: at each
step the view is some point of the owner's log and no Tenant's version goes back, also
across epochs.

### 2.4 TenantBootstrap

One Tenant. `Receive` is the durable receipt of Core's message. A dispatcher
discovers a job, claims it (`ClaimJob`: lease, attempt number), works (the Invitation of
the intended person, or its end: `ExpireInvitation`) and finishes (`Finish`: the
attempt, the next state of the job, the result for Core), each in a transaction under
the administration guard; `Crash`, `LeaseElapses` and a late `Finish` interleave.
The recipient accepts; a Platform administrator reissues the Invitation or retries a
job that needs attention; a recovery is requested, approved under a reference and
executed, and replaces the intended person. `Holder` and `ApprovedPeople` map this state
to `FirstAdministrator`: one person is ever appointed, the one Core named, by accepting,
or one that a second administrator approved.

### 2.5 Invitations and NotificationOutbox

Commands on Invitations hold the administration guard and are one action each.
Accepting by password is two: the credential is read and verified without a lock
(`proof`), the acceptance reads it again and compares. A resend raises the generation
and cancels the delivery of the previous one. The outbox is its own module because
Platform Invitations and email codes use it too: claim, look at the parent, submit,
finish, with a lease in between.

### 2.6 The Platform

`PlatformSessions` is the boundary of the Platform: provisioning of the first
administrator (an intent that an operator names and an OIDC login fulfils), logins,
rotation, reuse, reset and the lookup that decides whether an access token has authority
now. `PlatformAdministration` and `TenantAdminRecovery` use that lookup twice: when the
capability is issued and in the transaction that uses it. `PlatformSystem` composes the
three: people, credentials and Sessions are shared, each transaction is of one of them.

### 2.7 Credentials

`PasswordActions` keeps accounts, actions and notifications; `InvitedAccounts` adds
challenges over the same accounts. Both have their dispatchers: a password action is
sent once it is claimed, the code of a challenge is claimed, looked at in a statement of
its own (`CheckAccountVerification`, which cancels what is not current) and then sent. `OIDCFlows` has the four steps of a flow with Redis
and the provider. `Throttles` has the Redis scripts with what is left of their expiry.
`OnlineAuthorization` is one request as the sequence of its statements against facts
that change between them.

`Listings` walks tables by cursor while rows come and go. Callers present their own
cursors or each other's. A cursor is compared with the request in the fields it carries
and in no other: the bare identities of Sessions and of the lists of a Tenant carry none,
so they are accepted for another filter, by another caller, after another Tenant's page,
or without having been issued at all. A walk therefore remembers where its present
question was first asked (`start`). A page of the Platform's audit trail is an event of
that trail, whose identity is made with the server's own clock and may fall anywhere
among the others.

### 2.8 Integration

`CoreProjection` is how Core's messages and rebuilds write the rows of the Core pipeline.
`ReadShadowTenant` is not in it: its query reads the view
`tenant_current_lifecycle_facts`, which is Governance's (`TenantLifecycle`), see section 5.
`BrokerAuthority` is the
manifests, bindings, Grants and approvals a Bootstrap worker depends on;
`DLQAdministration` the replay, its lost answer and its audit-only second transaction.
`WorkloadInvocation` reads a credential's rows again one check per step, while keys and
Session Grants are revoked (`RevokeSubject`), bundles installed (`InstallRegistry`) and
identities and grants revoked and restored (`OwnerChanges`, external: the program has no
command for it, the integration tests do it with SQL). Only the paired authority of a
snapshot reader is read at one instant; for the other checks the property says that no
row is older than the request. Every change raises the version of its row; SQL of an
owner that restores a grant without doing so would bring old tokens back.
`WorkloadRegistry` installs bundles over their predecessor and consumes one manifest per
environment. It begins with a new database: one that had grants before the registry was
introduced starts from disabled rows under the zero digest
(`migrations/202609140001_workload_target_registry.sql:18`), and its first installation
names that digest.

## 3. Runs

None of the specifications can get stuck because of the code; the bounded instances end
when identities or bounds are used up, hence `CHECK_DEADLOCK FALSE` everywhere. Most
properties are conjunctions of parts named for one idea each; the comment at each part
says what it is about.

| Run | Bounds that matter | Shows |
|---|---|---|
| `sessions` | 1 to 2 Sessions, 2 Grants, 3 Families, 3 Tokens or 4 of one Family, 2 requests; scenarios: boundaries close, Memberships are replaced, two resets, a clock to 4 with lifetimes 2, 3, 4 and stall 1 | `LineageIsLinear`: one lineage, consumed in order. `AcceptedAccessIsLive`: reuse detection cuts off the Access Tokens of its Family, and authorization, which reads no deadline, needs none. `ActiveSessionHasCurrentPassword`: a reset ends what the old password opened. `GrantsEndWithTheirSession`, also at logout. `RowsChangeLawfully`: nothing revoked revives, and no Token is minted for a boundary that closed |
| `tenants` | 2 Humans, 1 Workload, 3 Memberships, 1 custom Role, 2 keys, 2 transactions, 2 idempotency keys; administrators, Roles or Workloads | `AdministratorRemains` (without lockable passwords, see section 5), `ReferencesHold` (Roles, keys, profiles), `OneRowPerCommand`, `CommandsAreLawful` |
| `lifecycle` | 2 Tenants, 2 Snapshots, 2 coordinators, 2 epochs with restores, 2 events; or changes of grants; or 2 heartbeats and a tick | `ProjectionIsFaithful`: facts are the owner's, a gap is noticed, no false conflict, "fresh" means recent. `AckedIsDurable`, `ReplicaImplemented`, `ActivationUnderAuthority` |
| `lifecycle_liveness` | 1 epoch, 2 events, 1 expired build | `EventuallyCaughtUp` under `FairSpec` |
| `bootstrap` | 2 persons, 2 dispatchers and retries, or 1 dispatcher and 2 recoveries over 1 reference; 2 generations | `AppointmentIsIntended`, `JobsAreAccountable`, `AppointsOnce` (the refinement of `FirstAdministrator`), `WorkIsNeverForgotten` (liveness) |
| `invitations` | 2 persons, 2 Invitations, 2 dispatchers, 2 generations, 1 removal; recipients or dispatchers | `InvitationsAreHonoured`, `MessagesAreCurrent`, `LateResultsAreDropped` |
| `platform` | 2 persons, 2 Sessions, 2 recoveries, 2 Invitations; six scenarios from an empty Platform | `PlatformEntryIsGuarded`, `AdministrationIsSafe`, `RecoveryIsFourEyed` |
| `credentials` | ten parts, each with two identities of what may race; lists of 3 rows (the Platform's audit trail 4, 2 of them at first) in pages of 1, so that every walk has a second page to continue and its pages' own events a place before, between and behind; astray cursors and second readers in one list of each shape | `AnswersAreSound`, `WalksAreFaithful`, `PasswordsAreProtected`, `InvitedAccountsAreEarned`, `FlowsAreSafe`, `ThrottlesHold` |
| `integration` | ten parts: a log of 3, 2 rebuilds, authority to version 3; 3 replays; 2 callers and receivers; 3 installations | `RegistryIsConsistent`, `ShadowIsFaithful`, `AuthorityIsFenced`, `ReplaysAreAccountable`, `InvocationsAreAuthorized` |
| `switch_membership`, `last_administrator`, `epoch_forgotten` | | violations, section 5 |

Why the bounds are enough: the races are between two transactions over the rows of one
Session, Tenant or request, so two actors in flight, two boundaries and one row more
than a single one uses reach every pairing; the third Family is what lets an ended one
be followed by a new one. In the lifecycle two events make a gap, two epochs a change of
epoch, two Snapshots one rebuild that supersedes another, two Tenants a page that is
only part of a Snapshot, and `Batch = 1` several catch-ups. Two generations of an
Invitation are one that is replaced; two attempts of a message one that is retried. The
scenarios exist because time, grants, heartbeats and coordinators multiply each other:
each opens what some property is about. What is checked within these bounds is, for the
properties of section 6, also proved without them.

The run `lifecycle` identifies states that differ only in what is left of a Snapshot
nothing refers to any more (`View`): no action and no property reads it before
`BeginSnapshot` overwrites it. Symmetry is used for identities that no `CHOOSE` result
depends on up to renaming and never where liveness is checked. `CONSTRAINT Scenarios` of
`invitations` cuts states that leave both explorations and is not combined with
liveness.

## 4. Fairness

Safety needs none, and the session and administration modules have none: clients may
stop at any time.

`TenantLifecycle!Fairness` is what the run loop of `cmd/server/core_lifecycle.go` (it
retries for ever) and the consumer's `MaxDeliver = -1` give:

- strong fairness for the receipt of a message not retained yet: an unacknowledged
  message is delivered again and again, and a lost delivery cannot win every time;
- strong fairness for `BeginSnapshot`, `BeginKnown`, `SaveBuild`, `LoadPage`, `CatchUp`
  and `Activate`: calls and transactions that are tried again and again succeed once;
- weak fairness for taking up work, for the 5 s timeout of a call, for a receiver
  finishing what it received, and for Governance calling an old request key expired.

`MCTenantBootstrap!MCFairness` is weak fairness of each running dispatcher's loop
(`CoreBootstrapDispatcher.RunObserved` never ends) and of a lease running out (the clock
does not stop). Recipients and administrators need do nothing.

Nothing is assumed of Governance sending events, of administrators, or of durable builds
expiring. `EventuallyCaughtUp` is checked within one epoch and without changes of
grants: across epochs progress depends on the next message of the new epoch (see
`epoch_forgotten`), and after a revoked grant on an administrator.

## 5. Where the repository says otherwise

Each is a run expected to violate what a document or comment states.

- `switch_membership`: ADR 0011 says a switch revalidates the Membership.
  `tenantSwitchStateFromLookup` copies the Membership just looked up into the target
  Grant, so the comparison never fails and a Grant of a removed Membership is reused.
- `last_administrator`: `biz/tenant_authorization.go:20` says the last administrator
  cannot be removed. One whose password is locked after failed logins is not counted.
- `epoch_forgotten`: `biz/tenant_lifecycle.go:127` says a snapshot is mandatory when an
  epoch changes. `ActivateTenantSnapshot` clears `snapshot_required` although a message
  of a newer epoch set it meanwhile; readers stay at the old epoch until another message
  of the new one arrives.

Observations without a run of their own:

- A tenant switch that commits between a reset's statement for Families and the one for
  Sessions leaves an active Refresh Token Family under a revoked Session, although ADR
  0012 says that a reset revokes every Family. Refresh, switch and `Authorized` all
  require the Session, so no access follows.
- `CheckPermission` takes a stale lifecycle for an unavailable dependency, without an
  audit event; `ValidatePrincipal` records a failure. A Platform token at a tenant
  operation is refused without an event by the one and with one by the other.
- The time an API Key's expiry is compared with is taken before its lookups
  (`query.now`), so a key may be accepted that expires during them.
- Continuations are issued without an audit event of their own.
- Two heartbeats with one timestamp: the second counts as the older.
- A row committed late with a smaller identity is missed by a walk that has passed it
  (`WalksAreComplete` is about rows that were there throughout).
- The cursors of Sessions and of a Tenant's lists are bare identities
  (`internal/service/iam_admin.go:605`, `biz/session_query.go:46`): a page that is continued with
  another filter begins in the middle of its question. The query still selects by the
  caller's own Tenant or Human.
- Each page of the Platform's audit trail appends an event to it. The next page is behind
  older events, so it shows that one only when the clock of the server that made it was
  behind: nothing in the query excludes it.
- A dispatcher that has claimed a password action's notification, or has found the code
  of a challenge current, sends it although the action was replaced or the challenge
  closed meanwhile (`biz/password_action_notification.go:99`). The token is dead then; the
  properties say that no dispatcher claims it afterwards.
- `ReadShadowTenant` (`data/core_lifecycle_projection.go`) reads
  `tenant_current_lifecycle_facts`, which
  `migrations/202609160001_governance_integration.sql:138` defines over Governance's
  rows, while its comment at line 136 says that the view "does not replace the current
  reader yet" and `tests/integration/wr23_lifecycle_projection_test.go:135` expects
  Core's rows from it. `ShadowIsFaithful` is about the rows and says nothing of this
  reader.
- `CatchUp` of the Core rebuild (`data/core_snapshot_rebuild.go`) moves
  `applied_through` over a hole; `cmd/server` does not start that rebuild.

## 6. Proofs

For every value of the constants that satisfies the named assumptions. The inductive
invariants were checked with TLC on the instances of the runs before they were proved.

**`SessionContinuityProofs`** proves `Types`, `Uniqueness` (`OneActiveLineage`),
`RevocationReachesAccess` (`AcceptedAccessHasLiveFamily`), `GrantLifetime`
(`GrantEndsWithSession`) and `ResetEndsSessions` (`ActiveSessionHasCurrentPassword`),
from `LifetimeAssumption` and `NoneAssumption`. The inductive invariant `IInv` adds to
these properties:

- `Integrity`: references between rows, requests, Access Tokens and the reset are to
  rows that exist. Without it "the Session of a Token" means nothing;
- `AccessLive`: an Access Token's Grant version is not ahead of the Grant, and is behind
  it unless its Family is active or its Session revoked. This is what reuse detection
  and Family replacement maintain by raising the version;
- `LoginsCurrent`: a login that carries the current credential version carries the
  current password, so the comparison at commit is enough;
- `ResetCovers`: once the last statement of a reset has its snapshot, every active
  Session is in it, since logins need the credential row that the reset holds.

Each action is first shown `Sound`: rows only grow and age. The parts of the invariant
follow from `Sound` once for all actions.

**`TenantAdministrationProofs`** proves `Types`, `RolesAreNotOrphaned`,
`ActorIsAdministrator`, `LastAdministratorStays`, `KeysEndWithWorkload`,
`ProfileNamesMembership`, `RetriesCreateOnce` and `EndsAreFinal` from
`PrincipalAssumption`. `LastAdministratorStays` also assumes `Lockable = {}`: with
lockable passwords it is false (`last_administrator`). The common idea is
`GuardHeldOnce`: one open transaction holds the guard, so what a guarded command checked
(`RoleChecks`, `DemotionChecks`, `TargetChecks`) still holds when it commits, because
only guarded commits could change it. `UnguardedCommit` states what the others leave
alone. `IdentityHeldOnce` and `OriginsSaved` play the same part for the ledger.

**`TenantLifecycleProofs`** proves `Types` and `Durability` (`AckedIsDurable`) from
`OwnerAssumption` and `LifecycleAssumption`. Types are not inductive alone: `InHand` says
that a process between two steps of its loop carries what the next one needs (a
receiver that will quarantine has a message and a reason, a coordinator that will save
has a Snapshot), and `receipts` is finite, so that the increments of a `CatchUp` can be
counted. That its result is a position of the log follows from the last increment: it
fits, so some retained message has that number. `DurableInv` adds to `AckedIsDurable`
that a receiver about to acknowledge holds a message that is kept; receipts and the
quarantine only grow.

The second part of **`TenantLifecycleProofs`** goes on from there and proves `FaithfulnessTheorem`
(`ProjectionIsFaithful`), the action property `AuthorityTheorem`
(`ActivationUnderAuthority`) and the refinement `ReplicaTheorem`
(`Spec => ReplicaImplemented`). The inductive invariant `FaithInv` speaks about the
owner's log, the messages, the projection and the build:

- `LogInv`: an event leads to the next version of one Tenant by an allowed transition
  (`Logged`), and a Tenant that no event between two positions is about is the same at
  both (`Unmentioned`). The latter is an invariant of the log rather than an induction
  over it; with it a rebuild that replays increments (`Replayed`) ends at its position
  because only the last increment about each Tenant counts, and `LastExists` says there
  is one;
- `MessageInv`: heartbeats of an epoch report watermarks that grow with their time
  (`BeatsAreOrdered`) and cover every event older than themselves (`CoveredBy`). The
  first is why no heartbeat looks like a conflict, the second why fresh means recent;
- `PipelineInv`: without a generation a Snapshot is required (`Positioned`), so nothing is
  applied to facts nobody sees; the heartbeat the row holds is one of its epoch, and
  `highest` is at least every number received of that epoch (`HighestCovers`), which is
  what makes a hole visible;
- `CutsAreCommitted` and `BuildIsFaithful`: a build is at a position of the log and every
  increment between its Snapshot and that position was received under the grant the
  build began with (`IncrementsReceived`).

The owner's steps are shown to keep every position that was there (`OwnerGrows`) once,
and what is said of messages, projection and build follows from that. For the refinement
`StepKinds` leaves three kinds of steps; an applied event shows readers the next position
(`NextCovers`), an activation one that `TenantSnapshotCoversCurrent` admits
(`SnapshotCovers`), also when the owner was restored to an older state.

The second part of **`SessionContinuityProofs`** builds on `Invariance` and proves `LineageTheorem`
(`LineageIsLinear`), `AccessTheorem` (`AcceptedAccessIsLive`), `LogoutTheorem`
(`GrantsEndWithTheirSession`) and the action property `HistoryTheorem`
(`RowsChangeLawfully`). `HInv` adds:

- `HeldActive`: a reset revokes at its end the rows it found and locked long before
  without looking again, so nobody may have changed them since;
- `Blank`: a row never written has version 0 and refers to nothing;
- `Timely`: the clock readings a request carries are of the past, and an Access Token is
  over before its Session. This rests on `MaxStall`, the bounded time a request takes.

Each action is shown `Careful`, the list of what a step may do to a row (`TokenChanges`,
`FamilyChanges`, ...); the invariant and the action property follow from that list.

**`TenantBootstrapProofs`** proves `Typing`, `Appointment` (`AppointmentIsIntended`),
`Accountability` (`JobsAreAccountable`) and `Refinement` (`Spec => AppointsOnce`) from
`BootstrapAssumption`. `BInv` adds what the rows of a recovery hold in each status
(`Recorded`); that the attempt a dispatcher holds is at most its job's and held by
nobody else (`ClaimsAreNumbered`), which is what makes a late `Finish` harmless; that an
open job has an attempt left in its cycle (`AttemptsLeft`); and `ExpiriesAreDue`: an
expiry that was ever attempted is due or replaced. Without the last, an attempt that
finds nothing to do would put the job back and take an attempt of the cycle with it. For
the refinement every action is a step of `FirstAdministrator` or leaves `holder`,
`intended` and `approved` alone; `Holder` is well defined because `admins` has at most
one member in `BInv`.

**`InvitationsProofs`** proves `TypesTheorem`, `HonouredTheorem`
(`InvitationsAreHonoured`), `CurrentMessagesTheorem` (`MessagesAreCurrent`) and the
action property `LateResultsTheorem` (`LateResultsAreDropped`), with the outbox, from
`InvitationsAssumption`. `IInv` adds to what the run checks:

- `Counted` and `Dated`: a person has one Membership row more than removals while he is
  active, and an Invitation is never dated after them. So the Invitation that is accepted
  has the date of the row it opens, and `Honoured` says that all earlier ones are older:
  this is why nobody can join twice on one of them, also after it was sent again;
- `SubmissionsCounted`: the submissions made and the dispatchers that may still submit
  (`Holders`) together are at most the row's attempts. The bound on submissions alone is
  not inductive, a dispatcher whose claim was taken over may be about to submit;
- `Reported`: who is about to record a delivery has submitted the message;
- `Unlocked`: a credential that is not locked has a failure left.

Every command on Invitations is shown to be a `Moves(over, fresh)`, a set that ends and
a set that gets a new generation, with the references and messages that go with it; roles
and outbox are argued about once, for that form.

**`PlatformProofs`** proves of `PlatformSystem`, from `PlatformAssumption`,
`NoneAssumption`, `GenerationAssumption` and `RecoveryAssumption`: `EntryTheorem`
(`PlatformEntryIsGuarded`), `AdministrationTheorem` (`AdministrationIsSafe`) and
`RecoveryTheorem` (`RecoveryIsFourEyed`), the last two with their action properties.
`IInv` is the conjunction of one invariant per module. It adds to what the run checks:

- `Versioned`: a Grant's version is raised once when its Family is revoked and once when
  it is revoked itself. With `TokensBehind` (the tokens of a revoked Family are behind
  the Grant, or their Session is revoked) this is why reuse ends access;
- `PasswordsCurrent`: an active Session that a password opened has the current hash. A
  login compares the credential under its lock, a reset ends every Session of the
  person, and neither alone would do;
- `FailuresLeft` and `MembersNumbered`: counters agree with the states they lead to;
- `Chain`: intents replace each other one by one and only the last may be open. That one
  person at a time is intended is not inductive without it;
- `Complete`: what a waiting command names still exists when it is carried out;
- `Receipted`: what took effect has a receipt, so the lookup under the guard finds it;
- `Referenced`: the roles of an open Invitation have reference rows. `DeleteRole` looks
  at those rows, `GrantedRolesExist` is about the roles themselves;
- `ApprovalsNamed`: an approved recovery has its approval reference.

Operations on Sessions are first shown to make every row `Weaker` (`SessionsMove`), those
on Invitations to replace references and messages together (lemma `InvitationsMove`). A step of the system is then shown to keep
each part of `IInv`, and to be `Authorized`, to have an `AdministratorLeft` unless
credentials change, and to restore (`Restores`) only what is missing: these are the
action properties.

**`IntegrationProofs`** proves four components, each with an invariant of its own:

- `RegistryTheorem` (`RegistryIsConsistent`), from `RegistryAssumption` and
  `MissingAssumption`. `RegistryInv` adds `RowsAreOfTheLastBundle`, that the rows are
  those of the bundle installed last and all of them, without which an installation that
  compares with its predecessor says nothing about the rows, and `ManifestsAreConsumed`.
  It is about databases that begin without registrations (section 2.8);
- `BrokerTheorem` (`AuthorityIsFenced`), from `BrokerAssumption`. `BrokerInv` adds that
  versions are counted and that what was received or approved (`SourceIsFenced`,
  `ApprovalsAreFenced`) is never ahead of the authority, and level with it only if nothing
  changed since: this is why comparing a version at the end of a request is enough;
- `ReplaysTheorem` (`ReplaysAreAccountable`), from `DLQAssumption`. `DLQInv` adds
  `Numbered` (the attempts of an entry are numbered from 1 to its count, one per request),
  `RequestsKnow` (what each step may say of its attempt: "uncertain" means that the
  attempt did commit), `LedgerIsExact` and `Audited`;
- `InvocationsTheorem` (`InvocationsAreAuthorized`), from `InvocationAssumption`.
  `InvocationInv` adds `RequestsOK`, that what a request has read by each of its steps is
  `Fresh`, no version is older than the row was when the request began, and
  `CredentialsOK`, where every token, delegation and continuation comes from and that
  each ends no later than what it was issued for.

**`CredentialsProofs`** proves the components of the credentials run:

- `OnlineTheorem` (`AnswersAreSound`), from `OnlineAssumption`. `OnlineInv` adds what was
  proven by each step of a request (`StepsKnow`) and that a request which has seen all
  facts hold at one instant keeps that (`TogetherIsKept`, `AllowedIsKept`), although the
  rows go on changing under its later statements;
- `ThrottleTheorem` (`ThrottlesHold`), from `ThrottlesAssumption`. The bound on guesses is
  not inductive: a login that passed the check may still fail after the bucket filled up.
  `LoginsOK` counts it beforehand, failures and logins under way of one bucket together
  stay below `Limit` plus the number of clients, and a bucket at the limit blocks for as
  long as it lives. `UsesOK` bounds how far a saved batch of key uses lags behind;
- `OIDCTheorem` (`FlowsAreSafe`), without assumptions. `OIDCInv` adds to the types that a
  flow's operation is gone, that a state has one flow, and that the claims are what the
  operation said (`FlowsOK`);
- `PasswordTheorem` (`PasswordsAreProtected`) and `InvitedTheorem`
  (`InvitedAccountsAreEarned`), from `PasswordActionsAssumption`, `RequestAssumption` and
  `InvitedAccountsAssumption`, of `AccountsSpec`, in which the two modules take steps on
  the accounts they share. `AccountsInv` adds that a credential's version is at most one
  more than the actions spent on it, that a completed request has consumed its action,
  and that a pending challenge has a guess left. That no dispatcher takes up a
  notification that was closed is an action property: `SendersFade` shows that the set of
  those who hold it only shrinks;
- `WalksTheorem` (`WalksAreFaithful`), from `ListingAssumption`. By `ListingInv` every
  walk, also one in the middle of reading a page of Roles, is `Walked` up to its cursor
  (all that it owes up to there was shown and nothing behind it) or `Finished`. What it
  owes (`Owed`) lies ahead of where its present question was first asked: a bare cursor
  from elsewhere, or of another filter, begins a new debt at that place and keeps the
  order. Where the cursor names its question that place stays the first row, and `Asker`
  says the same of its caller and policy revision. Ascending
  lists and lists with the newest first are argued about once, over the order `Precedes`.
  That a page has its rows in order rests on `Ranks`: the rank of a row in a finite set
  is an injection into `1..Cardinality`, and so hits every place.

Not proved, and checked with TLC only:

- `ShadowIsFaithful` of `CoreProjection`: its `CatchUp` folds over the received events,
  and what a fold computes needs an induction over data, which the provers cannot do;
- `EventuallyCaughtUp` and `WorkIsNeverForgotten`: the proof system has neither `ENABLED`
  nor fairness, so all liveness stays with TLC;
- what the violation runs refute (`SwitchBindsRevalidatedMembership`,
  `NewEpochRequiresSnapshot`, and `LastAdministratorStays` with lockable passwords) is
  false of the code.

## 7. Mutation tests

Every property of every passing run is violated when one mapped definition is replaced
by the mutant that `PROJECT.json` names for it: a dropped guard, a version not raised, a
forgotten ledger entry, an event applied over a hole, a freshness measured from receipt,
and so on.

## 8. Not modelled, and the plan

Not modelled: RPC translation, servers and wiring, token codecs and protectors,
generated code and the SDK (no state of their own); permission evaluation (pure
lookups); two different clocks; deadlocks between row locks taken in different orders
(the reset and a switch), which PostgreSQL breaks by failing one of them, and a failed
transaction is in every model.

Left of the plan: `ShadowIsFaithful` for every instance, by an invariant of the received
events that makes the induction over `CatchUp` unnecessary, the way `Unmentioned` does it
for `TenantLifecycle`.
