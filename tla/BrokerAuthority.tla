---------------------------- MODULE BrokerAuthority ---------------------------
(***************************************************************************)
(* Who may publish, receive and execute on a Core broker route, and what   *)
(* that allows a Bootstrap worker to do: data/core_broker.go and           *)
(* data/core_broker_recovery.go.                                           *)
(*                                                                         *)
(* A restricted provisioner applies offline manifests that register the    *)
(* two NKey bindings and the route and then change bindings and Grants,    *)
(* each change against the version it names.  A Bootstrap source keeps the *)
(* authority it was received under; after any change of that authority the *)
(* worker needs the approval of a platform administrator for the exact     *)
(* job, and the approval names the authority that was current.  All these  *)
(* transactions hold the broker authority lock, so each is one step.       *)
(***************************************************************************)
EXTENDS Naturals, FiniteSets

CONSTANTS
  Manifests,     \* manifest ids
  MaxVersion,    \* bound on the versions of Principals, bindings and Grants
  MaxGeneration, \* bound on Bootstrap invitations
  MaxRecovery,   \* bound on retries of one job
  Absent

VARIABLES
  principals,   \* workload Principals of the producer and of the consumer
  bindings,     \* core_broker_bindings, of the same two
  brokerGrants, \* core_broker_grants, by action
  registered,   \* core_broker_routes holds the route
  applied,      \* core_broker_administration_receipts: id -> manifest
  source,       \* authority the Bootstrap event was received under, or Absent
  jobs,         \* the operation's jobs: state and latest recovery
  generation,   \* current invitation of the operation, 0 before initialization
  approvals,    \* tenant_bootstrap_broker_approvals
  unbroken,     \* history: the authority has not changed since the reception
  backed        \* history: jobs approved since the last change of authority

identity == <<principals, bindings, brokerGrants, registered>>
work == <<source, jobs, generation, approvals>>
brokerVars == <<identity, applied, work, unbroken, backed>>

Sides == {"producer", "consumer"}
Actions == {"publish", "receive", "execute"}
BindingOf(action) == IF action = "publish" THEN "producer" ELSE "consumer"

Jobs == {<<"initialize", 1>>} \cup {<<"expire", g>> : g \in 1..MaxGeneration}
NoBrokerRow == [status |-> "absent", version |-> 0]
NoJob == [state |-> "absent", recovery |-> 0]

BrokerInit ==
  /\ principals = [s \in Sides |-> [status |-> "active", version |-> 1]]
  /\ bindings = [s \in Sides |-> NoBrokerRow]
  /\ brokerGrants = [a \in Actions |-> NoBrokerRow]
  /\ registered = FALSE
  /\ applied = [m \in Manifests |-> Absent]
  /\ source = Absent
  /\ jobs = [j \in Jobs |-> NoJob]
  /\ generation = 0
  /\ approvals = {}
  /\ unbroken = FALSE
  /\ backed = {}

(***************************************************************************)
(* The current authority of the route.                                     *)
(***************************************************************************)
ReadCurrentCoreBrokerGrant(a) ==
  /\ registered
  /\ brokerGrants[a].status = "active"
  /\ bindings[BindingOf(a)].status = "active"
  /\ principals[BindingOf(a)].status = "active"

current == \A a \in Actions : ReadCurrentCoreBrokerGrant(a)

coreBrokerAuthority(a) ==
  <<principals[BindingOf(a)].version, bindings[BindingOf(a)].version, brokerGrants[a].version>>

fingerprint == [a \in Actions |-> coreBrokerAuthority(a)]

(***************************************************************************)
(* Manifests.  One is applied at most once; another content under the same *)
(* id is a conflict.  A manifest of several changes is here one of each    *)
(* change: they are applied one after the other in one transaction.        *)
(***************************************************************************)
CoreBrokerBindingChange(s, status, expected) ==
  [mode |-> "bindings", of |-> s, status |-> status, expected |-> expected]
CoreBrokerGrantChange(a, status, expected) ==
  [mode |-> "grants", of |-> a, status |-> status, expected |-> expected]
Register == [mode |-> "register", of |-> Absent, status |-> "active", expected |-> 0]

ManifestChanges ==
  {Register}
  \cup {CoreBrokerBindingChange(s, st, v) :
          s \in Sides, st \in {"active", "revoked"}, v \in 1..MaxVersion - 1}
  \cup {CoreBrokerGrantChange(a, st, v) :
          a \in Actions, st \in {"active", "revoked"}, v \in 0..MaxVersion - 1}

\* CoreBrokerProvisionManifest.Validate
ValidManifest(c) == c.mode = "grants" /\ c.expected = 0 => c.status = "active"

ReadCoreBrokerAdministrationReceipt(m) == applied[m] # Absent
ReadCoreBrokerProvisionedPrincipal(s) == principals[s].status = "active"
ReadCoreBrokerRegisteredRoute == registered
ReadCoreBrokerRegisteredBinding(s) == bindings[s].status # "absent"

RegisterCoreBrokerBinding == [s \in Sides |-> [status |-> "active", version |-> 1]]
RegisterCoreBrokerRoute == TRUE

Changed(row, status) == [status |-> status, version |-> row.version + 1]

ChangeCoreBrokerBinding(c) ==
  /\ bindings[c.of].version = c.expected /\ bindings[c.of].status # c.status
  /\ bindings' = [bindings EXCEPT ![c.of] = Changed(@, c.status)]

AuthorizeCoreBrokerGrant(c) ==
  /\ brokerGrants[c.of].status = "absent"
  /\ brokerGrants' = [brokerGrants EXCEPT ![c.of] = [status |-> "active", version |-> 1]]

ChangeCoreBrokerGrant(c) ==
  /\ brokerGrants[c.of].version = c.expected /\ brokerGrants[c.of].status # c.status
  /\ brokerGrants' = [brokerGrants EXCEPT ![c.of] = Changed(@, c.status)]

AppendCoreBrokerAdministrationReceipt(m, c) == applied' = [applied EXCEPT ![m] = c]

\* Any change of the authority ends what was approved or received under it.
AuthorityChanges ==
  /\ unbroken' = FALSE
  /\ backed' = {}

ApplyRegister(c) ==
  /\ c.mode = "register"
  /\ \A s \in Sides : ReadCoreBrokerProvisionedPrincipal(s) /\ ~ReadCoreBrokerRegisteredBinding(s)
  /\ bindings' = RegisterCoreBrokerBinding
  /\ registered' = RegisterCoreBrokerRoute
  /\ UNCHANGED brokerGrants

ApplyBinding(c) ==
  /\ c.mode = "bindings"
  /\ ReadCoreBrokerRegisteredRoute /\ ReadCoreBrokerRegisteredBinding(c.of)
  /\ c.status = "active" => ReadCoreBrokerProvisionedPrincipal(c.of)
  /\ ChangeCoreBrokerBinding(c)
  /\ UNCHANGED <<brokerGrants, registered>>

ApplyGrant(c) ==
  LET s == BindingOf(c.of)
  IN /\ c.mode = "grants"
     /\ ReadCoreBrokerRegisteredRoute /\ ReadCoreBrokerRegisteredBinding(s)
     /\ c.status = "active" => /\ bindings[s].status = "active"
                               /\ ReadCoreBrokerProvisionedPrincipal(s)
     /\ \/ c.expected = 0 /\ AuthorizeCoreBrokerGrant(c)
        \/ c.expected > 0 /\ ChangeCoreBrokerGrant(c)
     /\ UNCHANGED <<bindings, registered>>

Answered(m) == ReadCoreBrokerAdministrationReceipt(m)

ApplyCoreBrokerManifest(m, c) ==
  /\ ValidManifest(c)
  /\ ~Answered(m)
  /\ ApplyRegister(c) \/ ApplyBinding(c) \/ ApplyGrant(c)
  /\ AppendCoreBrokerAdministrationReceipt(m, c)
  /\ AuthorityChanges
  /\ UNCHANGED <<principals, work>>

\* Workload administration (external to this module): every change of a
\* Principal has a version of its own.
ChangePrincipal(s, status) ==
  /\ principals[s].status # status /\ principals[s].version < MaxVersion
  /\ principals' = [principals EXCEPT ![s] = Changed(@, status)]
  /\ AuthorityChanges
  /\ UNCHANGED <<bindings, brokerGrants, registered, applied, work>>

(***************************************************************************)
(* A Bootstrap operation under that authority.                             *)
(***************************************************************************)
CurrentJob == IF generation = 0 THEN <<"initialize", 1>> ELSE <<"expire", generation>>

ReceiveBootstrap ==
  /\ source = Absent /\ current
  /\ source' = fingerprint
  /\ jobs' = [jobs EXCEPT ![<<"initialize", 1>>].state = "pending"]
  /\ unbroken' = TRUE
  /\ UNCHANGED <<identity, applied, generation, approvals, backed>>

bootstrapSourceAuthority == source # Absent /\ current
matches(previous) == previous = fingerprint
bootstrapAuthority == bootstrapSourceAuthority /\ matches(source)

HasCoreBootstrapBrokerApproval(j) ==
  [job |-> j, authority |-> fingerprint, recovery |-> jobs[j].recovery] \in approvals

\* Mutant: an approval of the job is enough, whatever it was given for.
AnyApproval(j) ==
  bootstrapSourceAuthority /\ (matches(source) \/ \E a \in approvals : a.job = j)

currentBrokerAuthority(j) ==
  \/ bootstrapAuthority
  \/ bootstrapSourceAuthority /\ HasCoreBootstrapBrokerApproval(j)

AuthorizeCoreBootstrap(j) == j = CurrentJob /\ currentBrokerAuthority(j)

ExecuteJob(j) ==
  /\ jobs[j].state = "pending"
  /\ AuthorizeCoreBootstrap(j)
  /\ \/ /\ generation = 0
        /\ generation' = 1
        /\ jobs' = [jobs EXCEPT ![j].state = "done", ![<<"expire", 1>>].state = "pending"]
     \/ /\ generation > 0
        /\ jobs' = [jobs EXCEPT ![j].state = "done"]
        /\ UNCHANGED generation
  /\ UNCHANGED <<identity, applied, source, approvals, unbroken, backed>>

\* The dispatcher's attempts are used up: every one was refused or failed.
AttentionRequired(j) ==
  /\ jobs[j].state = "pending"
  /\ jobs' = [jobs EXCEPT ![j].state = "attention_required"]
  /\ UNCHANGED <<identity, applied, source, generation, approvals, unbroken, backed>>

AppendCoreBootstrapBrokerApproval(j, recovery) ==
  /\ approvals' = approvals \cup {[job |-> j, authority |-> fingerprint, recovery |-> recovery]}
  /\ backed' = backed \cup {j}

appendBootstrapBrokerApproval(j, recovery) ==
  bootstrapSourceAuthority /\ AppendCoreBootstrapBrokerApproval(j, recovery)

AppendCoreBootstrapJobRecovery(j) ==
  jobs' = [jobs EXCEPT ![j] = [state |-> "pending", recovery |-> @.recovery + 1]]

RetryPlatformBootstrapJob(j) ==
  /\ jobs[j].state = "attention_required" /\ jobs[j].recovery < MaxRecovery
  /\ j = CurrentJob
  /\ AppendCoreBootstrapJobRecovery(j)
  /\ appendBootstrapBrokerApproval(j, jobs[j].recovery + 1)
  /\ UNCHANGED <<identity, applied, source, generation, unbroken>>

\* A reissued invitation has an expiry job of the next generation, approved
\* with it (AppendPlatformBootstrapEffectAudit).
AppendPlatformBootstrapEffectAudit ==
  LET j == <<"expire", generation + 1>>
  IN /\ generation \in 1..MaxGeneration - 1
     /\ generation' = generation + 1
     /\ jobs' = [jobs EXCEPT ![j].state = "pending"]
     /\ appendBootstrapBrokerApproval(j, 0)
     /\ UNCHANGED <<identity, applied, source, unbroken>>

BrokerNext ==
  \/ \E m \in Manifests, c \in ManifestChanges : ApplyCoreBrokerManifest(m, c)
  \/ \E s \in Sides, st \in {"active", "suspended"} : ChangePrincipal(s, st)
  \/ ReceiveBootstrap
  \/ \E j \in Jobs : ExecuteJob(j) \/ AttentionRequired(j) \/ RetryPlatformBootstrapJob(j)
  \/ AppendPlatformBootstrapEffectAudit

BrokerSpec == BrokerInit /\ [][BrokerNext]_brokerVars

-----------------------------------------------------------------------------
Versioned(statuses) == [status: statuses, version: 0..MaxVersion]
Fingerprint == [Actions -> (0..MaxVersion) \X (0..MaxVersion) \X (0..MaxVersion)]

ASSUME BrokerAssumption ==
  /\ MaxVersion \in Nat \ {0} /\ MaxGeneration \in Nat \ {0} /\ MaxRecovery \in Nat
  /\ Absent \notin Fingerprint \cup ManifestChanges

\* Rows have their type and a Grant exists only for a registered route
\* (ApplyCoreBrokerManifest).
AuthorityTypeOK ==
  /\ principals \in [Sides -> Versioned({"active", "suspended"})]
  /\ bindings \in [Sides -> Versioned({"absent", "active", "revoked"})]
  /\ brokerGrants \in [Actions -> Versioned({"absent", "active", "revoked"})]
  /\ \A a \in Actions : brokerGrants[a].status # "absent" => registered
  /\ source \in {Absent} \cup Fingerprint
  /\ \A j \in Jobs : jobs[j].state \in {"absent", "pending", "attention_required", "done"}
  /\ generation \in 0..MaxGeneration

\* A fingerprint "cannot outlive another revocation/restoration cycle"
\* (core_broker_recovery.go): a worker acts only while the authority has been
\* unchanged since the event was received or since an administrator approved
\* this very job, even when the same Grants were revoked and restored.
NoExecutionAcrossRevocation ==
  [][\A j \in Jobs : (jobs[j].state # "done" /\ jobs'[j].state = "done")
       => current /\ (unbroken \/ j \in backed)]_brokerVars

\* A manifest sent again, by another operator or after a lost answer, changes
\* nothing: the version of every row counts the manifests that changed it.
ManifestsApplyOnce ==
  LET naming(mode, x) == {m \in Manifests : applied[m] # Absent /\
                            applied[m].mode = mode /\ applied[m].of = x}
      registrations == {m \in Manifests : applied[m] = Register}
  IN /\ \A s \in Sides : bindings[s].version =
          Cardinality(registrations) + Cardinality(naming("bindings", s))
     /\ \A a \in Actions : brokerGrants[a].version = Cardinality(naming("grants", a))

\* Every manifest counts once and no approval outlives a revocation.
AuthorityIsFenced == [](AuthorityTypeOK /\ ManifestsApplyOnce) /\ NoExecutionAcrossRevocation
=============================================================================
