-------------------------- MODULE WorkloadRegistry --------------------------
(***************************************************************************)
(* The offline commands of the deployment owner: installing a bundle of    *)
(* workload targets over its predecessor, and consuming the one reviewed   *)
(* manifest of an environment, which creates its workloads and grants.     *)
(*                                                                         *)
(* Both hold the lock of the registry to their commit, so each is one step;*)
(* the answer of a commit may be lost and the command repeated.  Runtimes  *)
(* keep the bundle they were started with.                                 *)
(***************************************************************************)
EXTENDS Naturals, Sequences, SequencesExt, FiniteSets

CONSTANTS
  Targets, Scopes,   \* audience and operation, and the scope of its grants
  Bundles,           \* registrations signed off for deployment, by digest
  BootstrapManifests,         \* names under which bootstrap manifests are issued
  Environments, Principals,
  Runtimes,          \* processes that check grants
  MaxInstallations,  \* bound
  Missing               \* no value

ASSUME RegistryAssumption == MaxInstallations \in Nat

VARIABLES
  content,       \* what the bundles say of their targets; never changes
  registration,  \* workload_target_registrations
  installations, \* workload_registry_installations, in order
  bootstrapReceipts, \* workload_bootstrap_receipts
  workloads,     \* workload_principals: the manifest that created each
  workloadGrants, \* workload_grants
  runtime        \* the bundle each process runs with

registryVars == <<content, registration, installations, bootstrapReceipts, workloads, workloadGrants, runtime>>

-----------------------------------------------------------------------------
(* Bundles and rows. *)

\* A target of a bundle, and the target whose grant its receivers need.  Its
\* revision is a digest of all of it.
Target == [scope : Scopes, enabled : BOOLEAN, receiver : Targets \cup {Missing}]
WorkloadTargetRegistration == [target : Target, bundle : Bundles]
BootstrapIntent ==
  [id : BootstrapManifests, digest : {1, 2}, environment : Environments,
   workloads : SUBSET Principals, targets : SUBSET Targets, expired : BOOLEAN]
WorkloadBootstrapReceipt == [digest : {1, 2}, environment : Environments]

ASSUME MissingAssumption ==
  Missing \notin Target \cup WorkloadTargetRegistration \cup WorkloadBootstrapReceipt
              \cup Targets \cup Bundles \cup BootstrapManifests

\* validate: a target is not its own receiver.
ValidTarget(t, target) == target.receiver # t

\* Parse: some target, and a receiver for each that names one, which receives
\* for itself and is open as long as the target is.
Parse(targets) ==
  LET listed == {t \in Targets : targets[t] # Missing} IN
  /\ listed # {}
  /\ \A t \in listed :
       /\ ValidTarget(t, targets[t])
       /\ targets[t].receiver # Missing =>
            /\ targets[t].receiver \in listed /\ targets[targets[t].receiver].receiver = Missing
            /\ targets[t].enabled => targets[targets[t].receiver].enabled

Lookup(b, t) == content[b][t]
Listed(b) == {t \in Targets : Lookup(b, t) # Missing}
Registered == {t \in Targets : registration[t] # Missing}

\* ListWorkloadTargetRegistrations: the digests under which they were installed.
InstalledDigests == {registration[t].bundle : t \in Registered}

\* The rows are exactly those of the bundle.
validateWorkloadRegistry(b) ==
  /\ Registered = Listed(b)
  /\ \A t \in Registered : registration[t] = [target |-> Lookup(b, t), bundle |-> b]

-----------------------------------------------------------------------------
(* Installation. *)

\* Every target registered is kept, under the scope its grants were given for.
KeepsTargets(b) ==
  \A t \in Registered : Lookup(b, t) # Missing /\ Lookup(b, t).scope = registration[t].target.scope

\* The digest installed is the one the owner expects.
ExactPredecessor(previous) ==
  InstalledDigests = IF previous = Missing THEN {} ELSE {previous}

UpsertWorkloadTargetRegistration(b) ==
  [t \in Targets |->
     IF t \in Listed(b) THEN [target |-> Lookup(b, t), bundle |-> b] ELSE registration[t]]

InsertWorkloadRegistryInstallation(b, previous) ==
  Append(installations, [previous |-> previous, installed |-> b])

\* The bundle is not yet the one installed.
InstallWorkloadRegistry(b, previous) ==
  /\ Len(installations) < MaxInstallations
  /\ KeepsTargets(b) /\ b \notin InstalledDigests /\ ExactPredecessor(previous)
  /\ registration' = UpsertWorkloadTargetRegistration(b)
  /\ installations' = InsertWorkloadRegistryInstallation(b, previous)
  /\ UNCHANGED <<content, bootstrapReceipts, workloads, workloadGrants, runtime>>

-----------------------------------------------------------------------------
(* Provisioning. *)

InsertBootstrapGrants(m, b) ==
  {[workload |-> w, target |-> t, scope |-> Lookup(b, t).scope] : w \in m.workloads, t \in m.targets}

\* ValidateWorkloadBootstrap: the owner's manifest, with grants of registered targets.
ValidateWorkloadBootstrap(m, b) == m.workloads # {} /\ m.targets \subseteq Listed(b)

\* No manifest was consumed under this name or for this environment.
NotConsumed(m) ==
  /\ bootstrapReceipts[m.id] = Missing
  /\ \A id \in BootstrapManifests : bootstrapReceipts[id] # Missing => bootstrapReceipts[id].environment # m.environment

\* One transaction.  A workload that exists makes an insert fail and with it
\* the whole manifest.
Provision(m, b) ==
  /\ ValidateWorkloadBootstrap(m, b) /\ validateWorkloadRegistry(b)
  /\ NotConsumed(m) /\ ~m.expired
  /\ \A w \in m.workloads : workloads[w] = Missing
  /\ workloads' = [w \in Principals |-> IF w \in m.workloads THEN m.id ELSE workloads[w]]
  /\ workloadGrants' = workloadGrants \cup InsertBootstrapGrants(m, b)
  /\ bootstrapReceipts' = [bootstrapReceipts EXCEPT ![m.id] = [digest |-> m.digest, environment |-> m.environment]]
  /\ UNCHANGED <<content, registration, installations, runtime>>

-----------------------------------------------------------------------------
(* Runtimes. *)

\* ValidateWorkloadRegistry at startup.
Start(p, b) ==
  /\ validateWorkloadRegistry(b) /\ runtime[p] # b
  /\ runtime' = [runtime EXCEPT ![p] = b]
  /\ UNCHANGED <<content, registration, installations, bootstrapReceipts, workloads, workloadGrants>>

\* Mutant: the target is registered and enabled, in whatever revision.
AnyRevision(p, g) ==
  /\ Lookup(runtime[p], g.target) # Missing /\ Lookup(runtime[p], g.target).enabled
  /\ registration[g.target] # Missing /\ registration[g.target].target.scope = g.scope

\* GrantUsable: the registration has the revision of the target in the
\* bundle this process runs with, and the scope of the grant.
GrantUsable(p, g) ==
  /\ Lookup(runtime[p], g.target) # Missing /\ Lookup(runtime[p], g.target).enabled
  /\ registration[g.target] # Missing
  /\ registration[g.target].target = Lookup(runtime[p], g.target)
  /\ registration[g.target].target.scope = g.scope

-----------------------------------------------------------------------------

\* A database created with these tables.  One that had grants before them starts
\* from disabled rows under the zero digest, which its first installation names.
RegistryInit ==
  /\ content \in [Bundles -> {c \in [Targets -> Target \cup {Missing}] : Parse(c)}]
  /\ registration = [t \in Targets |-> Missing] /\ installations = << >>
  /\ bootstrapReceipts = [id \in BootstrapManifests |-> Missing]
  /\ workloads = [w \in Principals |-> Missing] /\ workloadGrants = {}
  /\ runtime = [p \in Runtimes |-> Missing]

RegistryNext ==
  \/ \E b \in Bundles, previous \in Bundles \cup {Missing} : InstallWorkloadRegistry(b, previous)
  \/ \E m \in BootstrapIntent, b \in Bundles : Provision(m, b)
  \/ \E p \in Runtimes, b \in Bundles : Start(p, b)

RegistrySpec == RegistryInit /\ [][RegistryNext]_registryVars

RegistryTypeOK ==
  /\ \A t \in Targets : registration[t] = Missing \/ registration[t] \in WorkloadTargetRegistration
  /\ Len(installations) <= MaxInstallations
  /\ \A id \in BootstrapManifests : bootstrapReceipts[id] = Missing \/ bootstrapReceipts[id] \in WorkloadBootstrapReceipt
  /\ \A w \in Principals : workloads[w] = Missing \/ bootstrapReceipts[workloads[w]] # Missing
  /\ \A p \in Runtimes : runtime[p] = Missing \/ runtime[p] \in Bundles

\* Whatever is installed afterwards, a grant's target stays registered under
\* the scope the grant was given for.
GrantsKeepTheirMeaning ==
  \A g \in workloadGrants : registration[g.target] # Missing /\ registration[g.target].target.scope = g.scope

\* Installations form one chain: none was made by an owner who had not seen
\* the one before it, and none repeats it.  The first has no predecessor, as on
\* a database created with this table.
InstallationsFormAChain ==
  \A i \in DOMAIN installations :
    /\ installations[i].previous = IF i = 1 THEN Missing ELSE installations[i - 1].installed
    /\ installations[i].installed # installations[i].previous

\* The workloads of an environment come from one manifest, however often and by
\* however many owners the command is run.
OneManifestPerEnvironment ==
  \A w1, w2 \in Principals :
    (workloads[w1] # Missing /\ workloads[w2] # Missing
       /\ bootstrapReceipts[workloads[w1]].environment = bootstrapReceipts[workloads[w2]].environment)
    => workloads[w1] = workloads[w2]

\* A process whose bundle was replaced uses a grant only where the new bundle
\* leaves its target open, and its receivers' too: what an installation closes
\* is closed to processes that were never restarted.
ReplacedBundlesOpenNothing ==
  \A p \in Runtimes, g \in workloadGrants :
    (runtime[p] # Missing /\ GrantUsable(p, g))
      => \A b \in InstalledDigests :
           /\ Lookup(b, g.target) # Missing /\ Lookup(b, g.target).enabled
           /\ Lookup(runtime[p], g.target).receiver # Missing
                => Lookup(b, Lookup(runtime[p], g.target).receiver).enabled

\* Bundles follow each other in one chain, keep the meaning of grants and close
\* what they close for processes that still run an older one; an environment
\* has one manifest (Install, Bootstrap).
RegistryIsConsistent ==
  /\ RegistryTypeOK /\ GrantsKeepTheirMeaning /\ InstallationsFormAChain
  /\ OneManifestPerEnvironment /\ ReplacedBundlesOpenNothing
=============================================================================
