-------------------------- MODULE IntegrationProofs --------------------------
(***************************************************************************)
(* What is proved of the registry of workloads, of broker authority, of    *)
(* replays and of workload credentials, for any number of bundles,         *)
(* manifests, entries, requests, callers, receivers and subjects.          *)
(***************************************************************************)
EXTENDS WorkloadRegistry, BrokerAuthority, DLQAdministration, WorkloadInvocation,
        FiniteSetTheorems, TLAPS

(***************************************************************************)
(* The registry of workload targets.                                       *)
(***************************************************************************)
Installation == [previous : Bundles \cup {Missing}, installed : Bundles]
WorkloadGrant == [workload : Principals, target : Targets, scope : Scopes]

RegistryRowsOK ==
  /\ content \in [Bundles -> [Targets -> Target \cup {Missing}]]
  /\ \A b \in Bundles : Parse(content[b])
  /\ registration \in [Targets -> WorkloadTargetRegistration \cup {Missing}]
  /\ installations \in Seq(Installation) /\ Len(installations) <= MaxInstallations
  /\ bootstrapReceipts \in [BootstrapManifests -> WorkloadBootstrapReceipt \cup {Missing}]
  /\ workloads \in [Principals -> BootstrapManifests \cup {Missing}]
  /\ workloadGrants \subseteq WorkloadGrant
  /\ runtime \in [Runtimes -> Bundles \cup {Missing}]

\* The rows are those of the bundle installed last, all of them.
RowsAreOfTheLastBundle ==
  IF installations = << >> THEN Registered = {}
  ELSE validateWorkloadRegistry(installations[Len(installations)].installed)

\* A manifest is consumed once in an environment, before its workloads exist.
ManifestsAreConsumed ==
  /\ \A w \in Principals : workloads[w] # Missing => bootstrapReceipts[workloads[w]] # Missing
  /\ \A m, n \in BootstrapManifests :
       bootstrapReceipts[m] # Missing /\ bootstrapReceipts[n] # Missing
         /\ bootstrapReceipts[m].environment = bootstrapReceipts[n].environment => m = n

RegistryInv ==
  /\ RegistryRowsOK /\ RowsAreOfTheLastBundle /\ ManifestsAreConsumed
  /\ GrantsKeepTheirMeaning /\ InstallationsFormAChain

LEMMA RegistryInitially == RegistryInit => RegistryInv
  <1> SUFFICES ASSUME RegistryInit PROVE RegistryInv
    OBVIOUS
  <1>1. content \in [Bundles -> [Targets -> Target \cup {Missing}]] /\ \A b \in Bundles : Parse(content[b])
    BY DEF RegistryInit
  <1>2. RegistryRowsOK
    BY <1>1, RegistryAssumption DEF RegistryInit, RegistryRowsOK
  <1>3. RowsAreOfTheLastBundle /\ InstallationsFormAChain
    BY DEF RegistryInit, RowsAreOfTheLastBundle, Registered, InstallationsFormAChain
  <1> QED
    BY <1>2, <1>3 DEF RegistryInit, RegistryInv, ManifestsAreConsumed, GrantsKeepTheirMeaning

\* A bundle has a target, so its rows name it and no other.
LEMMA InstalledIsNamed ==
  ASSUME RegistryRowsOK, NEW b \in Bundles, validateWorkloadRegistry(b)
  PROVE  InstalledDigests = {b} /\ Registered # {}
  <1>1. Listed(b) # {}
    BY DEF RegistryRowsOK, Parse, Listed, Lookup
  <1>2. Registered # {} /\ \A t \in Registered : registration[t] = [target |-> Lookup(b, t), bundle |-> b]
    BY <1>1 DEF validateWorkloadRegistry
  <1>3. ASSUME NEW t \in Registered PROVE registration[t].bundle = b
    <2>1. registration[t] = [target |-> Lookup(b, t), bundle |-> b]
      BY <1>2
    <2> QED
      BY <2>1
  <1> QED
    BY <1>2, <1>3 DEF InstalledDigests

LEMMA LastInstalled ==
  ASSUME RegistryRowsOK, installations # << >>
  PROVE  installations[Len(installations)].installed \in Bundles
  <1>1. installations \in Seq(Installation) /\ Len(installations) \in 1..Len(installations)
    BY DEF RegistryRowsOK
  <1>2. installations[Len(installations)] \in Installation
    BY <1>1
  <1> QED
    BY <1>2 DEF Installation

LEMMA Installs ==
  ASSUME RegistryInv, NEW b \in Bundles, NEW previous \in Bundles \cup {Missing},
         InstallWorkloadRegistry(b, previous)
  PROVE  RegistryInv'
  <1>0. /\ RegistryRowsOK /\ RowsAreOfTheLastBundle /\ ManifestsAreConsumed
        /\ GrantsKeepTheirMeaning /\ InstallationsFormAChain
    BY DEF RegistryInv
  <1>1. /\ KeepsTargets(b) /\ ExactPredecessor(previous) /\ Len(installations) < MaxInstallations
        /\ registration' = UpsertWorkloadTargetRegistration(b)
        /\ installations' = Append(installations, [previous |-> previous, installed |-> b])
        /\ content' = content /\ bootstrapReceipts' = bootstrapReceipts /\ workloads' = workloads
        /\ workloadGrants' = workloadGrants /\ runtime' = runtime
    BY DEF InstallWorkloadRegistry, InsertWorkloadRegistryInstallation
  <1>2. \A t \in Targets : Lookup(b, t) \in Target \cup {Missing}
    BY <1>0 DEF RegistryRowsOK, Lookup
  <1>3. registration' \in [Targets -> WorkloadTargetRegistration \cup {Missing}]
    BY <1>0, <1>1, <1>2 DEF UpsertWorkloadTargetRegistration, RegistryRowsOK, WorkloadTargetRegistration, Listed
  <1>4. [previous |-> previous, installed |-> b] \in Installation
    BY DEF Installation
  <1>5. /\ installations' \in Seq(Installation) /\ Len(installations') = Len(installations) + 1
        /\ \A i \in 1..Len(installations) : installations'[i] = installations[i]
        /\ installations'[Len(installations) + 1] = [previous |-> previous, installed |-> b]
    BY <1>0, <1>1, <1>4 DEF RegistryRowsOK
  <1>6. Len(installations') <= MaxInstallations
    BY <1>0, <1>1, <1>5, RegistryAssumption DEF RegistryRowsOK
  <1>7. RegistryRowsOK'
    BY <1>0, <1>1, <1>3, <1>5, <1>6 DEF RegistryRowsOK, Parse, ValidTarget
  <1>8. Registered \subseteq Listed(b)
    BY <1>1 DEF KeepsTargets, Registered, Listed
  <1>9. \A t \in Targets : registration'[t] = IF t \in Listed(b) THEN [target |-> Lookup(b, t), bundle |-> b] ELSE registration[t]
    BY <1>1 DEF UpsertWorkloadTargetRegistration
  <1>10. \A t \in Listed(b) : [target |-> Lookup(b, t), bundle |-> b] \in WorkloadTargetRegistration
    BY <1>2 DEF Listed, WorkloadTargetRegistration
  <1>11. \A t \in Targets : t \in Listed(b) <=> registration'[t] # Missing
    BY <1>8, <1>9, <1>10, MissingAssumption DEF Registered
  <1>12. Listed(b)' = Listed(b) /\ \A t \in Targets : Lookup(b, t)' = Lookup(b, t)
    BY <1>1 DEF Listed, Lookup
  <1>13. validateWorkloadRegistry(b)'
    BY <1>9, <1>11, <1>12 DEF validateWorkloadRegistry, Registered, Listed
  <1>14. RowsAreOfTheLastBundle'
    <2>1. installations' # << >> /\ installations'[Len(installations')].installed = b
      BY <1>0, <1>5 DEF RegistryRowsOK
    <2> QED
      BY <1>13, <2>1 DEF RowsAreOfTheLastBundle
  <1>15. GrantsKeepTheirMeaning'
    <2> SUFFICES ASSUME NEW g \in workloadGrants
                 PROVE  registration'[g.target] # Missing /\ registration'[g.target].target.scope = g.scope
      BY <1>1 DEF GrantsKeepTheirMeaning
    <2>1. g.target \in Targets /\ registration[g.target] # Missing /\ registration[g.target].target.scope = g.scope
      BY <1>0 DEF GrantsKeepTheirMeaning, RegistryRowsOK, WorkloadGrant
    <2>2. g.target \in Listed(b) /\ Lookup(b, g.target).scope = g.scope
      BY <1>1, <2>1 DEF KeepsTargets, Registered, Listed
    <2>3. registration'[g.target] = [target |-> Lookup(b, g.target), bundle |-> b]
      BY <2>1, <2>2, <1>9
    <2>4. registration'[g.target].target.scope = g.scope
      BY <2>2, <2>3
    <2> QED
      BY <2>1, <2>2, <2>4, <1>11
  <1>16. previous = IF installations = << >> THEN Missing ELSE installations[Len(installations)].installed
    <2>1. CASE installations = << >>
      <3>1. Registered = {}
        BY <1>0, <2>1 DEF RowsAreOfTheLastBundle
      <3>2. InstalledDigests = {}
        BY <3>1 DEF InstalledDigests
      <3> QED
        BY <1>1, <2>1, <3>2 DEF ExactPredecessor
    <2>2. CASE installations # << >>
      <3> PICK last \in Bundles : last = installations[Len(installations)].installed
        BY <1>0, <2>2, LastInstalled
      <3>1. InstalledDigests = {last}
        BY <1>0, <2>2, InstalledIsNamed DEF RowsAreOfTheLastBundle
      <3> QED
        BY <1>1, <2>2, <3>1 DEF ExactPredecessor
    <2> QED
      BY <2>1, <2>2
  <1>17. b # previous
    <2>1. b \notin InstalledDigests
      BY DEF InstallWorkloadRegistry
    <2> QED
      BY <1>1, <2>1, MissingAssumption DEF ExactPredecessor
  <1>18. InstallationsFormAChain'
    <2> SUFFICES ASSUME NEW i \in 1..(Len(installations) + 1)
                 PROVE  /\ installations'[i].previous = IF i = 1 THEN Missing ELSE installations'[i - 1].installed
                        /\ installations'[i].installed # installations'[i].previous
      BY <1>0, <1>5 DEF InstallationsFormAChain, RegistryRowsOK
    <2>0. Len(installations) \in Nat /\ DOMAIN installations = 1..Len(installations)
      BY <1>0 DEF RegistryRowsOK
    <2>1. CASE i <= Len(installations)
      <3>1. i \in DOMAIN installations /\ (i # 1 => i - 1 \in 1..Len(installations))
        BY <2>0, <2>1
      <3> QED
        BY <1>0, <1>5, <2>0, <3>1 DEF InstallationsFormAChain
    <2>2. CASE i = Len(installations) + 1
      <3>1. installations = << >> <=> Len(installations) = 0
        BY <1>0 DEF RegistryRowsOK
      <3> QED
        BY <1>5, <1>16, <1>17, <2>0, <2>2, <3>1
    <2> QED
      BY <2>0, <2>1, <2>2
  <1>19. ManifestsAreConsumed'
    BY <1>0, <1>1 DEF ManifestsAreConsumed
  <1> QED
    BY <1>7, <1>14, <1>15, <1>18, <1>19 DEF RegistryInv

LEMMA Provisions ==
  ASSUME RegistryInv, NEW m \in BootstrapIntent, NEW b \in Bundles, Provision(m, b)
  PROVE  RegistryInv'
  <1>0. /\ RegistryRowsOK /\ RowsAreOfTheLastBundle /\ ManifestsAreConsumed
        /\ GrantsKeepTheirMeaning /\ InstallationsFormAChain
    BY DEF RegistryInv
  <1>1. /\ m.id \in BootstrapManifests /\ m.digest \in {1, 2} /\ m.environment \in Environments
        /\ m.workloads \subseteq Principals /\ m.targets \subseteq Targets
    BY DEF BootstrapIntent
  <1>2. /\ m.targets \subseteq Listed(b) /\ validateWorkloadRegistry(b) /\ NotConsumed(m)
        /\ workloads' = [w \in Principals |-> IF w \in m.workloads THEN m.id ELSE workloads[w]]
        /\ workloadGrants' = workloadGrants \cup InsertBootstrapGrants(m, b)
        /\ bootstrapReceipts' = [bootstrapReceipts EXCEPT ![m.id] = [digest |-> m.digest, environment |-> m.environment]]
        /\ content' = content /\ registration' = registration /\ installations' = installations
        /\ runtime' = runtime
    BY DEF Provision, ValidateWorkloadBootstrap
  <1>3. \A t \in Listed(b) : Lookup(b, t) \in Target /\ Lookup(b, t).scope \in Scopes
    BY <1>0 DEF Listed, Lookup, RegistryRowsOK, Target
  <1>4. \A g \in InsertBootstrapGrants(m, b) :
          g \in WorkloadGrant /\ g.target \in Listed(b) /\ g.scope = Lookup(b, g.target).scope
    BY <1>1, <1>2, <1>3 DEF InsertBootstrapGrants, WorkloadGrant
  <1>5. [digest |-> m.digest, environment |-> m.environment] \in WorkloadBootstrapReceipt
    BY <1>1 DEF WorkloadBootstrapReceipt
  <1>6. bootstrapReceipts' \in [BootstrapManifests -> WorkloadBootstrapReceipt \cup {Missing}]
    BY <1>0, <1>1, <1>2, <1>5 DEF RegistryRowsOK
  <1>7. workloads' \in [Principals -> BootstrapManifests \cup {Missing}]
    BY <1>0, <1>1, <1>2 DEF RegistryRowsOK
  <1>8. RegistryRowsOK'
    BY <1>0, <1>2, <1>4, <1>6, <1>7 DEF RegistryRowsOK, Parse, ValidTarget
  <1>9. RowsAreOfTheLastBundle' /\ InstallationsFormAChain'
    BY <1>0, <1>2 DEF RowsAreOfTheLastBundle, InstallationsFormAChain, Registered, validateWorkloadRegistry, Listed, Lookup
  <1>10. GrantsKeepTheirMeaning'
    <2> SUFFICES ASSUME NEW g \in workloadGrants'
                 PROVE  registration[g.target] # Missing /\ registration[g.target].target.scope = g.scope
      BY <1>2 DEF GrantsKeepTheirMeaning
    <2>1. CASE g \in workloadGrants
      BY <1>0, <2>1 DEF GrantsKeepTheirMeaning
    <2>2. CASE g \in InsertBootstrapGrants(m, b)
      <3>1. g.target \in Registered /\ g.scope = Lookup(b, g.target).scope
        BY <1>2, <1>4, <2>2 DEF validateWorkloadRegistry
      <3>2. registration[g.target] = [target |-> Lookup(b, g.target), bundle |-> b]
        BY <1>2, <3>1 DEF validateWorkloadRegistry
      <3> QED
        BY <3>1, <3>2 DEF Registered
    <2> QED
      BY <1>2, <2>1, <2>2
  <1>11. ManifestsAreConsumed'
    <2>1. bootstrapReceipts'[m.id] = [digest |-> m.digest, environment |-> m.environment]
          /\ \A n \in BootstrapManifests \ {m.id} : bootstrapReceipts'[n] = bootstrapReceipts[n]
      BY <1>0, <1>1, <1>2 DEF RegistryRowsOK
    <2>2. bootstrapReceipts'[m.id] # Missing /\ bootstrapReceipts'[m.id].environment = m.environment
      BY <1>5, <2>1, MissingAssumption
    <2>3. \A w \in Principals : workloads'[w] # Missing => bootstrapReceipts'[workloads'[w]] # Missing
      <3> SUFFICES ASSUME NEW w \in Principals, workloads'[w] # Missing
                   PROVE  bootstrapReceipts'[workloads'[w]] # Missing
        OBVIOUS
      <3>1. CASE w \in m.workloads
        BY <1>2, <2>2, <3>1
      <3>2. CASE w \notin m.workloads
        <4>1. workloads'[w] = workloads[w] /\ workloads[w] \in BootstrapManifests
          BY <1>0, <1>2, <3>2 DEF RegistryRowsOK
        <4> QED
          BY <1>0, <4>1, <2>1, <2>2 DEF ManifestsAreConsumed
      <3> QED
        BY <3>1, <3>2
    <2>4. \A x, y \in BootstrapManifests :
            bootstrapReceipts'[x] # Missing /\ bootstrapReceipts'[y] # Missing
              /\ bootstrapReceipts'[x].environment = bootstrapReceipts'[y].environment => x = y
      BY <1>0, <1>2, <2>1, <2>2 DEF ManifestsAreConsumed, NotConsumed
    <2> QED
      BY <2>3, <2>4 DEF ManifestsAreConsumed
  <1> QED
    BY <1>8, <1>9, <1>10, <1>11 DEF RegistryInv

LEMMA RegistrySteps == RegistryInv /\ [RegistryNext]_registryVars => RegistryInv'
  <1> SUFFICES ASSUME RegistryInv, [RegistryNext]_registryVars PROVE RegistryInv'
    OBVIOUS
  <1> USE DEF RegistryInv
  <1>1. ASSUME NEW p \in Runtimes, NEW b \in Bundles, Start(p, b) PROVE RegistryInv'
    <2>1. /\ runtime' \in [Runtimes -> Bundles \cup {Missing}] /\ content' = content
          /\ registration' = registration /\ installations' = installations
          /\ bootstrapReceipts' = bootstrapReceipts /\ workloads' = workloads /\ workloadGrants' = workloadGrants
      BY <1>1 DEF Start, RegistryRowsOK
    <2>2. RegistryRowsOK'
      BY <2>1 DEF RegistryRowsOK, Parse, ValidTarget
    <2> QED
      BY <2>1, <2>2 DEF RowsAreOfTheLastBundle, InstallationsFormAChain, Registered, validateWorkloadRegistry,
        Listed, Lookup, ManifestsAreConsumed, GrantsKeepTheirMeaning
  <1>2. CASE UNCHANGED registryVars
    <2>1. RegistryRowsOK'
      BY <1>2 DEF registryVars, RegistryRowsOK, Parse, ValidTarget
    <2> QED
      BY <1>2, <2>1 DEF registryVars, RowsAreOfTheLastBundle, InstallationsFormAChain, Registered,
        validateWorkloadRegistry, Listed, Lookup, ManifestsAreConsumed, GrantsKeepTheirMeaning
  <1> QED
    BY <1>1, <1>2, Installs, Provisions DEF RegistryNext

LEMMA RegistryImplies == RegistryInv => RegistryIsConsistent
  <1> SUFFICES ASSUME RegistryInv PROVE RegistryIsConsistent
    OBVIOUS
  <1>0. /\ RegistryRowsOK /\ RowsAreOfTheLastBundle /\ ManifestsAreConsumed
        /\ GrantsKeepTheirMeaning /\ InstallationsFormAChain
    BY DEF RegistryInv
  <1>1. RegistryTypeOK
    BY <1>0 DEF RegistryTypeOK, RegistryRowsOK, ManifestsAreConsumed
  <1>2. OneManifestPerEnvironment
    BY <1>0 DEF OneManifestPerEnvironment, ManifestsAreConsumed, RegistryRowsOK
  <1>3. ReplacedBundlesOpenNothing
    <2> SUFFICES ASSUME NEW p \in Runtimes, NEW g \in workloadGrants, runtime[p] # Missing,
                        GrantUsable(p, g), NEW b \in InstalledDigests
                 PROVE  /\ Lookup(b, g.target) # Missing /\ Lookup(b, g.target).enabled
                        /\ Lookup(runtime[p], g.target).receiver # Missing
                             => Lookup(b, Lookup(runtime[p], g.target).receiver).enabled
      BY DEF ReplacedBundlesOpenNothing
    <2>1. g.target \in Targets /\ registration[g.target] # Missing
          /\ registration[g.target].target = Lookup(runtime[p], g.target)
          /\ Lookup(runtime[p], g.target).enabled /\ Lookup(runtime[p], g.target) # Missing
      BY <1>0 DEF GrantUsable, RegistryRowsOK, WorkloadGrant
    <2>2. g.target \in Registered
      BY <2>1 DEF Registered
    <2>3. installations # << >>
      BY <1>0, <2>2 DEF RowsAreOfTheLastBundle
    <2> PICK last \in Bundles : last = installations[Len(installations)].installed
      BY <1>0, <2>3, LastInstalled
    <2>4. validateWorkloadRegistry(last) /\ b = last
      BY <1>0, <2>3, InstalledIsNamed DEF RowsAreOfTheLastBundle
    <2>a. registration[g.target] = [target |-> Lookup(last, g.target), bundle |-> last] /\ g.target \in Listed(last)
      BY <2>2, <2>4 DEF validateWorkloadRegistry
    <2>5. Lookup(last, g.target) = Lookup(runtime[p], g.target) /\ g.target \in Listed(last)
      BY <2>1, <2>a
    <2>6. Parse(content[last])
      BY <1>0 DEF RegistryRowsOK
    <2> QED
      BY <2>1, <2>4, <2>5, <2>6 DEF Parse, Listed, Lookup
  <1> QED
    BY <1>0, <1>1, <1>2, <1>3 DEF RegistryIsConsistent

\* Bundles follow each other in one chain, keep the meaning of the grants given
\* under them, and close what they close for processes that still run an older
\* one; an environment has one manifest.  For any bundles, manifests,
\* environments and processes.
THEOREM RegistryTheorem == RegistrySpec => []RegistryIsConsistent
  <1>1. RegistrySpec => []RegistryInv
    BY RegistryInitially, RegistrySteps, PTL DEF RegistrySpec
  <1> QED
    BY <1>1, RegistryImplies, PTL

-----------------------------------------------------------------------------
(***************************************************************************)
(* Broker authority.                                                       *)
(***************************************************************************)
BrokerRow == [status : {"absent", "active", "revoked"}, version : 0..MaxVersion]
JobRow == [state : {"absent", "pending", "attention_required", "done"}, recovery : Nat]

BrokerRowsOK ==
  /\ principals \in [Sides -> [status : {"active", "suspended"}, version : 0..MaxVersion]]
  /\ bindings \in [Sides -> BrokerRow] /\ brokerGrants \in [Actions -> BrokerRow]
  /\ registered \in BOOLEAN
  /\ applied \in [Manifests -> ManifestChanges \cup {Absent}]
  /\ source \in Fingerprint \cup {Absent}
  /\ jobs \in [Jobs -> JobRow] /\ generation \in 0..MaxGeneration

\* A row that was never written has no version; a Grant needs its route.
Unwritten ==
  /\ \A s \in Sides : bindings[s].status = "absent" <=> bindings[s].version = 0
  /\ \A a \in Actions : brokerGrants[a].status = "absent" <=> brokerGrants[a].version = 0
  /\ \A a \in Actions : brokerGrants[a].status # "absent" => registered

\* The manifests that named a row.
AppliedManifests == {m \in Manifests : applied[m] # Absent}
Naming(mode, x) == {m \in Manifests : applied[m] # Absent /\ applied[m].mode = mode /\ applied[m].of = x}
Registrations == {m \in Manifests : applied[m] = Register}

VersionsCounted ==
  /\ IsFiniteSet(AppliedManifests)
  /\ \A s \in Sides : bindings[s].version = Cardinality(Registrations) + Cardinality(Naming("bindings", s))
  /\ \A a \in Actions : brokerGrants[a].version = Cardinality(Naming("grants", a))

\* No version of x is ahead of y.
NotAhead(x, y) ==
  \A a \in Actions : x[a][1] <= y[a][1] /\ x[a][2] <= y[a][2] /\ x[a][3] <= y[a][3]

\* What was received or approved is not ahead of the authority, and was so under
\* the present one only if nothing changed since.
SourceIsFenced ==
  source # Absent => NotAhead(source, fingerprint) /\ (source = fingerprint => unbroken)

ApprovalsAreFenced ==
  \A x \in approvals :
    /\ x.authority \in Fingerprint /\ NotAhead(x.authority, fingerprint)
    /\ x.authority = fingerprint => x.job \in backed

BrokerInv ==
  /\ BrokerRowsOK /\ Unwritten /\ VersionsCounted /\ SourceIsFenced /\ ApprovalsAreFenced

LEMMA BrokerBounds ==
  /\ MaxVersion \in Nat /\ MaxVersion >= 1 /\ MaxGeneration \in Nat /\ MaxGeneration >= 1
  /\ \A c \in ManifestChanges : c # Absent
  BY BrokerAssumption

LEMMA Fingerprints ==
  ASSUME BrokerRowsOK
  PROVE  /\ fingerprint \in Fingerprint
         /\ \A a \in Actions : /\ fingerprint[a][1] = principals[BindingOf(a)].version
                               /\ fingerprint[a][2] = bindings[BindingOf(a)].version
                               /\ fingerprint[a][3] = brokerGrants[a].version
  <1>1. \A a \in Actions : BindingOf(a) \in Sides
    BY DEF Actions, Sides, BindingOf
  <1>2. \A a \in Actions : /\ principals[BindingOf(a)].version \in 0..MaxVersion
                           /\ bindings[BindingOf(a)].version \in 0..MaxVersion
                           /\ brokerGrants[a].version \in 0..MaxVersion
    BY <1>1 DEF BrokerRowsOK, BrokerRow
  <1>3. \A a \in Actions : coreBrokerAuthority(a) \in (0..MaxVersion) \X (0..MaxVersion) \X (0..MaxVersion)
    BY <1>2 DEF coreBrokerAuthority
  <1>4. fingerprint \in Fingerprint
    BY <1>3 DEF fingerprint, Fingerprint
  <1> QED
    BY <1>2, <1>4 DEF fingerprint, coreBrokerAuthority

LEMMA FingerprintsNext ==
  BrokerRowsOK' =>
    (/\ fingerprint \in Fingerprint
     /\ \A a \in Actions : /\ fingerprint[a][1] = principals[BindingOf(a)].version
                           /\ fingerprint[a][2] = bindings[BindingOf(a)].version
                           /\ fingerprint[a][3] = brokerGrants[a].version)'
  <1>1. BrokerRowsOK =>
    (/\ fingerprint \in Fingerprint
     /\ \A a \in Actions : /\ fingerprint[a][1] = principals[BindingOf(a)].version
                           /\ fingerprint[a][2] = bindings[BindingOf(a)].version
                           /\ fingerprint[a][3] = brokerGrants[a].version)
    BY Fingerprints
  <1> QED
    BY <1>1, PTL

LEMMA FingerprintParts ==
  ASSUME NEW x \in Fingerprint, NEW a \in Actions
  PROVE  x[a][1] \in Nat /\ x[a][2] \in Nat /\ x[a][3] \in Nat
  <1>1. x[a] \in (0..MaxVersion) \X (0..MaxVersion) \X (0..MaxVersion)
    BY DEF Fingerprint
  <1> QED
    BY <1>1

LEMMA NotAheadIsTransitive ==
  ASSUME NEW x \in Fingerprint, NEW y \in Fingerprint, NEW z \in Fingerprint,
         NotAhead(x, y), NotAhead(y, z)
  PROVE  NotAhead(x, z) /\ (y # z => x # z)
  <1>1. NotAhead(x, z)
    BY FingerprintParts DEF NotAhead
  <1>2. ASSUME x = z PROVE y = z
    <2>1. ASSUME NEW a \in Actions PROVE y[a] = z[a]
      <3>1. y[a][1] = z[a][1] /\ y[a][2] = z[a][2] /\ y[a][3] = z[a][3]
        BY <1>2, FingerprintParts DEF NotAhead
      <3>2. /\ y[a] \in (0..MaxVersion) \X (0..MaxVersion) \X (0..MaxVersion)
            /\ z[a] \in (0..MaxVersion) \X (0..MaxVersion) \X (0..MaxVersion)
        BY DEF Fingerprint
      <3> QED
        BY <3>1, <3>2
    <2> QED
      BY <2>1 DEF Fingerprint
  <1> QED
    BY <1>1, <1>2

LEMMA BrokerInitially == BrokerInit => BrokerInv
  <1> SUFFICES ASSUME BrokerInit PROVE BrokerInv
    OBVIOUS
  <1> USE DEF BrokerInit
  <1>1. BrokerRowsOK
    <2>1. NoBrokerRow \in BrokerRow /\ NoJob \in JobRow
      BY BrokerBounds DEF BrokerRow, JobRow, NoBrokerRow, NoJob
    <2>2. [status |-> "active", version |-> 1] \in [status : {"active", "suspended"}, version : 0..MaxVersion]
      BY BrokerBounds
    <2>3. generation \in 0..MaxGeneration
      BY BrokerBounds
    <2> QED
      BY <2>1, <2>2, <2>3 DEF BrokerRowsOK
  <1>2. Unwritten
    BY DEF Unwritten, NoBrokerRow
  <1>3. AppliedManifests = {} /\ Registrations = {}
    BY BrokerBounds DEF AppliedManifests, Registrations, ManifestChanges
  <1>4. \A mode, x : Naming(mode, x) = {}
    BY DEF Naming
  <1>5. VersionsCounted
    BY <1>3, <1>4, FS_EmptySet DEF VersionsCounted, NoBrokerRow
  <1> QED
    BY <1>1, <1>2, <1>5 DEF BrokerInv, SourceIsFenced, ApprovalsAreFenced

LEMMA ChangeParts ==
  ASSUME NEW c \in ManifestChanges
  PROVE  /\ c.mode = "register" => c = Register
         /\ c.mode = "bindings" => c.of \in Sides /\ c.status \in {"active", "revoked"} /\ c.expected \in 1..MaxVersion - 1
         /\ c.mode = "grants" => c.of \in Actions /\ c.status \in {"active", "revoked"} /\ c.expected \in 0..MaxVersion - 1
  BY DEF ManifestChanges, Register, CoreBrokerBindingChange, CoreBrokerGrantChange

\* The rows of a manifest keep their type and one version grows.
LEMMA ManifestRows ==
  ASSUME BrokerInv, NEW m \in Manifests, NEW c \in ManifestChanges, ApplyCoreBrokerManifest(m, c)
  PROVE  /\ BrokerRowsOK' /\ Unwritten'
         /\ c.mode = "register" => \A s \in Sides : bindings[s].version = 0 /\ bindings'[s].version = 1
         /\ c.mode # "register" => \A s \in Sides : bindings'[s].version =
              IF c.mode = "bindings" /\ c.of = s THEN bindings[s].version + 1 ELSE bindings[s].version
         /\ \A a \in Actions : brokerGrants'[a].version =
              IF c.mode = "grants" /\ c.of = a THEN brokerGrants[a].version + 1 ELSE brokerGrants[a].version
         /\ c.mode \in {"register", "bindings", "grants"}
  <1>0. /\ principals' = principals /\ work' = work /\ source' = source /\ jobs' = jobs
        /\ generation' = generation /\ applied' = [applied EXCEPT ![m] = c]
    BY DEF ApplyCoreBrokerManifest, work, AppendCoreBrokerAdministrationReceipt
  <1>a. BrokerRowsOK /\ Unwritten
    BY DEF BrokerInv
  <1>b. applied' \in [Manifests -> ManifestChanges \cup {Absent}]
    BY <1>0, <1>a DEF BrokerRowsOK
  <1>1. CASE ApplyRegister(c)
    <2>1. \A s \in Sides : bindings[s].status = "absent"
      BY <1>1 DEF ApplyRegister, ReadCoreBrokerRegisteredBinding
    <2>2. \A s \in Sides : bindings[s].version = 0
      BY <2>1, <1>a DEF Unwritten
    <2>3. bindings' = [s \in Sides |-> [status |-> "active", version |-> 1]] /\ registered' = TRUE
      BY <1>1 DEF ApplyRegister, RegisterCoreBrokerBinding, RegisterCoreBrokerRoute
    <2>4. brokerGrants' = brokerGrants /\ c.mode = "register"
      BY <1>1 DEF ApplyRegister
    <2>5. [status |-> "active", version |-> 1] \in BrokerRow
      BY BrokerBounds DEF BrokerRow
    <2>6. BrokerRowsOK'
      BY <1>0, <1>a, <1>b, <2>3, <2>4, <2>5 DEF BrokerRowsOK
    <2>7. Unwritten'
      BY <1>a, <2>3, <2>4 DEF Unwritten
    <2> QED
      BY <2>2, <2>3, <2>4, <2>6, <2>7
  <1>2. CASE ApplyBinding(c)
    <2>1. c.mode = "bindings" /\ c.of \in Sides /\ c.status \in {"active", "revoked"} /\ c.expected \in 1..MaxVersion - 1
      BY <1>2, ChangeParts DEF ApplyBinding
    <2> PICK old \in BrokerRow : old = bindings[c.of]
      BY <1>a, <2>1 DEF BrokerRowsOK
    <2> PICK new : new = [status |-> c.status, version |-> old.version + 1]
      OBVIOUS
    <2>2. old.version = c.expected /\ bindings' = [bindings EXCEPT ![c.of] = new]
      BY <1>2 DEF ApplyBinding, ChangeCoreBrokerBinding, Changed
    <2>3. new.status = c.status /\ new.version = old.version + 1 /\ new.version \in 0..MaxVersion /\ new.version # 0
      BY <2>1, <2>2, BrokerBounds
    <2>4. new \in BrokerRow
      BY <2>1, <2>3 DEF BrokerRow
    <2>5. brokerGrants' = brokerGrants /\ registered' = registered
      BY <1>2 DEF ApplyBinding
    <2>6. BrokerRowsOK'
      BY <1>0, <1>a, <1>b, <2>2, <2>4, <2>5 DEF BrokerRowsOK
    <2>7. \A s \in Sides : bindings'[s] = IF s = c.of THEN new ELSE bindings[s]
      BY <1>a, <2>2 DEF BrokerRowsOK
    <2>8. Unwritten'
      BY <1>a, <2>1, <2>3, <2>5, <2>7 DEF Unwritten
    <2> QED
      BY <2>1, <2>3, <2>5, <2>6, <2>7, <2>8
  <1>3. CASE ApplyGrant(c)
    <2>1. c.mode = "grants" /\ c.of \in Actions /\ c.status \in {"active", "revoked"} /\ c.expected \in 0..MaxVersion - 1
      BY <1>3, ChangeParts DEF ApplyGrant
    <2> PICK old \in BrokerRow : old = brokerGrants[c.of]
      BY <1>a, <2>1 DEF BrokerRowsOK
    <2>r. registered /\ bindings' = bindings /\ registered' = registered
      BY <1>3 DEF ApplyGrant, ReadCoreBrokerRegisteredRoute
    <2> PICK new : brokerGrants' = [brokerGrants EXCEPT ![c.of] = new] /\ new.version = old.version + 1
                   /\ new.status \in {"active", "revoked"} /\ new.version <= MaxVersion /\ new \in BrokerRow
      <3>1. CASE c.expected = 0 /\ AuthorizeCoreBrokerGrant(c)
        <4>1. old.version = 0
          BY <1>a, <2>1, <3>1 DEF AuthorizeCoreBrokerGrant, Unwritten
        <4>2. brokerGrants' = [brokerGrants EXCEPT ![c.of] = [status |-> "active", version |-> 1]]
          BY <3>1 DEF AuthorizeCoreBrokerGrant
        <4> PICK n : n = [status |-> "active", version |-> 1]
          OBVIOUS
        <4>3. n \in BrokerRow /\ n.version = old.version + 1 /\ n.status = "active" /\ n.version <= MaxVersion
          BY <4>1, BrokerBounds DEF BrokerRow
        <4> QED
          BY <4>2, <4>3
      <3>2. CASE c.expected > 0 /\ ChangeCoreBrokerGrant(c)
        <4>1. old.version = c.expected /\ brokerGrants' = [brokerGrants EXCEPT ![c.of] = [status |-> c.status, version |-> old.version + 1]]
          BY <3>2 DEF ChangeCoreBrokerGrant, Changed
        <4>2. old.version + 1 \in 0..MaxVersion
          BY <4>1, <2>1, BrokerBounds
        <4> PICK n : n = [status |-> c.status, version |-> old.version + 1]
          OBVIOUS
        <4>3. n.version = old.version + 1 /\ n.status = c.status /\ n.version \in 0..MaxVersion
          BY <4>2
        <4>4. n \in BrokerRow /\ n.version <= MaxVersion
          BY <2>1, <4>2, <4>3 DEF BrokerRow
        <4> QED
          BY <2>1, <4>1, <4>3, <4>4
      <3> QED
        BY <1>3, <3>1, <3>2 DEF ApplyGrant
    <2>2. BrokerRowsOK'
      BY <1>0, <1>a, <1>b, <2>r DEF BrokerRowsOK
    <2>3. \A a \in Actions : brokerGrants'[a] = IF a = c.of THEN new ELSE brokerGrants[a]
      BY <1>a DEF BrokerRowsOK
    <2>4. new.version # 0
      BY DEF BrokerRow
    <2>5. Unwritten'
      BY <1>a, <2>1, <2>r, <2>3, <2>4 DEF Unwritten
    <2> QED
      BY <2>1, <2>2, <2>3, <2>5, <2>r
  <1> QED
    BY <1>1, <1>2, <1>3 DEF ApplyCoreBrokerManifest

LEMMA ManifestsAreCounted ==
  ASSUME BrokerInv, NEW m \in Manifests, NEW c \in ManifestChanges, ApplyCoreBrokerManifest(m, c)
  PROVE  VersionsCounted'
  <1>0. /\ applied[m] = Absent /\ applied' = [applied EXCEPT ![m] = c] /\ c # Absent
        /\ applied \in [Manifests -> ManifestChanges \cup {Absent}]
    BY BrokerBounds DEF ApplyCoreBrokerManifest, Answered, ReadCoreBrokerAdministrationReceipt, AppendCoreBrokerAdministrationReceipt,
          BrokerInv, BrokerRowsOK
  <1>1. AppliedManifests' = AppliedManifests \cup {m}
    BY <1>0 DEF AppliedManifests
  <1>2. IsFiniteSet(AppliedManifests) /\ IsFiniteSet(AppliedManifests')
    BY <1>1, FS_AddElement DEF BrokerInv, VersionsCounted
  <1>3. ASSUME NEW mode, NEW x
        PROVE  /\ IsFiniteSet(Naming(mode, x)) /\ Cardinality(Naming(mode, x)) \in Nat
               /\ Cardinality(Naming(mode, x)') = IF c.mode = mode /\ c.of = x THEN Cardinality(Naming(mode, x)) + 1
                                                  ELSE Cardinality(Naming(mode, x))
    <2>1. IsFiniteSet(Naming(mode, x)) /\ m \notin Naming(mode, x)
      <3>1. Naming(mode, x) \subseteq AppliedManifests /\ m \notin Naming(mode, x)
        BY <1>0 DEF Naming, AppliedManifests
      <3> QED
        BY <3>1, <1>2, FS_Subset
    <2>2. Naming(mode, x)' = IF c.mode = mode /\ c.of = x THEN Naming(mode, x) \cup {m} ELSE Naming(mode, x)
      BY <1>0 DEF Naming
    <2> QED
      BY <2>1, <2>2, FS_AddElement, FS_CardinalityType
  <1>4. /\ IsFiniteSet(Registrations) /\ Cardinality(Registrations) \in Nat
        /\ Cardinality(Registrations') = IF c.mode = "register" THEN Cardinality(Registrations) + 1
                                         ELSE Cardinality(Registrations)
    <2>0. Register # Absent /\ (c = Register <=> c.mode = "register")
      BY BrokerBounds, ChangeParts DEF ManifestChanges, Register
    <2>1. IsFiniteSet(Registrations) /\ m \notin Registrations
      <3>1. Registrations \subseteq AppliedManifests /\ m \notin Registrations
        BY <1>0, <2>0 DEF Registrations, AppliedManifests
      <3> QED
        BY <3>1, <1>2, FS_Subset
    <2>2. Registrations' = IF c.mode = "register" THEN Registrations \cup {m} ELSE Registrations
      BY <1>0, <2>0 DEF Registrations
    <2> QED
      BY <2>1, <2>2, FS_AddElement, FS_CardinalityType
  <1>5. ASSUME NEW s \in Sides
        PROVE  bindings'[s].version = Cardinality(Registrations') + Cardinality(Naming("bindings", s)')
    <2>1. bindings[s].version = Cardinality(Registrations) + Cardinality(Naming("bindings", s))
      BY DEF BrokerInv, VersionsCounted
    <2>2. CASE c.mode = "register"
      BY <1>3, <1>4, <2>1, <2>2, ManifestRows
    <2>3. CASE c.mode # "register"
      BY <1>3, <1>4, <2>1, <2>3, ManifestRows
    <2> QED
      BY <2>2, <2>3
  <1>6. ASSUME NEW a \in Actions PROVE brokerGrants'[a].version = Cardinality(Naming("grants", a)')
    <2>1. brokerGrants[a].version = Cardinality(Naming("grants", a))
      BY DEF BrokerInv, VersionsCounted
    <2> QED
      BY <1>3, <2>1, ManifestRows
  <1> QED
    BY <1>2, <1>5, <1>6 DEF VersionsCounted

\* A change of authority leaves every earlier authority behind.
LEMMA AuthorityMoves ==
  ASSUME BrokerInv, BrokerRowsOK', unbroken' = FALSE, source' = source, approvals' = approvals,
         NotAhead(fingerprint, fingerprint'), fingerprint' # fingerprint
  PROVE  SourceIsFenced' /\ ApprovalsAreFenced'
  <1> PICK here \in Fingerprint : here = fingerprint
    BY Fingerprints DEF BrokerInv
  <1> PICK next \in Fingerprint : next = fingerprint'
    BY FingerprintsNext
  <1>1. NotAhead(here, next) /\ here # next
    OBVIOUS
  <1>2. SourceIsFenced'
    <2>1. ASSUME source # Absent PROVE NotAhead(source, next) /\ source # next
      <3>1. source \in Fingerprint /\ NotAhead(source, here)
        BY <2>1 DEF BrokerInv, BrokerRowsOK, SourceIsFenced
      <3> QED
        BY <3>1, <1>1, NotAheadIsTransitive
    <2> QED
      BY <2>1 DEF SourceIsFenced, NotAhead
  <1>3. ApprovalsAreFenced'
    <2>1. ASSUME NEW x \in approvals PROVE x.authority \in Fingerprint /\ NotAhead(x.authority, next) /\ x.authority # next
      <3>1. x.authority \in Fingerprint /\ NotAhead(x.authority, here)
        BY DEF BrokerInv, ApprovalsAreFenced
      <3> QED
        BY <3>1, <1>1, NotAheadIsTransitive
    <2> QED
      BY <2>1 DEF ApprovalsAreFenced, NotAhead
  <1> QED
    BY <1>2, <1>3

LEMMA ManifestSteps ==
  ASSUME BrokerInv, NEW m \in Manifests, NEW c \in ManifestChanges, ApplyCoreBrokerManifest(m, c)
  PROVE  BrokerInv'
  <1>0. /\ principals' = principals /\ source' = source /\ approvals' = approvals /\ unbroken' = FALSE
        /\ BrokerRowsOK /\ BrokerRowsOK'
    BY ManifestRows DEF ApplyCoreBrokerManifest, work, AuthorityChanges, BrokerInv
  <1>1. \A a \in Actions : BindingOf(a) \in Sides
    BY DEF Actions, Sides, BindingOf
  <1>2. /\ \A s \in Sides : bindings[s].version \in Nat /\ bindings'[s].version >= bindings[s].version
                            /\ principals[s].version \in Nat
        /\ \A a \in Actions : brokerGrants[a].version \in Nat /\ brokerGrants'[a].version >= brokerGrants[a].version
    <2>1. /\ \A s \in Sides : bindings[s].version \in Nat /\ principals[s].version \in Nat
          /\ \A a \in Actions : brokerGrants[a].version \in Nat
      BY <1>0 DEF BrokerRowsOK, BrokerRow
    <2> QED
      BY <2>1, ManifestRows
  <1>3. NotAhead(fingerprint, fingerprint')
    BY <1>0, <1>1, <1>2, Fingerprints, FingerprintsNext DEF NotAhead
  <1>4. fingerprint' # fingerprint
    <2> PICK a \in Actions : bindings'[BindingOf(a)].version # bindings[BindingOf(a)].version
                             \/ brokerGrants'[a].version # brokerGrants[a].version
      <3>1. CASE c.mode = "grants"
        BY <1>2, <3>1, ChangeParts, ManifestRows
      <3>2. CASE c.mode = "register"
        BY <1>1, <3>2, ManifestRows DEF Actions
      <3>3. CASE c.mode = "bindings"
        <4>1. c.of \in Sides /\ bindings'[c.of].version # bindings[c.of].version
          BY <1>2, <3>3, ChangeParts, ManifestRows
        <4>2. BindingOf("publish") = "producer" /\ BindingOf("receive") = "consumer"
          BY DEF BindingOf
        <4> QED
          BY <4>1, <4>2 DEF Sides, Actions
      <3> QED
        BY <3>1, <3>2, <3>3, ManifestRows
    <2> QED
      BY <1>0, Fingerprints, FingerprintsNext
  <1> QED
    BY <1>0, <1>3, <1>4, AuthorityMoves, ManifestRows, ManifestsAreCounted DEF BrokerInv

LEMMA PrincipalSteps ==
  ASSUME BrokerInv, NEW s \in Sides, NEW st \in {"active", "suspended"}, ChangePrincipal(s, st)
  PROVE  BrokerInv'
  <1>0. /\ bindings' = bindings /\ brokerGrants' = brokerGrants /\ registered' = registered /\ applied' = applied
        /\ source' = source /\ jobs' = jobs /\ generation' = generation /\ approvals' = approvals /\ unbroken' = FALSE
        /\ BrokerRowsOK
    BY DEF ChangePrincipal, AuthorityChanges, work, BrokerInv
  <1> PICK old : old = principals[s]
    OBVIOUS
  <1> PICK new : new = [status |-> st, version |-> old.version + 1]
    OBVIOUS
  <1>1. principals' = [principals EXCEPT ![s] = new] /\ old.version < MaxVersion
    BY DEF ChangePrincipal, Changed
  <1>2. old.version \in 0..MaxVersion
    BY <1>0 DEF BrokerRowsOK
  <1>3. new.version = old.version + 1 /\ new \in [status : {"active", "suspended"}, version : 0..MaxVersion]
    BY <1>1, <1>2, BrokerBounds
  <1>4. BrokerRowsOK'
    BY <1>0, <1>1, <1>3 DEF BrokerRowsOK
  <1>5. \A t \in Sides : principals'[t].version = IF t = s THEN principals[t].version + 1 ELSE principals[t].version
    BY <1>0, <1>1, <1>3 DEF BrokerRowsOK
  <1>6. \A a \in Actions : BindingOf(a) \in Sides
    BY DEF Actions, Sides, BindingOf
  <1>7. /\ \A t \in Sides : principals[t].version \in Nat /\ bindings[t].version \in Nat
        /\ \A a \in Actions : brokerGrants[a].version \in Nat
    BY <1>0 DEF BrokerRowsOK, BrokerRow
  <1>8. NotAhead(fingerprint, fingerprint')
    BY <1>0, <1>4, <1>5, <1>6, <1>7, Fingerprints, FingerprintsNext DEF NotAhead
  <1>9. fingerprint' # fingerprint
    <2> PICK a \in Actions : BindingOf(a) = s
      <3>1. BindingOf("publish") = "producer" /\ BindingOf("receive") = "consumer"
        BY DEF BindingOf
      <3> QED
        BY <3>1 DEF Sides, Actions
    <2>1. principals'[s].version # principals[s].version
      BY <1>5, <1>7
    <2> QED
      BY <2>1, <1>0, <1>4, Fingerprints, FingerprintsNext
  <1>10. SourceIsFenced' /\ ApprovalsAreFenced'
    BY <1>0, <1>4, <1>8, <1>9, AuthorityMoves
  <1>11. Unwritten' /\ VersionsCounted'
    BY <1>0 DEF BrokerInv, Unwritten, VersionsCounted, AppliedManifests, Registrations, Naming
  <1> QED
    BY <1>4, <1>10, <1>11 DEF BrokerInv

\* Work under the authority changes no row of it.
LEMMA AuthorityRests ==
  ASSUME BrokerInv, identity' = identity, applied' = applied,
         source' \in Fingerprint \cup {Absent}, jobs' \in [Jobs -> JobRow], generation' \in 0..MaxGeneration
  PROVE  BrokerRowsOK' /\ Unwritten' /\ VersionsCounted' /\ fingerprint' = fingerprint
  <1>1. principals' = principals /\ bindings' = bindings /\ brokerGrants' = brokerGrants /\ registered' = registered
    BY DEF identity
  <1>2. BrokerRowsOK'
    BY <1>1 DEF BrokerInv, BrokerRowsOK
  <1>3. Unwritten' /\ VersionsCounted'
    BY <1>1 DEF BrokerInv, Unwritten, VersionsCounted, AppliedManifests, Registrations, Naming
  <1>4. fingerprint' = fingerprint
    BY <1>1 DEF fingerprint, coreBrokerAuthority
  <1> QED
    BY <1>2, <1>3, <1>4

LEMMA JobState ==
  ASSUME jobs \in [Jobs -> JobRow], NEW j, NEW state \in {"absent", "pending", "attention_required", "done"}
  PROVE  [jobs EXCEPT ![j].state = state] \in [Jobs -> JobRow]
  <1>1. ASSUME j \in Jobs PROVE [jobs[j] EXCEPT !.state = state] \in JobRow
    BY <1>1 DEF JobRow
  <1> QED
    BY <1>1

LEMMA SourceSteps == BrokerInv /\ ReceiveBootstrap => BrokerInv'
  <1> SUFFICES ASSUME BrokerInv, ReceiveBootstrap PROVE BrokerInv'
    OBVIOUS
  <1>1. /\ identity' = identity /\ applied' = applied /\ approvals' = approvals /\ backed' = backed
        /\ source' = fingerprint /\ generation' = generation /\ unbroken' = TRUE
        /\ jobs' = [jobs EXCEPT ![<<"initialize", 1>>].state = "pending"]
    BY DEF ReceiveBootstrap
  <1>2. source' \in Fingerprint /\ jobs' \in [Jobs -> JobRow] /\ generation' \in 0..MaxGeneration
    BY <1>1, Fingerprints, JobState DEF BrokerInv, BrokerRowsOK
  <1>3. BrokerRowsOK' /\ Unwritten' /\ VersionsCounted' /\ fingerprint' = fingerprint
    BY <1>1, <1>2, AuthorityRests
  <1>4. SourceIsFenced'
    BY <1>1, <1>2, <1>3, FingerprintParts DEF SourceIsFenced, NotAhead
  <1>5. ApprovalsAreFenced'
    BY <1>1, <1>3 DEF BrokerInv, ApprovalsAreFenced, NotAhead
  <1> QED
    BY <1>3, <1>4, <1>5 DEF BrokerInv

LEMMA JobSteps ==
  ASSUME BrokerInv, NEW j \in Jobs, ExecuteJob(j) \/ AttentionRequired(j)
  PROVE  BrokerInv'
  <1>1. /\ identity' = identity /\ applied' = applied /\ approvals' = approvals /\ backed' = backed
        /\ source' = source /\ unbroken' = unbroken
    BY DEF ExecuteJob, AttentionRequired
  <1>2. jobs' \in [Jobs -> JobRow] /\ generation' \in 0..MaxGeneration
    <2>0. jobs \in [Jobs -> JobRow] /\ generation \in 0..MaxGeneration
      BY DEF BrokerInv, BrokerRowsOK
    <2>1. CASE jobs' = [jobs EXCEPT ![j].state = "done", ![<<"expire", 1>>].state = "pending"] /\ generation' = 1
      <3> PICK done : done = [jobs EXCEPT ![j].state = "done"]
        OBVIOUS
      <3>1. done \in [Jobs -> JobRow]
        BY <2>0, JobState
      <3>2. jobs' = [done EXCEPT ![<<"expire", 1>>].state = "pending"]
        BY <2>1
      <3>3. ASSUME <<"expire", 1>> \in Jobs PROVE [done[<<"expire", 1>>] EXCEPT !.state = "pending"] \in JobRow
        BY <3>1, <3>3 DEF JobRow
      <3>4. jobs' \in [Jobs -> JobRow]
        BY <3>1, <3>2, <3>3
      <3> QED
        BY <3>4, <2>1, BrokerBounds
    <2>2. CASE jobs' = [jobs EXCEPT ![j].state = "done"] /\ generation' = generation
      BY <2>0, <2>2, JobState
    <2>3. CASE jobs' = [jobs EXCEPT ![j].state = "attention_required"] /\ generation' = generation
      BY <2>0, <2>3, JobState
    <2> QED
      BY <2>1, <2>2, <2>3 DEF ExecuteJob, AttentionRequired
  <1>3. source' \in Fingerprint \cup {Absent}
    BY <1>1 DEF BrokerInv, BrokerRowsOK
  <1>4. BrokerRowsOK' /\ Unwritten' /\ VersionsCounted' /\ fingerprint' = fingerprint
    BY <1>1, <1>2, <1>3, AuthorityRests
  <1>5. SourceIsFenced' /\ ApprovalsAreFenced'
    BY <1>1, <1>4 DEF BrokerInv, SourceIsFenced, ApprovalsAreFenced, NotAhead
  <1> QED
    BY <1>4, <1>5 DEF BrokerInv

\* An approval names the authority of its moment.
LEMMA ApprovalSteps ==
  ASSUME BrokerInv, NEW j, NEW n, AppendCoreBootstrapBrokerApproval(j, n),
         identity' = identity, applied' = applied, source' = source, unbroken' = unbroken,
         jobs' \in [Jobs -> JobRow], generation' \in 0..MaxGeneration
  PROVE  BrokerInv'
  <1>1. source' \in Fingerprint \cup {Absent}
    BY DEF BrokerInv, BrokerRowsOK
  <1>2. BrokerRowsOK' /\ Unwritten' /\ VersionsCounted' /\ fingerprint' = fingerprint
    BY <1>1, AuthorityRests
  <1>3. SourceIsFenced'
    BY <1>2 DEF BrokerInv, SourceIsFenced, NotAhead
  <1> PICK new : new = [job |-> j, authority |-> fingerprint, recovery |-> n]
    OBVIOUS
  <1>4. approvals' = approvals \cup {new} /\ backed' = backed \cup {j} /\ new.job = j /\ new.authority = fingerprint
    BY DEF AppendCoreBootstrapBrokerApproval
  <1>5. fingerprint \in Fingerprint
    BY Fingerprints DEF BrokerInv
  <1>6. NotAhead(fingerprint, fingerprint)
    BY <1>5, FingerprintParts DEF NotAhead
  <1>7. ASSUME NEW x \in approvals'
        PROVE  /\ x.authority \in Fingerprint /\ NotAhead(x.authority, fingerprint)
               /\ x.authority = fingerprint => x.job \in backed'
    BY <1>4, <1>5, <1>6, <1>7 DEF BrokerInv, ApprovalsAreFenced
  <1>8. ApprovalsAreFenced'
    BY <1>2, <1>7 DEF ApprovalsAreFenced, NotAhead
  <1> QED
    BY <1>2, <1>3, <1>8 DEF BrokerInv

LEMMA RetrySteps ==
  ASSUME BrokerInv, NEW j \in Jobs, RetryPlatformBootstrapJob(j)
  PROVE  BrokerInv'
  <1>0. jobs \in [Jobs -> JobRow] /\ generation \in 0..MaxGeneration
    BY DEF BrokerInv, BrokerRowsOK
  <1> PICK old \in JobRow : old = jobs[j]
    BY <1>0
  <1>1. [state |-> "pending", recovery |-> old.recovery + 1] \in JobRow
    BY DEF JobRow
  <1>2. jobs' = [jobs EXCEPT ![j] = [state |-> "pending", recovery |-> old.recovery + 1]]
    BY DEF RetryPlatformBootstrapJob, AppendCoreBootstrapJobRecovery
  <1>3. jobs' \in [Jobs -> JobRow]
    BY <1>0, <1>1, <1>2
  <1> QED
    BY <1>0, <1>3, ApprovalSteps DEF RetryPlatformBootstrapJob, appendBootstrapBrokerApproval

LEMMA ReissueSteps == BrokerInv /\ AppendPlatformBootstrapEffectAudit => BrokerInv'
  <1> SUFFICES ASSUME BrokerInv, AppendPlatformBootstrapEffectAudit PROVE BrokerInv'
    OBVIOUS
  <1>0. jobs \in [Jobs -> JobRow] /\ generation \in 0..MaxGeneration
    BY DEF BrokerInv, BrokerRowsOK
  <1>1. jobs' \in [Jobs -> JobRow]
    BY <1>0, JobState DEF AppendPlatformBootstrapEffectAudit
  <1>2. generation' \in 0..MaxGeneration
    BY <1>0, BrokerBounds DEF AppendPlatformBootstrapEffectAudit
  <1> QED
    BY <1>1, <1>2, ApprovalSteps DEF AppendPlatformBootstrapEffectAudit, appendBootstrapBrokerApproval

LEMMA BrokerSteps == BrokerInv /\ [BrokerNext]_brokerVars => BrokerInv'
  <1> SUFFICES ASSUME BrokerInv, [BrokerNext]_brokerVars PROVE BrokerInv'
    OBVIOUS
  <1>1. CASE UNCHANGED brokerVars
    <2>1. /\ identity' = identity /\ applied' = applied /\ source' = source /\ jobs' = jobs
          /\ generation' = generation /\ approvals' = approvals /\ unbroken' = unbroken /\ backed' = backed
      BY <1>1 DEF brokerVars, work
    <2>2. BrokerRowsOK' /\ Unwritten' /\ VersionsCounted' /\ fingerprint' = fingerprint
      BY <2>1, AuthorityRests DEF BrokerInv, BrokerRowsOK
    <2> QED
      BY <2>1, <2>2 DEF BrokerInv, SourceIsFenced, ApprovalsAreFenced, NotAhead
  <1>2. CASE BrokerNext
    BY <1>2, ManifestSteps, PrincipalSteps, SourceSteps, JobSteps, RetrySteps, ReissueSteps DEF BrokerNext
  <1> QED
    BY <1>1, <1>2

LEMMA BrokerImplies == BrokerInv => AuthorityTypeOK /\ ManifestsApplyOnce
  <1> SUFFICES ASSUME BrokerInv PROVE AuthorityTypeOK /\ ManifestsApplyOnce
    OBVIOUS
  <1>1. \A j \in Jobs : jobs[j].state \in {"absent", "pending", "attention_required", "done"}
    BY DEF BrokerInv, BrokerRowsOK, JobRow
  <1>2. AuthorityTypeOK
    BY <1>1 DEF BrokerInv, BrokerRowsOK, BrokerRow, Unwritten, AuthorityTypeOK, Versioned
  <1>3. ManifestsApplyOnce
    BY DEF BrokerInv, VersionsCounted, ManifestsApplyOnce, Naming, Registrations
  <1> QED
    BY <1>2, <1>3

LEMMA BrokerExecutes ==
  BrokerInv /\ [BrokerNext]_brokerVars =>
    [\A j \in Jobs : (jobs[j].state # "done" /\ jobs'[j].state = "done") => current /\ (unbroken \/ j \in backed)]_brokerVars
  <1> SUFFICES ASSUME BrokerInv, BrokerNext, NEW j \in Jobs, jobs[j].state # "done", jobs'[j].state = "done"
               PROVE  current /\ (unbroken \/ j \in backed)
    OBVIOUS
  <1>0. jobs \in [Jobs -> JobRow]
    BY DEF BrokerInv, BrokerRowsOK
  <1>1. ASSUME NEW i \in Jobs, NEW state, state # "done" PROVE jobs' # [jobs EXCEPT ![i].state = state]
    BY <1>0, <1>1 DEF JobRow
  <1>2. jobs' # jobs
    OBVIOUS
  <1>3. PICK i \in Jobs : ExecuteJob(i)
    <2>1. ASSUME NEW i \in Jobs, RetryPlatformBootstrapJob(i) PROVE FALSE
      BY <1>0, <2>1 DEF RetryPlatformBootstrapJob, AppendCoreBootstrapJobRecovery, JobRow
    <2>2. ASSUME NEW i, NEW state, state # "done", jobs' = [jobs EXCEPT ![i].state = state] PROVE FALSE
      BY <1>0, <2>2 DEF JobRow
    <2>3. ~AppendPlatformBootstrapEffectAudit /\ ~ReceiveBootstrap
      BY <2>2 DEF AppendPlatformBootstrapEffectAudit, ReceiveBootstrap
    <2>4. \A i \in Jobs : ~AttentionRequired(i)
      BY <2>2 DEF AttentionRequired
    <2>5. \A m, c : ~ApplyCoreBrokerManifest(m, c)
      BY <1>2 DEF ApplyCoreBrokerManifest, work
    <2>6. \A s, st : ~ChangePrincipal(s, st)
      BY <1>2 DEF ChangePrincipal, work
    <2> QED
      BY <2>1, <2>3, <2>4, <2>5, <2>6 DEF BrokerNext
  <1>4. i = j
    <2>1. ASSUME i # j PROVE FALSE
      <3>1. CASE jobs' = [jobs EXCEPT ![i].state = "done", ![<<"expire", 1>>].state = "pending"]
        BY <1>0, <2>1, <3>1 DEF JobRow
      <3>2. CASE jobs' = [jobs EXCEPT ![i].state = "done"]
        BY <1>0, <2>1, <3>2 DEF JobRow
      <3> QED
        BY <1>3, <3>1, <3>2 DEF ExecuteJob
    <2> QED
      BY <2>1
  <1>5. bootstrapSourceAuthority /\ (matches(source) \/ HasCoreBootstrapBrokerApproval(j))
    BY <1>3, <1>4 DEF ExecuteJob, AuthorizeCoreBootstrap, currentBrokerAuthority, bootstrapAuthority
  <1>6. matches(source) => unbroken
    BY <1>5 DEF BrokerInv, SourceIsFenced, bootstrapSourceAuthority, matches
  <1>7. HasCoreBootstrapBrokerApproval(j) => j \in backed
    <2> SUFFICES ASSUME HasCoreBootstrapBrokerApproval(j) PROVE j \in backed
      OBVIOUS
    <2> PICK x \in approvals : x = [job |-> j, authority |-> fingerprint, recovery |-> jobs[j].recovery]
      BY DEF HasCoreBootstrapBrokerApproval
    <2>1. x.job = j /\ x.authority = fingerprint
      OBVIOUS
    <2> QED
      BY <2>1 DEF BrokerInv, ApprovalsAreFenced
  <1> QED
    BY <1>5, <1>6, <1>7 DEF bootstrapSourceAuthority

\* Every manifest counts once, and a Bootstrap job is done only under an
\* authority unchanged since the reception or since the approval of that very
\* job.  For any manifests and bounds.
THEOREM BrokerTheorem == BrokerSpec => AuthorityIsFenced
  <1>1. BrokerSpec => []BrokerInv
    BY BrokerInitially, BrokerSteps, PTL DEF BrokerSpec
  <1>2. BrokerSpec => [](AuthorityTypeOK /\ ManifestsApplyOnce)
    BY <1>1, BrokerImplies, PTL
  <1>3. BrokerSpec => NoExecutionAcrossRevocation
    BY <1>1, BrokerExecutes, PTL DEF BrokerSpec, NoExecutionAcrossRevocation
  <1> QED
    BY <1>2, <1>3, PTL DEF AuthorityIsFenced

-----------------------------------------------------------------------------
(***************************************************************************)
(* Replays of quarantined messages.                                        *)
(***************************************************************************)
Attempt ==
  [entry : Entries, id : ReplayRequests, number : Nat, outcome : {"received", "duplicate", "failed"},
   key : Keys, seen : Nat]
ReplayRequest ==
  [step : {"idle", "sent", "done", "failed", "uncertain", "recorded", "stopped"},
   entry : Entries \cup {Nothing}, key : Keys \cup {Nothing},
   expected : 0..Cardinality(ReplayRequests), code : FailureCodes]

DLQRowsOK ==
  /\ attempts \subseteq Attempt
  /\ requests \in [ReplayRequests -> ReplayRequest]
  /\ \A r \in ReplayRequests : requests[r].step # "idle" => requests[r].entry \in Entries /\ requests[r].key \in Keys
  /\ ledger \in [Keys -> ReplayReceipt \cup {Nothing}]

WorldOK ==
  /\ config \in Nat \ {0}
  /\ context = [e \in Entries |-> IF e \in Old THEN 0 ELSE 1]

\* The requests that left an attempt: one each.
Attempting == {r \in ReplayRequests : \E a \in attempts : a.id = r}
Number(a) == a.number
NumbersOf(S) == {Number(a) : a \in S}

Numbered ==
  /\ IsFiniteSet(attempts) /\ Cardinality(attempts) = Cardinality(Attempting)
  /\ \A a, b \in attempts : a.id = b.id => a = b
  /\ \A e \in Entries : NumbersOf(ListCoreDLQAttempts(e)) = 1..Cardinality(ListCoreDLQAttempts(e))

\* What the step of a request says of its attempt.
RequestsKnow ==
  \A r \in ReplayRequests :
    /\ requests[r].step \in {"idle", "sent", "failed"} => r \notin Attempting
    /\ requests[r].step = "recorded" => r \in Attempting
    /\ requests[r].step = "uncertain" => ThisAttemptCommitted(requests[r], r)

\* A receipt and a successful attempt go together.
LedgerIsExact ==
  /\ \A k \in Keys : ledger[k] # Nothing => ledger[k].attempt \in Attempting
  /\ \A a \in attempts : a.outcome # "failed" =>
       ledger[a.key] # Nothing /\ ledger[a.key].attempt = a.id /\ a.number = a.seen + 1

Audited ==
  \A a \in attempts : \E x \in audits : x[1] = a.id /\ (x[2] = "succeeded" <=> a.outcome # "failed")

DLQInv == DLQRowsOK /\ WorldOK /\ Numbered /\ RequestsKnow /\ LedgerIsExact /\ Audited

LEMMA Requested == IsFiniteSet(ReplayRequests) /\ Cardinality(ReplayRequests) \in Nat /\ Nothing \notin ReplayReceipt
  BY DLQAssumption, FS_CardinalityType

LEMMA ListIsFinite ==
  ASSUME DLQInv, NEW e
  PROVE  /\ IsFiniteSet(ListCoreDLQAttempts(e)) /\ Cardinality(ListCoreDLQAttempts(e)) \in Nat
         /\ Cardinality(ListCoreDLQAttempts(e)) <= Cardinality(ReplayRequests)
  <1>1. ListCoreDLQAttempts(e) \subseteq attempts /\ Attempting \subseteq ReplayRequests /\ IsFiniteSet(attempts)
    BY DEF ListCoreDLQAttempts, Attempting, DLQInv, Numbered
  <1>2. IsFiniteSet(ListCoreDLQAttempts(e)) /\ Cardinality(ListCoreDLQAttempts(e)) <= Cardinality(attempts)
    BY <1>1, FS_Subset
  <1>3. IsFiniteSet(Attempting) /\ Cardinality(Attempting) <= Cardinality(ReplayRequests)
    BY <1>1, Requested, FS_Subset
  <1>4. Cardinality(attempts) = Cardinality(Attempting)
    BY DEF DLQInv, Numbered
  <1>5. Cardinality(ListCoreDLQAttempts(e)) \in Nat /\ Cardinality(Attempting) \in Nat
    BY <1>2, <1>3, FS_CardinalityType
  <1> QED
    BY <1>2, <1>3, <1>4, <1>5, Requested

\* The number of the last attempt is how many there were.
LEMMA LastIsCount ==
  ASSUME DLQInv, NEW e \in Entries
  PROVE  LastAttempt(e) = Cardinality(ListCoreDLQAttempts(e))
  <1> PICK n \in Nat : n = Cardinality(ListCoreDLQAttempts(e))
    BY ListIsFinite
  <1>1. {a.number : a \in ListCoreDLQAttempts(e)} = 1..n
    BY DEF DLQInv, Numbered, NumbersOf, Number
  <1>2. LastAttempt(e) = Max({0} \cup 1..n)
    BY <1>1 DEF LastAttempt
  <1>3. n \in {0} \cup 1..n /\ \A y \in {0} \cup 1..n : n >= y
    OBVIOUS
  <1>4. \A x \in {0} \cup 1..n : (\A y \in {0} \cup 1..n : x >= y) => x = n
    BY <1>3
  <1>5. Max({0} \cup 1..n) = n
    BY <1>3, <1>4 DEF Max
  <1> QED
    BY <1>2, <1>5

LEMMA DLQInitially == DLQInit => DLQInv
  <1> SUFFICES ASSUME DLQInit PROVE DLQInv
    OBVIOUS
  <1>0. attempts = {} /\ requests = [r \in ReplayRequests |-> NotSent] /\ ledger = [k \in Keys |-> Nothing]
    BY DEF DLQInit
  <1>1. NotSent \in ReplayRequest /\ NotSent.step = "idle"
    BY Requested DEF NotSent, ReplayRequest, FailureCodes
  <1>2. DLQRowsOK /\ WorldOK
    BY <1>0, <1>1 DEF DLQRowsOK, WorldOK, DLQInit
  <1>3. Attempting = {} /\ \A e : ListCoreDLQAttempts(e) = {}
    BY <1>0 DEF Attempting, ListCoreDLQAttempts
  <1>4. NumbersOf({}) = {} /\ 1..0 = {}
    BY DEF NumbersOf
  <1>5. Numbered
    BY <1>0, <1>3, <1>4, FS_EmptySet DEF Numbered
  <1> QED
    BY <1>0, <1>1, <1>2, <1>3, <1>5 DEF DLQInv, RequestsKnow, LedgerIsExact, Audited

\* One more attempt, of a request that had none, with the next number.
LEMMA AttemptIsNumbered ==
  ASSUME DLQInv, NEW a \in Attempt, a.id \notin Attempting, a.number = LastAttempt(a.entry) + 1,
         attempts' = attempts \cup {a}
  PROVE  Numbered' /\ Attempting' = Attempting \cup {a.id}
  <1>0. a.id \in ReplayRequests /\ a.entry \in Entries
    BY DEF Attempt
  <1>1. a \notin attempts
    BY <1>0 DEF Attempting
  <1>2. Attempting' = Attempting \cup {a.id}
    BY <1>0 DEF Attempting
  <1>3. IsFiniteSet(attempts) /\ IsFiniteSet(Attempting) /\ Cardinality(attempts) = Cardinality(Attempting)
    <2>1. Attempting \subseteq ReplayRequests
      BY DEF Attempting
    <2> QED
      BY <2>1, Requested, FS_Subset DEF DLQInv, Numbered
  <1>4. IsFiniteSet(attempts') /\ Cardinality(attempts') = Cardinality(Attempting')
    <2>1. IsFiniteSet(attempts') /\ Cardinality(attempts') = Cardinality(attempts) + 1
      BY <1>1, <1>3, FS_AddElement
    <2>2. Cardinality(Attempting') = Cardinality(Attempting) + 1
      BY <1>2, <1>3, FS_AddElement
    <2> QED
      BY <1>3, <2>1, <2>2
  <1>5. \A x, y \in attempts' : x.id = y.id => x = y
    <2>1. \A x \in attempts : x.id # a.id
      BY <1>0 DEF Attempting
    <2> QED
      BY <2>1 DEF DLQInv, Numbered
  <1>6. ASSUME NEW e \in Entries
        PROVE  NumbersOf(ListCoreDLQAttempts(e)') = 1..Cardinality(ListCoreDLQAttempts(e)')
    <2> PICK n \in Nat : n = Cardinality(ListCoreDLQAttempts(e)) /\ IsFiniteSet(ListCoreDLQAttempts(e))
      BY ListIsFinite
    <2>1. NumbersOf(ListCoreDLQAttempts(e)) = 1..n
      BY DEF DLQInv, Numbered
    <2>2. CASE a.entry = e
      <3>1. ListCoreDLQAttempts(e)' = ListCoreDLQAttempts(e) \cup {a} /\ a \notin ListCoreDLQAttempts(e)
        BY <1>1, <2>2 DEF ListCoreDLQAttempts
      <3>2. Cardinality(ListCoreDLQAttempts(e)') = n + 1
        BY <3>1, FS_AddElement
      <3>3. a.number = n + 1
        BY <1>0, <2>2, LastIsCount
      <3>4. NumbersOf(ListCoreDLQAttempts(e) \cup {a}) = NumbersOf(ListCoreDLQAttempts(e)) \cup {a.number}
        BY DEF NumbersOf, Number
      <3>5. (1..n) \cup {n + 1} = 1..n + 1
        OBVIOUS
      <3> QED
        BY <2>1, <3>1, <3>2, <3>3, <3>4, <3>5
    <2>3. CASE a.entry # e
      <3>1. ListCoreDLQAttempts(e)' = ListCoreDLQAttempts(e)
        BY <2>3 DEF ListCoreDLQAttempts
      <3> QED
        BY <2>1, <3>1
    <2> QED
      BY <2>2, <2>3
  <1> QED
    BY <1>2, <1>4, <1>5, <1>6 DEF Numbered

\* A step that writes nothing of a replay.
LEMMA ReplaysRest ==
  ASSUME DLQInv, attempts' = attempts, audits' = audits, ledger' = ledger, requests' = requests,
         context' = context, config' \in Nat \ {0}
  PROVE  DLQInv'
  <1>1. DLQRowsOK' /\ WorldOK'
    BY DEF DLQInv, DLQRowsOK, WorldOK
  <1>2. Attempting' = Attempting /\ Numbered'
    BY DEF DLQInv, Numbered, Attempting, ListCoreDLQAttempts
  <1>3. RequestsKnow' /\ LedgerIsExact' /\ Audited'
    BY <1>2 DEF DLQInv, RequestsKnow, LedgerIsExact, Audited, ThisAttemptCommitted, Intent
  <1> QED
    BY <1>1, <1>2, <1>3 DEF DLQInv

\* A request moves on without an attempt.
LEMMA RequestMoves ==
  ASSUME DLQInv, attempts' = attempts, audits' = audits, ledger' = ledger, context' = context, config' = config,
         NEW r \in ReplayRequests, NEW new \in ReplayRequest, requests' = [requests EXCEPT ![r] = new],
         new.entry \in Entries, new.key \in Keys, new.step # "uncertain",
         new.step \in {"idle", "sent", "failed"} => r \notin Attempting,
         new.step = "recorded" => r \in Attempting
  PROVE  DLQInv'
  <1>0. \A q \in ReplayRequests : requests'[q] = IF q = r THEN new ELSE requests[q]
    BY DEF DLQInv, DLQRowsOK
  <1>1. DLQRowsOK' /\ WorldOK'
    BY <1>0 DEF DLQInv, DLQRowsOK, WorldOK
  <1>2. Attempting' = Attempting /\ Numbered'
    BY DEF DLQInv, Numbered, Attempting, ListCoreDLQAttempts
  <1>3. LedgerIsExact' /\ Audited'
    BY <1>2 DEF DLQInv, LedgerIsExact, Audited
  <1>4. RequestsKnow'
    BY <1>0, <1>2 DEF DLQInv, RequestsKnow, ThisAttemptCommitted, Intent
  <1> QED
    BY <1>1, <1>2, <1>3, <1>4 DEF DLQInv

\* A request leaves its attempt and audit event.
LEMMA AttemptMoves ==
  ASSUME DLQInv, context' = context, config' = config,
         NEW r \in ReplayRequests, r \notin Attempting,
         NEW a \in Attempt, a.id = r, a.number = LastAttempt(a.entry) + 1, attempts' = attempts \cup {a},
         NEW result, audits' = audits \cup {<<r, result>>}, result = "succeeded" <=> a.outcome # "failed",
         NEW new \in ReplayRequest, requests' = [requests EXCEPT ![r] = new],
         new.entry \in Entries, new.key \in Keys, new.step \in {"done", "uncertain", "recorded"},
         ledger' \in [Keys -> ReplayReceipt \cup {Nothing}],
         \A k \in Keys : ledger[k] # Nothing => ledger'[k] = ledger[k],
         \A k \in Keys : ledger'[k] # ledger[k] => ledger'[k].attempt = r,
         a.outcome # "failed" => ledger'[a.key] # Nothing /\ ledger'[a.key].attempt = r /\ a.number = a.seen + 1,
         new.step = "uncertain" => /\ ledger'[new.key] # Nothing /\ ledger'[new.key].attempt = r
                                   /\ ledger'[new.key].intent = Intent(new)
  PROVE  DLQInv'
  <1>0. \A q \in ReplayRequests : requests'[q] = IF q = r THEN new ELSE requests[q]
    BY DEF DLQInv, DLQRowsOK
  <1>1. DLQRowsOK' /\ WorldOK'
    BY <1>0 DEF DLQInv, DLQRowsOK, WorldOK
  <1>2. Numbered' /\ Attempting' = Attempting \cup {r}
    BY AttemptIsNumbered
  <1>3. LedgerIsExact'
    <2>1. \A k \in Keys : ledger'[k] # Nothing => ledger'[k].attempt \in Attempting'
      BY <1>2 DEF DLQInv, LedgerIsExact
    <2>2. ASSUME NEW b \in attempts, b.outcome # "failed"
          PROVE  ledger'[b.key] # Nothing /\ ledger'[b.key].attempt = b.id /\ b.number = b.seen + 1
      <3>1. b.key \in Keys
        BY DEF DLQInv, DLQRowsOK, Attempt
      <3> QED
        BY <2>2, <3>1 DEF DLQInv, LedgerIsExact
    <2> QED
      BY <2>1, <2>2 DEF LedgerIsExact
  <1>4. Audited'
    <2>1. <<r, result>>[1] = r /\ <<r, result>>[2] = result
      OBVIOUS
    <2>2. ASSUME NEW b \in attempts' PROVE \E x \in audits' : x[1] = b.id /\ (x[2] = "succeeded" <=> b.outcome # "failed")
      BY <2>1 DEF DLQInv, Audited
    <2> QED
      BY <2>2 DEF Audited
  <1>5. RequestsKnow'
    <2>1. ASSUME NEW q \in ReplayRequests, q # r, requests[q].step = "uncertain"
          PROVE  ledger'[requests[q].key] = ledger[requests[q].key] /\ ThisAttemptCommitted(requests[q], q)
      BY <2>1 DEF DLQInv, RequestsKnow, ThisAttemptCommitted, DLQRowsOK
    <2> QED
      BY <1>0, <1>2, <2>1 DEF DLQInv, RequestsKnow, ThisAttemptCommitted, Intent
  <1> QED
    BY <1>1, <1>2, <1>3, <1>4, <1>5 DEF DLQInv

LEMMA RequestParts ==
  ASSUME DLQInv, NEW r \in ReplayRequests, requests[r].step # "idle"
  PROVE  /\ requests[r].entry \in Entries /\ requests[r].key \in Keys
         /\ requests[r].expected \in 0..Cardinality(ReplayRequests)
  <1>1. requests[r] \in ReplayRequest
    BY DEF DLQInv, DLQRowsOK
  <1>2. requests[r].expected \in 0..Cardinality(ReplayRequests)
    BY <1>1 DEF ReplayRequest
  <1> QED
    BY <1>2 DEF DLQInv, DLQRowsOK

\* A request keeps its type when its step and code change.
Turned(q, step) == [q EXCEPT !.step = step]
Refused(q, code) == [q EXCEPT !.step = "failed", !.code = code]

LEMMA RequestTurns ==
  ASSUME DLQInv, NEW r \in ReplayRequests,
         NEW step \in {"idle", "sent", "done", "failed", "uncertain", "recorded", "stopped"}
  PROVE  /\ Turned(requests[r], step) \in ReplayRequest /\ Turned(requests[r], step).step = step
         /\ Turned(requests[r], step).entry = requests[r].entry /\ Turned(requests[r], step).key = requests[r].key
         /\ Turned(requests[r], step).expected = requests[r].expected
  <1> PICK q \in ReplayRequest : q = requests[r]
    BY DEF DLQInv, DLQRowsOK
  <1>1. [q EXCEPT !.step = step] \in ReplayRequest
    BY DEF ReplayRequest
  <1>2. /\ [q EXCEPT !.step = step].step = step /\ [q EXCEPT !.step = step].entry = q.entry
        /\ [q EXCEPT !.step = step].key = q.key /\ [q EXCEPT !.step = step].expected = q.expected
    BY DEF ReplayRequest
  <1> QED
    BY <1>1, <1>2 DEF Turned

LEMMA RequestIsRefused ==
  ASSUME DLQInv, NEW r \in ReplayRequests, NEW code \in FailureCodes
  PROVE  /\ Refused(requests[r], code) \in ReplayRequest /\ Refused(requests[r], code).step = "failed"
         /\ Refused(requests[r], code).entry = requests[r].entry /\ Refused(requests[r], code).key = requests[r].key
  <1> PICK q \in ReplayRequest : q = requests[r]
    BY DEF DLQInv, DLQRowsOK
  <1> PICK new : new = [q EXCEPT !.step = "failed", !.code = code]
    OBVIOUS
  <1>1. new \in ReplayRequest /\ new.step = "failed" /\ new.entry = q.entry /\ new.key = q.key
    BY DEF ReplayRequest
  <1> QED
    BY <1>1 DEF Refused

LEMMA SendSteps ==
  ASSUME DLQInv, NEW r \in ReplayRequests, NEW e \in Entries, NEW k \in Keys, Send(r, e, k)
  PROVE  DLQInv'
  <1>0. /\ attempts' = attempts /\ audits' = audits /\ ledger' = ledger /\ context' = context /\ config' = config
        /\ requests[r].step = "idle"
    BY DEF Send, durable, world
  <1> PICK n : n = LastAttempt(e)
    OBVIOUS
  <1>1. n \in 0..Cardinality(ReplayRequests)
    BY LastIsCount, ListIsFinite, Requested
  <1> PICK new : new = [step |-> "sent", entry |-> e, key |-> k, expected |-> n, code |-> "none"]
    OBVIOUS
  <1>2. requests' = [requests EXCEPT ![r] = new]
    <2>1. LoadPlatformCoreDLQ(e).attempt = n
      BY DEF LoadPlatformCoreDLQ
    <2> QED
      BY <2>1 DEF Send
  <1>3. new \in ReplayRequest /\ new.step = "sent" /\ new.entry \in Entries /\ new.key \in Keys
    BY <1>1 DEF ReplayRequest, FailureCodes
  <1>4. r \notin Attempting
    BY <1>0 DEF DLQInv, RequestsKnow
  <1> QED
    BY <1>0, <1>2, <1>3, <1>4, RequestMoves

LEMMA ReplaySteps ==
  ASSUME DLQInv, NEW r \in ReplayRequests, ReplayCoreDLQEntry(r)
  PROVE  DLQInv'
  <1> PICK q : q = requests[r]
    OBVIOUS
  <1>0. /\ q.step = "sent" /\ context' = context /\ config' = config /\ MayReplay(q)
        /\ ledger' = [ledger EXCEPT ![q.key] = [intent |-> Intent(q), attempt |-> r]]
    BY DEF ReplayCoreDLQEntry, world, SavePlatformMutation
  <1>1. /\ q.entry \in Entries /\ q.key \in Keys /\ q.expected \in 0..Cardinality(ReplayRequests)
        /\ r \notin Attempting
    BY <1>0, RequestParts DEF DLQInv, RequestsKnow
  <1>2. LastAttempt(q.entry) = q.expected /\ ledger[q.key] = Nothing
    BY <1>0 DEF MayReplay, FindPlatformMutation
  <1> PICK outcome \in {"received", "duplicate"} : outcome = ReplayOutcome(q.entry)
    BY DEF ReplayOutcome
  <1> PICK a : a = [entry |-> q.entry, id |-> r, number |-> q.expected + 1, outcome |-> outcome,
                    key |-> q.key, seen |-> q.expected]
    OBVIOUS
  <1>3. attempts' = attempts \cup {a} /\ audits' = audits \cup {<<r, "succeeded">>}
    <2>1. AppendPlatformCoreDLQAttempt(q, r, outcome)
      BY DEF ReplayCoreDLQEntry
    <2>2. AuditResult(q, outcome) = "succeeded"
      <3>1. outcome # "failed"
        OBVIOUS
      <3> QED
        BY <3>1 DEF AuditResult
    <2> QED
      BY <1>2, <2>1, <2>2 DEF AppendPlatformCoreDLQAttempt, AppendCoreDLQAttempt
  <1>4. q.expected \in Nat /\ q.expected + 1 \in Nat
    BY <1>1, Requested
  <1>5. /\ a \in Attempt /\ a.id = r /\ a.number = LastAttempt(a.entry) + 1 /\ a.outcome # "failed"
        /\ a.key = q.key /\ a.number = a.seen + 1
    BY <1>1, <1>2, <1>4 DEF Attempt
  <1> PICK receipt : receipt = [intent |-> Intent(q), attempt |-> r]
    OBVIOUS
  <1>6. receipt \in ReplayReceipt /\ receipt # Nothing /\ receipt.attempt = r /\ receipt.intent = Intent(q)
    BY <1>1, Requested DEF ReplayReceipt, Intent
  <1>7. ledger \in [Keys -> ReplayReceipt \cup {Nothing}] /\ ledger' = [ledger EXCEPT ![q.key] = receipt]
    BY <1>0 DEF DLQInv, DLQRowsOK
  <1>8. /\ ledger' \in [Keys -> ReplayReceipt \cup {Nothing}]
        /\ \A k \in Keys : ledger[k] # Nothing => ledger'[k] = ledger[k]
        /\ \A k \in Keys : ledger'[k] # ledger[k] => ledger'[k].attempt = r
        /\ ledger'[q.key] = receipt
    BY <1>1, <1>2, <1>6, <1>7
  <1>9. PICK step \in {"done", "uncertain"} : requests' = [requests EXCEPT ![r].step = step]
    BY DEF ReplayCoreDLQEntry
  <1> PICK new : new = Turned(q, step)
    OBVIOUS
  <1>10. /\ new \in ReplayRequest /\ new.step = step /\ new.entry = q.entry /\ new.key = q.key
         /\ new.expected = q.expected
    BY RequestTurns
  <1>11. requests' = [requests EXCEPT ![r] = new] /\ Intent(new) = Intent(q)
    <2>1. Intent(new) = Intent(q)
      BY <1>10 DEF Intent
    <2> QED
      BY <1>9, <2>1 DEF Turned
  <1>12. new.entry \in Entries /\ new.key \in Keys /\ new.step \in {"done", "uncertain", "recorded"}
    BY <1>1, <1>10
  <1>13. ledger'[a.key] = receipt /\ ledger'[new.key] = receipt
    BY <1>5, <1>8, <1>10
  <1>14. /\ context' = context /\ config' = config /\ r \notin Attempting
         /\ a \in Attempt /\ a.id = r /\ a.number = LastAttempt(a.entry) + 1 /\ attempts' = attempts \cup {a}
         /\ audits' = audits \cup {<<r, "succeeded">>} /\ ("succeeded" = "succeeded" <=> a.outcome # "failed")
    BY <1>0, <1>1, <1>3, <1>5
  <1>15. /\ new \in ReplayRequest /\ requests' = [requests EXCEPT ![r] = new]
         /\ a.outcome # "failed" => ledger'[a.key] # Nothing /\ ledger'[a.key].attempt = r /\ a.number = a.seen + 1
         /\ new.step = "uncertain" => /\ ledger'[new.key] # Nothing /\ ledger'[new.key].attempt = r
                                      /\ ledger'[new.key].intent = Intent(new)
    BY <1>5, <1>6, <1>10, <1>11, <1>13
  <1> QED
    BY <1>8, <1>12, <1>14, <1>15, AttemptMoves

LEMMA TurnSteps ==
  ASSUME DLQInv, NEW r \in ReplayRequests, ReplayedBefore(r) \/ ReplayRefused(r) \/ Stop(r)
  PROVE  DLQInv'
  <1>0. /\ attempts' = attempts /\ audits' = audits /\ ledger' = ledger /\ context' = context /\ config' = config
        /\ requests[r].step \in {"sent", "failed", "uncertain"}
    BY DEF ReplayedBefore, ReplayRefused, Stop, durable, world
  <1>1. requests[r].entry \in Entries /\ requests[r].key \in Keys
    BY <1>0, RequestParts
  <1>2. CASE ReplayedBefore(r) \/ Stop(r)
    <2> PICK step \in {"done", "stopped"} : requests' = [requests EXCEPT ![r].step = step]
      BY <1>2 DEF ReplayedBefore, Stop
    <2> PICK new : new = Turned(requests[r], step)
      OBVIOUS
    <2>1. new \in ReplayRequest /\ new.step = step /\ new.entry = requests[r].entry /\ new.key = requests[r].key
      BY RequestTurns
    <2>2. requests' = [requests EXCEPT ![r] = new]
      BY DEF Turned
    <2> QED
      BY <1>0, <1>1, <2>1, <2>2, RequestMoves
  <1>3. CASE ReplayRefused(r)
    <2> PICK code \in FailureCodes : code = Refusal(requests[r])
      BY DEF Refusal, CoreDLQFailureCode, FailureCodes
    <2> PICK new : new = Refused(requests[r], code)
      OBVIOUS
    <2>1. new \in ReplayRequest /\ new.step = "failed" /\ new.entry = requests[r].entry /\ new.key = requests[r].key
      BY RequestIsRefused
    <2>2. requests' = [requests EXCEPT ![r] = new] /\ requests[r].step = "sent"
      BY <1>3 DEF ReplayRefused, Refused
    <2>3. r \notin Attempting
      BY <2>2 DEF DLQInv, RequestsKnow
    <2> QED
      BY <1>0, <1>1, <2>1, <2>2, <2>3, RequestMoves
  <1> QED
    BY <1>2, <1>3

\* The recorder finds the attempt committed exactly when there is one.
LEMMA RecordSteps ==
  ASSUME DLQInv, NEW r \in ReplayRequests, RecordCoreDLQFailure(r)
  PROVE  DLQInv'
  <1> PICK q : q = requests[r]
    OBVIOUS
  <1>0. /\ q.step \in {"failed", "uncertain"} /\ ledger' = ledger /\ context' = context /\ config' = config
        /\ requests' = [requests EXCEPT ![r].step = "recorded"]
    BY DEF RecordCoreDLQFailure, world
  <1>1. q.entry \in Entries /\ q.key \in Keys /\ q.expected \in 0..Cardinality(ReplayRequests)
    BY <1>0, RequestParts
  <1> PICK new : new = Turned(q, "recorded")
    OBVIOUS
  <1>2. new \in ReplayRequest /\ new.step = "recorded" /\ new.entry = q.entry /\ new.key = q.key
    BY RequestTurns
  <1>3. requests' = [requests EXCEPT ![r] = new]
    BY <1>0 DEF Turned
  <1>4. CASE ThisAttemptCommitted(q, r)
    <2>1. attempts' = attempts /\ audits' = audits
      BY <1>4 DEF RecordCoreDLQFailure
    <2>2. r \in Attempting
      BY <1>1, <1>4 DEF ThisAttemptCommitted, DLQInv, LedgerIsExact
    <2> QED
      BY <1>0, <1>1, <1>2, <1>3, <2>1, <2>2, RequestMoves
  <1>5. CASE ~ThisAttemptCommitted(q, r)
    <2>1. r \notin Attempting
      BY <1>0, <1>5 DEF DLQInv, RequestsKnow
    <2> PICK n \in Nat : n = LastAttempt(q.entry)
      BY <1>1, LastIsCount, ListIsFinite
    <2> PICK a : a = [entry |-> q.entry, id |-> r, number |-> n + 1, outcome |-> "failed",
                      key |-> q.key, seen |-> q.expected]
      OBVIOUS
    <2> PICK result : result = AuditResult(q, "failed")
      OBVIOUS
    <2>2. attempts' = attempts \cup {a} /\ audits' = audits \cup {<<r, result>>}
      BY <1>5 DEF RecordCoreDLQFailure, AppendPlatformCoreDLQAttempt, AppendCoreDLQAttempt
    <2>3. result # "succeeded"
      BY DEF AuditResult
    <2>4. q.expected \in Nat
      BY <1>1, Requested
    <2>5. a \in Attempt /\ a.id = r /\ a.number = LastAttempt(a.entry) + 1 /\ a.outcome = "failed"
      BY <1>1, <2>4 DEF Attempt
    <2>6. ledger' \in [Keys -> ReplayReceipt \cup {Nothing}]
      BY <1>0 DEF DLQInv, DLQRowsOK
    <2>7. /\ context' = context /\ config' = config /\ (result = "succeeded" <=> a.outcome # "failed")
          /\ a.outcome # "failed" => ledger'[a.key] # Nothing /\ ledger'[a.key].attempt = r /\ a.number = a.seen + 1
          /\ \A k \in Keys : ledger[k] # Nothing => ledger'[k] = ledger[k]
          /\ \A k \in Keys : ledger'[k] # ledger[k] => ledger'[k].attempt = r
      BY <1>0, <2>3, <2>5
    <2>8. /\ new.entry \in Entries /\ new.key \in Keys /\ new.step \in {"done", "uncertain", "recorded"}
          /\ new.step = "uncertain" => /\ ledger'[new.key] # Nothing /\ ledger'[new.key].attempt = r
                                       /\ ledger'[new.key].intent = Intent(new)
      BY <1>1, <1>2
    <2> QED
      BY <1>2, <1>3, <2>1, <2>2, <2>5, <2>6, <2>7, <2>8, AttemptMoves
  <1> QED
    BY <1>4, <1>5

LEMMA DLQSteps == DLQInv /\ [DLQNext]_dlqVars => DLQInv'
  <1> SUFFICES ASSUME DLQInv, [DLQNext]_dlqVars PROVE DLQInv'
    OBVIOUS
  <1>0. config \in Nat \ {0}
    BY DEF DLQInv, WorldOK
  <1>1. CASE UNCHANGED dlqVars
    BY <1>0, <1>1, ReplaysRest DEF dlqVars, durable, world
  <1>2. ASSUME NEW b, DLQAuthorityChanges(b) PROVE DLQInv'
    BY <1>0, <1>2, ReplaysRest DEF DLQAuthorityChanges, durable
  <1>3. CASE ChangeHuman
    BY <1>0, <1>3, ReplaysRest DEF ChangeHuman, durable
  <1>4. CASE Reconfigure
    <2>1. config' \in Nat \ {0}
      BY <1>0, <1>4 DEF Reconfigure
    <2> QED
      BY <1>4, <2>1, ReplaysRest DEF Reconfigure, durable
  <1>5. ASSUME NEW k, ADayPasses(k) PROVE DLQInv'
    BY <1>0, <1>5, ReplaysRest DEF ADayPasses, durable
  <1>6. ASSUME NEW e, LiveReceive(e) PROVE DLQInv'
    BY <1>0, <1>6, ReplaysRest DEF LiveReceive, world
  <1>7. CASE DLQNext
    BY <1>2, <1>3, <1>4, <1>5, <1>6, <1>7, SendSteps, ReplaySteps, TurnSteps, RecordSteps DEF DLQNext
  <1> QED
    BY <1>1, <1>7

LEMMA DLQImplies == DLQInv => DLQTypeOK /\ OneOutcomePerAttempt /\ ReplaysSeeEveryAttempt /\ EvidenceIsComplete
  <1> SUFFICES ASSUME DLQInv
               PROVE  DLQTypeOK /\ OneOutcomePerAttempt /\ ReplaysSeeEveryAttempt /\ EvidenceIsComplete
    OBVIOUS
  <1>1. DLQTypeOK
    <2>1. \A k \in Keys : ledger[k] # Nothing => ledger[k].attempt \in ReplayRequests
      BY DEF DLQInv, DLQRowsOK, ReplayReceipt
    <2> QED
      BY <2>1 DEF DLQInv, DLQRowsOK, Audited, DLQTypeOK, Attempt, ReplayRequest
  <1>2. OneOutcomePerAttempt
    BY DEF DLQInv, Numbered, OneOutcomePerAttempt, NumbersOf, Number
  <1>3. ReplaysSeeEveryAttempt
    <2> SUFFICES ASSUME NEW a \in Succeeded, NEW b \in ListCoreDLQAttempts(a.entry), b.number < a.number
                 PROVE  b.number <= a.seen
      BY DEF ReplaysSeeEveryAttempt
    <2>1. a.number = a.seen + 1 /\ a.seen \in Nat /\ b.number \in Nat
      BY DEF Succeeded, ListCoreDLQAttempts, DLQInv, LedgerIsExact, DLQRowsOK, Attempt
    <2> QED
      BY <2>1
  <1>4. EvidenceIsComplete
    <2>1. \A a, b \in Succeeded : a.key = b.key => a = b
      BY DEF DLQInv, LedgerIsExact, Numbered, Succeeded
    <2>2. \A r \in ReplayRequests : requests[r].step = "recorded" => \E a \in attempts : a.id = r
      BY DEF DLQInv, RequestsKnow, Attempting
    <2> QED
      BY <2>1, <2>2 DEF EvidenceIsComplete
  <1> QED
    BY <1>1, <1>2, <1>3, <1>4

LEMMA ReplaysKeepProvenance ==
  DLQInv /\ [DLQNext]_dlqVars =>
    [\A a \in Succeeded' \ Succeeded :
       /\ a.entry \notin Old /\ context[a.entry] = config
       /\ human /\ dlqAuthority.active
       /\ received[a.entry] # 0 => received[a.entry] = dlqAuthority.version]_dlqVars
  <1> SUFFICES ASSUME DLQInv, DLQNext, NEW a \in Succeeded' \ Succeeded
               PROVE  /\ a.entry \notin Old /\ context[a.entry] = config
                      /\ human /\ dlqAuthority.active
                      /\ received[a.entry] # 0 => received[a.entry] = dlqAuthority.version
    OBVIOUS
  <1>1. attempts' # attempts /\ a \in attempts' /\ a \notin attempts /\ a.outcome # "failed"
    BY DEF Succeeded
  <1>2. PICK r \in ReplayRequests : ReplayCoreDLQEntry(r)
    <2>1. ASSUME NEW r \in ReplayRequests, RecordCoreDLQFailure(r) PROVE FALSE
      BY <1>1, <2>1 DEF RecordCoreDLQFailure, AppendPlatformCoreDLQAttempt, AppendCoreDLQAttempt
    <2>2. \A r, e, k : ~Send(r, e, k)
      BY <1>1 DEF Send, durable
    <2>3. \A r : ~ReplayedBefore(r) /\ ~ReplayRefused(r) /\ ~Stop(r)
      BY <1>1 DEF ReplayedBefore, ReplayRefused, Stop, durable
    <2>4. /\ \A b : ~DLQAuthorityChanges(b) /\ ~ADayPasses(b) /\ ~LiveReceive(b)
          /\ ~ChangeHuman /\ ~Reconfigure
      BY <1>1 DEF DLQAuthorityChanges, ADayPasses, LiveReceive, ChangeHuman, Reconfigure, durable
    <2> QED
      BY <2>1, <2>2, <2>3, <2>4 DEF DLQNext
  <1> PICK q : q = requests[r]
    OBVIOUS
  <1>3. a.entry = q.entry /\ MayReplay(q) /\ q.entry \in Entries
    <2>1. a.entry = q.entry
      BY <1>1, <1>2 DEF ReplayCoreDLQEntry, AppendPlatformCoreDLQAttempt, AppendCoreDLQAttempt
    <2>2. MayReplay(q) /\ q.step = "sent"
      BY <1>2 DEF ReplayCoreDLQEntry
    <2> QED
      BY <2>1, <2>2 DEF DLQInv, DLQRowsOK
  <1>4. context[q.entry] = config /\ human /\ dlqAuthority.active /\ received[q.entry] \in {0, dlqAuthority.version}
    BY <1>3 DEF MayReplay, Allowed, recheckCoreDLQHuman, CheckPlatformCoreDLQSource, ReadCoreDLQContext, receiveInTransaction
  <1>5. q.entry \notin Old
    BY <1>3, <1>4 DEF DLQInv, WorldOK
  <1> QED
    BY <1>3, <1>4, <1>5

\* Whatever became of a replay's commit, it leaves one attempt and its evidence,
\* decided on a current view, under current authority and with provenance.  For
\* any entries, keys and finitely many requests.
THEOREM ReplaysTheorem == DLQSpec => ReplaysAreAccountable
  <1>1. DLQSpec => []DLQInv
    BY DLQInitially, DLQSteps, PTL DEF DLQSpec
  <1>2. DLQSpec => [](DLQTypeOK /\ OneOutcomePerAttempt /\ ReplaysSeeEveryAttempt /\ EvidenceIsComplete)
    BY <1>1, DLQImplies, PTL
  <1>3. DLQSpec => ReplayKeepsProvenance
    BY <1>1, ReplaysKeepProvenance, PTL DEF DLQSpec, ReplayKeepsProvenance
  <1> QED
    BY <1>2, <1>3, PTL DEF ReplaysAreAccountable

-----------------------------------------------------------------------------
(***************************************************************************)
(* Workload credentials and invocations.                                   *)
(***************************************************************************)
\* A caller whose grant is a row of the database.
Admissible(c) ==
  /\ c \in DirectCaller
  /\ \/ c.identity.workload \in Callers /\ c.operation \in CallerOperations
     \/ c.identity.workload \in Receivers /\ c.operation \in ReceiverOperations

\* The versions of a caller are no older than those at the start of a request,
\* or are those of the rows now.
Fresh(start, c) ==
  /\ start[IdentityRow(c.identity.workload)] <= c.identity.version
  /\ start[GrantRow(c.identity.workload, c.operation)] <= c.grant
  /\ start[RegistryRow] <= c.revision

AsRead(c) ==
  /\ row[IdentityRow(c.identity.workload)].version = c.identity.version
  /\ row[GrantRow(c.identity.workload, c.operation)].version = c.grant
  /\ row[RegistryRow].version = c.revision

DatabaseOK ==
  /\ row \in [RowNames -> [active : BOOLEAN, version : Version]]
  /\ \A n \in RowNames : row[n].version <= changes
  /\ loaded \in Version /\ now \in 0..MaxTime /\ changes \in Version

TokenOK(wat) ==
  wat \in WorkloadTokenClaims /\ Admissible(wat.caller) /\ wat.caller.identity.workload \in Callers

DelegationOK(w, d) ==
  /\ d \in DelegationClaims /\ Admissible(d.caller) /\ d.caller.identity.workload = w
  /\ d.subject.id \notin NeverExpiring => d.expires <= SubjectLife
  /\ \E wat \in wats : wat.id = d.wat /\ d.expires <= wat.expires

ContinuationOK(k) ==
  /\ k \in SessionContinuationClaims
  /\ Admissible(k.caller) /\ Admissible(k.receiver) /\ Admissible(k.authority)
  /\ <<k.receiver.identity.workload, k.caller.identity.workload, k.subject.id>> \in invocations
  /\ k.subject.id \notin NeverExpiring => k.expires <= SubjectLife

StartOK(start) ==
  start \in [RowNames -> Version] /\ \A n \in RowNames : start[n] <= row[n].version

\* What a request has read by each of its steps.
IssuesRead(q) ==
  /\ q.step \in {"signed", "recorded"} => q.ingress.operation \in {"issue", "delegate"}
  /\ q.step \in {"signed", "recorded"} /\ q.ingress.operation = "issue" => TokenOK(q.read)
  /\ q.step \in {"signed", "recorded"} /\ q.ingress.operation = "delegate"
       => DelegationOK(q.ingress.identity.workload, q.read)
  /\ q.step = "recorded" => q.read \in audit
  /\ q.step \in {"caller", "subject"} /\ q.ingress.operation = "delegate" =>
       q.read.wat \in wats /\ q.read.wat.caller.identity.workload = q.ingress.identity.workload
  /\ q.step = "subject" /\ q.ingress.operation = "delegate" => q.read.subject \in DelegatedSubject

VerificationsRead(q) ==
  /\ (\/ q.step = "receiver" /\ q.ingress.operation \in {"verify", "check"}
      \/ q.step = "caller" /\ q.ingress.operation = "verify")
     => Admissible(q.read.authority) /\ Fresh(q.start, q.read.authority)
  /\ q.step = "caller" /\ q.ingress.operation = "verify" =>
       /\ q.read.delegation \in DelegationClaims /\ Admissible(q.read.delegation.caller)
       /\ q.read.delegation.caller.identity.workload \in Callers
       /\ Fresh(q.start, q.read.delegation.caller)

ResumptionsRead(q) ==
  q.ingress.operation = "resume" =>
    /\ q.step \in {"receiver", "original", "caller"} =>
         /\ q.read.proof \in continuations /\ Fresh(q.start, q.read.proof.authority)
         /\ q.read.proof.receiver.identity = q.ingress.identity
    /\ q.step \in {"original", "caller"} => Fresh(q.start, q.read.proof.receiver)
    /\ q.step = "caller" => Fresh(q.start, q.read.proof.caller)

RequestOK(q) ==
  /\ Admissible(q.ingress) /\ StartOK(q.start) /\ Fresh(q.start, q.ingress)
  /\ IssuesRead(q) /\ VerificationsRead(q) /\ ResumptionsRead(q)

RequestsOK ==
  DOMAIN request = Requests /\ \A r \in Requests : request[r].step = "idle" \/ RequestOK(request[r])

CredentialsOK ==
  /\ IsFiniteSet(wats) /\ wats \subseteq audit /\ \A wat \in wats : TokenOK(wat)
  /\ \A d \in delegations : d \in Callers \X DelegationClaims /\ DelegationOK(d[1], d[2]) /\ d[2] \in audit
  /\ \A k \in continuations : ContinuationOK(k)
  /\ invocations \subseteq Receivers \X Callers \X Subjects

InvocationInv == DatabaseOK /\ RequestsOK /\ CredentialsOK /\ NoUseAfterRevocation /\ ContinuationFollowsAdmission

LEMMA InvocationBounds ==
  /\ MaxTime \in Nat /\ MaxChanges \in Nat /\ MaxIssued \in Nat /\ SubjectLife \in Nat
  /\ WorkloadTokenMaxTTL \in Nat /\ DelegationMaxTTL \in Nat /\ SessionContinuationMaxTTL \in Nat
  BY InvocationAssumption

LEMMA InvocationInitially == InvocationInit => InvocationInv
  <1> SUFFICES ASSUME InvocationInit PROVE InvocationInv
    OBVIOUS
  <1> USE DEF InvocationInit
  <1>1. 0 \in Version /\ 0 \in 0..MaxTime
    BY InvocationBounds DEF Version
  <1>2. DatabaseOK
    BY <1>1 DEF DatabaseOK
  <1>3. RequestsOK
    BY DEF RequestsOK, Idle
  <1>4. CredentialsOK
    BY FS_EmptySet DEF CredentialsOK
  <1> QED
    BY <1>2, <1>3, <1>4 DEF InvocationInv, NoUseAfterRevocation, ContinuationFollowsAdmission

LEMMA RowsAreNamed ==
  ASSUME NEW c, Admissible(c)
  PROVE  /\ IdentityRow(c.identity.workload) \in RowNames /\ RegistryRow \in RowNames
         /\ GrantRow(c.identity.workload, c.operation) \in RowNames
  BY DEF Admissible, RowNames, Workloads

\* What is read now is no older than the request.
LEMMA ReadIsFresh ==
  ASSUME NEW c, Admissible(c), AsRead(c), NEW start, StartOK(start)
  PROVE  Fresh(start, c)
  BY RowsAreNamed DEF AsRead, StartOK, Fresh

\* A caller found by the database.
LEMMA AuthorizedIsRead ==
  ASSUME DatabaseOK, NEW id \in WorkloadIdentity, NEW op, CheckWorkloadGrant(id, op),
         \/ id.workload \in Callers /\ op \in CallerOperations
         \/ id.workload \in Receivers /\ op \in ReceiverOperations,
         NEW c, c = AuthorizedCaller(id, op)
  PROVE  Admissible(c) /\ AsRead(c) /\ c.identity = id /\ c.operation = op
  <1>1. /\ c.identity = id /\ c.operation = op /\ c.grant = row[GrantRow(id.workload, op)].version
        /\ c.revision = loaded
    BY DEF AuthorizedCaller
  <1>2. GrantRow(id.workload, op) \in RowNames
    BY DEF RowNames
  <1>3. c.grant \in Version /\ loaded \in Version
    BY <1>1, <1>2 DEF DatabaseOK
  <1>4. op \in CallerOperations \cup ReceiverOperations
    OBVIOUS
  <1>5. c = [identity |-> id, operation |-> op, grant |-> row[GrantRow(id.workload, op)].version, revision |-> loaded]
    BY DEF AuthorizedCaller
  <1>6. c \in DirectCaller
    BY <1>1, <1>3, <1>4, <1>5 DEF DirectCaller
  <1>7. AsRead(c)
    BY <1>1 DEF AsRead, CheckWorkloadGrant, TargetRegistered, Current
  <1> QED
    BY <1>1, <1>6, <1>7 DEF Admissible

LEMMA CurrentIsRead ==
  ASSUME NEW c, NEW peer, currentCaller(c, peer)
  PROVE  AsRead(c) /\ c.identity.workload = peer
  <1>1. Authenticate(peer) = c.identity /\ AuthorizedCaller(c.identity, c.operation) = c
    BY DEF currentCaller
  <1>2. c.identity.workload = peer
    BY <1>1 DEF Authenticate
  <1>3. c.grant = row[GrantRow(c.identity.workload, c.operation)].version /\ c.revision = loaded
    BY <1>1 DEF AuthorizedCaller
  <1> QED
    BY <1>2, <1>3 DEF AsRead, currentCaller, CheckWorkloadGrant, TargetRegistered, Current

\* A request keeps what it has read while rows change and credentials are added.
LEMMA ReadStays ==
  ASSUME NEW q, RequestOK(q), DatabaseOK, DatabaseOK', \A n \in RowNames : row[n].version <= row'[n].version,
         wats \subseteq wats', audit \subseteq audit', continuations \subseteq continuations'
  PROVE  RequestOK(q)'
  <1>1. StartOK(q.start)'
    <2>1. \A n \in RowNames : q.start[n] \in Nat /\ row[n].version \in Nat /\ row'[n].version \in Nat
      BY InvocationBounds DEF RequestOK, StartOK, DatabaseOK, Version
    <2> QED
      BY <2>1 DEF RequestOK, StartOK
  <1>2. IssuesRead(q)'
    BY DEF RequestOK, IssuesRead, DelegationOK
  <1>3. VerificationsRead(q)' /\ ResumptionsRead(q)'
    BY DEF RequestOK, VerificationsRead, ResumptionsRead
  <1> QED
    BY <1>1, <1>2, <1>3 DEF RequestOK

LEMMA VersionsTyped ==
  ASSUME DatabaseOK, NEW n \in RowNames
  PROVE  row[n].version \in Version /\ row[n].version \in Nat /\ row[n].version <= row[n].version
  BY InvocationBounds DEF DatabaseOK, Version

\* The other requests, and the one that continues with q.
LEMMA RequestContinues ==
  ASSUME InvocationInv, NEW r \in Requests, NEW q, Continue(r, q), q.step = "idle" \/ RequestOK(q)',
         row' = row, loaded' = loaded, now' = now, changes' = changes,
         wats \subseteq wats', audit \subseteq audit', continuations \subseteq continuations'
  PROVE  DatabaseOK' /\ RequestsOK'
  <1>1. DatabaseOK /\ DatabaseOK'
    BY DEF InvocationInv, DatabaseOK
  <1>2. \A n \in RowNames : row[n].version <= row'[n].version
    BY <1>1, VersionsTyped
  <1>3. DOMAIN request' = Requests /\ \A x \in Requests : request'[x] = IF x = r THEN q ELSE request[x]
    BY DEF Continue, InvocationInv, RequestsOK
  <1>4. ASSUME NEW x \in Requests PROVE (request[x].step = "idle" \/ RequestOK(request[x]))'
    <2>1. CASE x = r
      BY <1>3, <2>1
    <2>2. CASE x # r
      <3> PICK old : old = request[x]
        OBVIOUS
      <3>1. old.step = "idle" \/ RequestOK(old)
        BY DEF InvocationInv, RequestsOK
      <3>2. RequestOK(old) => RequestOK(old)'
        BY <1>1, <1>2, ReadStays
      <3>3. request'[x] = old
        BY <1>3, <2>2
      <3> QED
        BY <3>1, <3>2, <3>3
    <2> QED
      BY <2>1, <2>2
  <1> QED
    BY <1>1, <1>3, <1>4 DEF RequestsOK

LEMMA ReadOnlySteps ==
  ASSUME InvocationInv, NEW r \in Requests, NEW q, Continue(r, q), ReadOnly, q.step = "idle" \/ RequestOK(q)
  PROVE  InvocationInv'
  <1>0. /\ row' = row /\ loaded' = loaded /\ now' = now /\ changes' = changes /\ wats' = wats
        /\ delegations' = delegations /\ continuations' = continuations /\ audit' = audit
        /\ answer' = answer /\ invocations' = invocations
    BY DEF ReadOnly, credentialVars, verdictVars
  <1>1. DatabaseOK' /\ \A n \in RowNames : row[n].version <= row'[n].version
    BY <1>0, VersionsTyped DEF InvocationInv, DatabaseOK
  <1>2. RequestOK(q) => RequestOK(q)'
    BY <1>0, <1>1, ReadStays DEF InvocationInv
  <1>3. DatabaseOK' /\ RequestsOK'
    BY <1>0, <1>2, RequestContinues
  <1>4. CredentialsOK'
    BY <1>0 DEF InvocationInv, CredentialsOK, DelegationOK, ContinuationOK
  <1> QED
    BY <1>0, <1>3, <1>4 DEF InvocationInv, NoUseAfterRevocation, ContinuationFollowsAdmission

LEMMA MiddlewareSteps ==
  ASSUME InvocationInv, NEW r \in Requests, NEW w, NEW op, WorkloadIdentityMiddleware(r, w, op),
         \/ w \in Callers /\ op \in {"issue", "delegate"}
         \/ w \in Receivers /\ op \in {"verify", "check", "resume"}
  PROVE  InvocationInv'
  <1>0. DatabaseOK /\ CheckWorkloadGrant(Authenticate(w), op) /\ ReadOnly
    BY DEF InvocationInv, WorkloadIdentityMiddleware
  <1> PICK id : id = Authenticate(w)
    OBVIOUS
  <1>1. id \in WorkloadIdentity /\ id.workload = w
    <2>1. w \in Workloads /\ IdentityRow(w) \in RowNames
      BY DEF Workloads, RowNames
    <2>2. row[IdentityRow(w)].version \in Version
      BY <1>0, <2>1, VersionsTyped
    <2> QED
      BY <2>1, <2>2 DEF Authenticate, WorkloadIdentity
  <1> PICK c : c = AuthorizedCaller(id, op)
    OBVIOUS
  <1>2. Admissible(c) /\ AsRead(c) /\ c.operation = op
    <2>1. \/ id.workload \in Callers /\ op \in CallerOperations
          \/ id.workload \in Receivers /\ op \in ReceiverOperations
      BY <1>1 DEF CallerOperations, ReceiverOperations
    <2> QED
      BY <1>0, <1>1, <2>1, AuthorizedIsRead
  <1> PICK start : start = Versions
    OBVIOUS
  <1>3. StartOK(start)
    BY <1>0, VersionsTyped DEF StartOK, Versions
  <1>4. Fresh(start, c)
    BY <1>2, <1>3, ReadIsFresh
  <1> PICK q : q = [step |-> "entered", ingress |-> c, start |-> start, read |-> None]
    OBVIOUS
  <1>5. q.step = "entered" /\ q.ingress = c /\ q.start = start
    OBVIOUS
  <1>6. RequestOK(q)
    BY <1>2, <1>3, <1>4, <1>5 DEF RequestOK, IssuesRead, VerificationsRead, ResumptionsRead
  <1>7. Continue(r, q)
    BY DEF WorkloadIdentityMiddleware
  <1> QED
    BY <1>0, <1>6, <1>7, ReadOnlySteps

LEMMA AbandonSteps ==
  ASSUME InvocationInv, NEW r \in Requests, Abandon(r)
  PROVE  InvocationInv'
  <1> PICK q : q = Idle
    OBVIOUS
  <1>1. q.step = "idle" /\ Continue(r, q) /\ ReadOnly
    BY DEF Idle, Abandon
  <1> QED
    BY <1>1, ReadOnlySteps

\* The request as it is before a step that is not its first.
LEMMA RequestIsOK ==
  ASSUME InvocationInv, NEW r \in Requests, request[r].step # "idle", NEW old, old = request[r], NEW step, NEW read,
         NEW q, q = Having(r, step, read)
  PROVE  /\ RequestOK(old) /\ Ingress(r) = old.ingress /\ Admissible(old.ingress) /\ StartOK(old.start)
         /\ Fresh(old.start, old.ingress) /\ old.ingress.identity \in WorkloadIdentity
         /\ q.step = step /\ q.ingress = old.ingress /\ q.start = old.start /\ q.read = read
  <1>1. RequestOK(old)
    BY DEF InvocationInv, RequestsOK
  <1>2. old.ingress.identity \in WorkloadIdentity
    BY <1>1 DEF RequestOK, Admissible, DirectCaller
  <1> QED
    BY <1>1, <1>2 DEF RequestOK, Ingress, Having

LEMMA CallersAndReceivers ==
  ASSUME NEW c, Admissible(c)
  PROVE  /\ c.operation \in {"issue", "delegate"} => c.identity.workload \in Callers
         /\ c.operation \in {"verify", "check", "resume"} => c.identity.workload \in Receivers
  BY DEF Admissible, CallerOperations, ReceiverOperations, WorkloadOnly, PairedAuthority, Delegated

LEMMA TokenSteps ==
  ASSUME InvocationInv, NEW r \in Requests, NEW target \in Delegated \cup WorkloadOnly, IssueWorkloadToken(r, target)
  PROVE  InvocationInv'
  <1> PICK old : old = request[r]
    OBVIOUS
  <1>0. /\ old.step = "entered" /\ Ingress(r).operation = "issue" /\ CheckWorkloadGrant(Ingress(r).identity, target)
        /\ Cardinality(wats) < MaxIssued /\ ReadOnly /\ DatabaseOK
    BY DEF IssueWorkloadToken, At, Step, InvocationInv
  <1> PICK id : id = Ingress(r).identity
    OBVIOUS
  <1> PICK c : c = AuthorizedCaller(id, target)
    OBVIOUS
  <1> PICK wat : wat = [id |-> Cardinality(wats) + 1, caller |-> c, expires |-> now + WorkloadTokenMaxTTL]
    OBVIOUS
  <1> PICK q : q = Having(r, "signed", wat)
    OBVIOUS
  <1>1. /\ RequestOK(old) /\ Ingress(r) = old.ingress /\ Admissible(old.ingress) /\ StartOK(old.start)
        /\ Fresh(old.start, old.ingress) /\ id \in WorkloadIdentity
        /\ q.step = "signed" /\ q.ingress = old.ingress /\ q.start = old.start /\ q.read = wat
    BY <1>0, RequestIsOK
  <1>2. id.workload \in Callers
    BY <1>0, <1>1, CallersAndReceivers
  <1>3. target \in CallerOperations
    BY DEF CallerOperations
  <1>4. Admissible(c) /\ c.identity = id
    BY <1>0, <1>1, <1>2, <1>3, AuthorizedIsRead
  <1>5. Cardinality(wats) + 1 \in 1..MaxIssued
    <2>1. IsFiniteSet(wats)
      BY DEF InvocationInv, CredentialsOK
    <2>2. Cardinality(wats) \in Nat
      BY <2>1, FS_CardinalityType
    <2> QED
      BY <1>0, <2>2, InvocationBounds
  <1>6. now + WorkloadTokenMaxTTL \in Instant
    BY <1>0, InvocationBounds DEF DatabaseOK, Instant
  <1>7. wat \in WorkloadTokenClaims /\ wat.caller = c
    BY <1>4, <1>5, <1>6 DEF WorkloadTokenClaims, Admissible
  <1>8. TokenOK(wat)
    BY <1>2, <1>4, <1>7 DEF TokenOK
  <1>9. q.ingress.operation = "issue"
    BY <1>0, <1>1
  <1>10. RequestOK(q)
    BY <1>1, <1>8, <1>9 DEF RequestOK, IssuesRead, VerificationsRead, ResumptionsRead
  <1>11. Continue(r, q)
    BY DEF IssueWorkloadToken
  <1> QED
    BY <1>0, <1>10, <1>11, ReadOnlySteps

LEMMA DelegationCallerSteps ==
  ASSUME InvocationInv, NEW r \in Requests, NEW wat \in wats, DelegationCaller(r, wat)
  PROVE  InvocationInv'
  <1> PICK old : old = request[r]
    OBVIOUS
  <1>0. /\ old.step = "entered" /\ Ingress(r).operation = "delegate" /\ ReadOnly
        /\ currentCaller(wat.caller, Ingress(r).identity.workload)
    BY DEF DelegationCaller, At, Step
  <1> PICK read : read = [wat |-> wat]
    OBVIOUS
  <1> PICK q : q = Having(r, "caller", read)
    OBVIOUS
  <1>1. /\ RequestOK(old) /\ Ingress(r) = old.ingress /\ Admissible(old.ingress) /\ StartOK(old.start)
        /\ Fresh(old.start, old.ingress)
        /\ q.step = "caller" /\ q.ingress = old.ingress /\ q.start = old.start /\ q.read = read
    BY <1>0, RequestIsOK
  <1>2. read.wat = wat /\ wat.caller.identity.workload = old.ingress.identity.workload /\ q.ingress.operation = "delegate"
    BY <1>0, <1>1, CurrentIsRead
  <1>3. RequestOK(q)
    BY <1>1, <1>2 DEF RequestOK, IssuesRead, VerificationsRead, ResumptionsRead
  <1>4. Continue(r, q)
    BY DEF DelegationCaller
  <1> QED
    BY <1>0, <1>3, <1>4, ReadOnlySteps

LEMMA PermissionSteps ==
  ASSUME InvocationInv, NEW r \in Requests, NEW s \in Subjects, CheckPermission(r, s)
  PROVE  InvocationInv'
  <1> PICK old : old = request[r]
    OBVIOUS
  <1>0. /\ old.step = "caller" /\ Ingress(r).operation = "delegate" /\ ReadOnly /\ DatabaseOK
    BY DEF CheckPermission, At, Step, InvocationInv
  <1> PICK subject : subject = [id |-> s, version |-> row[SubjectRow(s)].version]
    OBVIOUS
  <1> PICK read : read = [wat |-> old.read.wat, subject |-> subject]
    OBVIOUS
  <1> PICK q : q = Having(r, "subject", read)
    OBVIOUS
  <1>1. /\ RequestOK(old) /\ Ingress(r) = old.ingress /\ Admissible(old.ingress) /\ StartOK(old.start)
        /\ Fresh(old.start, old.ingress)
        /\ q.step = "subject" /\ q.ingress = old.ingress /\ q.start = old.start /\ q.read = read
    BY <1>0, RequestIsOK
  <1>2. subject \in DelegatedSubject
    <2>1. row[SubjectRow(s)].version \in Version
      BY <1>0, VersionsTyped DEF RowNames
    <2> QED
      BY <2>1 DEF DelegatedSubject
  <1>3. old.read.wat \in wats /\ old.read.wat.caller.identity.workload = old.ingress.identity.workload
    BY <1>0, <1>1 DEF RequestOK, IssuesRead
  <1>4. read.wat = old.read.wat /\ read.subject = subject /\ q.ingress.operation = "delegate"
    BY <1>0, <1>1
  <1>5. RequestOK(q)
    BY <1>1, <1>2, <1>3, <1>4 DEF RequestOK, IssuesRead, VerificationsRead, ResumptionsRead
  <1>6. Continue(r, q)
    BY DEF CheckPermission
  <1> QED
    BY <1>0, <1>5, <1>6, ReadOnlySteps

LEMMA MinIsLeast ==
  ASSUME NEW S, NEW x \in S, \A y \in S : x <= y
  PROVE  Min(S) \in S /\ \A y \in S : Min(S) <= y
  BY DEF Min

\* An expiry is the first of at most three instants.
LEMMA Earliest ==
  ASSUME NEW a \in Nat, NEW b \in Nat, NEW S, S = {} \/ S = {SubjectLife}
  PROVE  /\ Min({a, b} \cup S) \in Nat /\ Min({a, b} \cup S) <= a /\ Min({a, b} \cup S) <= b
         /\ SubjectLife \in S => Min({a, b} \cup S) <= SubjectLife
  <1> PICK T : T = {a, b} \cup S
    OBVIOUS
  <1>0. SubjectLife \in Nat /\ T \subseteq Nat /\ a \in T /\ b \in T /\ (SubjectLife \in S => SubjectLife \in T)
    BY InvocationBounds
  <1>1. \E x \in T : \A y \in T : x <= y
    <2>1. CASE S = {}
      <3>1. T = {a, b}
        BY <2>1
      <3>2. CASE a <= b
        BY <3>1, <3>2
      <3>3. CASE b <= a
        BY <3>1, <3>3
      <3> QED
        BY <3>2, <3>3
    <2>2. CASE S = {SubjectLife}
      <3>1. T = {a, b, SubjectLife}
        BY <2>2
      <3>2. CASE a <= b /\ a <= SubjectLife
        BY <3>1, <3>2
      <3>3. CASE b <= a /\ b <= SubjectLife
        BY <3>1, <3>3
      <3>4. CASE SubjectLife <= a /\ SubjectLife <= b
        BY <3>1, <3>4, <1>0
      <3> QED
        BY <1>0, <3>2, <3>3, <3>4
    <2> QED
      BY <2>1, <2>2
  <1>2. Min(T) \in T /\ \A y \in T : Min(T) <= y
    BY <1>1, MinIsLeast
  <1> QED
    BY <1>0, <1>2

LEMMA DelegationSteps ==
  ASSUME InvocationInv, NEW r \in Requests, IssueDelegation(r)
  PROVE  InvocationInv'
  <1> PICK old : old = request[r]
    OBVIOUS
  <1> PICK s : s = subjectReference(old.read.subject)
    OBVIOUS
  <1> PICK wat : wat = old.read.wat
    OBVIOUS
  <1> PICK expires : expires = DelegationExpiry(wat, s.id)
    OBVIOUS
  <1>0. /\ old.step = "subject" /\ Ingress(r).operation = "delegate" /\ ReadOnly /\ DatabaseOK
    BY DEF IssueDelegation, At, Step, InvocationInv
  <1> PICK d : d = [wat |-> wat.id, caller |-> wat.caller, subject |-> s, revision |-> loaded,
                    issued |-> now, expires |-> expires]
    OBVIOUS
  <1> PICK q : q = Having(r, "signed", d)
    OBVIOUS
  <1>1. /\ RequestOK(old) /\ Ingress(r) = old.ingress /\ Admissible(old.ingress) /\ StartOK(old.start)
        /\ Fresh(old.start, old.ingress)
        /\ q.step = "signed" /\ q.ingress = old.ingress /\ q.start = old.start /\ q.read = d
    BY <1>0, RequestIsOK
  <1>2. /\ wat \in wats /\ wat.caller.identity.workload = old.ingress.identity.workload
        /\ old.read.subject \in DelegatedSubject
    BY <1>0, <1>1 DEF RequestOK, IssuesRead
  <1>3. TokenOK(wat)
    BY <1>2 DEF InvocationInv, CredentialsOK
  <1>4. wat.id \in 1..MaxIssued /\ wat.caller \in DirectCaller /\ wat.expires \in Instant
    BY <1>3 DEF TokenOK, WorkloadTokenClaims
  <1>5. s \in DelegatedSubject
    <2> PICK t \in DelegatedSubject : t = old.read.subject
      BY <1>2
    <2>1. t.id \in Subjects
      BY DEF DelegatedSubject
    <2>2. row[SubjectRow(t.id)].version \in Version
      BY <1>0, <2>1, VersionsTyped DEF RowNames
    <2>3. [id |-> t.id, version |-> row[SubjectRow(t.id)].version] \in DelegatedSubject
      BY <2>1, <2>2 DEF DelegatedSubject
    <2> QED
      BY <2>3 DEF subjectReference
  <1>6. now \in Nat /\ now + DelegationMaxTTL \in Nat /\ wat.expires \in Nat /\ now <= MaxTime
    BY <1>0, <1>4, InvocationBounds DEF DatabaseOK, Instant
  <1>7. /\ expires \in Nat /\ expires <= now + DelegationMaxTTL /\ expires <= wat.expires
        /\ s.id \notin NeverExpiring => expires <= SubjectLife
    <2> PICK S : S = IF s.id \in NeverExpiring THEN {} ELSE {SubjectLife}
      OBVIOUS
    <2> PICK a \in Nat, b \in Nat : a = now + DelegationMaxTTL /\ b = wat.expires
      BY <1>6
    <2>1. expires = Min({a, b} \cup S)
      BY DEF DelegationExpiry
    <2>2. (S = {} \/ S = {SubjectLife}) /\ (s.id \notin NeverExpiring => SubjectLife \in S)
      OBVIOUS
    <2>3. /\ Min({a, b} \cup S) \in Nat /\ Min({a, b} \cup S) <= a /\ Min({a, b} \cup S) <= b
          /\ SubjectLife \in S => Min({a, b} \cup S) <= SubjectLife
      BY <2>2, Earliest
    <2> QED
      BY <2>1, <2>2, <2>3
  <1>8. expires \in Instant /\ now \in Instant
    BY <1>6, <1>7, InvocationBounds DEF Instant
  <1>9. loaded \in Version
    BY <1>0 DEF DatabaseOK
  <1>10. d \in DelegationClaims
    BY <1>4, <1>5, <1>8, <1>9 DEF DelegationClaims
  <1>11. d.caller = wat.caller /\ d.subject = s /\ d.expires = expires /\ d.wat = wat.id
    OBVIOUS
  <1>12. DelegationOK(old.ingress.identity.workload, d)
    BY <1>2, <1>3, <1>7, <1>10, <1>11 DEF DelegationOK, TokenOK
  <1>13. q.ingress.operation = "delegate"
    BY <1>0, <1>1
  <1>14. RequestOK(q)
    BY <1>1, <1>12, <1>13 DEF RequestOK, IssuesRead, VerificationsRead, ResumptionsRead
  <1>15. Continue(r, q)
    BY DEF IssueDelegation
  <1> QED
    BY <1>0, <1>14, <1>15, ReadOnlySteps

LEMMA ReceiverSteps ==
  ASSUME InvocationInv, NEW r \in Requests, ReceiverAuthority(r)
  PROVE  InvocationInv'
  <1> PICK old : old = request[r]
    OBVIOUS
  <1>0. /\ old.step = "entered" /\ Ingress(r).operation \in {"verify", "check"} /\ ReadOnly /\ DatabaseOK
        /\ CheckWorkloadGrant(Ingress(r).identity, "receive")
    BY DEF ReceiverAuthority, Step, InvocationInv
  <1> PICK c : c = AuthorizedCaller(Ingress(r).identity, "receive")
    OBVIOUS
  <1> PICK read : read = [authority |-> c]
    OBVIOUS
  <1> PICK q : q = Having(r, "receiver", read)
    OBVIOUS
  <1>1. /\ RequestOK(old) /\ Ingress(r) = old.ingress /\ Admissible(old.ingress) /\ StartOK(old.start)
        /\ Fresh(old.start, old.ingress) /\ old.ingress.identity \in WorkloadIdentity
        /\ q.step = "receiver" /\ q.ingress = old.ingress /\ q.start = old.start /\ q.read = read
    BY <1>0, RequestIsOK
  <1>2. old.ingress.identity.workload \in Receivers /\ "receive" \in ReceiverOperations
    BY <1>0, <1>1, CallersAndReceivers DEF ReceiverOperations
  <1>3. Admissible(c) /\ AsRead(c)
    BY <1>0, <1>1, <1>2, AuthorizedIsRead
  <1>4. Fresh(old.start, c)
    BY <1>1, <1>3, ReadIsFresh
  <1>5. read.authority = c /\ q.ingress.operation \in {"verify", "check"}
    BY <1>0, <1>1
  <1>6. RequestOK(q)
    BY <1>1, <1>3, <1>4, <1>5 DEF RequestOK, IssuesRead, VerificationsRead, ResumptionsRead
  <1>7. Continue(r, q)
    BY DEF ReceiverAuthority
  <1> QED
    BY <1>0, <1>6, <1>7, ReadOnlySteps

LEMMA VerifyInvocationSteps ==
  ASSUME InvocationInv, NEW r \in Requests, NEW wat \in wats, NEW d \in delegations, NEW peer,
         VerifyInvocation(r, wat, d[2], peer)
  PROVE  InvocationInv'
  <1> PICK old : old = request[r]
    OBVIOUS
  <1>0. /\ old.step = "receiver" /\ Ingress(r).operation = "verify" /\ ReadOnly
        /\ currentCaller(wat.caller, peer) /\ d[2].caller = wat.caller
    BY DEF VerifyInvocation, At, Step
  <1> PICK read : read = [authority |-> old.read.authority, delegation |-> d[2]]
    OBVIOUS
  <1> PICK q : q = Having(r, "caller", read)
    OBVIOUS
  <1>1. /\ RequestOK(old) /\ Ingress(r) = old.ingress /\ Admissible(old.ingress) /\ StartOK(old.start)
        /\ Fresh(old.start, old.ingress)
        /\ q.step = "caller" /\ q.ingress = old.ingress /\ q.start = old.start /\ q.read = read
    BY <1>0, RequestIsOK
  <1>2. Admissible(old.read.authority) /\ Fresh(old.start, old.read.authority)
    BY <1>0, <1>1 DEF RequestOK, VerificationsRead
  <1>3. d[2] \in DelegationClaims /\ Admissible(d[2].caller) /\ d[2].caller.identity.workload \in Callers
    <2>1. d \in Callers \X DelegationClaims /\ DelegationOK(d[1], d[2])
      BY DEF InvocationInv, CredentialsOK
    <2> QED
      BY <2>1 DEF DelegationOK
  <1>4. AsRead(d[2].caller)
    BY <1>0, CurrentIsRead
  <1>5. Fresh(old.start, d[2].caller)
    BY <1>1, <1>3, <1>4, ReadIsFresh
  <1>6. read.authority = old.read.authority /\ read.delegation = d[2] /\ q.ingress.operation = "verify"
    BY <1>0, <1>1
  <1>7. RequestOK(q)
    BY <1>1, <1>2, <1>3, <1>5, <1>6 DEF RequestOK, IssuesRead, VerificationsRead, ResumptionsRead
  <1>8. Continue(r, q)
    BY DEF VerifyInvocation
  <1> QED
    BY <1>0, <1>7, <1>8, ReadOnlySteps

LEMMA ContinuationReceiverSteps ==
  ASSUME InvocationInv, NEW r \in Requests, NEW k \in continuations, ContinuationReceiver(r, k)
  PROVE  InvocationInv'
  <1> PICK old : old = request[r]
    OBVIOUS
  <1>0. /\ old.step = "entered" /\ Ingress(r).operation = "resume" /\ ReadOnly /\ DatabaseOK
        /\ k.receiver.identity = Ingress(r).identity
        /\ CheckWorkloadGrant(Ingress(r).identity, "receive")
        /\ AuthorizedCaller(Ingress(r).identity, "receive") = k.authority
    BY DEF ContinuationReceiver, At, Step, InvocationInv
  <1> PICK read : read = [proof |-> k]
    OBVIOUS
  <1> PICK q : q = Having(r, "receiver", read)
    OBVIOUS
  <1>1. /\ RequestOK(old) /\ Ingress(r) = old.ingress /\ Admissible(old.ingress) /\ StartOK(old.start)
        /\ Fresh(old.start, old.ingress) /\ old.ingress.identity \in WorkloadIdentity
        /\ q.step = "receiver" /\ q.ingress = old.ingress /\ q.start = old.start /\ q.read = read
    BY <1>0, RequestIsOK
  <1>2. old.ingress.identity.workload \in Receivers /\ "receive" \in ReceiverOperations
    BY <1>0, <1>1, CallersAndReceivers DEF ReceiverOperations
  <1>3. Admissible(k.authority) /\ AsRead(k.authority)
    BY <1>0, <1>1, <1>2, AuthorizedIsRead
  <1>4. Fresh(old.start, k.authority)
    BY <1>1, <1>3, ReadIsFresh
  <1>5. read.proof = k /\ q.ingress.operation = "resume"
    BY <1>0, <1>1
  <1>6. RequestOK(q)
    BY <1>0, <1>1, <1>4, <1>5 DEF RequestOK, IssuesRead, VerificationsRead, ResumptionsRead
  <1>7. Continue(r, q)
    BY DEF ContinuationReceiver
  <1> QED
    BY <1>0, <1>6, <1>7, ReadOnlySteps

LEMMA OriginalSteps ==
  ASSUME InvocationInv, NEW r \in Requests, OriginalVerification(r)
  PROVE  InvocationInv'
  <1> PICK old : old = request[r]
    OBVIOUS
  <1> PICK k : k = old.read.proof
    OBVIOUS
  <1>0. /\ old.step = "receiver" /\ Ingress(r).operation = "resume" /\ ReadOnly /\ DatabaseOK
        /\ CheckWorkloadGrant(Ingress(r).identity, "verify")
        /\ AuthorizedCaller(Ingress(r).identity, "verify") = k.receiver
    BY DEF OriginalVerification, At, Step, InvocationInv
  <1> PICK q : q = Having(r, "original", old.read)
    OBVIOUS
  <1>1. /\ RequestOK(old) /\ Ingress(r) = old.ingress /\ Admissible(old.ingress) /\ StartOK(old.start)
        /\ Fresh(old.start, old.ingress) /\ old.ingress.identity \in WorkloadIdentity
        /\ q.step = "original" /\ q.ingress = old.ingress /\ q.start = old.start /\ q.read = old.read
    BY <1>0, RequestIsOK
  <1>2. old.ingress.identity.workload \in Receivers /\ "verify" \in ReceiverOperations
    BY <1>0, <1>1, CallersAndReceivers DEF ReceiverOperations
  <1>3. Admissible(k.receiver) /\ AsRead(k.receiver)
    BY <1>0, <1>1, <1>2, AuthorizedIsRead
  <1>4. Fresh(old.start, k.receiver)
    BY <1>1, <1>3, ReadIsFresh
  <1>5. q.ingress.operation = "resume"
    BY <1>0, <1>1
  <1>6. RequestOK(q)
    BY <1>0, <1>1, <1>4, <1>5 DEF RequestOK, IssuesRead, VerificationsRead, ResumptionsRead
  <1>7. Continue(r, q)
    BY DEF OriginalVerification
  <1> QED
    BY <1>0, <1>6, <1>7, ReadOnlySteps

LEMMA ContinuationCallerSteps ==
  ASSUME InvocationInv, NEW r \in Requests, ContinuationCaller(r)
  PROVE  InvocationInv'
  <1> PICK old : old = request[r]
    OBVIOUS
  <1> PICK k : k = old.read.proof
    OBVIOUS
  <1>0. /\ old.step = "original" /\ Ingress(r).operation = "resume" /\ ReadOnly
        /\ currentCaller(k.caller, k.caller.identity.workload)
    BY DEF ContinuationCaller, At, Step
  <1> PICK q : q = Having(r, "caller", old.read)
    OBVIOUS
  <1>1. /\ RequestOK(old) /\ Ingress(r) = old.ingress /\ Admissible(old.ingress) /\ StartOK(old.start)
        /\ Fresh(old.start, old.ingress)
        /\ q.step = "caller" /\ q.ingress = old.ingress /\ q.start = old.start /\ q.read = old.read
    BY <1>0, RequestIsOK
  <1>2. k \in continuations
    BY <1>0, <1>1 DEF RequestOK, ResumptionsRead
  <1>3. Admissible(k.caller) /\ AsRead(k.caller)
    BY <1>0, <1>2, CurrentIsRead DEF InvocationInv, CredentialsOK, ContinuationOK
  <1>4. Fresh(old.start, k.caller)
    BY <1>1, <1>3, ReadIsFresh
  <1>5. q.ingress.operation = "resume"
    BY <1>0, <1>1
  <1>6. RequestOK(q)
    BY <1>0, <1>1, <1>4, <1>5 DEF RequestOK, IssuesRead, VerificationsRead, ResumptionsRead
  <1>7. Continue(r, q)
    BY DEF ContinuationCaller
  <1> QED
    BY <1>0, <1>6, <1>7, ReadOnlySteps

LEMMA RecordIssueSteps ==
  ASSUME InvocationInv, NEW r \in Requests, recordIssue(r)
  PROVE  InvocationInv'
  <1> PICK old : old = request[r]
    OBVIOUS
  <1> PICK q : q = Having(r, "recorded", old.read)
    OBVIOUS
  <1>0. /\ old.step = "signed" /\ audit' = audit \cup {old.read} /\ Continue(r, q)
        /\ row' = row /\ loaded' = loaded /\ now' = now /\ changes' = changes /\ wats' = wats
        /\ delegations' = delegations /\ continuations' = continuations
        /\ answer' = answer /\ invocations' = invocations
    BY DEF recordIssue, Step, verdictVars
  <1>1. /\ RequestOK(old) /\ Admissible(old.ingress) /\ StartOK(old.start) /\ Fresh(old.start, old.ingress)
        /\ q.step = "recorded" /\ q.ingress = old.ingress /\ q.start = old.start /\ q.read = old.read
    BY <1>0, RequestIsOK
  <1>2. StartOK(q.start)' /\ q.read \in audit'
    BY <1>0, <1>1 DEF StartOK
  <1>3. IssuesRead(q)'
    BY <1>0, <1>1, <1>2 DEF RequestOK, IssuesRead, DelegationOK
  <1>4. VerificationsRead(q)' /\ ResumptionsRead(q)'
    BY <1>1 DEF VerificationsRead, ResumptionsRead
  <1>5. RequestOK(q)'
    BY <1>1, <1>2, <1>3, <1>4 DEF RequestOK
  <1>6. DatabaseOK' /\ RequestsOK'
    BY <1>0, <1>5, RequestContinues
  <1>7. CredentialsOK'
    BY <1>0 DEF InvocationInv, CredentialsOK, DelegationOK, ContinuationOK
  <1> QED
    BY <1>0, <1>6, <1>7 DEF InvocationInv, NoUseAfterRevocation, ContinuationFollowsAdmission

LEMMA ReleaseSteps ==
  ASSUME InvocationInv, NEW r \in Requests, Release(r)
  PROVE  InvocationInv'
  <1> PICK old : old = request[r]
    OBVIOUS
  <1> PICK w : w = Ingress(r).identity.workload
    OBVIOUS
  <1> PICK q : q = Idle
    OBVIOUS
  <1>0. /\ old.step = "recorded" /\ Continue(r, q) /\ q.step = "idle"
        /\ row' = row /\ loaded' = loaded /\ now' = now /\ changes' = changes
        /\ continuations' = continuations /\ audit' = audit /\ answer' = answer /\ invocations' = invocations
    BY DEF Release, Step, verdictVars, Idle
  <1>1. RequestOK(old) /\ Ingress(r) = old.ingress /\ Admissible(old.ingress)
    <2> PICK x : x = Having(r, "recorded", old.read)
      OBVIOUS
    <2> QED
      BY <1>0, RequestIsOK
  <1>2. /\ old.read \in audit /\ old.ingress.operation \in {"issue", "delegate"} /\ w \in Callers
    BY <1>0, <1>1, CallersAndReceivers DEF RequestOK, IssuesRead
  <1>3. CASE Ingress(r).operation = "issue"
    <2>1. wats' = wats \cup {old.read} /\ delegations' = delegations /\ TokenOK(old.read)
      BY <1>0, <1>1, <1>3 DEF Release, RequestOK, IssuesRead
    <2>2. DatabaseOK' /\ RequestsOK'
      BY <1>0, <2>1, RequestContinues
    <2>3. IsFiniteSet(wats')
      BY <2>1, FS_AddElement DEF InvocationInv, CredentialsOK
    <2>4. CredentialsOK'
      BY <1>0, <1>2, <2>1, <2>3 DEF InvocationInv, CredentialsOK, DelegationOK, ContinuationOK
    <2> QED
      BY <1>0, <2>2, <2>4 DEF InvocationInv, NoUseAfterRevocation, ContinuationFollowsAdmission
  <1>4. CASE Ingress(r).operation # "issue"
    <2>1. wats' = wats /\ delegations' = delegations \cup {<<w, old.read>>}
      BY <1>4 DEF Release
    <2>2. DelegationOK(w, old.read)
      BY <1>0, <1>1, <1>2, <1>4 DEF RequestOK, IssuesRead
    <2>3. DatabaseOK' /\ RequestsOK'
      BY <1>0, <2>1, RequestContinues
    <2>4. ASSUME NEW d \in delegations'
          PROVE  d \in Callers \X DelegationClaims /\ DelegationOK(d[1], d[2]) /\ d[2] \in audit
      <3>1. CASE d \in delegations
        BY <3>1 DEF InvocationInv, CredentialsOK
      <3>2. CASE d = <<w, old.read>>
        <4>1. d[1] = w /\ d[2] = old.read
          BY <3>2
        <4>2. old.read \in DelegationClaims
          BY <2>2 DEF DelegationOK
        <4> QED
          BY <1>2, <2>2, <3>2, <4>1, <4>2
      <3> QED
        BY <2>1, <3>1, <3>2
    <2>5. CredentialsOK'
      BY <1>0, <2>1, <2>4 DEF InvocationInv, CredentialsOK, DelegationOK, ContinuationOK
    <2> QED
      BY <1>0, <2>3, <2>5 DEF InvocationInv, NoUseAfterRevocation, ContinuationFollowsAdmission
  <1> QED
    BY <1>3, <1>4

\* The rows of a fresh caller are fresh.
LEMMA RowsAreFresh ==
  ASSUME NEW start, NEW c, Fresh(start, c)
  PROVE  \A use \in RowsOf(c) : use[2] >= start[use[1]]
  <1> SUFFICES ASSUME NEW use \in RowsOf(c) PROVE use[2] >= start[use[1]]
    OBVIOUS
  <1>1. \/ use[1] = IdentityRow(c.identity.workload) /\ use[2] = c.identity.version
        \/ use[1] = GrantRow(c.identity.workload, c.operation) /\ use[2] = c.grant
        \/ use[1] = RegistryRow /\ use[2] = c.revision
    BY DEF RowsOf
  <1> QED
    BY <1>1 DEF Fresh

LEMMA AnswersAreFresh ==
  ASSUME NEW r, NEW old, old = request[r], NEW kind, NEW caller, NEW s, NEW rows, Answer(r, kind, caller, s, rows),
         \A use \in rows : use[2] >= old.start[use[1]]
  PROVE  /\ NoUseAfterRevocation' /\ answer'.kind = kind /\ answer'.by = Ingress(r).identity.workload
         /\ answer'.caller = caller.identity.workload /\ answer'.subject = s /\ answer'.rows = rows
  <1>1. /\ answer'.kind = kind /\ answer'.by = Ingress(r).identity.workload /\ answer'.start = old.start
        /\ answer'.caller = caller.identity.workload /\ answer'.subject = s /\ answer'.rows = rows
    BY DEF Answer
  <1> QED
    BY <1>1 DEF NoUseAfterRevocation

LEMMA SubjectIsFresh ==
  ASSUME DatabaseOK, NEW s \in DelegatedSubject, NEW revision, currentSubject(s, revision), NEW start, StartOK(start)
  PROVE  \A use \in {<<SubjectRow(s.id), s.version>>} : use[2] >= start[use[1]]
  <1>1. SubjectRow(s.id) \in RowNames
    BY DEF DelegatedSubject, RowNames
  <1>2. row[SubjectRow(s.id)].version = s.version
    BY DEF currentSubject, Current
  <1>3. start[SubjectRow(s.id)] <= s.version
    BY <1>1, <1>2 DEF StartOK
  <1> QED
    BY <1>3

LEMMA VerifySteps ==
  ASSUME InvocationInv, NEW r \in Requests, Verify(r)
  PROVE  InvocationInv'
  <1> PICK old : old = request[r]
    OBVIOUS
  <1> PICK d : d = old.read.delegation
    OBVIOUS
  <1> PICK c : c = old.read.authority
    OBVIOUS
  <1> PICK q : q = Idle
    OBVIOUS
  <1> PICK rows : rows = RowsOf(d.caller) \cup RowsOf(c) \cup RowsOf(Ingress(r))
                           \cup {<<SubjectRow(d.subject.id), d.subject.version>>}
    OBVIOUS
  <1> PICK expires : expires = ContinuationExpiry(d.subject.id)
    OBVIOUS
  <1> PICK k : k = [caller |-> d.caller, receiver |-> Ingress(r), authority |-> c,
                    subject |-> d.subject, revision |-> d.revision, expires |-> expires]
    OBVIOUS
  <1> PICK told : told = <<Ingress(r).identity.workload, d.caller.identity.workload, d.subject.id>>
    OBVIOUS
  <1>0. /\ old.step = "caller" /\ Ingress(r).operation = "verify" /\ Continue(r, q) /\ q.step = "idle"
        /\ currentSubject(d.subject, d.revision)
        /\ row' = row /\ loaded' = loaded /\ now' = now /\ changes' = changes /\ wats' = wats
        /\ delegations' = delegations /\ audit' = audit
    BY DEF Verify, At, Step, Idle
  <1>a. /\ continuations' = continuations \/ continuations' = continuations \cup {k}
        /\ invocations' = invocations \cup {told}
        /\ Answer(r, "invocation", d.caller, d.subject.id, rows)
    BY DEF Verify
  <1>1. RequestOK(old) /\ Ingress(r) = old.ingress /\ Admissible(old.ingress) /\ StartOK(old.start) /\ Fresh(old.start, old.ingress)
    <2> PICK x : x = Having(r, "caller", old.read)
      OBVIOUS
    <2> QED
      BY <1>0, RequestIsOK
  <1>2. /\ Admissible(c) /\ Fresh(old.start, c) /\ d \in DelegationClaims /\ Admissible(d.caller)
        /\ d.caller.identity.workload \in Callers /\ Fresh(old.start, d.caller)
    BY <1>0, <1>1 DEF RequestOK, VerificationsRead
  <1>3. d.subject \in DelegatedSubject /\ d.subject.id \in Subjects /\ d.revision \in Version /\ DatabaseOK
    BY <1>2 DEF DelegationClaims, DelegatedSubject, InvocationInv
  <1>4. Ingress(r).identity.workload \in Receivers
    BY <1>0, <1>1, CallersAndReceivers
  <1>5. \A use \in rows : use[2] >= old.start[use[1]]
    <2>1. \A use \in {<<SubjectRow(d.subject.id), d.subject.version>>} : use[2] >= old.start[use[1]]
      BY <1>0, <1>1, <1>3, SubjectIsFresh
    <2>2. \A use \in RowsOf(d.caller) \cup RowsOf(c) \cup RowsOf(Ingress(r)) : use[2] >= old.start[use[1]]
      BY <1>1, <1>2, RowsAreFresh
    <2> QED
      BY <2>1, <2>2
  <1>6. NoUseAfterRevocation' /\ answer'.kind = "invocation"
    <2>1. old = request[r] /\ Answer(r, "invocation", d.caller, d.subject.id, rows)
      BY <1>a
    <2> QED
      BY ONLY <1>5, <2>1, AnswersAreFresh
  <1>7. /\ expires \in Instant /\ (d.subject.id \notin NeverExpiring => expires <= SubjectLife)
    <2> PICK S : S = IF d.subject.id \in NeverExpiring THEN {} ELSE {SubjectLife}
      OBVIOUS
    <2> PICK a \in Nat : a = now + SessionContinuationMaxTTL
      BY <1>3, InvocationBounds DEF DatabaseOK
    <2>1. {a} = {a, a}
      OBVIOUS
    <2>2. expires = Min({a, a} \cup S)
      BY <2>1 DEF ContinuationExpiry
    <2>3. (S = {} \/ S = {SubjectLife}) /\ (d.subject.id \notin NeverExpiring => SubjectLife \in S)
      OBVIOUS
    <2>4. /\ Min({a, a} \cup S) \in Nat /\ Min({a, a} \cup S) <= a
          /\ SubjectLife \in S => Min({a, a} \cup S) <= SubjectLife
      BY <2>3, Earliest
    <2>5. expires \in Nat /\ expires <= a /\ a <= MaxTime + SessionContinuationMaxTTL
      BY <1>3, <2>2, <2>4, InvocationBounds DEF DatabaseOK
    <2>6. expires \in Instant
      BY <2>5, InvocationBounds DEF Instant
    <2> QED
      BY <2>2, <2>3, <2>4, <2>6
  <1>8. k \in SessionContinuationClaims
    BY <1>1, <1>2, <1>3, <1>7 DEF SessionContinuationClaims, Admissible
  <1>9. /\ k.caller = d.caller /\ k.receiver = Ingress(r) /\ k.authority = c /\ k.subject = d.subject /\ k.expires = expires
    OBVIOUS
  <1>10. ContinuationOK(k)'
    BY <1>a, <1>1, <1>2, <1>7, <1>8, <1>9 DEF ContinuationOK
  <1>11. told \in Receivers \X Callers \X Subjects
    BY <1>2, <1>3, <1>4
  <1>12. CredentialsOK'
    <2>1. ASSUME NEW x \in continuations' PROVE ContinuationOK(x)'
      <3>1. CASE x \in continuations
        BY <1>a, <3>1 DEF InvocationInv, CredentialsOK, ContinuationOK
      <3> QED
        BY <1>a, <1>10, <3>1
    <2>2. invocations' \subseteq Receivers \X Callers \X Subjects
      BY <1>a, <1>11 DEF InvocationInv, CredentialsOK
    <2>3. \A x \in delegations' : x \in Callers \X DelegationClaims /\ DelegationOK(x[1], x[2])' /\ x[2] \in audit'
      BY <1>0 DEF InvocationInv, CredentialsOK, DelegationOK
    <2>4. IsFiniteSet(wats') /\ wats' \subseteq audit' /\ \A x \in wats' : TokenOK(x)
      BY <1>0 DEF InvocationInv, CredentialsOK
    <2> QED
      BY <2>1, <2>2, <2>3, <2>4 DEF CredentialsOK
  <1>13. DatabaseOK' /\ RequestsOK'
    BY <1>0, <1>a, RequestContinues
  <1> QED
    BY <1>6, <1>12, <1>13 DEF InvocationInv, ContinuationFollowsAdmission

\* A positive answer that leaves everything else as it is.
LEMMA AnswerSteps ==
  ASSUME InvocationInv, NEW r \in Requests, Continue(r, Idle),
         row' = row, loaded' = loaded, now' = now, changes' = changes, credentialVars' = credentialVars,
         invocations' = invocations, NoUseAfterRevocation', ContinuationFollowsAdmission'
  PROVE  InvocationInv'
  <1> PICK q : q = Idle
    OBVIOUS
  <1>0. /\ wats' = wats /\ delegations' = delegations /\ continuations' = continuations /\ audit' = audit
        /\ Continue(r, q) /\ q.step = "idle"
    BY DEF credentialVars, Idle
  <1>1. DatabaseOK' /\ RequestsOK'
    BY <1>0, RequestContinues
  <1>2. CredentialsOK'
    BY <1>0 DEF InvocationInv, CredentialsOK, DelegationOK, ContinuationOK
  <1> QED
    BY <1>1, <1>2 DEF InvocationInv

LEMMA CallerIsVerified ==
  ASSUME InvocationInv, NEW r \in Requests, NEW wat \in wats, NEW peer, VerifyCaller(r, wat, peer)
  PROVE  InvocationInv'
  <1> PICK old : old = request[r]
    OBVIOUS
  <1> PICK c : c = old.read.authority
    OBVIOUS
  <1> PICK rows : rows = RowsOf(wat.caller) \cup RowsOf(c) \cup RowsOf(Ingress(r))
    OBVIOUS
  <1>0. /\ old.step = "receiver" /\ Ingress(r).operation = "check" /\ Continue(r, Idle)
        /\ currentCaller(wat.caller, peer) /\ Answer(r, "caller", wat.caller, None, rows)
        /\ row' = row /\ loaded' = loaded /\ now' = now /\ changes' = changes
        /\ credentialVars' = credentialVars /\ invocations' = invocations
    BY DEF VerifyCaller, At, Step
  <1>1. RequestOK(old) /\ Ingress(r) = old.ingress /\ Admissible(old.ingress) /\ StartOK(old.start) /\ Fresh(old.start, old.ingress)
    <2> PICK x : x = Having(r, "caller", old.read)
      OBVIOUS
    <2> QED
      BY <1>0, RequestIsOK
  <1>2. Fresh(old.start, c)
    BY <1>0, <1>1 DEF RequestOK, VerificationsRead
  <1>3. Admissible(wat.caller) /\ AsRead(wat.caller)
    BY <1>0, CurrentIsRead DEF InvocationInv, CredentialsOK, TokenOK
  <1>4. Fresh(old.start, wat.caller)
    BY <1>1, <1>3, ReadIsFresh
  <1>5. \A use \in rows : use[2] >= old.start[use[1]]
    BY <1>1, <1>2, <1>4, RowsAreFresh
  <1>6. NoUseAfterRevocation' /\ answer'.kind = "caller"
    BY <1>0, <1>5, AnswersAreFresh
  <1> QED
    BY <1>0, <1>6, AnswerSteps DEF ContinuationFollowsAdmission

\* The authority of a snapshot reader is that of the rows now.
LEMMA AuthorityIsCurrent ==
  ASSUME InvocationInv, NEW r \in Requests, NEW wat \in wats, NEW peer, VerifyAuthority(r, wat, peer)
  PROVE  /\ \A use \in workloadAuthorityRevision(wat.caller) \cup RowsOf(Ingress(r)) :
              use[1] \in RowNames /\ Current(use[1], use[2])
  <1> PICK entry : entry = Ingress(r)
    OBVIOUS
  <1> PICK id : id = wat.caller.identity
    OBVIOUS
  <1>0. /\ request[r].step = "entered" /\ entry.operation = "check" /\ ReadCurrentAuthority(entry, wat.caller, peer)
    BY DEF VerifyAuthority, At, Step
  <1>1. Admissible(entry)
    <2> PICK x, old : x = Having(r, "entered", None) /\ old = request[r]
      OBVIOUS
    <2> QED
      BY <1>0, RequestIsOK
  <1>2. Admissible(wat.caller) /\ id.workload \in Callers
    BY DEF InvocationInv, CredentialsOK, TokenOK
  <1>3. ASSUME NEW c, NEW n, NEW o, CheckWorkloadGrant(n, o), c = AuthorizedCaller(n, o),
               IdentityRow(n.workload) \in RowNames, GrantRow(n.workload, o) \in RowNames,
               NEW use \in RowsOf(c)
        PROVE  use[1] \in RowNames /\ Current(use[1], use[2])
    <2>1. c.identity = n /\ c.operation = o /\ c.grant = row[GrantRow(n.workload, o)].version /\ c.revision = loaded
      BY <1>3 DEF AuthorizedCaller
    <2>2. \/ use[1] = IdentityRow(n.workload) /\ use[2] = n.version
          \/ use[1] = GrantRow(n.workload, o) /\ use[2] = row[GrantRow(n.workload, o)].version
          \/ use[1] = RegistryRow /\ use[2] = loaded
      BY <1>3, <2>1 DEF RowsOf
    <2>3. RegistryRow \in RowNames
      BY DEF RowNames
    <2> QED
      BY <1>3, <2>2, <2>3 DEF CheckWorkloadGrant, TargetRegistered, Current
  <1>4. ASSUME NEW use \in RowsOf(entry) PROVE use[1] \in RowNames /\ Current(use[1], use[2])
    <2>1. CheckWorkloadGrant(entry.identity, "check") /\ AuthorizedCaller(entry.identity, "check") = entry
      BY <1>0 DEF ReadCurrentAuthority
    <2>2. IdentityRow(entry.identity.workload) \in RowNames /\ GrantRow(entry.identity.workload, "check") \in RowNames
      BY <1>0, <1>1, RowsAreNamed
    <2> QED
      BY <1>3, <2>1, <2>2
  <1>5. ASSUME NEW use \in workloadAuthorityRevision(wat.caller) PROVE use[1] \in RowNames /\ Current(use[1], use[2])
    <2>1. PICK o \in PairedAuthority : use \in RowsOf(AuthorizedCaller(id, o))
      BY DEF workloadAuthorityRevision
    <2>2. CheckWorkloadGrant(id, o)
      BY <1>0 DEF ReadCurrentAuthority
    <2>3. IdentityRow(id.workload) \in RowNames /\ GrantRow(id.workload, o) \in RowNames
      BY <1>2 DEF RowNames, Workloads, CallerOperations, WorkloadOnly
    <2> PICK c : c = AuthorizedCaller(id, o)
      OBVIOUS
    <2> QED
      BY <1>3, <2>1, <2>2, <2>3
  <1> QED
    BY <1>4, <1>5

LEMMA AuthoritySteps ==
  ASSUME InvocationInv, NEW r \in Requests, NEW wat \in wats, NEW peer, VerifyAuthority(r, wat, peer)
  PROVE  InvocationInv'
  <1> PICK old : old = request[r]
    OBVIOUS
  <1> PICK rows : rows = workloadAuthorityRevision(wat.caller) \cup RowsOf(Ingress(r))
    OBVIOUS
  <1>0. /\ old.step = "entered" /\ Continue(r, Idle) /\ Answer(r, "authority", wat.caller, None, rows)
        /\ row' = row /\ loaded' = loaded /\ now' = now /\ changes' = changes
        /\ credentialVars' = credentialVars /\ invocations' = invocations
    BY DEF VerifyAuthority, At, Step
  <1>1. StartOK(old.start)
    <2> PICK x : x = Having(r, "caller", old.read)
      OBVIOUS
    <2> QED
      BY <1>0, RequestIsOK
  <1>2. \A use \in rows : use[1] \in RowNames /\ Current(use[1], use[2])
    BY AuthorityIsCurrent
  <1>3. \A use \in rows : use[2] >= old.start[use[1]]
    BY <1>1, <1>2 DEF StartOK, Current
  <1>4. NoUseAfterRevocation' /\ answer'.kind = "authority"
    BY <1>0, <1>3, AnswersAreFresh
  <1> QED
    BY <1>0, <1>4, AnswerSteps DEF ContinuationFollowsAdmission

LEMMA ContinuationSteps ==
  ASSUME InvocationInv, NEW r \in Requests, ContinuationSubject(r)
  PROVE  InvocationInv'
  <1> PICK old : old = request[r]
    OBVIOUS
  <1> PICK k : k = old.read.proof
    OBVIOUS
  <1> PICK rows : rows = RowsOf(k.caller) \cup RowsOf(k.receiver) \cup RowsOf(k.authority)
                           \cup {<<SubjectRow(k.subject.id), k.subject.version>>}
    OBVIOUS
  <1>0. /\ old.step = "caller" /\ Ingress(r).operation = "resume" /\ Continue(r, Idle)
        /\ currentSubject(k.subject, k.revision) /\ Answer(r, "continuation", k.caller, k.subject.id, rows)
        /\ row' = row /\ loaded' = loaded /\ now' = now /\ changes' = changes
        /\ credentialVars' = credentialVars /\ invocations' = invocations
    BY DEF ContinuationSubject, At, Step
  <1>1. RequestOK(old) /\ Ingress(r) = old.ingress /\ StartOK(old.start)
    <2> PICK x : x = Having(r, "caller", old.read)
      OBVIOUS
    <2> QED
      BY <1>0, RequestIsOK
  <1>2. /\ k \in continuations /\ k.receiver.identity = Ingress(r).identity
        /\ Fresh(old.start, k.caller) /\ Fresh(old.start, k.receiver) /\ Fresh(old.start, k.authority)
    BY <1>0, <1>1 DEF RequestOK, ResumptionsRead
  <1>3. /\ k \in SessionContinuationClaims
        /\ <<k.receiver.identity.workload, k.caller.identity.workload, k.subject.id>> \in invocations
    BY <1>2 DEF InvocationInv, CredentialsOK, ContinuationOK
  <1>4. k.subject \in DelegatedSubject /\ DatabaseOK
    BY <1>3 DEF SessionContinuationClaims, InvocationInv
  <1>5. \A use \in rows : use[2] >= old.start[use[1]]
    <2>1. \A use \in {<<SubjectRow(k.subject.id), k.subject.version>>} : use[2] >= old.start[use[1]]
      BY <1>0, <1>1, <1>4, SubjectIsFresh
    <2>2. \A use \in RowsOf(k.caller) \cup RowsOf(k.receiver) \cup RowsOf(k.authority) : use[2] >= old.start[use[1]]
      BY <1>2, RowsAreFresh
    <2> QED
      BY <2>1, <2>2
  <1>6. /\ NoUseAfterRevocation' /\ answer'.by = Ingress(r).identity.workload
        /\ answer'.caller = k.caller.identity.workload /\ answer'.subject = k.subject.id
    BY <1>0, <1>5, AnswersAreFresh
  <1>7. <<answer'.by, answer'.caller, answer'.subject>> \in invocations'
    BY <1>0, <1>2, <1>3, <1>6
  <1> QED
    BY <1>0, <1>6, <1>7, AnswerSteps DEF ContinuationFollowsAdmission

LEMMA ChangeSteps ==
  ASSUME InvocationInv, NEW n \in RowNames, NEW active \in BOOLEAN, Change(n, active)
  PROVE  InvocationInv'
  <1> PICK old : old = row[n]
    OBVIOUS
  <1> PICK new : new = [active |-> active, version |-> old.version + 1]
    OBVIOUS
  <1>0. /\ changes < MaxChanges /\ row' = [row EXCEPT ![n] = new] /\ changes' = changes + 1
        /\ loaded' = loaded /\ now' = now /\ request' = request /\ wats' = wats /\ delegations' = delegations
        /\ continuations' = continuations /\ audit' = audit /\ answer' = answer /\ invocations' = invocations
        /\ DatabaseOK
    BY DEF Change, credentialVars, verdictVars, InvocationInv
  <1>1. old.version \in Nat /\ old.version <= changes /\ changes \in Nat
    BY <1>0, InvocationBounds DEF DatabaseOK, Version
  <1>2. changes + 1 \in Version /\ old.version + 1 \in Version
    BY <1>0, <1>1, InvocationBounds DEF Version
  <1>3. new \in [active : BOOLEAN, version : Version] /\ new.version = old.version + 1
    BY <1>2
  <1>4. \A x \in RowNames : row'[x] = IF x = n THEN new ELSE row[x]
    BY <1>0 DEF DatabaseOK
  <1>5. \A x \in RowNames : row[x].version <= row'[x].version /\ row'[x].version <= changes + 1
    <2>1. \A x \in RowNames : row[x].version \in Nat /\ row[x].version <= changes
      BY <1>0, VersionsTyped DEF DatabaseOK
    <2> QED
      BY <1>1, <1>3, <1>4, <2>1
  <1>6. row' \in [RowNames -> [active : BOOLEAN, version : Version]]
    BY <1>0, <1>3 DEF DatabaseOK
  <1>7. DatabaseOK'
    BY <1>0, <1>2, <1>5, <1>6 DEF DatabaseOK
  <1>8. ASSUME NEW x \in Requests PROVE (request[x].step = "idle" \/ RequestOK(request[x]))'
    <2> PICK q : q = request[x]
      OBVIOUS
    <2>1. q.step = "idle" \/ RequestOK(q)
      BY DEF InvocationInv, RequestsOK
    <2>2. RequestOK(q) => RequestOK(q)'
      BY <1>0, <1>5, <1>7, ReadStays
    <2>3. request'[x] = q
      BY <1>0
    <2> QED
      BY <2>1, <2>2, <2>3
  <1>9. RequestsOK'
    BY <1>0, <1>8 DEF InvocationInv, RequestsOK
  <1>10. CredentialsOK'
    BY <1>0 DEF InvocationInv, CredentialsOK, DelegationOK, ContinuationOK
  <1> QED
    BY <1>0, <1>7, <1>9, <1>10 DEF InvocationInv, NoUseAfterRevocation, ContinuationFollowsAdmission

LEMMA ProcessSteps == InvocationInv /\ (Restart \/ Tick \/ UNCHANGED invocationVars) => InvocationInv'
  <1> SUFFICES ASSUME InvocationInv, Restart \/ Tick \/ UNCHANGED invocationVars PROVE InvocationInv'
    OBVIOUS
  <1>0. /\ row' = row /\ changes' = changes /\ wats' = wats /\ delegations' = delegations
        /\ continuations' = continuations /\ audit' = audit /\ answer' = answer /\ invocations' = invocations
        /\ DatabaseOK
    BY DEF Restart, Tick, invocationVars, credentialVars, verdictVars, InvocationInv
  <1>1. loaded' \in Version
    <2>1. RegistryRow \in RowNames
      BY DEF RowNames
    <2>2. row[RegistryRow].version \in Version
      BY <1>0, <2>1, VersionsTyped
    <2> QED
      BY <1>0, <2>2 DEF Restart, Tick, invocationVars, DatabaseOK
  <1>2. now' \in 0..MaxTime
    BY <1>0, InvocationBounds DEF Restart, Tick, invocationVars, DatabaseOK
  <1>3. DatabaseOK'
    BY <1>0, <1>1, <1>2 DEF DatabaseOK
  <1>4. RequestsOK'
    <2>1. CASE Restart
      BY <2>1 DEF Restart, RequestsOK, Idle
    <2>2. CASE Tick \/ UNCHANGED invocationVars
      <3>0. request' = request
        BY <2>2 DEF Tick, invocationVars
      <3>1. ASSUME NEW x \in Requests PROVE (request[x].step = "idle" \/ RequestOK(request[x]))'
        <4> PICK q : q = request[x]
          OBVIOUS
        <4>1. q.step = "idle" \/ RequestOK(q)
          BY DEF InvocationInv, RequestsOK
        <4>2. \A n \in RowNames : row[n].version <= row'[n].version
          BY <1>0, VersionsTyped
        <4>3. RequestOK(q) => RequestOK(q)'
          BY <1>0, <1>3, <4>2, ReadStays
        <4> QED
          BY <3>0, <4>1, <4>3
      <3> QED
        BY <3>0, <3>1 DEF InvocationInv, RequestsOK
    <2> QED
      BY <2>1, <2>2
  <1>5. CredentialsOK'
    BY <1>0 DEF InvocationInv, CredentialsOK, DelegationOK, ContinuationOK
  <1> QED
    BY <1>0, <1>3, <1>4, <1>5 DEF InvocationInv, NoUseAfterRevocation, ContinuationFollowsAdmission

LEMMA RequestSteps ==
  ASSUME InvocationInv, NEW r \in Requests, RequestNext(r)
  PROVE  InvocationInv'
  <1>1. CASE \/ \E c \in Callers, o \in {"issue", "delegate"} : WorkloadIdentityMiddleware(r, c, o)
             \/ \E w \in Receivers, o \in {"verify", "check", "resume"} : WorkloadIdentityMiddleware(r, w, o)
    BY <1>1, MiddlewareSteps
  <1>2. CASE \/ \E target \in Delegated \cup WorkloadOnly : IssueWorkloadToken(r, target)
             \/ \E wat \in wats : DelegationCaller(r, wat)
             \/ \E s \in Subjects : CheckPermission(r, s)
             \/ IssueDelegation(r) \/ recordIssue(r) \/ Release(r)
    BY <1>2, TokenSteps, DelegationCallerSteps, PermissionSteps, DelegationSteps, RecordIssueSteps, ReleaseSteps
  <1>3. CASE \/ ReceiverAuthority(r) \/ Verify(r)
             \/ \E wat \in wats, d \in delegations, c \in Callers : VerifyInvocation(r, wat, d[2], c)
             \/ \E wat \in wats, c \in Callers : VerifyCaller(r, wat, c) \/ VerifyAuthority(r, wat, c)
    BY <1>3, ReceiverSteps, VerifySteps, VerifyInvocationSteps, CallerIsVerified, AuthoritySteps
  <1>4. CASE \/ \E k \in continuations : ContinuationReceiver(r, k)
             \/ OriginalVerification(r) \/ ContinuationCaller(r) \/ ContinuationSubject(r) \/ Abandon(r)
    BY <1>4, ContinuationReceiverSteps, OriginalSteps, ContinuationCallerSteps, ContinuationSteps, AbandonSteps
  <1> QED
    BY <1>1, <1>2, <1>3, <1>4 DEF RequestNext

LEMMA InvocationSteps == InvocationInv /\ [InvocationNext]_invocationVars => InvocationInv'
  <1> SUFFICES ASSUME InvocationInv, [InvocationNext]_invocationVars PROVE InvocationInv'
    OBVIOUS
  <1>1. ASSUME NEW n \in RowNames, OwnerChanges(n) PROVE InvocationInv'
    BY <1>1, ChangeSteps DEF OwnerChanges
  <1>2. ASSUME NEW s \in Subjects, RevokeSubject(s) PROVE InvocationInv'
    <2>1. SubjectRow(s) \in {SubjectRow(x) : x \in Subjects}
      OBVIOUS
    <2>2. SubjectRow(s) \in RowNames
      BY <2>1 DEF RowNames
    <2>3. Change(SubjectRow(s), FALSE)
      BY <1>2 DEF RevokeSubject
    <2> QED
      BY <2>2, <2>3, ChangeSteps
  <1>3. ASSUME NEW enabled \in BOOLEAN, InstallRegistry(enabled) PROVE InvocationInv'
    BY <1>3, ChangeSteps DEF InstallRegistry, RowNames
  <1> QED
    BY <1>1, <1>2, <1>3, RequestSteps, ProcessSteps DEF InvocationNext

LEMMA InvocationImplies ==
  InvocationInv => /\ InvocationTypeOK /\ NoUseAfterRevocation /\ LifetimesNest /\ ReleasedIsAudited
                   /\ DelegationsStayWithTheirCaller /\ ContinuationFollowsAdmission
  <1> SUFFICES ASSUME InvocationInv
               PROVE  /\ InvocationTypeOK /\ NoUseAfterRevocation /\ LifetimesNest /\ ReleasedIsAudited
                      /\ DelegationsStayWithTheirCaller /\ ContinuationFollowsAdmission
    OBVIOUS
  <1>1. InvocationTypeOK
    <2>1. \A r \in Requests : Step(r, "idle") \/ Ingress(r) \in DirectCaller
      BY DEF InvocationInv, RequestsOK, RequestOK, Admissible, Step, Ingress
    <2> QED
      BY <2>1 DEF InvocationInv, DatabaseOK, CredentialsOK, TokenOK, ContinuationOK, InvocationTypeOK
  <1>2. LifetimesNest
    BY DEF InvocationInv, CredentialsOK, DelegationOK, ContinuationOK, LifetimesNest
  <1>3. ReleasedIsAudited
    BY DEF InvocationInv, CredentialsOK, ReleasedIsAudited
  <1>4. DelegationsStayWithTheirCaller
    BY DEF InvocationInv, CredentialsOK, DelegationOK, DelegationsStayWithTheirCaller
  <1> QED
    BY <1>1, <1>2, <1>3, <1>4 DEF InvocationInv

LEMMA AuthorityIsCut ==
  InvocationInv /\ [InvocationNext]_invocationVars =>
    [answer' # answer /\ answer'.kind = "authority" => \A use \in answer'.rows : Current(use[1], use[2])]_invocationVars
  <1> SUFFICES ASSUME InvocationInv, InvocationNext, answer' # answer, answer'.kind = "authority"
               PROVE  \A use \in answer'.rows : Current(use[1], use[2])
    OBVIOUS
  <1>1. PICK r \in Requests : RequestNext(r)
    BY DEF InvocationNext, OwnerChanges, RevokeSubject, InstallRegistry, Change, Restart, Tick, verdictVars
  <1>2. ~ReadOnly
    BY DEF ReadOnly, verdictVars
  <1>3. ~recordIssue(r) /\ ~Release(r)
    BY DEF recordIssue, Release, verdictVars
  <1>4. ~Verify(r) /\ ~ContinuationSubject(r) /\ \A wat, c : ~VerifyCaller(r, wat, c)
    BY DEF Verify, ContinuationSubject, VerifyCaller, Answer
  <1>5. PICK wat \in wats, c \in Callers : VerifyAuthority(r, wat, c)
    BY <1>1, <1>2, <1>3, <1>4 DEF RequestNext, WorkloadIdentityMiddleware, IssueWorkloadToken, DelegationCaller,
       CheckPermission, IssueDelegation, ReceiverAuthority, VerifyInvocation, ContinuationReceiver,
       OriginalVerification, ContinuationCaller, Abandon
  <1>6. answer'.rows = workloadAuthorityRevision(wat.caller) \cup RowsOf(Ingress(r))
    BY <1>5 DEF VerifyAuthority, Answer
  <1> QED
    BY <1>5, <1>6, AuthorityIsCurrent

\* Whatever the owner revokes or restores between two reads of a request, and
\* whoever presents whose credentials: a positive answer rests on no row changed
\* before the request began, a paired authority on one instant, a continuation
\* on an admission, and no credential outlives what it came from or misses its
\* audit record.  For any callers, receivers, subjects, requests and bounds.
THEOREM InvocationsTheorem == InvocationSpec => InvocationsAreAuthorized
  <1>1. InvocationSpec => []InvocationInv
    BY InvocationInitially, InvocationSteps, PTL DEF InvocationSpec
  <1>2. InvocationSpec => [](/\ InvocationTypeOK /\ NoUseAfterRevocation /\ LifetimesNest
                             /\ ReleasedIsAudited
                             /\ DelegationsStayWithTheirCaller /\ ContinuationFollowsAdmission)
    BY <1>1, InvocationImplies, PTL
  <1>3. InvocationSpec => AuthorityIsOneCut
    BY <1>1, AuthorityIsCut, PTL DEF InvocationSpec, AuthorityIsOneCut
  <1> QED
    BY <1>2, <1>3, PTL DEF InvocationsAreAuthorized
=============================================================================
