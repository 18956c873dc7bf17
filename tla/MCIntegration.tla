---------------------------- MODULE MCIntegration ----------------------------
EXTENDS CoreProjection, BrokerAuthority, DLQAdministration,
        WorkloadInvocation, WorkloadRegistry

CONSTANTS s1, e1, c1, c2, r1, r2, t1, b1, sc1

\* The component that moves: each keeps its own tables.
VARIABLE part

ProjectionScenarios == {"order", "second", "authority"}
DLQScenarios == {"replays", "evidence"}
InvocationScenarios == {"revocation", "time", "parties"}
Parts == ProjectionScenarios \cup DLQScenarios \cup InvocationScenarios \cup {"broker", "registry"}

\* A long log and one rebuild; a short log and two; or a changing authority.
ProjectionParts ==
  \/ /\ part = "order"
     /\ routeAuthority'.version = 1 /\ ~aged'
     /\ \A s \in Snapshots \ {s1} : cursor'[s].state = "none"
     /\ DOMAIN receipts' \subseteq DOMAIN evidence'
  \/ /\ part = "second"
     /\ Len(log') <= 2 /\ routeAuthority'.version = 1
     /\ \A i \in DOMAIN log' : log'[i].tenant # 2
     /\ DOMAIN receipts' \subseteq DOMAIN evidence'
  \/ /\ part = "authority"
     /\ Len(log') <= 2 /\ ~aged'
     /\ \A i \in DOMAIN log' : log'[i].tenant # 2
     /\ \A s \in Snapshots \ {s1} : cursor'[s].state = "none"

\* Manifests are used in order, Grants first given in order, and the authority
\* changes twice: a revocation and a restoration.
AuthorityChangesMade ==
  LET later(table) == {n \in (DOMAIN table) \X (2..MaxVersion) : n[2] <= table[n[1]].version}
  IN Cardinality(later(principals)) + Cardinality(later(bindings)) + Cardinality(later(brokerGrants))

BrokerPart ==
  /\ AuthorityChangesMade' <= 2
  /\ \A m \in Manifests \ {1} : applied'[m] # Absent => applied'[m - 1] # Absent
  /\ brokerGrants'["execute"].status # "absent" => brokerGrants'["receive"].status # "absent"
  /\ brokerGrants'["receive"].status # "absent" => brokerGrants'["publish"].status # "absent"

\* Requests are sent in order: three while nothing else changes, or two with
\* all changes.
DLQParts ==
  /\ \A r \in ReplayRequests \ {1} :
       requests'[r].step # "idle" => requests'[r - 1].step # "idle"
  /\ \/ part = "replays" /\ ChangesMade' = 2 /\ human'
        /\ \A r \in ReplayRequests : requests'[r].entry \in {Nothing, e1}
     \/ part = "evidence" /\ requests'[3].step = "idle"

\* One caller and one receiver while the owner changes their rows, or while
\* time passes; or several of them that mix up credentials, none of which was
\* lost after its audit.
TwoParties ==
  \A r \in Requests : request'[r].step # "idle" =>
    request'[r].ingress.identity.workload \in {c1, r1}

ForHumans ==
  \A r \in Requests : request'[r].step = "subject" => request'[r].read.subject.id \in Humans

\* One credential of each kind, and no request for a second one.
OneOfEach ==
  /\ Cardinality(wats') <= 1 /\ Cardinality(delegations') <= 1 /\ Cardinality(continuations') <= 1
  /\ Cardinality(audit') <= 2
  /\ \A r \in Requests : (request'[r].step # "idle" /\ request'[r].ingress.operation = "issue") => wats = {}

InvocationParts ==
  \/ /\ part = "revocation"
     /\ now' = 0 /\ TwoParties /\ ForHumans
     /\ \A n \in RowNames : row'[n] # row[n] =>
          \A i \in DOMAIN n : n[i] \notin {c2, r2} \cup APIKeys
     /\ OneOfEach
  \/ /\ part = "time"
     /\ changes' = 0 /\ TwoParties
     /\ \A w \in wats' : w.caller.operation = "call"
     /\ OneOfEach
  \/ /\ part = "parties"
     /\ changes' = 0 /\ now' = 0 /\ ForHumans
     /\ \A r \in Requests : request'[r].step # "idle" => request'[r].ingress.operation # "check"
     /\ \A w \in wats' : w.caller.operation = "call"
     /\ Cardinality(delegations') <= 1 /\ Cardinality(continuations') <= 1 /\ Cardinality(audit') <= 3
     /\ Cardinality(audit') = Cardinality(audit) + 1 => Cardinality(audit) = Cardinality(wats \cup delegations)

\* Manifests grant every target and come in one version.
RegistryPart ==
  /\ \A id \in BootstrapManifests : bootstrapReceipts'[id] # Missing => bootstrapReceipts'[id].digest = 1
  /\ \A w \in Principals : \A t \in Targets :
       workloads'[w] # Missing => \E g \in workloadGrants' : g.workload = w /\ g.target = t

\* The bundles differ in one target.
RegistryContent ==
  /\ \A b \in Bundles, t \in Targets \ {t1} :
       content[b][t] # Missing => content[b][t].scope = sc1 /\ content[b][t].receiver = Missing
  /\ \A t \in Targets : content[b1][t] # Missing /\ content[b1][t].scope = sc1

FixedContent ==
  \A b \in Bundles, t \in Targets :
    content[b][t] = [scope |-> sc1, enabled |-> TRUE, receiver |-> Missing]

MCInit ==
  /\ part \in Parts
  /\ ProjectionInit /\ BrokerInit /\ DLQInit /\ InvocationInit /\ RegistryInit
  /\ IF part = "registry" THEN RegistryContent ELSE FixedContent

MCNext ==
  /\ UNCHANGED part
  /\ \/ /\ part \in ProjectionScenarios /\ ProjectionNext /\ ProjectionParts
        /\ UNCHANGED <<brokerVars, dlqVars, invocationVars, registryVars>>
     \/ /\ part = "broker" /\ BrokerNext /\ BrokerPart
        /\ UNCHANGED <<projectionVars, dlqVars, invocationVars, registryVars>>
     \/ /\ part \in DLQScenarios /\ DLQNext /\ DLQParts
        /\ UNCHANGED <<projectionVars, brokerVars, invocationVars, registryVars>>
     \/ /\ part \in InvocationScenarios /\ InvocationNext /\ InvocationParts
        /\ UNCHANGED <<projectionVars, brokerVars, dlqVars, registryVars>>
     \/ /\ part = "registry" /\ RegistryNext /\ RegistryPart
        /\ UNCHANGED <<projectionVars, brokerVars, dlqVars, invocationVars>>

mcVars == <<part, projectionVars, brokerVars, dlqVars, invocationVars, registryVars>>
MCSpec == MCInit /\ [][MCNext]_mcVars
=============================================================================
