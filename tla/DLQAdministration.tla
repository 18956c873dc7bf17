--------------------------- MODULE DLQAdministration --------------------------
(***************************************************************************)
(* A platform administrator replays a quarantined broker message:          *)
(* biz/core_dlq_administration.go and data/core_dlq_administration.go.     *)
(*                                                                         *)
(* The replay is one transaction under the broker authority and platform   *)
(* administration locks.  Its commit may succeed with the answer lost; in  *)
(* every other case than a certain success a second, audit-only            *)
(* transaction records the failed attempt, unless it finds that this very  *)
(* attempt had committed.  The process may stop between the two.           *)
(***************************************************************************)
EXTENDS Naturals, FiniteSets, FiniteSetsExt

CONSTANTS
  Entries,      \* core_broker_dlq originals
  Old,          \* entries quarantined before attribution was kept
  ReplayRequests,     \* replay requests; each has a fresh attempt and audit id
  Keys,         \* idempotency keys
  MaxDLQChanges,   \* bound on changes of human and broker authority
  Nothing

\* What the ledger keeps of a replay.
ReplayReceipt ==
  [intent : [entry : Entries, expected : 0..Cardinality(ReplayRequests)], attempt : ReplayRequests]

ASSUME DLQAssumption ==
  /\ IsFiniteSet(ReplayRequests)
  /\ Nothing \notin ReplayReceipt

VARIABLES
  human,      \* the administrator's session, membership and permission hold
  dlqAuthority,  \* version and status of the route's broker authority
  config,     \* receiver configuration of the running process
  context,    \* core_broker_dlq_context: configuration kept with an entry
  received,   \* broker receipts: event of the entry -> authority version
  attempts,   \* core_broker_dlq_attempts
  audits,     \* security audit events of replays
  ledger,     \* platform mutation receipts by key
  expired,    \* keys whose receipt is older than a day
  requests    \* progress of each request

durable == <<attempts, audits, ledger, received>>
world == <<human, dlqAuthority, config, context, expired>>
dlqVars == <<durable, world, requests>>

NotSent == [step |-> "idle", entry |-> Nothing, key |-> Nothing, expected |-> 0, code |-> "none"]

DLQInit ==
  /\ human = TRUE
  /\ dlqAuthority = [version |-> 1, active |-> TRUE]
  /\ config = 1
  /\ context = [e \in Entries |-> IF e \in Old THEN 0 ELSE 1]
  /\ received = [e \in Entries |-> 0]
  /\ attempts = {}
  /\ audits = {}
  /\ ledger = [k \in Keys |-> Nothing]
  /\ expired = {}
  /\ requests = [r \in ReplayRequests |-> NotSent]

ListCoreDLQAttempts(e) == {a \in attempts : a.entry = e}
LastAttempt(e) == Max({0} \cup {a.number : a \in ListCoreDLQAttempts(e)})

\* The entry an administrator sees, in a transaction of its own
\* (GetCoreDLQEntry), and the command written from it.
LoadPlatformCoreDLQ(e) == [entry |-> e, attempt |-> LastAttempt(e)]

Send(r, e, k) ==
  /\ requests[r].step = "idle" /\ human
  /\ requests' = [requests EXCEPT ![r] =
       [step |-> "sent", entry |-> e, key |-> k, expected |-> LoadPlatformCoreDLQ(e).attempt,
        code |-> "none"]]
  /\ UNCHANGED <<durable, world>>

\* platformMutationIdentity: what a key stands for.
Intent(q) == [entry |-> q.entry, expected |-> q.expected]

recheckCoreDLQHuman == human

ReadCoreDLQContext(e) == context[e] = config

CheckPlatformCoreDLQSource(e) == ReadCoreDLQContext(e) /\ dlqAuthority.active

\* The event may have come over another position before: then only under the
\* same authority.
receiveInTransaction(e) == received[e] \in {0, dlqAuthority.version}

FindPlatformMutation(q) == ledger[q.key] # Nothing
SameIntent(q) == ledger[q.key].intent = Intent(q)

Allowed(q) == recheckCoreDLQHuman /\ CheckPlatformCoreDLQSource(q.entry)

MayReplay(q) ==
  /\ Allowed(q)
  /\ ~FindPlatformMutation(q)
  /\ LastAttempt(q.entry) = q.expected
  /\ receiveInTransaction(q.entry)

AppendCoreDLQAttempt(e, r, outcome, seen) ==
  attempts' = attempts \cup {[entry |-> e, id |-> r, number |-> LastAttempt(e) + 1,
                              outcome |-> outcome, key |-> requests[r].key, seen |-> seen]}

AuditResult(q, outcome) ==
  IF outcome # "failed" THEN "succeeded"
  ELSE IF q.code \in {"human_authority_denied", "broker_authority_denied"} THEN "denied" ELSE "failed"

AppendPlatformCoreDLQAttempt(q, r, outcome) ==
  /\ AppendCoreDLQAttempt(q.entry, r, outcome, q.expected)
  /\ audits' = audits \cup {<<r, AuditResult(q, outcome)>>}

ReceivePlatformCoreDLQ(e) == received' = [received EXCEPT ![e] = dlqAuthority.version]
ReplayOutcome(e) == IF received[e] = 0 THEN "received" ELSE "duplicate"

SavePlatformMutation(q, r) ==
  ledger' = [ledger EXCEPT ![q.key] = [intent |-> Intent(q), attempt |-> r]]

\* The answer of a commit may be lost: the caller then sees an error.
ReplayCoreDLQEntry(r) ==
  LET q == requests[r]
  IN /\ q.step = "sent" /\ MayReplay(q)
     /\ ReceivePlatformCoreDLQ(q.entry)
     /\ AppendPlatformCoreDLQAttempt(q, r, ReplayOutcome(q.entry))
     /\ SavePlatformMutation(q, r)
     /\ requests' = [requests EXCEPT ![r].step = "done"]
        \/ requests' = [requests EXCEPT ![r].step = "uncertain"]
     /\ UNCHANGED world

\* The same command sent again is answered from the ledger.
ReplayedBefore(r) ==
  LET q == requests[r]
  IN /\ q.step = "sent" /\ Allowed(q)
     /\ FindPlatformMutation(q) /\ SameIntent(q) /\ q.key \notin expired
     /\ requests' = [requests EXCEPT ![r].step = "done"]
     /\ UNCHANGED <<durable, world>>

CoreDLQFailureCode(q) ==
  IF ~human THEN "human_authority_denied"
  ELSE IF context[q.entry] # config THEN "provenance_unavailable"
  ELSE IF ~dlqAuthority.active THEN "broker_authority_denied"
  ELSE IF FindPlatformMutation(q) THEN IF SameIntent(q) THEN "idempotency_expired" ELSE "request_conflict"
  ELSE IF LastAttempt(q.entry) # q.expected THEN "request_conflict"
  ELSE "broker_authority_denied"

\* The transaction is refused, or rolled back when a dependency fails.
Refusal(q) ==
  IF MayReplay(q) \/ (Allowed(q) /\ FindPlatformMutation(q) /\ SameIntent(q) /\ q.key \notin expired)
  THEN "dependency_unavailable" ELSE CoreDLQFailureCode(q)

ReplayRefused(r) ==
  LET q == requests[r]
  IN /\ q.step = "sent"
     /\ requests' = [requests EXCEPT ![r].step = "failed", ![r].code = Refusal(q)]
     /\ UNCHANGED <<durable, world>>

\* Mutant: any receipt under the key counts as this attempt's commit.
KeyCommitted(q, r) == ledger[q.key] # Nothing

ThisAttemptCommitted(q, r) ==
  /\ ledger[q.key] # Nothing
  /\ ledger[q.key].intent = Intent(q)
  /\ ledger[q.key].attempt = r

\* A commit that was only uncertain is resolved by its own receipt.
RecordCoreDLQFailure(r) ==
  LET q == requests[r]
  IN /\ q.step \in {"failed", "uncertain"}
     /\ IF ThisAttemptCommitted(q, r) THEN UNCHANGED <<attempts, audits>>
        ELSE AppendPlatformCoreDLQAttempt(q, r, "failed")
     /\ requests' = [requests EXCEPT ![r].step = "recorded"]
     /\ UNCHANGED <<ledger, received, world>>

\* The process stops, or the recorder fails: ErrCoreDLQAuditUnavailable.
Stop(r) ==
  /\ requests[r].step \in {"sent", "failed", "uncertain"}
  /\ requests' = [requests EXCEPT ![r].step = "stopped"]
  /\ UNCHANGED <<durable, world>>

ChangesMade == dlqAuthority.version + config
DLQAuthorityChanges(active) ==
  /\ ChangesMade < MaxDLQChanges + 2 /\ dlqAuthority.active # active
  /\ dlqAuthority' = [version |-> dlqAuthority.version + 1, active |-> active]
  /\ UNCHANGED <<durable, human, config, context, expired, requests>>

ChangeHuman ==
  /\ human' = ~human
  /\ UNCHANGED <<durable, dlqAuthority, config, context, expired, requests>>

Reconfigure ==
  /\ ChangesMade < MaxDLQChanges + 2
  /\ config' = config + 1
  /\ UNCHANGED <<durable, human, dlqAuthority, context, expired, requests>>

ADayPasses(k) ==
  /\ ledger[k] # Nothing /\ k \notin expired
  /\ expired' = expired \cup {k}
  /\ UNCHANGED <<durable, human, dlqAuthority, config, context, requests>>

\* The event of an entry also arrives by the live consumer.
LiveReceive(e) ==
  /\ dlqAuthority.active /\ received[e] = 0
  /\ received' = [received EXCEPT ![e] = dlqAuthority.version]
  /\ UNCHANGED <<attempts, audits, ledger, world, requests>>

DLQNext ==
  \/ \E r \in ReplayRequests :
       \/ \E e \in Entries, k \in Keys : Send(r, e, k)
       \/ ReplayCoreDLQEntry(r) \/ ReplayedBefore(r) \/ ReplayRefused(r)
       \/ RecordCoreDLQFailure(r) \/ Stop(r)
  \/ \E b \in BOOLEAN : DLQAuthorityChanges(b)
  \/ ChangeHuman \/ Reconfigure
  \/ \E k \in Keys : ADayPasses(k)
  \/ \E e \in Entries : LiveReceive(e)

DLQSpec == DLQInit /\ [][DLQNext]_dlqVars

-----------------------------------------------------------------------------
Succeeded == {a \in attempts : a.outcome # "failed"}

FailureCodes == {"none", "human_authority_denied", "provenance_unavailable",
                 "broker_authority_denied", "request_conflict", "idempotency_expired",
                 "dependency_unavailable"}

\* Rows have their type and every attempt its audit event.
DLQTypeOK ==
  /\ \A a \in attempts : /\ a.entry \in Entries /\ a.id \in ReplayRequests
                         /\ a.outcome \in {"received", "duplicate", "failed"}
                         /\ \E x \in audits : x[1] = a.id /\ (x[2] = "succeeded" <=> a.outcome # "failed")
  /\ \A k \in Keys : ledger[k] # Nothing => ledger[k].attempt \in ReplayRequests
  /\ requests \in [ReplayRequests -> [step: {"idle", "sent", "done", "failed", "uncertain",
                                       "recorded", "stopped"},
                                entry: Entries \cup {Nothing}, key: Keys \cup {Nothing},
                                expected: 0..Cardinality(ReplayRequests),
                                code: FailureCodes]]

\* An uncertain commit is never recorded as failed as well: one request leaves
\* one attempt, and the attempts of an entry are numbered without a gap.
OneOutcomePerAttempt ==
  /\ \A a, b \in attempts : a.id = b.id => a = b
  /\ \A e \in Entries :
       {a.number : a \in ListCoreDLQAttempts(e)} = 1..Cardinality(ListCoreDLQAttempts(e))

\* Two administrators, or one retrying, never replay on the same view: between
\* what a successful replay saw and what it did, no attempt took place.
ReplaysSeeEveryAttempt ==
  \A a \in Succeeded : \A b \in ListCoreDLQAttempts(a.entry) :
    b.number < a.number => b.number <= a.seen

\* A key stands for one successful replay however often it is sent, and a
\* request that was told of its failure, or left in doubt, has its evidence.
EvidenceIsComplete ==
  /\ \A a, b \in Succeeded : a.key = b.key => a = b
  /\ \A r \in ReplayRequests : requests[r].step = "recorded" => \E a \in attempts : a.id = r

\* An entry without attribution, or attributed to another configuration of the
\* receiver, is never replayed; nor is one that was received under another
\* authority than the present one.
ReplayKeepsProvenance ==
  [][\A a \in Succeeded' \ Succeeded :
       /\ a.entry \notin Old /\ context[a.entry] = config
       /\ human /\ dlqAuthority.active
       /\ received[a.entry] # 0 => received[a.entry] = dlqAuthority.version]_dlqVars

\* Replays are decided on a current view, under current authority, and leave one
\* attempt each, whatever became of their commit (ReplayCoreDLQEntry).
ReplaysAreAccountable ==
  /\ [](DLQTypeOK /\ OneOutcomePerAttempt /\ ReplaysSeeEveryAttempt /\ EvidenceIsComplete)
  /\ ReplayKeepsProvenance
=============================================================================
