-------------------------- MODULE TenantLifecycle --------------------------
(***************************************************************************)
(* IAM's projection of the Tenants' lifecycle: the broker receiver that    *)
(* applies Governance's events in order, quarantines what it must not      *)
(* apply and acknowledges what is durable; the freshness readers are told; *)
(* and the coordinators that replace the projection by a Snapshot of       *)
(* Governance when an event is missing or an epoch is new, page by page    *)
(* while events keep arriving.                                             *)
(*                                                                         *)
(* Every transaction of data/core_broker.go and                            *)
(* data/governance_snapshot_rebuild.go holds the authority lock and the    *)
(* pipeline row, so it is one action; the calls of one ReceiveNext or one  *)
(* ReconcileNext are separate actions, and any of them may be the last one *)
(* its process makes.  The broker delivers unacknowledged messages in any  *)
(* order and as often as it likes.                                         *)
(***************************************************************************)
EXTENDS LifecycleOwner

CONSTANTS
    Snapshots,     \* identities of Snapshots, reused once nothing refers to them
    Workers,       \* processes that run a TenantSnapshotCoordinator
    Receivers,     \* processes that run a CoreBrokerReceiver
    StaleAfter,    \* TenantLifecycleStaleAfter
    Batch,         \* increments one CatchUp reads (500 in the code)
    MaxBeats,      \* bound: heartbeats Governance sends
    MaxAuthority,  \* bound: changes of the grants
    MaxExpiries    \* bound: durable builds whose cursor expires

ASSUME LifecycleAssumption ==
    /\ StaleAfter \in Nat /\ Batch \in Nat \ {0}
    /\ MaxBeats \in Nat /\ MaxAuthority \in Nat /\ MaxExpiries \in Nat
    /\ None \notin Snapshots

VARIABLES
    beats,      \* heartbeats Governance sent
    grant,      \* current version of each grant, and whether it is active
    pipeline,   \* the row of tenant_lifecycle_pipelines
    view,       \* tenant_lifecycle_facts of the pipeline's generation
    receipts,   \* messages retained with the grant version they came under
    dlq,        \* quarantined messages
    acked,      \* messages the broker will not deliver again
    receiver,   \* per receiver: where its ReceiveNext is
    snapshot,   \* per Snapshot: the owner's cut, and what became of its rebuild
    build,      \* the one pending rebuild with the facts of its generation
    worker,     \* per worker: where its ReconcileNext is, its request key
    expiries

broker == <<receipts, dlq, acked, receiver>>
rebuild == <<snapshot, build, worker, expiries>>
vars == <<owner, beats, grant, pipeline, view, broker, rebuild>>

Replica == INSTANCE LifecycleReplica
    WITH view <- IF pipeline.generation = None THEN None ELSE view

Grants == {"lifecycle", "heartbeat", "reader"}
NoFacts == [t \in Tenants |-> NoFact]
NoBuild == [id |-> None, state |-> "none", base |-> None, applied |-> 0,
            loaded |-> {}, facts |-> NoFacts, authority |-> <<0, 0>>]
NoCut == [epoch |-> 1, watermark |-> 0, state |-> "none", expired |-> FALSE]
AtRest == [step |-> "idle", id |-> None, token |-> {}, key |-> None]
NoHeartbeat == [epoch |-> 0, committed |-> 0, at |-> 0]
Waiting == [step |-> "idle", message |-> None, reason |-> "none"]

Init ==
    /\ OwnerInit
    /\ beats = {}
    /\ grant = [g \in Grants |-> [version |-> 1, active |-> TRUE]]
    /\ pipeline = [generation |-> None, epoch |-> 0, applied |-> 0, highest |-> 0,
                   required |-> TRUE, heartbeat |-> NoHeartbeat, receivedAt |-> 0]
    /\ view = NoFacts
    /\ receipts = {} /\ dlq = {} /\ acked = {}
    /\ receiver = [r \in Receivers |-> Waiting]
    /\ snapshot = [i \in Snapshots |-> NoCut]
    /\ build = NoBuild
    /\ worker = [w \in Workers |-> AtRest]
    /\ expiries = 0

-----------------------------------------------------------------------------
(* Messages.  A heartbeat's number is the committed watermark it reports.  *)

Event(e, s) == [kind |-> "lifecycle", epoch |-> e, number |-> s, at |-> event[e][s].at]
Heartbeat(at) == [kind |-> "heartbeat", epoch |-> epoch, number |-> length[epoch], at |-> at]

Published == beats \cup {Event(p[1], p[2]) : p \in Committed}

TenantOf(m) == event[m.epoch][m.number].tenant
FactOf(m) == history[m.epoch][m.number][TenantOf(m)]

EmitHeartbeat ==
    /\ Cardinality(beats) < MaxBeats
    /\ beats' = beats \cup {Heartbeat(now)}
    /\ beats' # beats
    /\ UNCHANGED <<owner, grant, pipeline, view, broker, rebuild>>

\* A manifest, or a change of the Workload behind a grant, gives it a new version.
ChangeAuthority(g, active) ==
    /\ grant["lifecycle"].version + grant["heartbeat"].version + grant["reader"].version
          < MaxAuthority + 3
    /\ grant' = [grant EXCEPT ![g] = [version |-> @.version + 1, active |-> active]]
    /\ UNCHANGED <<owner, beats, pipeline, view, broker, rebuild>>

-----------------------------------------------------------------------------
(* The projection.                                                         *)

lifecycleTransition(from, to, initial) ==
    IF initial THEN to = "active"
    ELSE \/ from = "active" /\ to \in {"frozen", "disabled"}
         \/ from = "frozen" /\ to \in {"active", "disabled"}

\* Mutant: an event after a hole is applied.
OutcomeOverHole(p, previous, m) ==
    IF p.epoch # m.epoch THEN "epoch_requires_snapshot"
    ELSE IF p.required THEN "awaiting_snapshot"
    ELSE IF m.number <= p.applied THEN "covered"
    ELSE IF FactOf(m).version # previous.version + 1 THEN "tenant_version_gap"
    ELSE "applied"

ProjectionOutcome(p, previous, m) ==
    IF p.epoch # m.epoch THEN "epoch_requires_snapshot"
    ELSE IF p.required THEN "awaiting_snapshot"
    ELSE IF m.number <= p.applied THEN "covered"
    ELSE IF m.number # p.applied + 1 THEN "sequence_gap"
    ELSE IF FactOf(m).version <= previous.version THEN "conflict"
    ELSE IF FactOf(m).version # previous.version + 1 THEN "tenant_version_gap"
    ELSE IF ~lifecycleTransition(previous.status, FactOf(m).status, previous.version = 0)
         THEN "conflict"
    ELSE "applied"

AtLeast(n, bound) == IF n < bound THEN bound ELSE n

ProjectTenantLifecycle(p, m, outcome) ==
    [p EXCEPT
        !.highest = IF p.epoch = m.epoch THEN AtLeast(@, m.number) ELSE @,
        !.applied = IF outcome = "applied" THEN m.number ELSE @,
        !.required = @ \/ outcome \in {"epoch_requires_snapshot", "sequence_gap",
                                       "tenant_version_gap"}]

HeartbeatOutcome(p, m) ==
    IF p.epoch # m.epoch THEN "epoch_requires_snapshot"
    ELSE IF p.heartbeat # NoHeartbeat /\ m.at <= p.heartbeat.at THEN "older_heartbeat"
    ELSE IF m.number < p.heartbeat.committed THEN "conflict"
    ELSE "observed"

ObserveTenantHeartbeat(p, m, outcome) ==
    IF outcome = "observed"
    THEN [p EXCEPT !.heartbeat = [epoch |-> m.epoch, committed |-> m.number, at |-> m.at],
                   !.receivedAt = now,
                   !.highest = AtLeast(@, m.number)]
    ELSE [p EXCEPT !.required = @ \/ outcome = "epoch_requires_snapshot"]

\* What readers are told about the facts they get.
Fresh ==
    /\ ~pipeline.required
    /\ pipeline.applied = pipeline.highest
    /\ pipeline.applied >= pipeline.heartbeat.committed
    /\ pipeline.heartbeat.epoch = pipeline.epoch
    /\ now < pipeline.heartbeat.at + StaleAfter
    /\ now < pipeline.receivedAt + StaleAfter

Retained(m) == \E r \in receipts : r.message = m

Outcome(m) ==
    IF m.kind = "lifecycle"
    THEN ProjectionOutcome(pipeline, view[TenantOf(m)], m)
    ELSE HeartbeatOutcome(pipeline, m)

\* A retained message changes nothing more.
applyTenantIntegration(m) ==
    IF Retained(m)
    THEN UNCHANGED <<pipeline, view, receipts>>
    ELSE /\ receipts' = receipts \cup {[message |-> m, version |-> grant[m.kind].version]}
         /\ IF m.kind = "lifecycle"
            THEN /\ pipeline' = ProjectTenantLifecycle(pipeline, m, Outcome(m))
                 /\ view' = IF Outcome(m) = "applied"
                            THEN [view EXCEPT ![TenantOf(m)] = FactOf(m)] ELSE view
            ELSE /\ pipeline' = ObserveTenantHeartbeat(pipeline, m, Outcome(m))
                 /\ view' = view

\* The grant of the message's route must be active, and still the one under
\* which the message was first retained.
Authorized(m) ==
    /\ grant[m.kind].active
    /\ \A r \in receipts : r.message = m => r.version = grant[m.kind].version

Refusal(m) ==
    IF ~Authorized(m) THEN "authority_denied"
    ELSE IF ~Retained(m) /\ Outcome(m) = "conflict" THEN "event_conflict"
    ELSE "none"

-----------------------------------------------------------------------------
(* CoreBrokerReceiver.ReceiveNext                                          *)

Quarantined(m) == \E d \in dlq : d.message = m

Deliverable(r, m) == receiver[r].step = "idle" /\ m \in Published \ acked

Await(r, step, m, reason) ==
    receiver' = [receiver EXCEPT ![r] = [step |-> step, message |-> m, reason |-> reason]]

Receive(r, m) ==
    /\ Deliverable(r, m)
    /\ ~Quarantined(m) /\ Refusal(m) = "none"
    /\ applyTenantIntegration(m)
    /\ Await(r, "ack", m, "none")
    /\ UNCHANGED <<owner, beats, grant, dlq, acked, rebuild>>

ReceiveQuarantined(r, m) ==
    /\ Deliverable(r, m)
    /\ Quarantined(m)
    /\ Await(r, "ack", m, "none")
    /\ UNCHANGED <<owner, beats, grant, pipeline, view, receipts, dlq, acked, rebuild>>

ReceiveRefused(r, m) ==
    /\ Deliverable(r, m)
    /\ ~Quarantined(m) /\ Refusal(m) # "none"
    /\ Await(r, "quarantine", m, Refusal(m))
    /\ UNCHANGED <<owner, beats, grant, pipeline, view, receipts, dlq, acked, rebuild>>

\* Mutant: a refused message is only acknowledged.
DropRefused(r) ==
    /\ receiver[r].step = "quarantine"
    /\ Await(r, "ack", receiver[r].message, "none")
    /\ UNCHANGED <<owner, beats, grant, pipeline, view, receipts, dlq, acked, rebuild>>

\* The first quarantine of a message is kept.
Quarantine(r) ==
    LET m == receiver[r].message
    IN  /\ receiver[r].step = "quarantine"
        /\ dlq' = IF Quarantined(m) THEN dlq
                  ELSE dlq \cup {[message |-> m, reason |-> receiver[r].reason]}
        /\ Await(r, "ack", m, "none")
        /\ UNCHANGED <<owner, beats, grant, pipeline, view, receipts, acked, rebuild>>

Ack(r) ==
    /\ receiver[r].step = "ack"
    /\ acked' = acked \cup {receiver[r].message}
    /\ receiver' = [receiver EXCEPT ![r] = Waiting]
    /\ UNCHANGED <<owner, beats, grant, pipeline, view, receipts, dlq, rebuild>>

\* A failed write or acknowledgement, or a stopped process: redelivery follows.
LoseDelivery(r) ==
    /\ receiver[r].step # "idle"
    /\ receiver' = [receiver EXCEPT ![r] = Waiting]
    /\ UNCHANGED <<owner, beats, grant, pipeline, view, receipts, dlq, acked, rebuild>>

\* A platform administrator replays a quarantined message; its entry stays.
ReplayDLQ(m) ==
    /\ Quarantined(m) /\ Refusal(m) = "none" /\ ~Retained(m)
    /\ applyTenantIntegration(m)
    /\ UNCHANGED <<owner, beats, grant, dlq, acked, receiver, rebuild>>

-----------------------------------------------------------------------------
(* TenantSnapshotCoordinator.ReconcileNext                                 *)

\* governanceSnapshotRepository.current: both grants, and their fingerprint.
Current == grant["lifecycle"].active /\ grant["reader"].active
Fingerprint == <<grant["lifecycle"].version, grant["reader"].version>>

Pending == build.id # None
Cut == snapshot[build.id]

\* Mutant: the grants under which the build began are not compared.
UnavailableByAge == build.base # pipeline.generation \/ Cut.expired

Unavailable ==
    \/ build.base # pipeline.generation
    \/ build.authority # Fingerprint
    \/ Cut.expired

Needed == pipeline.generation = None \/ pipeline.required \/ pipeline.highest > pipeline.applied

\* Leaves the build at once, abandoned.
Abandon ==
    /\ snapshot' = [snapshot EXCEPT ![build.id].state = "abandoned"]
    /\ build' = NoBuild

Go(w, step, id, token, key) ==
    worker' = [worker EXCEPT ![w] = [step |-> step, id |-> id, token |-> token, key |-> key]]
Return(w, key) == worker' = [worker EXCEPT ![w] = [AtRest EXCEPT !.key = key]]

ResumeBuild(w) ==
    /\ worker[w].step = "idle" /\ Current
    /\ Pending /\ ~Unavailable
    /\ IF build.state = "loading"
       THEN Go(w, "page", build.id, build.loaded, None)
       ELSE Go(w, "catch_up", build.id, {}, None)
    /\ UNCHANGED <<owner, beats, grant, pipeline, view, broker, snapshot, build, expiries>>

\* No build to resume, if need be after abandoning the one there is.
StartRecovery(w) ==
    /\ worker[w].step = "idle" /\ Current
    /\ Pending => Unavailable
    /\ Pending \/ Needed
    /\ IF Pending THEN Abandon ELSE UNCHANGED <<snapshot, build>>
    /\ IF Needed THEN Go(w, "begin", None, {}, worker[w].key) ELSE UNCHANGED worker
    /\ UNCHANGED <<owner, beats, grant, pipeline, view, broker, expiries>>

Unused(i) ==
    /\ i \notin {pipeline.generation, build.id, build.base}
    /\ \A w \in Workers : i \notin {worker[w].id, worker[w].key}

\* Governance takes a Snapshot for a new request key ...
BeginSnapshot(w, i) ==
    /\ worker[w].step = "begin" /\ worker[w].key = None
    /\ Unused(i)
    /\ snapshot' = [snapshot EXCEPT ![i] = [NoCut EXCEPT !.epoch = epoch,
                                                         !.watermark = length[epoch]]]
    /\ Go(w, "persist", i, {}, i)
    /\ UNCHANGED <<owner, beats, grant, pipeline, view, broker, build, expiries>>

\* Mutant: a key whose Snapshot expired is kept.
KeepExpiredKey(w) ==
    LET key == worker[w].key
    IN  /\ worker[w].step = "begin" /\ key # None
        /\ IF snapshot[key].expired THEN Return(w, key) ELSE Go(w, "persist", key, {}, key)
        /\ UNCHANGED <<owner, beats, grant, pipeline, view, broker, snapshot, build, expiries>>

\* ... and answers a key it knows with the Snapshot it took for it,
BeginKnown(w) ==
    LET key == worker[w].key
    IN  /\ worker[w].step = "begin" /\ key # None
        /\ IF snapshot[key].expired THEN Return(w, None) ELSE Go(w, "persist", key, {}, key)
        /\ UNCHANGED <<owner, beats, grant, pipeline, view, broker, snapshot, build, expiries>>

\* Begin of the repository.  A commit whose outcome the worker does not learn
\* leaves it the request key.
SaveBuild(w) ==
    LET i == worker[w].id
        cut == snapshot[i]
    IN  /\ worker[w].step = "persist" /\ Current
        /\ ~cut.expired /\ cut.state = "none"
        /\ ~(pipeline.epoch = cut.epoch /\ cut.watermark < pipeline.applied)
        /\ ~Pending
        /\ snapshot' = [snapshot EXCEPT ![i].state = "saved"]
        /\ build' = [id |-> i, state |-> "loading", base |-> pipeline.generation,
                     applied |-> cut.watermark, loaded |-> {}, facts |-> NoFacts,
                     authority |-> Fingerprint]
        /\ \E key \in {None, i} : Return(w, key)
        /\ UNCHANGED <<owner, beats, grant, pipeline, view, broker, expiries>>

\* Begin with a Snapshot that is saved already.
SavedBefore(w) ==
    LET i == worker[w].id
    IN  /\ worker[w].step = "persist" /\ Current
        /\ ~snapshot[i].expired
        /\ snapshot[i].state = "activated" \/ (build.id = i /\ build.authority = Fingerprint)
        /\ Return(w, None)
        /\ UNCHANGED <<owner, beats, grant, pipeline, view, broker, snapshot, build, expiries>>

\* withBuild of the step w is at: the build is there and may go on.
Building(w, step) ==
    /\ worker[w].step = step /\ Current
    /\ Pending /\ build.id = worker[w].id
    /\ ~Unavailable

AbandonBuild(w) ==
    /\ worker[w].step \in {"page", "catch_up", "activate"} /\ Current
    /\ Pending /\ build.id = worker[w].id
    /\ Unavailable
    /\ Abandon
    /\ Return(w, worker[w].key)
    /\ UNCHANGED <<owner, beats, grant, pipeline, view, broker, expiries>>

\* A page may hold any of the Tenants that remain; the last one none, if the
\* Snapshot is empty.
LoadPage(w) ==
    LET source == history[Cut.epoch][Cut.watermark]
        listed == {t \in Tenants : source[t] # NoFact}
        next(page) == build.loaded \cup page
    IN  /\ Building(w, "page")
        /\ build.state = "loading" /\ worker[w].token = build.loaded
        /\ \E page \in SUBSET (listed \ build.loaded) :
              /\ page # {} \/ listed = {}
              /\ build' = [build EXCEPT
                    !.loaded = next(page),
                    !.facts = [t \in Tenants |-> IF t \in page THEN source[t] ELSE @[t]],
                    !.state = IF next(page) = listed THEN "loaded" ELSE "loading"]
        /\ Return(w, worker[w].key)
        /\ UNCHANGED <<owner, beats, grant, pipeline, view, broker, snapshot, expiries>>

\* The retained events after the build's position, at most Batch of them.
Increments ==
    LET after == {r \in receipts : /\ r.message.kind = "lifecycle"
                                   /\ r.message.epoch = Cut.epoch
                                   /\ r.message.number > build.applied}
    IN  {r \in after :
            Cardinality({x \in after : x.message.number <= r.message.number}) <= Batch}

\* The facts of the build after n of its increments: of those about a Tenant the
\* last one stays.
Replayed(n) ==
    [t \in Tenants |->
        LET about == {k \in 1..n : TenantOf(Event(Cut.epoch, build.applied + k)) = t}
            last == {k \in about : \A j \in about : j <= k}
        IN  IF last = {} THEN build.facts[t]
            ELSE FactOf(Event(Cut.epoch, build.applied + CHOOSE k \in last : TRUE))]

\* Increment n fits: received under the current grant, next in sequence, and
\* applied by the projection.
Fits(n) ==
    \E r \in Increments :
        LET m == r.message
            at == [pipeline EXCEPT !.epoch = Cut.epoch, !.applied = build.applied + n - 1,
                                   !.required = FALSE]
        IN  /\ m.number = build.applied + n
            /\ r.version = grant["lifecycle"].version
            /\ ProjectionOutcome(at, Replayed(n - 1)[TenantOf(m)], m) = "applied"

CatchUp(w) ==
    LET n == Cardinality(Increments)
    IN  /\ Building(w, "catch_up")
        /\ build.state \in {"loaded", "catching_up"}
        /\ IF \A k \in 1..n : Fits(k)
           THEN /\ build' = [build EXCEPT !.state = "catching_up", !.applied = @ + n,
                                          !.facts = Replayed(n)]
                /\ worker' = [worker EXCEPT ![w].step = "activate"]
                /\ UNCHANGED snapshot
           ELSE Abandon /\ Return(w, worker[w].key)
        /\ UNCHANGED <<owner, beats, grant, pipeline, view, broker, expiries>>

AnyFacts == TRUE

\* No receipt of the epoch is ahead of the build.
TenantSnapshotHighest ==
    \A r \in receipts : r.message.epoch = Cut.epoch => r.message.number <= build.applied

TenantSnapshotCoversCurrent ==
    \A t \in Tenants : view[t] # NoFact =>
        /\ build.facts[t] # NoFact
        /\ build.facts[t].version >= view[t].version
        /\ build.facts[t].version = view[t].version => build.facts[t].status = view[t].status
        /\ view[t].status = "disabled" => build.facts[t].status = "disabled"

\* Mutant: the position is off by one.
ActivateNextPosition ==
    [pipeline EXCEPT !.generation = build.id, !.epoch = Cut.epoch, !.applied = build.applied + 1,
                     !.highest = build.applied + 1, !.required = FALSE,
                     !.heartbeat = NoHeartbeat, !.receivedAt = 0]

ActivateTenantSnapshot ==
    [pipeline EXCEPT !.generation = build.id, !.epoch = Cut.epoch, !.applied = build.applied,
                     !.highest = build.applied, !.required = FALSE,
                     !.heartbeat = NoHeartbeat, !.receivedAt = 0]

Activate(w) ==
    /\ Building(w, "activate")
    /\ build.state \in {"loaded", "catching_up"}
    /\ TenantSnapshotHighest
    /\ pipeline.epoch = Cut.epoch => build.applied >= pipeline.applied
    /\ IF TenantSnapshotCoversCurrent
       THEN /\ pipeline' = ActivateTenantSnapshot
            /\ view' = build.facts
            /\ snapshot' = [snapshot EXCEPT ![build.id].state = "activated"]
            /\ build' = NoBuild
       ELSE Abandon /\ UNCHANGED <<pipeline, view>>
    /\ Return(w, worker[w].key)
    /\ UNCHANGED <<owner, beats, grant, broker, expiries>>

\* Any other end of a ReconcileNext: an error, a timeout, a step not ready or
\* overtaken by another worker.
GiveUp(w) ==
    /\ worker[w].step # "idle"
    /\ Return(w, worker[w].key)
    /\ UNCHANGED <<owner, beats, grant, pipeline, view, broker, snapshot, build, expiries>>

Crash(w) ==
    /\ worker[w] # AtRest
    /\ worker' = [worker EXCEPT ![w] = AtRest]
    /\ UNCHANGED <<owner, beats, grant, pipeline, view, broker, snapshot, build, expiries>>

\* Cursors live five minutes, at Governance and here.
Expire(i) ==
    /\ ~snapshot[i].expired
    /\ snapshot' = [snapshot EXCEPT ![i].expired = TRUE]
    /\ UNCHANGED <<owner, beats, grant, pipeline, view, broker, build, worker>>

ExpireBuild ==
    /\ Pending
    /\ expiries < MaxExpiries /\ expiries' = expiries + 1
    /\ Expire(build.id)

ExpireRequest(w) ==
    /\ worker[w].key \notin {None, build.id}
    /\ Expire(worker[w].key)
    /\ UNCHANGED expiries

-----------------------------------------------------------------------------
ReceiverNext(r) ==
    \/ \E m \in Published : Receive(r, m) \/ ReceiveQuarantined(r, m) \/ ReceiveRefused(r, m)
    \/ Quarantine(r) \/ Ack(r) \/ LoseDelivery(r)

WorkerNext(w) ==
    \/ ResumeBuild(w) \/ StartRecovery(w)
    \/ \E i \in Snapshots : BeginSnapshot(w, i)
    \/ BeginKnown(w) \/ SaveBuild(w) \/ SavedBefore(w)
    \/ LoadPage(w) \/ CatchUp(w) \/ Activate(w) \/ AbandonBuild(w)
    \/ GiveUp(w) \/ Crash(w) \/ ExpireRequest(w)

Next ==
    \/ OwnerNext /\ UNCHANGED <<beats, grant, pipeline, view, broker, rebuild>>
    \/ EmitHeartbeat
    \/ \E g \in Grants, active \in BOOLEAN : ChangeAuthority(g, active)
    \/ \E r \in Receivers : ReceiverNext(r)
    \/ \E m \in Published : ReplayDLQ(m)
    \/ \E w \in Workers : WorkerNext(w)
    \/ ExpireBuild

Spec == Init /\ [][Next]_vars

\* Processes keep calling ReceiveNext and ReconcileNext, calls end within their
\* timeout, and what can succeed again and again does so in the end.  Nothing
\* is assumed of Governance, administrators, or the cursor of a durable build.
Unreceived(r) == \E m \in Published : ~Retained(m) /\ Receive(r, m)

Fairness ==
    /\ \A r \in Receivers :
          SF_vars(Unreceived(r)) /\ WF_vars(Quarantine(r) \/ Ack(r) \/ LoseDelivery(r))
    /\ \A w \in Workers :
          /\ WF_vars(ResumeBuild(w) \/ StartRecovery(w))
          /\ SF_vars(\E i \in Snapshots : BeginSnapshot(w, i))
          /\ SF_vars(BeginKnown(w))
          /\ SF_vars(SaveBuild(w)) /\ SF_vars(LoadPage(w))
          /\ SF_vars(CatchUp(w)) /\ SF_vars(Activate(w))
          /\ WF_vars(GiveUp(w)) /\ WF_vars(ExpireRequest(w))

FairSpec == Spec /\ Fairness

-----------------------------------------------------------------------------
Message ==
    [kind: {"lifecycle", "heartbeat"}, epoch: Epochs, number: 0..MaxSequence, at: 0..MaxNow]
Facts == [Tenants -> Fact]
SnapshotId == Snapshots \cup {None}

GrantRow == [version: Nat, active: BOOLEAN]
HeartbeatRow == [epoch: 0..MaxEpoch, committed: 0..MaxSequence, at: 0..MaxNow]
PipelineRow == [generation: SnapshotId, epoch: 0..MaxEpoch, applied: 0..MaxSequence,
                highest: 0..MaxSequence, required: BOOLEAN, receivedAt: 0..MaxNow,
                heartbeat: HeartbeatRow]
ReceiptRow == [message: Message, version: Nat]
DLQRow == [message: Message, reason: {"authority_denied", "event_conflict"}]
ReceiverState == [step: {"idle", "quarantine", "ack"}, message: Message \cup {None},
                  reason: {"none", "authority_denied", "event_conflict"}]
CutRow == [epoch: Epochs, watermark: 0..MaxSequence, expired: BOOLEAN,
           state: {"none", "saved", "activated", "abandoned"}]
BuildRow == [id: SnapshotId, state: {"none", "loading", "loaded", "catching_up"},
             base: SnapshotId, applied: 0..MaxSequence, loaded: SUBSET Tenants,
             facts: Facts, authority: Nat \X Nat]
WorkerState == [step: {"idle", "begin", "persist", "page", "catch_up", "activate"},
                id: SnapshotId, token: SUBSET Tenants, key: SnapshotId]

\* Every variable keeps the type of the row, message or call it stands for.
TypeOK ==
    /\ OwnerTypeOK
    /\ beats \subseteq Message
    /\ grant \in [Grants -> GrantRow]
    /\ pipeline \in PipelineRow
    /\ view \in Facts
    /\ receipts \subseteq ReceiptRow
    /\ dlq \subseteq DLQRow
    /\ acked \subseteq Message
    /\ receiver \in [Receivers -> ReceiverState]
    /\ snapshot \in [Snapshots -> CutRow]
    /\ build \in BuildRow
    /\ worker \in [Workers -> WorkerState]
    /\ expiries \in Nat

\* The facts readers get are those of all Tenants at the pipeline's position in
\* the owner's log, whatever was lost, repeated, reordered or rebuilt on the way
\* there; and a build whose pages are loaded, or being loaded, is at its own.
ProjectionMatchesOwner ==
    /\ pipeline.generation # None => view = history[pipeline.epoch][pipeline.applied]
    /\ Pending => \A t \in Tenants :
          build.facts[t] = IF build.state # "loading" \/ t \in build.loaded
                           THEN history[Cut.epoch][build.applied][t] ELSE NoFact

\* Readers see one point of the log at a time and no Tenant goes back, also
\* when Governance was restored to an older state (LifecycleReplica).
ReplicaImplemented == Replica!Spec

\* Facts that readers are told are fresh reflect every event that Governance
\* committed StaleAfter ago or earlier, however late heartbeats arrive.
FreshFactsAreRecent ==
    Fresh => \A e \in Epochs : \A s \in 1..length[e] :
        event[e][s].at + StaleAfter <= now =>
            e < pipeline.epoch \/ (e = pipeline.epoch /\ s <= pipeline.applied)

\* A Governance that keeps its log never has an event or a heartbeat set aside
\* as conflicting: repetition, reordering, a new epoch and a rebuild in between
\* never look like one.
NoFalseConflict == \A d \in dlq : d.reason = "authority_denied"

\* The broker forgets a message only when IAM keeps it, as received or as
\* quarantined.
AckedIsDurable == \A m \in acked : Retained(m) \/ Quarantined(m)

\* A generation that is activated rests on increments that were all received
\* under the grant that is current at that moment.
ActivationUnderAuthority ==
    [][pipeline'.generation # pipeline.generation =>
          \A s \in (Cut.watermark + 1)..build.applied :
              [message |-> Event(Cut.epoch, s), version |-> grant["lifecycle"].version] \in receipts
      ]_vars

\* What no worker can repair is not hidden: as long as a retained event of the
\* current epoch is ahead of the facts, a rebuild is due.
GapIsNoticed ==
    \A r \in receipts :
        /\ r.message.kind = "lifecycle" /\ pipeline.epoch = r.message.epoch
        /\ pipeline.applied < r.message.number
        => Needed

\* A retained message of a later epoch keeps a rebuild due until the facts are of
\* that epoch: "A snapshot is mandatory when first discovering or changing an
\* epoch" (ProjectTenantLifecycle).
NewEpochRequiresSnapshot ==
    \A r \in receipts : r.message.epoch > pipeline.epoch => Needed

\* Once Governance is quiet, readers get its last facts.
EventuallyCaughtUp ==
    <>[](pipeline.generation # None /\ view = history[epoch][length[epoch]])

\* What readers get is the owner's: at the pipeline's position, recent when it is
\* called fresh; no valid message is set aside and no hole forgotten
\* (ProjectTenantLifecycle, ObserveTenantHeartbeat, the Snapshot rebuild).
ProjectionIsFaithful ==
    ProjectionMatchesOwner /\ FreshFactsAreRecent /\ NoFalseConflict /\ GapIsNoticed
=============================================================================
