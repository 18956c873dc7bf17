---------------------------- MODULE CoreProjection ----------------------------
(***************************************************************************)
(* The shadow projection of Core's tenant lifecycle and its rebuild from   *)
(* an owner Snapshot: biz/core_lifecycle_projection.go and                 *)
(* biz/core_snapshot_rebuild.go with their repositories.                   *)
(*                                                                         *)
(* Core writes numbered messages; the durable consumer may deliver them in *)
(* any order and again.  Every receipt is applied to the CURRENT           *)
(* generation of rows.  A version gap freezes a row until a rebuild loads  *)
(* a consistent cut page by page into a generation of its own, replays the *)
(* receipts after the cut and switches the pipeline over to it.  The       *)
(* coordinator runs one database transaction or one owner call per step;   *)
(* deliveries, authority changes and crashes happen between them.          *)
(***************************************************************************)
EXTENDS Integers, Sequences, SequencesExt

CONSTANTS
  Tenants,      \* 1..n: the order of the snapshot's pages
  Snapshots,    \* owner snapshots; a rebuild's generation has its name
  MaxSequence,  \* bound on the owner's messages
  MaxAuthority, \* bound on changes of the broker authority
  PageSize,     \* tenants on one snapshot page
  BatchLimit,   \* receipts replayed by one CatchUp (500 in the query)
  NoName

VARIABLES
  log,        \* Core: the messages, by source sequence
  cursor,     \* Core: the cut and expiry of every snapshot taken
  routeAuthority, \* version and status of the broker Grants of the route
  receipts,   \* core_integration_receipts: sequence -> outcome
  evidence,   \* broker authority receipts: sequence -> authority version
  pipeline,   \* core_lifecycle_pipelines
  rows,       \* core_lifecycle_projection_rows, by generation and tenant
  rebuilds,   \* core_lifecycle_rebuilds
  begun,      \* rebuilds in the order of created_at
  aged,       \* the newest rebuild is more than an hour old
  worker      \* the coordinator's request key and step

owner == <<log, cursor>>
store == <<pipeline, rows, rebuilds, begun, aged>>
projectionVars == <<owner, routeAuthority, receipts, evidence, store, worker>>

Generations == Snapshots \cup {NoName}   \* NoName: InitializeShadow's generation

NoFact == [version |-> 0, required |-> 0, status |-> "none",
          repair |-> FALSE, base |-> FALSE]
NoRows == [t \in Tenants |-> NoFact]
NoRebuild == [state |-> "none", base |-> NoName, cut |-> 0, applied |-> 0,
              token |-> 0, authority |-> 0]
NoCursor == [cut |-> 0, state |-> "none"]
NewCoreSnapshotCoordinator == [step |-> "idle", id |-> NoName, key |-> NoName, page |-> {}]

InitializeCoreProjectionGeneration == [g \in Generations |-> NoRows]
InitializeCoreProjectionPipeline == [generation |-> NoName, contiguous |-> 0, highest |-> 0]

InitializeShadow ==
  /\ pipeline = InitializeCoreProjectionPipeline
  /\ rows = InitializeCoreProjectionGeneration

ProjectionInit ==
  /\ log = <<>>
  /\ cursor = [s \in Snapshots |-> NoCursor]
  /\ routeAuthority = [version |-> 1, active |-> TRUE]
  /\ receipts = <<>>
  /\ evidence = <<>>
  /\ InitializeShadow
  /\ rebuilds = [s \in Snapshots |-> NoRebuild]
  /\ begun = <<>>
  /\ aged = FALSE
  /\ worker = NewCoreSnapshotCoordinator

Max2(a, b) == IF a < b THEN b ELSE a

(***************************************************************************)
(* Core, the owner (external): one lifecycle version per change, a closed  *)
(* tenant never changes again.                                             *)
(***************************************************************************)
Facts(t, through) == {i \in 1..through : log[i].tenant = t}
VersionAt(t, through) == IF Facts(t, through) = {} THEN 0
                         ELSE log[Max(Facts(t, through))].version
StatusAt(t, through) == IF Facts(t, through) = {} THEN "none"
                        ELSE log[Max(Facts(t, through))].status

Publish(m) ==
  /\ Len(log) < MaxSequence
  /\ log' = Append(log, m)
  /\ UNCHANGED <<cursor, routeAuthority, receipts, evidence, store, worker>>

CoreChanges(t, status) ==
  /\ \/ StatusAt(t, Len(log)) = "none" /\ status = "active"
     \/ StatusAt(t, Len(log)) = "active" /\ status \in {"frozen", "disabled"}
     \/ StatusAt(t, Len(log)) = "frozen" /\ status \in {"active", "disabled"}
  /\ Publish([kind |-> "lifecycle", tenant |-> t, status |-> status,
              version |-> VersionAt(t, Len(log)) + 1])

CoreHeartbeat ==
  Publish([kind |-> "heartbeat", tenant |-> NoName, status |-> "none", version |-> 0])

(***************************************************************************)
(* The projection of one message on one row.                               *)
(***************************************************************************)
Validate(m) ==
  \/ m.kind = "lifecycle" /\ m.version >= 1
  \/ m.kind = "heartbeat" /\ m.tenant = NoName /\ m.version = 0

CoreTenantProjection(m) ==
  [version |-> m.version, required |-> m.version, status |-> m.status,
   repair |-> FALSE, base |-> FALSE]

LifecycleOutcome(row, m) ==
  CASE row.repair -> "awaiting_snapshot"
    [] m.version < row.version -> "older"
    [] m.version = row.version /\ m.status # row.status -> "conflict"
    [] m.version = row.version -> IF row.base THEN "applied" ELSE "same_version"
    [] m.version # row.version + 1 -> "version_gap"
    [] row.status = "disabled" \/ (row.version = 0 /\ m.status # "active") -> "conflict"
    [] OTHER -> "applied"

ProjectCoreLifecycle(row, m) ==
  CASE LifecycleOutcome(row, m) = "applied" -> CoreTenantProjection(m)
    [] LifecycleOutcome(row, m) = "version_gap" ->
         [row EXCEPT !.repair = TRUE, !.required = m.version]
    [] LifecycleOutcome(row, m) = "awaiting_snapshot" ->
         [row EXCEPT !.required = Max2(row.required, m.version)]
    [] OTHER -> row

\* A message at or before the cut adds nothing to a snapshot generation.
SnapshotCovers(row, m) ==
  /\ row.version # 0
  /\ m.version <= row.version
  /\ m.version = row.version => m.status = row.status

ReadCoreSnapshotCut(g) == IF g = NoName THEN 0 ELSE rebuilds[g].cut

GetCoreProjectionRow(table, m) == table[m.tenant]

MessageOutcome(table, i, cut) ==
  CASE log[i].kind # "lifecycle" -> log[i].kind
    [] i > cut -> LifecycleOutcome(GetCoreProjectionRow(table, log[i]), log[i])
    [] SnapshotCovers(GetCoreProjectionRow(table, log[i]), log[i]) -> "snapshot_covered"
    [] OTHER -> "conflict"

SaveCoreProjectionRow(table, m) ==
  [table EXCEPT ![m.tenant] = ProjectCoreLifecycle(table[m.tenant], m)]

projectCoreMessage(table, i, cut) ==
  IF MessageOutcome(table, i, cut) \in {"applied", "version_gap", "awaiting_snapshot"}
  THEN SaveCoreProjectionRow(table, log[i]) ELSE table

(***************************************************************************)
(* applyCoreProjection: one transaction per delivery.  Receipts are        *)
(* immutable, so an exact redelivery changes nothing.                      *)
(***************************************************************************)
GetCoreIntegrationReceipt(i) == i \in DOMAIN receipts

AppendCoreIntegrationReceipt(i, outcome) ==
  receipts' = [j \in DOMAIN receipts \cup {i} |->
                 IF j = i THEN outcome ELSE receipts[j]]

\* The last sequence of the run of receipts that starts after p.contiguous.
AdvanceCoreProjectionPipeline(p, received, i) ==
  [p EXCEPT !.highest = Max2(@, i),
            !.contiguous = Max({n \in p.contiguous..Max2(p.highest, i) :
                                  \A k \in p.contiguous + 1 .. n : k \in received})]

applyCoreProjection(i) ==
  LET g == pipeline.generation
      cut == ReadCoreSnapshotCut(g)
      outcome == MessageOutcome(rows[g], i, cut)
  IN /\ Validate(log[i])
     /\ ~GetCoreIntegrationReceipt(i)
     /\ outcome # "conflict"
     /\ rows' = [rows EXCEPT ![g] = projectCoreMessage(@, i, cut)]
     /\ AppendCoreIntegrationReceipt(i, outcome)
     /\ pipeline' = AdvanceCoreProjectionPipeline(pipeline, DOMAIN receipts \cup {i}, i)

Apply(i) ==
  /\ applyCoreProjection(i)
  /\ UNCHANGED <<owner, routeAuthority, evidence, rebuilds, begun, aged, worker>>

\* The broker's own receive transaction keeps the authority a delivery had.
AppendAuthorityReceipt(i) ==
  /\ routeAuthority.active
  /\ i \notin DOMAIN evidence
  /\ evidence' = [j \in DOMAIN evidence \cup {i} |->
                    IF j = i THEN routeAuthority.version ELSE evidence[j]]
  /\ UNCHANGED <<owner, routeAuthority, receipts, store, worker>>

RouteAuthorityChanges(active) ==
  /\ routeAuthority.active # active
  /\ routeAuthority.version < MaxAuthority
  /\ routeAuthority' = [version |-> routeAuthority.version + 1, active |-> active]
  /\ UNCHANGED <<owner, receipts, evidence, store, worker>>

(***************************************************************************)
(* The rebuild's transactions.                                             *)
(***************************************************************************)
Open == {"loading", "loaded", "catching_up"}

checkBroker == routeAuthority.active
authorityFingerprint == routeAuthority.version

sameSnapshotCursor(s) == rebuilds[s].cut = cursor[s].cut
LockCoreSnapshotRebuild(s) == rebuilds[s].state # "none"
ReadPendingCoreSnapshot == {s \in Snapshots : rebuilds[s].state \in Open}
CoreSnapshotCursorUnexpired(s) == cursor[s].state = "open"

Unavailable(s) ==
  \/ rebuilds[s].base # pipeline.generation
  \/ rebuilds[s].state = "loading" /\ cursor[s].state = "expired"
  \/ rebuilds[s].authority # authorityFingerprint

AbandonUnavailableCoreSnapshots ==
  [s \in Snapshots |-> IF rebuilds[s].state \in Open /\ Unavailable(s)
                       THEN [rebuilds[s] EXCEPT !.state = "abandoned"] ELSE rebuilds[s]]

AbandonCoreSnapshotAuthority(s) ==
  rebuilds' = [rebuilds EXCEPT ![s].state = "abandoned"]

CoreSnapshotRecoveryNeeded(table) ==
  \/ \E t \in Tenants : rows[pipeline.generation][t].repair
  \/ ~(begun # <<>> /\ ~aged /\ table[Last(begun)].state = "activated")

BeginCoreSnapshotRebuild(s) ==
  [state |-> "loading", base |-> pipeline.generation, cut |-> cursor[s].cut,
   applied |-> cursor[s].cut, token |-> 0, authority |-> authorityFingerprint]

BeginCoreSnapshotGeneration(s) == [rows EXCEPT ![s] = NoRows]

InsertCoreSnapshotFact(t, through) ==
  [version |-> VersionAt(t, through), required |-> VersionAt(t, through),
   status |-> StatusAt(t, through), repair |-> FALSE, base |-> TRUE]

AdvanceCoreSnapshotPage(s, next) ==
  [rebuilds EXCEPT ![s].token = next,
                   ![s].state = IF next = 0 THEN "loaded" ELSE "loading"]

AdvanceCoreSnapshotReplay(s, through) ==
  [rebuilds EXCEPT ![s].applied = through, ![s].state = "catching_up"]

\* Lifecycle receipts after what was replayed, the first BatchLimit of them.
ListCoreSnapshotIncrements(s, through) ==
  LET new == {i \in DOMAIN receipts : /\ log[i].kind = "lifecycle"
                                      /\ i > rebuilds[s].applied /\ i <= through}
      all == SetToSortSeq(new, <)
  IN SubSeq(all, 1, IF Len(all) < BatchLimit THEN Len(all) ELSE BatchLimit)

ReadCoreBrokerEventAuthority(i) == i \in DOMAIN evidence

\* Every row of the current generation has a successor that is not older.
CoreSnapshotCoversCurrent(old, new) ==
  /\ \A t \in Tenants : old[t] # NoFact =>
       /\ new[t] # NoFact
       /\ new[t].version >= old[t].required
       /\ ~new[t].repair
       /\ old[t].version = new[t].version => old[t].status = new[t].status
       /\ old[t].status = "disabled" => new[t].status = "disabled"
  /\ \A t \in Tenants : new[t] # NoFact => ~new[t].repair /\ new[t].version # 0

ActivateCoreSnapshotShadow(s) ==
  [pipeline EXCEPT !.generation = s, !.highest = Max2(@, rebuilds[s].cut)]

MarkCoreSnapshotActivated(s) == [rebuilds EXCEPT ![s].state = "activated"]

(***************************************************************************)
(* The coordinator: ReconcileNext performs one bounded round, here the     *)
(* scan and the calls that follow it as steps of their own.                *)
(***************************************************************************)
Goto(step, id, key, page) == worker' = [step |-> step, id |-> id, key |-> key, page |-> page]
Return(key) == Goto("idle", NoName, key, {})
owned == <<owner, routeAuthority, receipts, evidence>>

NextRecovery ==
  /\ worker.step = "idle" /\ checkBroker
  /\ rebuilds' = AbandonUnavailableCoreSnapshots
  /\ LET pending == {s \in Snapshots : rebuilds'[s].state \in Open}
     IN \/ \E s \in pending :
             Goto(IF rebuilds'[s].state = "loading" THEN "page" ELSE "catch_up", s, NoName, {})
        \/ /\ pending = {}
           /\ \/ CoreSnapshotRecoveryNeeded(rebuilds') /\ Goto("begin", NoName, worker.key, {})
              \/ ~CoreSnapshotRecoveryNeeded(rebuilds') /\ UNCHANGED worker
  /\ UNCHANGED <<owned, pipeline, rows, begun, aged>>

\* The owner's POST is idempotent by request key: the key names the snapshot.
SourceBegin(s) ==
  /\ worker.step = "begin"
  /\ IF worker.key = NoName THEN cursor[s].state = "none" ELSE s = worker.key
  /\ cursor[s].state # "expired"
  /\ cursor' = IF cursor[s].state = "open" THEN cursor
               ELSE [cursor EXCEPT ![s] = [cut |-> Len(log), state |-> "open"]]
  /\ \/ Goto("persist", s, s, {})
     \/ Return(s)                        \* the answer is lost, the key kept
  /\ UNCHANGED <<log, routeAuthority, receipts, evidence, store>>

SourceBeginExpired ==
  /\ worker.step = "begin"
  /\ worker.key # NoName /\ cursor[worker.key].state = "expired"
  /\ Return(NoName)
  /\ UNCHANGED <<owned, store>>

MayBegin(s) ==
  /\ ReadPendingCoreSnapshot = {}
  /\ CoreSnapshotCursorUnexpired(s)
  /\ cursor[s].cut >= ReadCoreSnapshotCut(pipeline.generation)

Begin ==
  LET s == worker.id
  IN /\ worker.step = "persist" /\ checkBroker
     /\ \/ /\ LockCoreSnapshotRebuild(s)
           /\ sameSnapshotCursor(s) /\ rebuilds[s].state # "abandoned"
           /\ UNCHANGED <<rows, rebuilds, begun, aged>>
        \/ /\ ~LockCoreSnapshotRebuild(s)
           /\ MayBegin(s)
           /\ rows' = BeginCoreSnapshotGeneration(s)
           /\ rebuilds' = [rebuilds EXCEPT ![s] = BeginCoreSnapshotRebuild(s)]
           /\ begun' = Append(begun, s)
           /\ aged' = FALSE
     /\ Return(NoName)
     /\ UNCHANGED <<owned, pipeline>>

\* withBuild: the rebuild must still be the one its base expects.
Usable(s) ==
  /\ rebuilds[s].state # "abandoned"
  /\ pipeline.generation \in {rebuilds[s].base, s}

withBuild(step) == worker.step = step /\ checkBroker /\ Usable(worker.id)

\* A changed authority abandons the rebuild and commits that.
AuthorityChanged ==
  LET s == worker.id
  IN /\ worker.step \in {"load", "catch_up", "activate"} /\ withBuild(worker.step)
     /\ rebuilds[s].state # "activated" /\ rebuilds[s].authority # authorityFingerprint
     /\ AbandonCoreSnapshotAuthority(s)
     /\ Return(NoName)
     /\ UNCHANGED <<owned, pipeline, rows, begun, aged>>

Fenced(s) == rebuilds[s].authority = authorityFingerprint

Items(s) == {t \in Tenants : VersionAt(t, cursor[s].cut) > 0}

SourcePage ==
  LET s == worker.id
      rest == SetToSortSeq({t \in Items(s) : t > rebuilds[s].token}, <)
      page == SubSeq(rest, 1, IF Len(rest) < PageSize THEN Len(rest) ELSE PageSize)
  IN /\ worker.step = "page" /\ CoreSnapshotCursorUnexpired(s)
     /\ Goto("load", s, NoName, Range(page))
     /\ UNCHANGED <<owned, store>>

LoadPage ==
  LET s == worker.id
      last == Max(worker.page \cup {rebuilds[s].token})
      more == \E t \in Items(s) : t > last
  IN /\ withBuild("load") /\ Fenced(s) /\ sameSnapshotCursor(s)
     /\ rebuilds[s].state = "loading" /\ CoreSnapshotCursorUnexpired(s)
     /\ \A t \in worker.page : t > rebuilds[s].token
     /\ rows' = [rows EXCEPT ![s] = [t \in Tenants |->
                   IF t \in worker.page THEN InsertCoreSnapshotFact(t, cursor[s].cut)
                   ELSE rows[s][t]]]
     /\ rebuilds' = AdvanceCoreSnapshotPage(s, IF more THEN last ELSE 0)
     /\ Return(NoName)
     /\ UNCHANGED <<owned, pipeline, begun, aged>>

\* One buffered receipt: fenced by the authority it was received under.
Replay(s, done, i) ==
  CASE done.state # "ok" -> done
    [] ~ReadCoreBrokerEventAuthority(i) -> [done EXCEPT !.state = "refused"]
    [] evidence[i] # authorityFingerprint -> [done EXCEPT !.state = "fenced"]
    [] MessageOutcome(done.rows, i, rebuilds[s].cut)
         \in {"conflict", "version_gap", "awaiting_snapshot"} -> [done EXCEPT !.state = "refused"]
    [] OTHER -> [done EXCEPT !.rows = projectCoreMessage(done.rows, i, rebuilds[s].cut)]

CatchUp ==
  LET s == worker.id
      through == Max2(rebuilds[s].cut, pipeline.highest)
      increments == ListCoreSnapshotIncrements(s, through)
      done == FoldLeft(LAMBDA d, i : Replay(s, d, i),
                       [state |-> "ok", rows |-> rows[s]], increments)
  IN /\ withBuild("catch_up") /\ Fenced(s)
     /\ rebuilds[s].state \in {"loaded", "catching_up"}
     /\ done.state # "refused"
     /\ rows' = [rows EXCEPT ![s] = done.rows]
     /\ \/ /\ done.state = "ok"
           /\ rebuilds' = AdvanceCoreSnapshotReplay(s,
                            IF Len(increments) = BatchLimit THEN Last(increments) ELSE through)
           /\ Goto("activate", s, NoName, {})
        \/ /\ done.state = "fenced"
           /\ AbandonCoreSnapshotAuthority(s)
           /\ Return(NoName)
     /\ UNCHANGED <<owned, pipeline, begun, aged>>

\* Mutant: activation waits for the receipts it has, not for the ones missing.
ReplayedReceived(s) == rebuilds[s].applied >= pipeline.highest

CaughtUp(s) ==
  /\ rebuilds[s].applied >= pipeline.highest
  /\ pipeline.contiguous >= Max2(rebuilds[s].cut, pipeline.highest)

ActivateShadow ==
  LET s == worker.id
  IN /\ withBuild("activate") /\ Fenced(s)
     /\ rebuilds[s].state \in {"loaded", "catching_up"}
     /\ CaughtUp(s)
     /\ CoreSnapshotCoversCurrent(rows[pipeline.generation], rows[s])
     /\ pipeline' = ActivateCoreSnapshotShadow(s)
     /\ rebuilds' = MarkCoreSnapshotActivated(s)
     /\ Return(NoName)
     /\ UNCHANGED <<owned, rows, begun, aged>>

\* A call that fails ends the round, a crash also forgets the request key.
EndRound ==
  /\ worker.step # "idle"
  /\ Return(worker.key) \/ Return(NoName)
  /\ UNCHANGED <<owned, store>>

Expire(s) ==
  /\ cursor[s].state = "open"
  /\ cursor' = [cursor EXCEPT ![s].state = "expired"]
  /\ UNCHANGED <<log, routeAuthority, receipts, evidence, store, worker>>

AnHourPasses ==
  /\ ~aged /\ begun # <<>>
  /\ aged' = TRUE
  /\ UNCHANGED <<owned, pipeline, rows, rebuilds, begun, worker>>

ReconcileNext ==
  \/ NextRecovery \/ SourceBeginExpired \/ Begin \/ AuthorityChanged
  \/ SourcePage \/ LoadPage \/ CatchUp \/ ActivateShadow \/ EndRound
  \/ \E s \in Snapshots : SourceBegin(s)

ProjectionNext ==
  \/ \E t \in Tenants, st \in {"active", "frozen", "disabled"} : CoreChanges(t, st)
  \/ CoreHeartbeat
  \/ \E i \in 1..Len(log) : Apply(i) \/ AppendAuthorityReceipt(i)
  \/ \E b \in BOOLEAN : RouteAuthorityChanges(b)
  \/ ReconcileNext
  \/ \E s \in Snapshots : Expire(s)
  \/ AnHourPasses

-----------------------------------------------------------------------------
Status == {"none", "active", "frozen", "disabled"}
Row == [version: 0..MaxSequence, required: 0..MaxSequence, status: Status,
        repair: BOOLEAN, base: BOOLEAN]
Outcomes == {"applied", "version_gap", "awaiting_snapshot", "older", "same_version",
             "snapshot_covered", "heartbeat"}

\* Every table holds rows of its type; the pipeline never runs ahead of the
\* receipts (applyCoreProjection).
ProjectionTypeOK ==
  /\ DOMAIN receipts \subseteq 1..Len(log)
  /\ \A i \in DOMAIN receipts : receipts[i] \in Outcomes
  /\ DOMAIN evidence \subseteq 1..Len(log)
  /\ rows \in [Generations -> [Tenants -> Row]]
  /\ pipeline \in [generation: Generations, contiguous: 0..MaxSequence, highest: 0..MaxSequence]
  /\ \A s \in Snapshots : rebuilds[s].state \in Open \cup {"none", "abandoned", "activated"}
  /\ worker.step \in {"idle", "begin", "persist", "page", "load", "catch_up", "activate"}

\* However the messages are reordered and rebuilds interleave, a row of the
\* current generation holds what Core published under its version, and required
\* never understates a known version (applyCoreProjection).
RowsMatchCore ==
  \A t \in Tenants : LET r == rows[pipeline.generation][t] IN
    /\ r.version > 0 => \E i \in Facts(t, Len(log)) :
                           log[i].version = r.version /\ log[i].status = r.status
    /\ r.required >= r.version
    /\ \A i \in DOMAIN receipts : log[i].tenant = t =>
         (log[i].version <= r.version \/ (r.repair /\ log[i].version <= r.required))

\* Core alone, in any order and with any rebuild in between, is never taken for
\* a conflicting source: every message still to come can be applied.
NoFalseCoreConflict ==
  \A i \in 1..Len(log) \ DOMAIN receipts :
    MessageOutcome(rows[pipeline.generation], i,
                   ReadCoreSnapshotCut(pipeline.generation)) # "conflict"

\* Contiguous progress is exactly the prefix of messages that were received.
ContiguousIsReceived ==
  /\ \A i \in 1..pipeline.contiguous : i \in DOMAIN receipts
  /\ pipeline.contiguous + 1 \notin DOMAIN receipts

\* Switching the shadow generation never goes back: no tenant loses a version
\* it has or is known to need, and none is left to be repaired.
SwitchNeverRegresses ==
  [][pipeline'.generation # pipeline.generation =>
       \A t \in Tenants :
         /\ rows[pipeline'.generation][t].version >= rows[pipeline.generation][t].required
         /\ ~rows[pipeline'.generation][t].repair]_projectionVars

\* A generation goes live only when it equals Core's state at the last message
\* received, whatever arrived while it was loaded and replayed.
SwitchIsExact ==
  [][pipeline'.generation # pipeline.generation =>
       \A t \in Tenants :
         /\ rows'[pipeline'.generation][t].version = VersionAt(t, pipeline.highest)
         /\ rows'[pipeline'.generation][t].status = StatusAt(t, pipeline.highest)]_projectionVars

\* Nothing received under a revoked or restored authority is carried into the
\* generation that goes live (the authority fence of CatchUp and withBuild).
SwitchUnderOneAuthority ==
  [][pipeline'.generation # pipeline.generation =>
       LET b == rebuilds[pipeline'.generation] IN
         /\ routeAuthority.active /\ b.authority = routeAuthority.version
         /\ \A i \in DOMAIN receipts :
              (i > b.cut /\ i <= b.applied /\ log[i].kind = "lifecycle" /\ i \in DOMAIN evidence)
                => evidence[i] = b.authority]_projectionVars

\* The rows of the pipeline's current generation hold what Core published, and a
\* rebuild replaces them only by Core's state at the last message, received
\* under the authority in force.  It is a promise about these rows, which Apply
\* and the rebuild go by: ReadShadowTenant does not read them, but the view over
\* Governance's facts that TenantLifecycle is about.
ShadowIsFaithful ==
  /\ [](ProjectionTypeOK /\ RowsMatchCore /\ NoFalseCoreConflict /\ ContiguousIsReceived)
  /\ SwitchNeverRegresses /\ SwitchIsExact /\ SwitchUnderOneAuthority
=============================================================================
