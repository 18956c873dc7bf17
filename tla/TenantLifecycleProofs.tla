----------------------- MODULE TenantLifecycleProofs -----------------------
(***************************************************************************)
(* What is proved of TenantLifecycle for any number of Tenants, Snapshots, *)
(* receivers, coordinators, epochs and events.                             *)
(***************************************************************************)
EXTENDS TenantLifecycle, FiniteSetTheorems, NaturalsInduction, WellFoundedInduction, TLAPS

(***************************************************************************)
(* Types.  A process between two steps of its loop carries what the next   *)
(* step needs, and only finitely many messages have arrived.               *)
(***************************************************************************)
InHand ==
    /\ \A r \in Receivers : receiver[r].step # "idle" => receiver[r].message \in Message
    /\ \A r \in Receivers : receiver[r].step = "quarantine" => receiver[r].reason # "none"
    /\ \A w \in Workers : worker[w].step = "persist" => worker[w].id \in Snapshots

TypeInv == TypeOK /\ InHand /\ IsFiniteSet(receipts)

\* The messages the broker may deliver are messages.
LEMMA PublishedTypes == TypeOK => Published \subseteq Message
  <1> SUFFICES ASSUME TypeOK, NEW p \in Committed PROVE Event(p[1], p[2]) \in Message
    BY DEF TypeOK, Published
  <1>1. p[1] \in Epochs /\ p[2] \in Sequences
    BY DEF Committed
  <1>2. event[p[1]][p[2]].at \in 0..MaxNow
    BY <1>1 DEF TypeOK, OwnerTypeOK
  <1>3. p[2] \in 0..MaxSequence
    BY <1>1, OwnerAssumption DEF Sequences
  <1> QED
    BY <1>1, <1>2, <1>3 DEF Event, Message

LEMMA InitTypes == Init => TypeInv
  <1> SUFFICES ASSUME Init PROVE TypeInv
    OBVIOUS
  <1>1. OwnerTypeOK
    BY OwnerAssumption DEF Init, OwnerInit, OwnerTypeOK, Epochs, Sequences, Fact, NoFact
  <1>2. NoFacts \in Facts /\ NoHeartbeat \in HeartbeatRow /\ NoCut \in CutRow
    BY OwnerAssumption DEF NoFacts, Facts, Fact, NoFact, NoHeartbeat, HeartbeatRow, NoCut, CutRow, Epochs
  <1>3. pipeline \in PipelineRow
    BY <1>2, OwnerAssumption DEF Init, PipelineRow, SnapshotId
  <1>4. build \in BuildRow /\ AtRest \in WorkerState /\ Waiting \in ReceiverState
    BY <1>2, OwnerAssumption DEF Init, NoBuild, BuildRow, SnapshotId, AtRest, WorkerState, Waiting, ReceiverState
  <1>5. TypeOK
    BY <1>1, <1>2, <1>3, <1>4 DEF Init, TypeOK, GrantRow
  <1>6. InHand
    BY DEF Init, InHand, AtRest, Waiting
  <1> QED
    BY <1>5, <1>6, FS_EmptySet DEF TypeInv, Init

LEMMA OwnerTypes ==
  ASSUME OwnerTypeOK, OwnerNext
  PROVE  OwnerTypeOK'
  <1>1. ASSUME NEW t \in Tenants, NEW to \in LifecycleStatus, CommitEvent(t, to) PROVE OwnerTypeOK'
    <2> DEFINE last == length[epoch]
    <2> DEFINE old == history[epoch][last]
    <2>1. last \in 0..MaxSequence /\ last + 1 \in 1..MaxSequence /\ last + 1 \in 0..MaxSequence
      BY <1>1, OwnerAssumption DEF OwnerTypeOK, CommitEvent
    <2>2. old \in [Tenants -> Fact]
      BY <2>1 DEF OwnerTypeOK
    <2>3. [old EXCEPT ![t] = [version |-> old[t].version + 1, status |-> to]] \in [Tenants -> Fact]
      BY <2>2 DEF Fact
    <2>4. history' \in [Epochs -> [0..MaxSequence -> [Tenants -> Fact]]]
      BY <1>1, <2>1, <2>3 DEF OwnerTypeOK, CommitEvent
    <2>5. event' \in [Epochs -> [Sequences -> [tenant: Tenants \cup {None}, at: 0..MaxNow]]]
      BY <1>1, <2>1 DEF OwnerTypeOK, CommitEvent, Sequences
    <2>6. length' \in [Epochs -> 0..MaxSequence]
      BY <1>1, <2>1 DEF OwnerTypeOK, CommitEvent
    <2> QED
      BY <1>1, <2>4, <2>5, <2>6 DEF OwnerTypeOK, CommitEvent
  <1>2. ASSUME NEW from \in 0..MaxSequence, StartEpoch(from) PROVE OwnerTypeOK'
    <2>1. epoch + 1 \in Epochs
      BY <1>2, OwnerAssumption DEF OwnerTypeOK, StartEpoch, Epochs
    <2>2. history[epoch][from] \in [Tenants -> Fact] /\ 0 \in 0..MaxSequence
      BY OwnerAssumption DEF OwnerTypeOK
    <2>3. history' \in [Epochs -> [0..MaxSequence -> [Tenants -> Fact]]]
      BY <1>2, <2>1, <2>2 DEF OwnerTypeOK, StartEpoch
    <2> QED
      BY <1>2, <2>1, <2>3 DEF OwnerTypeOK, StartEpoch
  <1>3. ASSUME Tick PROVE OwnerTypeOK'
    BY <1>3, OwnerAssumption DEF OwnerTypeOK, Tick
  <1> QED
    BY <1>1, <1>2, <1>3 DEF OwnerNext

\* An event moves the pipeline within its row, a heartbeat too.
LEMMA ApplyTypes ==
  ASSUME TypeInv, NEW m \in Message, applyTenantIntegration(m)
  PROVE  /\ pipeline' \in PipelineRow /\ view' \in Facts
         /\ receipts' \subseteq ReceiptRow /\ IsFiniteSet(receipts')
  <1>1. /\ m.kind \in Grants /\ m.epoch \in Epochs /\ m.epoch \in 0..MaxEpoch
        /\ m.number \in 0..MaxSequence /\ m.at \in 0..MaxNow
    BY OwnerAssumption DEF Message, Grants, Epochs
  <1>2. CASE Retained(m)
    BY <1>2 DEF applyTenantIntegration, TypeInv, TypeOK
  <1>3. CASE ~ Retained(m)
    <2> DEFINE new == [message |-> m, version |-> grant[m.kind].version]
    <2>1. receipts' = receipts \cup {new}
      BY <1>3 DEF applyTenantIntegration
    <2>2. new \in ReceiptRow
      BY <1>1 DEF TypeInv, TypeOK, GrantRow, ReceiptRow
    <2>3. receipts' \subseteq ReceiptRow /\ IsFiniteSet(receipts')
      BY <2>1, <2>2, FS_AddElement DEF TypeInv, TypeOK
    <2>4. \A n, bound \in 0..MaxSequence : AtLeast(n, bound) \in 0..MaxSequence
      BY DEF AtLeast
    <2>5. \A o : ProjectTenantLifecycle(pipeline, m, o) \in PipelineRow
      BY <1>1, <2>4 DEF ProjectTenantLifecycle, TypeInv, TypeOK, PipelineRow
    <2>6. \A o : ObserveTenantHeartbeat(pipeline, m, o) \in PipelineRow
      <3>1. now \in 0..MaxNow
        BY DEF TypeInv, TypeOK, OwnerTypeOK
      <3>2. [epoch |-> m.epoch, committed |-> m.number, at |-> m.at] \in HeartbeatRow
        BY <1>1 DEF HeartbeatRow
      <3> QED
        BY <1>1, <2>4, <3>1, <3>2 DEF ObserveTenantHeartbeat, TypeInv, TypeOK, PipelineRow
    <2>7. pipeline' \in PipelineRow
      BY <1>3, <2>5, <2>6 DEF applyTenantIntegration
    <2>8. [view EXCEPT ![TenantOf(m)] = FactOf(m)] \in Facts
      <3>1. history[m.epoch][m.number] \in [Tenants -> Fact]
        BY <1>1 DEF TypeInv, TypeOK, OwnerTypeOK
      <3>2. CASE TenantOf(m) \in Tenants
        BY <3>1, <3>2 DEF FactOf, TypeInv, TypeOK, Facts
      <3>3. CASE TenantOf(m) \notin Tenants
        BY <3>3 DEF TypeInv, TypeOK, Facts
      <3> QED
        BY <3>2, <3>3
    <2>9. view' \in Facts
      BY <1>3, <2>8 DEF applyTenantIntegration, TypeInv, TypeOK
    <2> QED
      BY <2>3, <2>7, <2>9
  <1> QED
    BY <1>2, <1>3

\* A receiver that takes a message takes the message with it.
LEMMA ReceiverTypes ==
  ASSUME TypeInv, UNCHANGED worker, NEW r \in Receivers, NEW m \in Message,
         NEW step \in {"quarantine", "ack"}, NEW reason \in {"none", "authority_denied", "event_conflict"},
         step = "quarantine" => reason # "none", Await(r, step, m, reason)
  PROVE  receiver' \in [Receivers -> ReceiverState] /\ InHand'
  <1> DEFINE new == [step |-> step, message |-> m, reason |-> reason]
  <1>1. new \in ReceiverState
    BY DEF ReceiverState
  <1>2. receiver' = [receiver EXCEPT ![r] = new]
    BY DEF Await
  <1>3. receiver' \in [Receivers -> ReceiverState]
    BY <1>1, <1>2 DEF TypeInv, TypeOK
  <1>4. \A q \in Receivers : receiver'[q] = IF q = r THEN new ELSE receiver[q]
    BY <1>2 DEF TypeInv, TypeOK
  <1>5. \A q \in Receivers : receiver'[q].step # "idle" => receiver'[q].message \in Message
    BY <1>4 DEF TypeInv, InHand
  <1>6. \A q \in Receivers : receiver'[q].step = "quarantine" => receiver'[q].reason # "none"
    BY <1>4 DEF TypeInv, InHand
  <1> QED
    BY <1>3, <1>5, <1>6 DEF TypeInv, InHand

\* A receiver that waits again.
LEMMA WaitingTypes ==
  ASSUME TypeInv, UNCHANGED worker, NEW r \in Receivers, receiver' = [receiver EXCEPT ![r] = Waiting]
  PROVE  receiver' \in [Receivers -> ReceiverState] /\ InHand'
  <1>1. Waiting \in ReceiverState /\ Waiting.step = "idle"
    BY DEF Waiting, ReceiverState
  <1>2. receiver' \in [Receivers -> ReceiverState]
    BY <1>1 DEF TypeInv, TypeOK
  <1>3. \A q \in Receivers : receiver'[q] = IF q = r THEN Waiting ELSE receiver[q]
    BY DEF TypeInv, TypeOK
  <1> QED
    BY <1>1, <1>2, <1>3 DEF TypeInv, InHand

\* Every step of a receiver, and a replay.
LEMMA BrokerTypes ==
  ASSUME TypeInv, \/ \E r \in Receivers : ReceiverNext(r)
                  \/ \E m \in Published : ReplayDLQ(m)
  PROVE  TypeInv'
  <1> USE PublishedTypes DEF TypeInv
  <1>1. ASSUME NEW r \in Receivers, NEW m \in Published, Receive(r, m) PROVE TypeInv'
    <2>1. m \in Message
      OBVIOUS
    <2>2. receiver' \in [Receivers -> ReceiverState] /\ InHand'
      BY <1>1, <2>1, ReceiverTypes DEF Receive, rebuild
    <2>3. /\ pipeline' \in PipelineRow /\ view' \in Facts
          /\ receipts' \subseteq ReceiptRow /\ IsFiniteSet(receipts')
      BY <1>1, <2>1, ApplyTypes DEF Receive
    <2> QED
      BY <1>1, <2>2, <2>3 DEF Receive, TypeOK, OwnerTypeOK, owner, rebuild
  <1>2. ASSUME NEW r \in Receivers, NEW m \in Published, ReceiveQuarantined(r, m) PROVE TypeInv'
    <2>1. receiver' \in [Receivers -> ReceiverState] /\ InHand'
      BY <1>2, ReceiverTypes DEF ReceiveQuarantined, rebuild
    <2> QED
      BY <1>2, <2>1 DEF ReceiveQuarantined, TypeOK, OwnerTypeOK, owner, rebuild
  <1>3. ASSUME NEW r \in Receivers, NEW m \in Published, ReceiveRefused(r, m) PROVE TypeInv'
    <2>1. Refusal(m) \in {"authority_denied", "event_conflict"}
      BY <1>3 DEF ReceiveRefused, Refusal
    <2>2. receiver' \in [Receivers -> ReceiverState] /\ InHand'
      BY <1>3, <2>1, ReceiverTypes DEF ReceiveRefused, rebuild
    <2> QED
      BY <1>3, <2>2 DEF ReceiveRefused, TypeOK, OwnerTypeOK, owner, rebuild
  <1>4. ASSUME NEW r \in Receivers, Quarantine(r) PROVE TypeInv'
    <2> DEFINE m == receiver[r].message
    <2>1. m \in Message /\ receiver[r].reason \in {"authority_denied", "event_conflict"}
      BY <1>4 DEF Quarantine, InHand, TypeOK, ReceiverState
    <2>2. dlq' \subseteq DLQRow
      BY <1>4, <2>1 DEF Quarantine, TypeOK, DLQRow
    <2>3. receiver' \in [Receivers -> ReceiverState] /\ InHand'
      BY <1>4, <2>1, ReceiverTypes DEF Quarantine, rebuild
    <2> QED
      BY <1>4, <2>2, <2>3 DEF Quarantine, TypeOK, OwnerTypeOK, owner, rebuild
  <1>5. ASSUME NEW r \in Receivers, Ack(r) PROVE TypeInv'
    <2>1. acked' \subseteq Message
      BY <1>5 DEF Ack, InHand, TypeOK
    <2>2. receiver' \in [Receivers -> ReceiverState] /\ InHand'
      BY <1>5, WaitingTypes DEF Ack, rebuild
    <2> QED
      BY <1>5, <2>1, <2>2 DEF Ack, TypeOK, OwnerTypeOK, owner, rebuild
  <1>6. ASSUME NEW r \in Receivers, LoseDelivery(r) PROVE TypeInv'
    <2>1. receiver' \in [Receivers -> ReceiverState] /\ InHand'
      BY <1>6, WaitingTypes DEF LoseDelivery, rebuild
    <2> QED
      BY <1>6, <2>1 DEF LoseDelivery, TypeOK, OwnerTypeOK, owner, rebuild
  <1>7. ASSUME NEW m \in Published, ReplayDLQ(m) PROVE TypeInv'
    <2>1. /\ pipeline' \in PipelineRow /\ view' \in Facts
          /\ receipts' \subseteq ReceiptRow /\ IsFiniteSet(receipts')
      BY <1>7, ApplyTypes DEF ReplayDLQ
    <2> QED
      BY <1>7, <2>1 DEF ReplayDLQ, TypeOK, OwnerTypeOK, InHand, owner, rebuild
  <1> QED
    BY <1>1, <1>2, <1>3, <1>4, <1>5, <1>6, <1>7 DEF ReceiverNext

-----------------------------------------------------------------------------
\* A coordinator that goes to a step, or back to rest.
LEMMA GoTypes ==
  ASSUME TypeInv, UNCHANGED receiver, NEW w \in Workers, NEW new \in WorkerState,
         new.step = "persist" => new.id \in Snapshots, worker' = [worker EXCEPT ![w] = new]
  PROVE  worker' \in [Workers -> WorkerState] /\ InHand'
  <1>1. worker' \in [Workers -> WorkerState]
    BY DEF TypeInv, TypeOK
  <1>2. \A v \in Workers : worker'[v] = IF v = w THEN new ELSE worker[v]
    BY DEF TypeInv, TypeOK
  <1> QED
    BY <1>1, <1>2 DEF TypeInv, InHand

LEMMA ReturnTypes ==
  ASSUME TypeInv, UNCHANGED receiver, NEW w \in Workers, NEW key \in SnapshotId, Return(w, key)
  PROVE  worker' \in [Workers -> WorkerState] /\ InHand'
  <1>1. [AtRest EXCEPT !.key = key] \in WorkerState /\ [AtRest EXCEPT !.key = key].step = "idle"
    BY DEF AtRest, WorkerState, SnapshotId
  <1> QED
    BY <1>1, GoTypes DEF Return

\* The build that is there belongs to a Snapshot.
LEMMA PendingTypes ==
  ASSUME TypeInv, Pending
  PROVE  build.id \in Snapshots /\ Cut \in CutRow
  BY DEF TypeInv, TypeOK, Pending, BuildRow, SnapshotId, Cut

LEMMA AbandonTypes ==
  ASSUME TypeInv, Pending, Abandon
  PROVE  snapshot' \in [Snapshots -> CutRow] /\ build' \in BuildRow
  <1>1. NoBuild \in BuildRow
    BY OwnerAssumption DEF NoBuild, BuildRow, SnapshotId, NoFacts, Facts, Fact, NoFact
  <1>2. [Cut EXCEPT !.state = "abandoned"] \in CutRow
    BY PendingTypes DEF CutRow
  <1> QED
    BY <1>1, <1>2, PendingTypes DEF Abandon, TypeInv, TypeOK, Cut

\* Steps that only look, begin or give up.
LEMMA LightStepTypes ==
  ASSUME TypeInv, NEW w \in Workers,
         \/ ResumeBuild(w) \/ StartRecovery(w) \/ (\E i \in Snapshots : BeginSnapshot(w, i))
         \/ BeginKnown(w) \/ SavedBefore(w) \/ AbandonBuild(w) \/ GiveUp(w) \/ Crash(w)
         \/ ExpireRequest(w)
  PROVE  TypeInv'
  <1> USE DEF TypeInv
  <1>0. worker[w] \in WorkerState /\ worker[w].key \in SnapshotId /\ worker[w].id \in SnapshotId
    BY DEF TypeOK, WorkerState
  <1>1. CASE ResumeBuild(w)
    <2>1. build.id \in SnapshotId /\ build.loaded \in SUBSET Tenants
      BY DEF TypeOK, BuildRow
    <2>2. PICK new \in WorkerState : new.step # "persist" /\ worker' = [worker EXCEPT ![w] = new]
      BY <1>1, <2>1 DEF ResumeBuild, Go, WorkerState, SnapshotId
    <2>3. worker' \in [Workers -> WorkerState] /\ InHand'
      BY <1>1, <2>2, GoTypes DEF ResumeBuild, broker
    <2> QED
      BY <1>1, <2>3 DEF ResumeBuild, TypeOK, OwnerTypeOK, owner, broker
  <1>2. CASE StartRecovery(w)
    <2>1. snapshot' \in [Snapshots -> CutRow] /\ build' \in BuildRow
      BY <1>2, AbandonTypes DEF StartRecovery, TypeOK
    <2>2. worker' \in [Workers -> WorkerState] /\ InHand'
      <3>1. CASE Needed
        <4>1. PICK new \in WorkerState : new.step # "persist" /\ worker' = [worker EXCEPT ![w] = new]
          BY <1>0, <1>2, <3>1 DEF StartRecovery, Go, WorkerState, SnapshotId
        <4> QED
          BY <1>2, <4>1, GoTypes DEF StartRecovery, broker
      <3>2. CASE ~ Needed
        BY <1>2, <3>2 DEF StartRecovery, broker, TypeOK, InHand
      <3> QED
        BY <3>1, <3>2
    <2> QED
      BY <1>2, <2>1, <2>2 DEF StartRecovery, TypeOK, OwnerTypeOK, owner, broker
  <1>3. ASSUME NEW i \in Snapshots, BeginSnapshot(w, i) PROVE TypeInv'
    <2>1. epoch \in Epochs /\ length[epoch] \in 0..MaxSequence
      BY DEF TypeOK, OwnerTypeOK
    <2>2. [NoCut EXCEPT !.epoch = epoch, !.watermark = length[epoch]] \in CutRow
      BY <2>1 DEF NoCut, CutRow
    <2>3. snapshot' \in [Snapshots -> CutRow]
      BY <1>3, <2>2 DEF BeginSnapshot, TypeOK
    <2>4. [step |-> "persist", id |-> i, token |-> {}, key |-> i] \in WorkerState
      BY DEF WorkerState, SnapshotId
    <2>5. worker' \in [Workers -> WorkerState] /\ InHand'
      BY <1>3, <2>4, GoTypes DEF BeginSnapshot, Go, broker
    <2> QED
      BY <1>3, <2>3, <2>5 DEF BeginSnapshot, TypeOK, OwnerTypeOK, owner, broker
  <1>4. CASE BeginKnown(w)
    <2> DEFINE key == worker[w].key
    <2>1. key \in Snapshots
      BY <1>0, <1>4 DEF BeginKnown, SnapshotId
    <2>2. worker' \in [Workers -> WorkerState] /\ InHand'
      <3>1. CASE snapshot[key].expired
        <4>1. Return(w, None)
          BY <1>4, <3>1 DEF BeginKnown
        <4> QED
          BY <1>4, <4>1, ReturnTypes DEF BeginKnown, broker, SnapshotId
      <3>2. CASE ~ snapshot[key].expired
        <4>1. Go(w, "persist", key, {}, key)
          BY <1>4, <3>2 DEF BeginKnown
        <4>2. [step |-> "persist", id |-> key, token |-> {}, key |-> key] \in WorkerState
          BY <2>1 DEF WorkerState, SnapshotId
        <4> QED
          BY <1>4, <2>1, <4>1, <4>2, GoTypes DEF BeginKnown, Go, broker
      <3> QED
        BY <3>1, <3>2
    <2> QED
      BY <1>4, <2>2 DEF BeginKnown, TypeOK, OwnerTypeOK, owner, broker
  <1>5. CASE SavedBefore(w)
    <2>1. worker' \in [Workers -> WorkerState] /\ InHand'
      BY <1>5, ReturnTypes DEF SavedBefore, broker, SnapshotId
    <2> QED
      BY <1>5, <2>1 DEF SavedBefore, TypeOK, OwnerTypeOK, owner, broker
  <1>6. CASE AbandonBuild(w)
    <2>1. snapshot' \in [Snapshots -> CutRow] /\ build' \in BuildRow
      BY <1>6, AbandonTypes DEF AbandonBuild
    <2>2. worker' \in [Workers -> WorkerState] /\ InHand'
      BY <1>0, <1>6, ReturnTypes DEF AbandonBuild, broker
    <2> QED
      BY <1>6, <2>1, <2>2 DEF AbandonBuild, TypeOK, OwnerTypeOK, owner, broker
  <1>7. CASE GiveUp(w)
    <2>1. worker' \in [Workers -> WorkerState] /\ InHand'
      BY <1>0, <1>7, ReturnTypes DEF GiveUp, broker
    <2> QED
      BY <1>7, <2>1 DEF GiveUp, TypeOK, OwnerTypeOK, owner, broker
  <1>8. CASE Crash(w)
    <2>1. AtRest \in WorkerState /\ AtRest.step = "idle"
      BY DEF AtRest, WorkerState, SnapshotId
    <2>2. worker' \in [Workers -> WorkerState] /\ InHand'
      BY <1>8, <2>1, GoTypes DEF Crash, broker
    <2> QED
      BY <1>8, <2>2 DEF Crash, TypeOK, OwnerTypeOK, owner, broker
  <1>9. CASE ExpireRequest(w)
    <2>1. worker[w].key \in Snapshots
      BY <1>0, <1>9 DEF ExpireRequest, SnapshotId
    <2>2. [snapshot[worker[w].key] EXCEPT !.expired = TRUE] \in CutRow
      BY <2>1 DEF TypeOK, CutRow
    <2>3. snapshot' \in [Snapshots -> CutRow]
      BY <1>9, <2>1, <2>2 DEF ExpireRequest, Expire, TypeOK
    <2> QED
      BY <1>9, <2>3 DEF ExpireRequest, Expire, TypeOK, OwnerTypeOK, InHand, owner, broker
  <1> QED
    BY <1>1, <1>2, <1>3, <1>4, <1>5, <1>6, <1>7, <1>8, <1>9

\* Increments that all fit end at a position of the log, and leave facts.
LEMMA ReplayTypes ==
  ASSUME TypeInv, Pending, \A k \in 1..Cardinality(Increments) : Fits(k)
  PROVE  /\ Cardinality(Increments) \in Nat
         /\ build.applied + Cardinality(Increments) \in 0..MaxSequence
         /\ Replayed(Cardinality(Increments)) \in Facts
  <1> USE DEF TypeInv
  <1> DEFINE n == Cardinality(Increments)
  <1>1. Increments \subseteq receipts
    BY DEF Increments
  <1>2. n \in Nat
    BY <1>1, FS_Subset, FS_CardinalityType
  <1>3. build.applied \in 0..MaxSequence /\ build.facts \in Facts /\ Cut \in CutRow /\ Cut.epoch \in Epochs
    BY PendingTypes DEF TypeOK, BuildRow, CutRow
  <1>4. build.applied + n \in 0..MaxSequence
    <2>1. CASE n = 0
      BY <1>3, <2>1
    <2>2. CASE n # 0
      <3>1. Fits(n)
        BY <1>2, <2>2
      <3>2. PICK r \in Increments : r.message.number = build.applied + n
        BY <3>1 DEF Fits
      <3>3. r \in ReceiptRow
        BY <1>1, <3>2 DEF TypeOK
      <3> QED
        BY <3>2, <3>3 DEF ReceiptRow, Message
    <2> QED
      BY <2>1, <2>2
  <1>8. ASSUME NEW k \in 1..n PROVE build.applied + k \in 0..MaxSequence
    <2> HIDE DEF n
    <2> QED
      BY <1>2, <1>3, <1>4, OwnerAssumption
  <1>5. ASSUME NEW t \in Tenants PROVE Replayed(n)[t] \in Fact
    <2> DEFINE about == {k \in 1..n : TenantOf(Event(Cut.epoch, build.applied + k)) = t}
    <2> DEFINE lasts == {k \in about : \A j \in about : j <= k}
    <2> DEFINE last == CHOOSE k \in lasts : TRUE
    <2>1. CASE lasts = {}
      BY <1>3, <2>1 DEF Replayed, Facts
    <2>2. CASE lasts # {}
      <3>3. last \in lasts
        BY <2>2
      <3>4. last \in 1..n /\ TenantOf(Event(Cut.epoch, build.applied + last)) = t
        BY <3>3
      <3>5. build.applied + last \in 0..MaxSequence
        BY <1>8, <3>4
      <3>6. history[Cut.epoch][build.applied + last] \in [Tenants -> Fact]
        BY <1>3, <3>5 DEF TypeOK, OwnerTypeOK
      <3>7. FactOf(Event(Cut.epoch, build.applied + last)) \in Fact
        BY <3>4, <3>6 DEF FactOf, Event
      <3> QED
        BY <2>2, <3>7 DEF Replayed
    <2> QED
      BY <2>1, <2>2
  <1>6. Replayed(n) = [t \in Tenants |-> Replayed(n)[t]]
    BY DEF Replayed
  <1>7. Replayed(n) \in Facts
    BY <1>5, <1>6 DEF Facts
  <1> QED
    BY <1>2, <1>4, <1>7

\* Steps that save, load, extend and activate the build.
LEMMA BuildStepTypes ==
  ASSUME TypeInv, NEW w \in Workers, SaveBuild(w) \/ LoadPage(w) \/ CatchUp(w) \/ Activate(w)
  PROVE  TypeInv'
  <1> USE DEF TypeInv
  <1>0. worker[w] \in WorkerState /\ worker[w].key \in SnapshotId
    BY DEF TypeOK, WorkerState
  <1>1. CASE SaveBuild(w)
    <2> DEFINE i == worker[w].id
    <2>1. i \in Snapshots /\ snapshot[i] \in CutRow
      BY <1>1 DEF SaveBuild, InHand, TypeOK
    <2>2. [snapshot[i] EXCEPT !.state = "saved"] \in CutRow
      BY <2>1 DEF CutRow
    <2>3. snapshot' \in [Snapshots -> CutRow]
      BY <1>1, <2>1, <2>2 DEF SaveBuild, TypeOK
    <2>4. Fingerprint \in Nat \X Nat
      BY DEF Fingerprint, TypeOK, Grants, GrantRow
    <2>5. NoFacts \in Facts
      BY DEF NoFacts, Facts, Fact, NoFact
    <2>6. pipeline.generation \in SnapshotId /\ snapshot[i].watermark \in 0..MaxSequence /\ i \in SnapshotId
      BY <2>1 DEF TypeOK, PipelineRow, CutRow, SnapshotId
    <2>7. build' \in BuildRow
      BY <1>1, <2>4, <2>5, <2>6 DEF SaveBuild, BuildRow
    <2>8. worker' \in [Workers -> WorkerState] /\ InHand'
      BY <1>1, <2>6, ReturnTypes DEF SaveBuild, broker, SnapshotId
    <2> QED
      BY <1>1, <2>3, <2>7, <2>8 DEF SaveBuild, TypeOK, OwnerTypeOK, owner, broker
  <1>2. CASE LoadPage(w)
    <2> DEFINE source == history[Cut.epoch][Cut.watermark]
    <2> DEFINE listed == {t \in Tenants : source[t] # NoFact}
    <2>1. Pending
      BY <1>2 DEF LoadPage, Building
    <2>2. source \in [Tenants -> Fact]
      <3>1. Cut.epoch \in Epochs /\ Cut.watermark \in 0..MaxSequence
        BY <2>1, PendingTypes DEF CutRow
      <3> QED
        BY <3>1 DEF TypeOK, OwnerTypeOK
    <2>3. PICK page \in SUBSET (listed \ build.loaded) :
            build' = [build EXCEPT
                    !.loaded = build.loaded \cup page,
                    !.facts = [t \in Tenants |-> IF t \in page THEN source[t] ELSE @[t]],
                    !.state = IF build.loaded \cup page = listed THEN "loaded" ELSE "loading"]
      BY <1>2 DEF LoadPage
    <2>4. [t \in Tenants |-> IF t \in page THEN source[t] ELSE build.facts[t]] \in Facts
      BY <2>2 DEF TypeOK, BuildRow, Facts
    <2>5. build.loaded \cup page \in SUBSET Tenants
      BY DEF TypeOK, BuildRow
    <2>6. build' \in BuildRow
      BY <2>3, <2>4, <2>5 DEF TypeOK, BuildRow
    <2>7. worker' \in [Workers -> WorkerState] /\ InHand'
      BY <1>0, <1>2, ReturnTypes DEF LoadPage, broker
    <2> QED
      BY <1>2, <2>6, <2>7 DEF LoadPage, TypeOK, OwnerTypeOK, owner, broker
  <1>3. CASE CatchUp(w)
    <2> DEFINE n == Cardinality(Increments)
    <2>1. Pending
      BY <1>3 DEF CatchUp, Building
    <2>2. CASE \A k \in 1..n : Fits(k)
      <3>1. n \in Nat /\ build.applied + n \in 0..MaxSequence /\ Replayed(n) \in Facts
        BY <2>1, <2>2, ReplayTypes
      <3>2. build' = [build EXCEPT !.state = "catching_up", !.applied = build.applied + n,
                                   !.facts = Replayed(n)]
        BY <1>3, <2>2 DEF CatchUp
      <3> HIDE DEF n
      <3>3. build' \in BuildRow
        BY <3>1, <3>2 DEF TypeOK, BuildRow
      <3>4. [worker[w] EXCEPT !.step = "activate"] \in WorkerState
        BY <1>0 DEF WorkerState
      <3>5. worker' = [worker EXCEPT ![w] = [worker[w] EXCEPT !.step = "activate"]] /\ UNCHANGED snapshot
        BY <1>3, <2>2 DEF CatchUp, n
      <3>6. [worker[w] EXCEPT !.step = "activate"].step = "activate"
        BY <1>0 DEF WorkerState
      <3>7. worker' \in [Workers -> WorkerState] /\ InHand'
        BY <1>3, <3>4, <3>5, <3>6, GoTypes DEF CatchUp, broker
      <3> QED
        BY <1>3, <3>3, <3>5, <3>7 DEF CatchUp, TypeOK, OwnerTypeOK, owner, broker
    <2>3. CASE ~ (\A k \in 1..n : Fits(k))
      <3>1. snapshot' \in [Snapshots -> CutRow] /\ build' \in BuildRow
        BY <1>3, <2>1, <2>3, AbandonTypes DEF CatchUp
      <3>2. worker' \in [Workers -> WorkerState] /\ InHand'
        BY <1>0, <1>3, <2>3, ReturnTypes DEF CatchUp, broker
      <3> QED
        BY <1>3, <3>1, <3>2 DEF CatchUp, TypeOK, OwnerTypeOK, owner, broker
    <2> QED
      BY <2>2, <2>3
  <1>4. CASE Activate(w)
    <2>1. Pending
      BY <1>4 DEF Activate, Building
    <2>2. worker' \in [Workers -> WorkerState] /\ InHand'
      BY <1>0, <1>4, ReturnTypes DEF Activate, broker
    <2>3. CASE TenantSnapshotCoversCurrent
      <3>1. Cut.epoch \in 0..MaxEpoch
        BY <2>1, PendingTypes, OwnerAssumption DEF CutRow, Epochs
      <3>2. NoHeartbeat \in HeartbeatRow /\ 0 \in 0..MaxNow
        BY OwnerAssumption DEF NoHeartbeat, HeartbeatRow
      <3>3. pipeline' \in PipelineRow
        BY <1>4, <2>3, <3>1, <3>2 DEF Activate, ActivateTenantSnapshot, TypeOK, PipelineRow, BuildRow
      <3>4. view' \in Facts
        BY <1>4, <2>3 DEF Activate, TypeOK, BuildRow
      <3>5. [Cut EXCEPT !.state = "activated"] \in CutRow
        BY <2>1, PendingTypes DEF CutRow
      <3>6. snapshot' \in [Snapshots -> CutRow]
        BY <1>4, <2>1, <2>3, <3>5, PendingTypes DEF Activate, TypeOK, Cut
      <3>7. build' \in BuildRow
        BY <1>4, <2>3, OwnerAssumption DEF Activate, NoBuild, BuildRow, SnapshotId, NoFacts, Facts, Fact, NoFact
      <3> QED
        BY <1>4, <2>2, <3>3, <3>4, <3>6, <3>7 DEF Activate, TypeOK, OwnerTypeOK, owner, broker
    <2>4. CASE ~ TenantSnapshotCoversCurrent
      <3>1. snapshot' \in [Snapshots -> CutRow] /\ build' \in BuildRow
        BY <1>4, <2>1, <2>4, AbandonTypes DEF Activate
      <3> QED
        BY <1>4, <2>2, <2>4, <3>1 DEF Activate, TypeOK, OwnerTypeOK, owner, broker
    <2> QED
      BY <2>3, <2>4
  <1> QED
    BY <1>1, <1>2, <1>3, <1>4

\* Every step keeps the types.
LEMMA NextTypes == TypeInv /\ [Next]_vars => TypeInv'
  <1> SUFFICES ASSUME TypeInv, [Next]_vars PROVE TypeInv'
    OBVIOUS
  <1> USE DEF TypeInv
  <1>1. CASE OwnerNext /\ UNCHANGED <<beats, grant, pipeline, view, broker, rebuild>>
    <2>1. OwnerTypeOK'
      BY <1>1, OwnerTypes DEF TypeOK
    <2> QED
      BY <1>1, <2>1 DEF TypeOK, InHand, broker, rebuild
  <1>2. CASE EmitHeartbeat
    <2>1. Heartbeat(now) \in Message
      BY DEF Heartbeat, Message, TypeOK, OwnerTypeOK
    <2> QED
      BY <1>2, <2>1 DEF EmitHeartbeat, TypeOK, OwnerTypeOK, InHand, owner, broker, rebuild
  <1>3. ASSUME NEW g \in Grants, NEW active \in BOOLEAN, ChangeAuthority(g, active) PROVE TypeInv'
    <2>1. [version |-> grant[g].version + 1, active |-> active] \in GrantRow
      BY DEF TypeOK, GrantRow
    <2>2. grant' \in [Grants -> GrantRow]
      BY <1>3, <2>1 DEF ChangeAuthority, TypeOK
    <2> QED
      BY <1>3, <2>2 DEF ChangeAuthority, TypeOK, OwnerTypeOK, InHand, owner, broker, rebuild
  <1>4. CASE (\E r \in Receivers : ReceiverNext(r)) \/ (\E m \in Published : ReplayDLQ(m))
    BY <1>4, BrokerTypes
  <1>5. ASSUME NEW w \in Workers, WorkerNext(w) PROVE TypeInv'
    BY <1>5, LightStepTypes, BuildStepTypes DEF WorkerNext
  <1>6. CASE ExpireBuild
    <2>1. build.id \in Snapshots /\ Cut \in CutRow
      BY <1>6, PendingTypes DEF ExpireBuild
    <2>2. [Cut EXCEPT !.expired = TRUE] \in CutRow
      BY <2>1 DEF CutRow
    <2>3. snapshot' \in [Snapshots -> CutRow]
      BY <1>6, <2>1, <2>2 DEF ExpireBuild, Expire, TypeOK, Cut
    <2> QED
      BY <1>6, <2>3 DEF ExpireBuild, Expire, TypeOK, OwnerTypeOK, InHand, owner, broker
  <1>7. CASE UNCHANGED vars
    BY <1>7 DEF TypeOK, OwnerTypeOK, InHand, vars, owner, broker, rebuild
  <1> QED
    BY <1>1, <1>2, <1>3, <1>4, <1>5, <1>6, <1>7 DEF Next

LEMMA AlwaysTyped == Spec => []TypeInv
  BY InitTypes, NextTypes, PTL DEF Spec

\* Every row, message and call keeps its type, for any number of Tenants,
\* processes, Snapshots, epochs and events: in particular a rebuild that applies
\* retained increments never leaves the log.
THEOREM Types == Spec => []TypeOK
  BY AlwaysTyped, PTL DEF TypeInv

(***************************************************************************)
(* Durability.  A receiver acknowledges what an earlier step of it made    *)
(* durable, and that stays: receipts and the quarantine only grow.         *)
(***************************************************************************)
Kept(m) == Retained(m) \/ Quarantined(m)

DurableInv ==
    /\ \A m \in acked : Kept(m)
    /\ \A r \in Receivers : receiver[r].step = "ack" => Kept(receiver[r].message)

LEMMA KeptStays ==
  ASSUME receipts \subseteq receipts', dlq \subseteq dlq'
  PROVE  \A m : Kept(m) => Kept(m)'
  BY DEF Kept, Retained, Quarantined

\* An applied message is retained, and no receipt is lost.
LEMMA ApplyKeeps ==
  ASSUME NEW m, applyTenantIntegration(m), UNCHANGED dlq
  PROVE  receipts \subseteq receipts' /\ Kept(m)'
  <1>1. CASE Retained(m)
    BY <1>1 DEF applyTenantIntegration, Kept, Retained
  <1>2. CASE ~ Retained(m)
    <2>1. [message |-> m, version |-> grant[m.kind].version] \in receipts'
      BY <1>2 DEF applyTenantIntegration
    <2>2. [message |-> m, version |-> grant[m.kind].version].message = m
      OBVIOUS
    <2> QED
      BY <1>2, <2>1, <2>2 DEF applyTenantIntegration, Kept, Retained
  <1> QED
    BY <1>1, <1>2

\* A step that leaves the receivers and the broker's memory alone.
LEMMA OthersDurable ==
  ASSUME DurableInv, receipts \subseteq receipts', dlq \subseteq dlq', UNCHANGED <<acked, receiver>>
  PROVE  DurableInv'
  <1>1. \A m : Kept(m) => Kept(m)'
    BY KeptStays
  <1> QED
    BY <1>1 DEF DurableInv

\* A step of a receiver that keeps the message in hand before it may acknowledge.
LEMMA ReceiverDurable ==
  ASSUME DurableInv, TypeInv, receipts \subseteq receipts', dlq \subseteq dlq', UNCHANGED acked,
         NEW r \in Receivers, NEW new, receiver' = [receiver EXCEPT ![r] = new],
         new.step = "ack" => Kept(new.message)'
  PROVE  DurableInv'
  <1>1. \A m : Kept(m) => Kept(m)'
    BY KeptStays
  <1>2. \A q \in Receivers : receiver'[q] = IF q = r THEN new ELSE receiver[q]
    BY DEF TypeInv, TypeOK
  <1>3. (\A m \in acked : Kept(m))'
    BY <1>1 DEF DurableInv
  <1>4. ASSUME NEW q \in Receivers, (receiver[q].step = "ack")' PROVE Kept(receiver[q].message)'
    BY <1>1, <1>2, <1>4 DEF DurableInv
  <1> QED
    BY <1>3, <1>4 DEF DurableInv

LEMMA NextDurable == TypeInv /\ DurableInv /\ [Next]_vars => DurableInv'
  <1> SUFFICES ASSUME TypeInv, DurableInv, [Next]_vars PROVE DurableInv'
    OBVIOUS
  <1>1. ASSUME NEW r \in Receivers, NEW m \in Published, Receive(r, m) PROVE DurableInv'
    BY <1>1, ApplyKeeps, ReceiverDurable DEF Receive, Await
  <1>2. ASSUME NEW r \in Receivers, NEW m \in Published, ReceiveQuarantined(r, m) PROVE DurableInv'
    <2>1. Kept(m)'
      BY <1>2 DEF ReceiveQuarantined, Kept, Quarantined, Retained
    <2> QED
      BY <1>2, <2>1, ReceiverDurable DEF ReceiveQuarantined, Await
  <1>3. ASSUME NEW r \in Receivers, NEW m \in Published, ReceiveRefused(r, m) PROVE DurableInv'
    BY <1>3, ReceiverDurable DEF ReceiveRefused, Await
  <1>4. ASSUME NEW r \in Receivers, Quarantine(r) PROVE DurableInv'
    <2>0. PICK m : m = receiver[r].message
      OBVIOUS
    <2>1. Quarantined(m)'
      <3>1. CASE Quarantined(m)
        BY <1>4, <2>0, <3>1 DEF Quarantine, Quarantined
      <3>2. CASE ~ Quarantined(m)
        <4>1. [message |-> m, reason |-> receiver[r].reason] \in dlq'
          BY <1>4, <2>0, <3>2 DEF Quarantine
        <4> QED
          BY <4>1 DEF Quarantined
      <3> QED
        BY <3>1, <3>2
    <2>2. dlq \subseteq dlq' /\ UNCHANGED <<receipts, acked>>
      BY <1>4 DEF Quarantine
    <2>3. receiver' = [receiver EXCEPT ![r] = [step |-> "ack", message |-> m, reason |-> "none"]]
      BY <1>4, <2>0 DEF Quarantine, Await
    <2> QED
      BY <2>1, <2>2, <2>3, ReceiverDurable DEF Kept
  <1>5. ASSUME NEW r \in Receivers, Ack(r) PROVE DurableInv'
    <2>1. Kept(receiver[r].message)
      BY <1>5 DEF Ack, DurableInv
    <2>2. \A m : Kept(m) => Kept(m)'
      BY <1>5, KeptStays DEF Ack
    <2>3. acked' = acked \cup {receiver[r].message}
      BY <1>5 DEF Ack
    <2>4. (\A m \in acked : Kept(m))'
      BY <2>1, <2>2, <2>3 DEF DurableInv
    <2>5. \A q \in Receivers : receiver'[q] = IF q = r THEN Waiting ELSE receiver[q]
      BY <1>5 DEF Ack, TypeInv, TypeOK
    <2>6. ASSUME NEW q \in Receivers, (receiver[q].step = "ack")' PROVE Kept(receiver[q].message)'
      BY <2>2, <2>5, <2>6 DEF DurableInv, Waiting
    <2> QED
      BY <2>4, <2>6 DEF DurableInv
  <1>6. ASSUME NEW r \in Receivers, LoseDelivery(r) PROVE DurableInv'
    <2>1. Waiting.step # "ack"
      BY DEF Waiting
    <2> QED
      BY <1>6, <2>1, ReceiverDurable DEF LoseDelivery
  <1>7. ASSUME NEW m \in Published, ReplayDLQ(m) PROVE DurableInv'
    BY <1>7, ApplyKeeps, OthersDurable DEF ReplayDLQ
  <1>8. ASSUME NEW w \in Workers, WorkerNext(w) PROVE UNCHANGED broker
    BY <1>8 DEF WorkerNext, ResumeBuild, StartRecovery, BeginSnapshot, BeginKnown, SaveBuild, SavedBefore,
         LoadPage, CatchUp, Activate, AbandonBuild, GiveUp, Crash, ExpireRequest, Expire
  <1>9. CASE UNCHANGED broker
    BY <1>9, OthersDurable DEF broker
  <1>10. CASE \/ OwnerNext /\ UNCHANGED <<beats, grant, pipeline, view, broker, rebuild>>
             \/ EmitHeartbeat \/ ExpireBuild \/ UNCHANGED vars
             \/ \E g \in Grants, active \in BOOLEAN : ChangeAuthority(g, active)
    BY <1>9, <1>10 DEF EmitHeartbeat, ExpireBuild, Expire, ChangeAuthority, vars
  <1> QED
    BY <1>1, <1>2, <1>3, <1>4, <1>5, <1>6, <1>7, <1>8, <1>9, <1>10 DEF Next, ReceiverNext

\* The broker forgets a message only when IAM keeps it, however many receivers
\* take it, lose it and have it delivered again.
THEOREM Durability == Spec => []AckedIsDurable
  <1>1. Init => DurableInv
    BY DEF Init, DurableInv, Waiting
  <1>2. DurableInv => AckedIsDurable
    BY DEF DurableInv, AckedIsDurable, Kept
  <1> QED
    BY <1>1, <1>2, NextDurable, AlwaysTyped, PTL DEF Spec


-----------------------------------------------------------------------------
(***************************************************************************)
(* The projection is the owner's log at one position, for any number of    *)
(* Tenants, processes, epochs and events, whatever is lost, repeated,      *)
(* reordered, rebuilt and restored.                                        *)
(*                                                                         *)
(* Nothing here is an induction over the log: what it says about two of    *)
(* its positions (Unmentioned) is itself invariant, so that a rebuild that *)
(* replays increments needs only the last one about each Tenant.           *)
(***************************************************************************)

(***************************************************************************)
(* The owner's log.                                                        *)
(***************************************************************************)
FactAt(e, s, t) == history[e][s][t]

\* An event about t leads from the facts old to the facts new.
Follows(old, new, t) ==
    /\ t \in Tenants
    /\ new[t].version = old[t].version + 1
    /\ new[t].status \in Successors(old[t].status)
    /\ \A u \in Tenants \ {t} : new[u] = old[u]

\* The facts at a position follow from those before by its event.
Logged ==
    \A e \in Epochs : \A s \in 1..length[e] :
        event[e][s].at <= now /\ Follows(history[e][s - 1], history[e][s], event[e][s].tenant)

\* Without an event about it in between, a Tenant is the same at two positions.
Unmentioned ==
    \A e \in Epochs : \A s, u \in 0..length[e] : \A t \in Tenants :
        /\ s <= u
        /\ \A k \in (s + 1)..u : event[e][k].tenant # t
        => FactAt(e, u, t) = FactAt(e, s, t)

\* A Tenant without a version does not exist, and one that does not has none.
Created ==
    \A e \in Epochs : \A s \in 0..length[e] : \A t \in Tenants :
        FactAt(e, s, t).version = 0 <=> FactAt(e, s, t).status = "absent"

\* Later epochs have not begun.
Unbegun == \A e \in Epochs : e > epoch => length[e] = 0

LogInv == Unbegun /\ Logged /\ Unmentioned /\ Created

(***************************************************************************)
(* The messages.                                                           *)
(***************************************************************************)
\* An event older than a heartbeat is covered by its watermark.
CoveredBy(b) ==
    \A p \in Committed :
        event[p[1]][p[2]].at < b.at => p[1] < b.epoch \/ (p[1] = b.epoch /\ p[2] <= b.number)

BeatsAreTrue ==
    \A b \in beats : /\ b.kind = "heartbeat" /\ b.epoch <= epoch /\ b.number <= length[b.epoch]
                     /\ b.at <= now
                     /\ CoveredBy(b)

\* Heartbeats of an epoch report watermarks that grow with their time.
BeatsAreOrdered ==
    \A b, c \in beats : b.epoch = c.epoch /\ b.at < c.at => b.number <= c.number

ReceiptsArePublished == \A r \in receipts : r.message \in Published

NoConflictInHand == \A r \in Receivers : receiver[r].reason # "event_conflict"

MessageInv ==
    BeatsAreTrue /\ BeatsAreOrdered /\ ReceiptsArePublished /\ NoConflictInHand /\ NoFalseConflict

(***************************************************************************)
(* The projection and the build.                                           *)
(***************************************************************************)
\* Facts readers get are of a position of the log, and without them a Snapshot
\* is required.
Positioned ==
    IF pipeline.generation = None THEN pipeline.required
    ELSE /\ pipeline.epoch \in Epochs /\ pipeline.epoch <= epoch
         /\ pipeline.applied <= length[pipeline.epoch]
         /\ view = history[pipeline.epoch][pipeline.applied]

\* The heartbeat it knows is one of its epoch that was sent.
HeartbeatIsSent ==
    \/ pipeline.heartbeat = NoHeartbeat
    \/ \E b \in beats :
          /\ b.epoch = pipeline.epoch
          /\ pipeline.heartbeat = [epoch |-> b.epoch, committed |-> b.number, at |-> b.at]

\* The highest number known of the epoch is at least that of every event received.
HighestCovers ==
    \A r \in receipts :
        r.message.kind = "lifecycle" /\ r.message.epoch = pipeline.epoch
        => r.message.number <= pipeline.highest

PipelineInv == Positioned /\ HeartbeatIsSent /\ HighestCovers

CutsAreCommitted ==
    \A i \in Snapshots :
        snapshot[i].epoch <= epoch /\ snapshot[i].watermark <= length[snapshot[i].epoch]

\* The events between the Snapshot and the build's position were all received
\* under the grant the build began with.
IncrementsReceived ==
    \A s \in (Cut.watermark + 1)..build.applied :
        [message |-> Event(Cut.epoch, s), version |-> build.authority[1]] \in receipts

BuildIsFaithful ==
    Pending =>
        /\ build.state \in {"loading", "loaded", "catching_up"}
        /\ Cut.watermark <= build.applied /\ build.applied <= length[Cut.epoch]
        /\ build.state = "loading" => build.applied = Cut.watermark
        /\ \A t \in Tenants :
              build.facts[t] = IF build.state # "loading" \/ t \in build.loaded
                               THEN history[Cut.epoch][build.applied][t] ELSE NoFact
        /\ IncrementsReceived

FaithInv == LogInv /\ MessageInv /\ PipelineInv /\ CutsAreCommitted /\ BuildIsFaithful
-----------------------------------------------------------------------------
(***************************************************************************)
(* The log only grows.                                                     *)
(***************************************************************************)
\* What a step may do to the owner: positions that were there stay.
OwnerGrows ==
    /\ epoch <= epoch' /\ now <= now'
    /\ \A e \in Epochs : length[e] <= length'[e]
    /\ \A e \in Epochs : \A s \in 1..length[e] : event'[e][s] = event[e][s]
    /\ \A e \in Epochs : e <= epoch => \A s \in 0..length[e] : history'[e][s] = history[e][s]
    /\ \A e \in Epochs : \A s \in (length[e] + 1)..length'[e] :
          e = epoch /\ event'[e][s].at = now

\* Types of the log's parts, in the form the proofs use.
LEMMA LogTypes ==
  ASSUME TypeInv
  PROVE  /\ epoch \in Epochs /\ epoch \in Nat /\ now \in Nat
         /\ \A e \in Epochs : e \in Nat /\ length[e] \in Nat /\ length[e] <= MaxSequence
         /\ \A e \in Epochs : \A s \in 0..MaxSequence : history[e][s] \in [Tenants -> Fact]
         /\ \A e \in Epochs : \A s \in Sequences : event[e][s].at \in Nat
         /\ MaxSequence \in Nat
  BY OwnerAssumption DEF TypeInv, TypeOK, OwnerTypeOK, Epochs

LEMMA CommitGrows ==
  ASSUME TypeInv, NEW t \in Tenants, NEW to \in LifecycleStatus, CommitEvent(t, to)
  PROVE  /\ OwnerGrows /\ UNCHANGED <<epoch, now>>
         /\ length[epoch] + 1 \in 1..MaxSequence
         /\ length'[epoch] = length[epoch] + 1
         /\ \A e \in Epochs \ {epoch} : length'[e] = length[e] /\ history'[e] = history[e] /\ event'[e] = event[e]
         /\ event'[epoch][length[epoch] + 1] = [tenant |-> t, at |-> now]
         /\ \A s \in Sequences : s # length[epoch] + 1 => event'[epoch][s] = event[epoch][s]
         /\ \A s \in 0..MaxSequence : s # length[epoch] + 1 => history'[epoch][s] = history[epoch][s]
         /\ history'[epoch][length[epoch] + 1][t] =
              [version |-> history[epoch][length[epoch]][t].version + 1, status |-> to]
         /\ \A u \in Tenants \ {t} :
              history'[epoch][length[epoch] + 1][u] = history[epoch][length[epoch]][u]
  <1> DEFINE last == length[epoch]
  <1>1. /\ epoch \in Epochs /\ last \in 0..MaxSequence /\ last + 1 \in 1..MaxSequence
        /\ last + 1 \in 0..MaxSequence /\ last + 1 \in Sequences
    BY OwnerAssumption DEF TypeInv, TypeOK, OwnerTypeOK, CommitEvent, Sequences
  <1>2. /\ length \in [Epochs -> 0..MaxSequence]
        /\ length' = [length EXCEPT ![epoch] = last + 1]
    BY DEF TypeInv, TypeOK, OwnerTypeOK, CommitEvent
  <1>3. PICK new : /\ new = [history[epoch][last] EXCEPT ![t] =
                                [version |-> history[epoch][last][t].version + 1, status |-> to]]
                   /\ history' = [history EXCEPT ![epoch][last + 1] = new]
    BY DEF CommitEvent
  <1>4. history \in [Epochs -> [0..MaxSequence -> [Tenants -> Fact]]]
    BY DEF TypeInv, TypeOK, OwnerTypeOK
  <1>5. /\ event \in [Epochs -> [Sequences -> [tenant: Tenants \cup {None}, at: 0..MaxNow]]]
        /\ event' = [event EXCEPT ![epoch][last + 1] = [tenant |-> t, at |-> now]]
    BY DEF TypeInv, TypeOK, OwnerTypeOK, CommitEvent
  <1>6. UNCHANGED <<epoch, now>> /\ epoch \in Nat /\ now \in Nat
    BY LogTypes DEF CommitEvent
  <1>7. /\ length'[epoch] = last + 1
        /\ \A e \in Epochs \ {epoch} : length'[e] = length[e]
    BY <1>1, <1>2
  <1>8. /\ \A e \in Epochs \ {epoch} : history'[e] = history[e]
        /\ \A s \in 0..MaxSequence : s # last + 1 => history'[epoch][s] = history[epoch][s]
        /\ history'[epoch][last + 1] = new
    BY <1>1, <1>3, <1>4
  <1>9. /\ \A e \in Epochs \ {epoch} : event'[e] = event[e]
        /\ \A s \in Sequences : s # last + 1 => event'[epoch][s] = event[epoch][s]
        /\ event'[epoch][last + 1] = [tenant |-> t, at |-> now]
    BY <1>1, <1>5
  <1>10. /\ new[t] = [version |-> history[epoch][last][t].version + 1, status |-> to]
         /\ \A u \in Tenants \ {t} : new[u] = history[epoch][last][u]
    BY <1>1, <1>3, <1>4
  <1>11. OwnerGrows
    <2>1. \A e \in Epochs : length[e] <= length'[e]
      BY <1>1, <1>2, <1>7, LogTypes
    <2>2. \A e \in Epochs : \A s \in 1..length[e] : event'[e][s] = event[e][s]
      <3> SUFFICES ASSUME NEW e \in Epochs, NEW s \in 1..length[e] PROVE event'[e][s] = event[e][s]
        OBVIOUS
      <3>1. s \in Sequences
        BY LogTypes DEF Sequences
      <3>2. e = epoch => s # last + 1
        BY <1>1
      <3> QED
        BY <1>9, <3>1, <3>2
    <2>3. \A e \in Epochs : \A s \in 0..length[e] : history'[e][s] = history[e][s]
      <3> SUFFICES ASSUME NEW e \in Epochs, NEW s \in 0..length[e] PROVE history'[e][s] = history[e][s]
        OBVIOUS
      <3>1. s \in 0..MaxSequence
        BY LogTypes
      <3>2. e = epoch => s # last + 1
        BY <1>1
      <3> QED
        BY <1>8, <3>1, <3>2
    <2>4. ASSUME NEW e \in Epochs, NEW s \in (length[e] + 1)..length'[e]
          PROVE  e = epoch /\ event'[e][s].at = now
      <3>1. e = epoch
        BY <1>7, LogTypes
      <3>2. s = last + 1
        BY <1>1, <1>7, <3>1
      <3> QED
        BY <1>9, <3>1, <3>2
    <2> QED
      BY <1>6, <2>1, <2>2, <2>3, <2>4 DEF OwnerGrows
  <1> QED
    BY <1>1, <1>6, <1>7, <1>8, <1>9, <1>10, <1>11

LEMMA EpochGrows ==
  ASSUME TypeInv, Unbegun, NEW from \in 0..MaxSequence, StartEpoch(from)
  PROVE  /\ OwnerGrows /\ UNCHANGED <<length, event, now>>
         /\ epoch' = epoch + 1 /\ epoch + 1 \in Epochs /\ length[epoch + 1] = 0
         /\ from <= length[epoch]
         /\ \A e \in Epochs \ {epoch + 1} : history'[e] = history[e]
         /\ history'[epoch + 1][0] = history[epoch][from]
  <1>1. epoch \in Epochs /\ epoch \in Nat /\ now \in Nat /\ 0 \in 0..MaxSequence
    BY LogTypes
  <1>2. epoch + 1 \in Epochs
    BY <1>1, OwnerAssumption DEF StartEpoch, Epochs
  <1>3. length[epoch + 1] = 0
    BY <1>1, <1>2 DEF Unbegun
  <1>4. history \in [Epochs -> [0..MaxSequence -> [Tenants -> Fact]]]
    BY DEF TypeInv, TypeOK, OwnerTypeOK
  <1>5. history' = [history EXCEPT ![epoch + 1][0] = history[epoch][from]]
    BY DEF StartEpoch
  <1>6. /\ \A e \in Epochs \ {epoch + 1} : history'[e] = history[e]
        /\ history'[epoch + 1][0] = history[epoch][from]
    BY <1>1, <1>2, <1>4, <1>5
  <1>7. \A e \in Epochs : e <= epoch => history'[e] = history[e]
    BY <1>1, <1>6, LogTypes
  <1>8. OwnerGrows
    <2>1. \A e \in Epochs : length[e] \in Nat /\ length'[e] = length[e]
      BY LogTypes DEF StartEpoch
    <2>2. \A e \in Epochs : (length[e] + 1)..length'[e] = {}
      BY <2>1
    <2> QED
      BY <1>1, <1>7, <2>1, <2>2 DEF OwnerGrows, StartEpoch
  <1> QED
    BY <1>2, <1>3, <1>6, <1>8, LogTypes DEF StartEpoch

\* The log only grows.
LEMMA Growth ==
  ASSUME TypeInv, Unbegun, OwnerNext \/ UNCHANGED owner
  PROVE  OwnerGrows
  <1>1. ASSUME NEW t \in Tenants, NEW to \in LifecycleStatus, CommitEvent(t, to) PROVE OwnerGrows
    BY <1>1, CommitGrows
  <1>2. ASSUME NEW from \in 0..MaxSequence, StartEpoch(from) PROVE OwnerGrows
    BY <1>2, EpochGrows
  <1>3. \A e \in Epochs : length[e] \in Nat /\ (length[e] + 1)..length[e] = {}
    BY LogTypes
  <1>4. CASE Tick
    BY <1>3, <1>4, LogTypes DEF Tick, OwnerGrows
  <1>5. CASE UNCHANGED owner
    BY <1>3, <1>5, LogTypes DEF owner, OwnerGrows
  <1> QED
    BY <1>1, <1>2, <1>4, <1>5 DEF OwnerNext

LEMMA CommitKeepsLog ==
  ASSUME TypeInv, LogInv, NEW t \in Tenants, NEW to \in LifecycleStatus, CommitEvent(t, to)
  PROVE  LogInv'
  <1> DEFINE last == length[epoch]
  <1> USE DEF LogInv
  <1>0. /\ epoch \in Epochs /\ epoch \in Nat /\ now \in Nat /\ last \in Nat /\ last <= MaxSequence
        /\ MaxSequence \in Nat
    BY LogTypes
  <1>1. /\ UNCHANGED <<epoch, now>>
        /\ last + 1 \in 1..MaxSequence
        /\ length'[epoch] = last + 1
        /\ \A e \in Epochs \ {epoch} : length'[e] = length[e] /\ history'[e] = history[e] /\ event'[e] = event[e]
        /\ event'[epoch][last + 1] = [tenant |-> t, at |-> now]
        /\ \A s \in Sequences : s # last + 1 => event'[epoch][s] = event[epoch][s]
        /\ \A s \in 0..MaxSequence : s # last + 1 => history'[epoch][s] = history[epoch][s]
        /\ history'[epoch][last + 1][t] = [version |-> history[epoch][last][t].version + 1, status |-> to]
        /\ \A u \in Tenants \ {t} : history'[epoch][last + 1][u] = history[epoch][last][u]
    BY CommitGrows
  <1>2. to \in Successors(history[epoch][last][t].status) /\ Sequences = 1..MaxSequence
    BY DEF CommitEvent, Sequences
  <1> DEFINE new == [version |-> history[epoch][last][t].version + 1, status |-> to]
  <1>3. /\ \A s \in 1..last : event'[epoch][s] = event[epoch][s]
        /\ \A s \in 0..last : history'[epoch][s] = history[epoch][s]
    BY <1>0, <1>1, <1>2
  <1>4. Unbegun'
    BY <1>0, <1>1 DEF Unbegun
  <1>5. Logged'
    <2> SUFFICES ASSUME NEW e \in Epochs, NEW s \in 1..length'[e]
                 PROVE  /\ event'[e][s].at <= now
                        /\ Follows(history'[e][s - 1], history'[e][s], event'[e][s].tenant)
      BY <1>1 DEF Logged
    <2>1. CASE e # epoch
      <3>1. s \in 1..length[e]
        BY <1>1, <2>1
      <3> QED
        BY <1>1, <2>1, <3>1 DEF Logged
    <2>2. CASE e = epoch /\ s # last + 1
      <3>1. s \in 1..last /\ s - 1 \in 0..last /\ s \in 0..last
        BY <1>0, <1>1, <2>2
      <3>2. event'[e][s] = event[e][s] /\ history'[e][s] = history[e][s] /\ history'[e][s - 1] = history[e][s - 1]
        BY <1>3, <2>2, <3>1
      <3> QED
        BY <2>2, <3>1, <3>2 DEF Logged
    <2>3. CASE e = epoch /\ s = last + 1
      <3>1. s - 1 = last /\ last \in 0..last
        BY <1>0, <2>3
      <3>2. history'[e][s - 1] = history[epoch][last]
        BY <1>3, <2>3, <3>1
      <3>3. event'[e][s].tenant = t /\ event'[e][s].at = now
        BY <1>1, <2>3
      <3>4. history'[e][s][t].version = history[epoch][last][t].version + 1 /\ history'[e][s][t].status = to
        BY <1>1, <2>3
      <3>5. Follows(history[epoch][last], history'[e][s], t)
        BY <1>1, <1>2, <2>3, <3>4 DEF Follows
      <3> QED
        BY <1>0, <3>2, <3>3, <3>5
    <2> QED
      BY <2>1, <2>2, <2>3
  <1>6. Unmentioned'
    <2> SUFFICES ASSUME NEW e \in Epochs, NEW s \in 0..length'[e], NEW u \in 0..length'[e],
                        NEW x \in Tenants, s <= u, \A k \in (s + 1)..u : event'[e][k].tenant # x
                 PROVE  history'[e][u][x] = history'[e][s][x]
      BY DEF Unmentioned, FactAt
    <2>1. CASE e # epoch
      BY <1>1, <2>1 DEF Unmentioned, FactAt
    <2>2. CASE e = epoch /\ u # last + 1
      <3>1. s \in 0..last /\ u \in 0..last
        BY <1>0, <1>1, <2>2
      <3>2. \A k \in (s + 1)..u : k \in 1..last
        BY <1>0, <3>1
      <3>3. \A k \in (s + 1)..u : event[e][k].tenant # x
        BY <1>3, <2>2, <3>2
      <3> QED
        BY <1>3, <2>2, <3>1, <3>3 DEF Unmentioned, FactAt
    <2>3. CASE e = epoch /\ u = last + 1 /\ s # last + 1
      <3>1. s \in 0..last /\ last \in 0..last /\ s <= last /\ u \in (s + 1)..u
        BY <1>0, <1>1, <2>3
      <3>2. x # t
        BY <1>1, <2>3, <3>1
      <3>3. \A k \in (s + 1)..last : k \in 1..last /\ k \in (s + 1)..u
        BY <1>0, <2>3, <3>1
      <3>4. \A k \in (s + 1)..last : event[e][k].tenant # x
        BY <1>3, <2>3, <3>3
      <3>5. history[e][last][x] = history[e][s][x]
        BY <2>3, <3>1, <3>4 DEF Unmentioned, FactAt
      <3> QED
        BY <1>1, <1>3, <2>3, <3>1, <3>2, <3>5
    <2>4. CASE e = epoch /\ u = last + 1 /\ s = last + 1
      BY <2>4
    <2> QED
      BY <2>1, <2>2, <2>3, <2>4
  <1>7. Created'
    <2> SUFFICES ASSUME NEW e \in Epochs, NEW s \in 0..length'[e], NEW x \in Tenants
                 PROVE  history'[e][s][x].version = 0 <=> history'[e][s][x].status = "absent"
      BY DEF Created, FactAt
    <2>1. CASE e # epoch
      BY <1>1, <2>1 DEF Created, FactAt
    <2>2. CASE e = epoch /\ s # last + 1
      <3>1. s \in 0..last
        BY <1>0, <1>1, <2>2
      <3> QED
        BY <1>3, <2>2, <3>1 DEF Created, FactAt
    <2>3. CASE e = epoch /\ s = last + 1 /\ x # t
      <3>1. last \in 0..last
        BY <1>0
      <3> QED
        BY <1>1, <2>3, <3>1 DEF Created, FactAt
    <2>4. CASE e = epoch /\ s = last + 1 /\ x = t
      <3>1. history[epoch][last][t].version \in Nat
        BY <1>0, LogTypes DEF Fact
      <3>2. new.version # 0 /\ new.status # "absent"
        BY <1>2, <3>1 DEF Successors, LifecycleStatus
      <3> QED
        BY <1>1, <2>4, <3>2
    <2> QED
      BY <2>1, <2>2, <2>3, <2>4
  <1> QED
    BY <1>4, <1>5, <1>6, <1>7

LEMMA EpochKeepsLog ==
  ASSUME TypeInv, LogInv, NEW from \in 0..MaxSequence, StartEpoch(from)
  PROVE  LogInv'
  <1> USE DEF LogInv
  <1> DEFINE next == epoch + 1
  <1>1. /\ UNCHANGED <<length, event, now>>
        /\ epoch' = next /\ next \in Epochs /\ length[next] = 0
        /\ from <= length[epoch]
        /\ \A e \in Epochs \ {next} : history'[e] = history[e]
        /\ history'[next][0] = history[epoch][from]
    BY EpochGrows
  <1>2. epoch \in Epochs /\ epoch \in Nat /\ \A e \in Epochs : e \in Nat /\ length[e] \in Nat
    BY LogTypes
  <1>3. Unbegun'
    BY <1>1, <1>2 DEF Unbegun
  <1>4. 1..length[next] = {} /\ 0..length[next] = {0}
    BY <1>1
  <1>5. Logged'
    <2> SUFFICES ASSUME NEW e \in Epochs, NEW s \in 1..length[e]
                 PROVE  /\ event[e][s].at <= now
                        /\ Follows(history'[e][s - 1], history'[e][s], event[e][s].tenant)
      BY <1>1 DEF Logged
    <2>1. e # next
      BY <1>4
    <2> QED
      BY <1>1, <2>1 DEF Logged
  <1>6. Unmentioned'
    <2> SUFFICES ASSUME NEW e \in Epochs, NEW s \in 0..length[e], NEW u \in 0..length[e],
                        NEW x \in Tenants, s <= u, \A k \in (s + 1)..u : event[e][k].tenant # x
                 PROVE  history'[e][u][x] = history'[e][s][x]
      BY <1>1 DEF Unmentioned, FactAt
    <2>1. CASE e = next
      BY <1>4, <2>1
    <2>2. CASE e # next
      BY <1>1, <2>2 DEF Unmentioned, FactAt
    <2> QED
      BY <2>1, <2>2
  <1>7. Created'
    <2> SUFFICES ASSUME NEW e \in Epochs, NEW s \in 0..length[e], NEW x \in Tenants
                 PROVE  history'[e][s][x].version = 0 <=> history'[e][s][x].status = "absent"
      BY <1>1 DEF Created, FactAt
    <2>1. CASE e = next
      <3>1. s = 0 /\ from \in 0..length[epoch]
        BY <1>1, <1>2, <1>4, <2>1
      <3> QED
        BY <1>1, <1>2, <2>1, <3>1 DEF Created, FactAt
    <2>2. CASE e # next
      BY <1>1, <2>2 DEF Created, FactAt
    <2> QED
      BY <2>1, <2>2
  <1> QED
    BY <1>3, <1>5, <1>6, <1>7

\* What is said of the log stays true as it grows.
LEMMA LogStays ==
  ASSUME TypeInv, LogInv, OwnerNext \/ UNCHANGED owner
  PROVE  LogInv'
  <1>1. ASSUME NEW t \in Tenants, NEW to \in LifecycleStatus, CommitEvent(t, to) PROVE LogInv'
    BY <1>1, CommitKeepsLog
  <1>2. ASSUME NEW from \in 0..MaxSequence, StartEpoch(from) PROVE LogInv'
    BY <1>2, EpochKeepsLog
  <1>3. CASE Tick
    <2>1. UNCHANGED <<epoch, length, history, event>> /\ now <= now' /\ now \in Nat /\ now' \in Nat
      BY <1>3, LogTypes DEF Tick
    <2>2. ASSUME NEW e \in Epochs, NEW s \in 1..length[e] PROVE event[e][s].at <= now'
      <3>1. event[e][s].at <= now
        BY <2>2 DEF LogInv, Logged
      <3>2. event[e][s].at \in Nat
        <4>1. s \in Sequences
          BY <2>2, LogTypes DEF Sequences
        <4> QED
          BY <4>1, LogTypes
      <3> QED
        BY <2>1, <3>1, <3>2
    <2>3. Logged'
      BY <2>1, <2>2 DEF LogInv, Logged
    <2> QED
      BY <2>1, <2>3 DEF LogInv, Unbegun, Unmentioned, Created, FactAt
  <1>4. CASE UNCHANGED owner
    BY <1>4 DEF owner, LogInv, Unbegun, Logged, Unmentioned, Created, FactAt
  <1> QED
    BY <1>1, <1>2, <1>3, <1>4 DEF OwnerNext

-----------------------------------------------------------------------------
(***************************************************************************)
(* What was published, sent, cut and built stays as the log grows.         *)
(***************************************************************************)
LEMMA CommittedForm ==
  ASSUME TypeInv
  PROVE  /\ \A p \in Committed : p[1] \in Epochs /\ p[2] \in 1..length[p[1]]
         /\ \A e \in Epochs : \A s \in 1..length[e] :
              /\ <<e, s>> \in Committed /\ s \in Sequences
              /\ <<e, s>>[1] = e /\ <<e, s>>[2] = s
  <1>1. ASSUME NEW p \in Committed PROVE p[1] \in Epochs /\ p[2] \in 1..length[p[1]]
    BY LogTypes DEF Committed, Sequences
  <1>2. ASSUME NEW e \in Epochs, NEW s \in 1..length[e]
        PROVE  <<e, s>> \in Committed /\ s \in Sequences
    BY LogTypes DEF Committed, Sequences
  <1> QED
    BY <1>1, <1>2

\* A message is an event of the log, or a heartbeat that was sent.
LEMMA MessageForm ==
  ASSUME TypeInv, BeatsAreTrue, NEW m \in Published
  PROVE  /\ m \in Message
         /\ m.kind = "heartbeat" => m \in beats
         /\ m.kind = "lifecycle" =>
              /\ m.epoch \in Epochs /\ m.number \in 1..length[m.epoch]
              /\ m = Event(m.epoch, m.number)
  <1>1. m \in Message
    BY PublishedTypes DEF TypeInv
  <1>2. CASE m \in beats
    BY <1>1, <1>2 DEF BeatsAreTrue
  <1>3. ASSUME NEW p \in Committed, m = Event(p[1], p[2])
        PROVE  /\ m.kind = "lifecycle" /\ m.epoch \in Epochs /\ m.number \in 1..length[m.epoch]
               /\ m = Event(m.epoch, m.number)
    BY <1>3, CommittedForm DEF Event
  <1> QED
    BY <1>1, <1>2, <1>3 DEF Published

LEMMA PublishedStays ==
  ASSUME TypeInv, TypeInv', OwnerGrows, beats \subseteq beats'
  PROVE  Committed \subseteq Committed' /\ Published \subseteq Published'
  <1>1. ASSUME NEW p \in Committed PROVE p \in Committed' /\ event'[p[1]][p[2]] = event[p[1]][p[2]]
    <2>1. p \in Epochs \X Sequences /\ p[1] \in Epochs /\ p[2] \in 1..length[p[1]]
      BY CommittedForm DEF Committed
    <2>2. length'[p[1]] \in Nat /\ length[p[1]] \in Nat /\ length[p[1]] <= length'[p[1]]
      <3>1. OwnerTypeOK'
        BY DEF TypeInv, TypeOK
      <3>2. length'[p[1]] \in 0..MaxSequence
        BY <2>1, <3>1 DEF OwnerTypeOK
      <3> QED
        BY <2>1, <3>2, LogTypes DEF OwnerGrows
    <2>3. p[2] <= length'[p[1]]
      BY <2>1, <2>2
    <2> QED
      BY <2>1, <2>3 DEF Committed, OwnerGrows
  <1>2. ASSUME NEW p \in Committed PROVE Event(p[1], p[2])' = Event(p[1], p[2])
    BY <1>1 DEF Event
  <1>3. ASSUME NEW m \in Published PROVE m \in Published'
    <2>1. CASE m \in beats
      BY <2>1 DEF Published
    <2>2. ASSUME NEW p \in Committed, m = Event(p[1], p[2]) PROVE m \in Published'
      <3>1. p \in Committed' /\ m = Event(p[1], p[2])'
        BY <1>1, <1>2, <2>2
      <3> QED
        BY <3>1 DEF Published
    <2> QED
      BY <2>1, <2>2 DEF Published
  <1> QED
    BY <1>1, <1>3

\* Types of the log after a step.
LEMMA GrownTypes ==
  ASSUME TypeInv'
  PROVE  /\ epoch' \in Epochs /\ epoch' \in Nat /\ now' \in Nat
         /\ \A e \in Epochs : length'[e] \in Nat /\ length'[e] <= MaxSequence
  <1>1. OwnerTypeOK'
    BY DEF TypeInv, TypeOK
  <1> QED
    BY <1>1, OwnerAssumption DEF OwnerTypeOK, Epochs

LEMMA BeatTypes ==
  ASSUME TypeInv
  PROVE  \A b \in beats : b.epoch \in Epochs /\ b.epoch \in Nat /\ b.number \in Nat /\ b.at \in Nat
  BY OwnerAssumption DEF TypeInv, TypeOK, Message, Epochs

LEMMA BeatsStay ==
  ASSUME TypeInv, TypeInv', OwnerGrows, BeatsAreTrue
  PROVE  \A b \in beats : /\ b.kind = "heartbeat" /\ b.epoch <= epoch' /\ b.number <= length'[b.epoch]
                          /\ b.at <= now' /\ CoveredBy(b)'
  <1> SUFFICES ASSUME NEW b \in beats
               PROVE  /\ b.kind = "heartbeat" /\ b.epoch <= epoch' /\ b.number <= length'[b.epoch]
                      /\ b.at <= now' /\ CoveredBy(b)'
    OBVIOUS
  <1>1. b.epoch \in Epochs /\ b.epoch \in Nat /\ b.number \in Nat /\ b.at \in Nat
    BY BeatTypes
  <1>2. /\ b.kind = "heartbeat" /\ b.epoch <= epoch /\ b.number <= length[b.epoch] /\ b.at <= now
        /\ CoveredBy(b)
    BY DEF BeatsAreTrue
  <1>3. b.epoch <= epoch' /\ b.number <= length'[b.epoch] /\ b.at <= now'
    BY <1>1, <1>2, LogTypes, GrownTypes DEF OwnerGrows
  <1>4. ASSUME NEW p \in Committed', event'[p[1]][p[2]].at < b.at
        PROVE  p[1] < b.epoch \/ (p[1] = b.epoch /\ p[2] <= b.number)
    <2>1. p \in Epochs \X Sequences /\ p[1] \in Epochs /\ p[2] \in Sequences /\ p[2] <= length'[p[1]]
      BY DEF Committed
    <2>2. p[2] \in Nat /\ p[2] >= 1
      BY <2>1, OwnerAssumption DEF Sequences
    <2>3. CASE p[2] <= length[p[1]]
      <3>1. p \in Committed /\ event'[p[1]][p[2]] = event[p[1]][p[2]]
        BY <2>1, <2>2, <2>3, LogTypes DEF Committed, OwnerGrows
      <3> QED
        BY <1>2, <1>4, <3>1 DEF CoveredBy
    <2>4. CASE ~ (p[2] <= length[p[1]])
      <3>1. p[2] \in (length[p[1]] + 1)..length'[p[1]]
        BY <2>1, <2>2, <2>4, LogTypes, GrownTypes
      <3>2. event'[p[1]][p[2]].at = now
        BY <2>1, <3>1 DEF OwnerGrows
      <3> QED
        BY <1>1, <1>2, <1>4, <3>2, LogTypes
    <2> QED
      BY <2>3, <2>4
  <1>5. CoveredBy(b)'
    BY <1>4 DEF CoveredBy
  <1> QED
    BY <1>2, <1>3, <1>5

\* A heartbeat reports all that was committed before it.
LEMMA HeartbeatIsTrue ==
  ASSUME TypeInv, TypeInv', Unbegun, BeatsAreTrue, BeatsAreOrdered, EmitHeartbeat
  PROVE  BeatsAreTrue' /\ BeatsAreOrdered'
  <1>1. PICK h : h = Heartbeat(now) /\ beats' = beats \cup {h} /\ UNCHANGED owner
    BY DEF EmitHeartbeat
  <1>2. h.kind = "heartbeat" /\ h.epoch = epoch /\ h.number = length[epoch] /\ h.at = now
    BY <1>1 DEF Heartbeat
  <1>3. OwnerGrows
    BY <1>1, Growth
  <1>4. CoveredBy(h)'
    <2> SUFFICES ASSUME NEW p \in Committed' PROVE p[1] < h.epoch \/ (p[1] = h.epoch /\ p[2] <= h.number)
      BY DEF CoveredBy
    <2>1. p[1] \in Epochs /\ p[2] \in Sequences /\ p[2] <= length[p[1]]
      BY <1>1 DEF Committed, owner
    <2>2. p[2] >= 1 /\ p[2] \in Nat
      BY <2>1, OwnerAssumption DEF Sequences
    <2>3. ~ (p[1] > epoch)
      BY <2>1, <2>2 DEF Unbegun
    <2> QED
      BY <1>2, <2>1, <2>3, LogTypes
  <1>5. epoch' = epoch /\ length' = length /\ now' = now
    BY <1>1 DEF owner
  <1>6. BeatsAreTrue'
    <2>1. \A b \in beats : /\ b.kind = "heartbeat" /\ b.epoch <= epoch' /\ b.number <= length'[b.epoch]
                           /\ b.at <= now' /\ CoveredBy(b)'
      BY <1>3, BeatsStay
    <2>2. h.epoch <= epoch' /\ h.number <= length'[h.epoch] /\ h.at <= now'
      BY <1>2, <1>5, LogTypes
    <2> QED
      BY <1>1, <1>2, <1>4, <2>1, <2>2 DEF BeatsAreTrue
  <1>7. BeatsAreOrdered'
    <2> SUFFICES ASSUME NEW b \in beats', NEW c \in beats', b.epoch = c.epoch, b.at < c.at
                 PROVE  b.number <= c.number
      BY DEF BeatsAreOrdered
    <2>1. \A d \in beats : d.at <= now /\ d.at \in Nat /\ d.number <= length[d.epoch]
      BY BeatTypes DEF BeatsAreTrue
    <2>2. CASE b \in beats /\ c \in beats
      BY <2>2 DEF BeatsAreOrdered
    <2>3. CASE b = h
      BY <1>1, <1>2, <2>1, <2>3, LogTypes
    <2>4. CASE b \in beats /\ c = h
      BY <1>2, <2>1, <2>4
    <2> QED
      BY <1>1, <2>2, <2>3, <2>4
  <1> QED
    BY <1>6, <1>7

\* A position the pipeline or a build is at is still there, with its facts.
LEMMA PositionStays ==
  ASSUME TypeInv, TypeInv', OwnerGrows, NEW e \in Epochs, e <= epoch, NEW s \in Nat, s <= length[e]
  PROVE  e <= epoch' /\ s <= length'[e] /\ history'[e][s] = history[e][s]
  <1>1. s \in 0..length[e]
    BY LogTypes
  <1>2. e \in Nat
    BY LogTypes
  <1> QED
    BY <1>1, <1>2, LogTypes, GrownTypes DEF OwnerGrows

LEMMA PipelineTypes ==
  ASSUME TypeInv
  PROVE  /\ pipeline.epoch \in Nat /\ pipeline.applied \in Nat /\ pipeline.highest \in Nat
         /\ pipeline.heartbeat.epoch \in Nat /\ pipeline.heartbeat.committed \in Nat
         /\ pipeline.heartbeat.at \in Nat /\ pipeline.required \in BOOLEAN
         /\ pipeline.generation \in SnapshotId
  BY OwnerAssumption DEF TypeInv, TypeOK, PipelineRow, HeartbeatRow

LEMMA PipelineStays ==
  ASSUME TypeInv, TypeInv', OwnerGrows, PipelineInv, UNCHANGED <<pipeline, view, receipts>>,
         beats \subseteq beats'
  PROVE  PipelineInv'
  <1>1. Positioned'
    <2>1. CASE pipeline.generation = None
      BY <2>1 DEF PipelineInv, Positioned
    <2>2. CASE pipeline.generation # None
      BY <2>2, PositionStays, PipelineTypes DEF PipelineInv, Positioned
    <2> QED
      BY <2>1, <2>2
  <1> QED
    BY <1>1 DEF PipelineInv, HeartbeatIsSent, HighestCovers

SameCut(i) == snapshot'[i].epoch = snapshot[i].epoch /\ snapshot'[i].watermark = snapshot[i].watermark

LEMMA CutTypes ==
  ASSUME TypeInv
  PROVE  \A i \in Snapshots : /\ snapshot[i].epoch \in Epochs /\ snapshot[i].epoch \in Nat
                               /\ snapshot[i].watermark \in Nat
  BY OwnerAssumption DEF TypeInv, TypeOK, CutRow, Epochs

LEMMA BuildTypes ==
  ASSUME TypeInv, Pending
  PROVE  /\ build.id \in Snapshots /\ build.applied \in Nat /\ build.facts \in Facts
         /\ Cut.epoch \in Epochs /\ Cut.epoch \in Nat /\ Cut.watermark \in Nat
         /\ build.applied \in 0..MaxSequence
  <1>1. build.id \in Snapshots
    BY PendingTypes
  <1>2. build.applied \in 0..MaxSequence /\ build.facts \in Facts
    BY DEF TypeInv, TypeOK, BuildRow
  <1> QED
    BY <1>1, <1>2, CutTypes, OwnerAssumption DEF Cut

LEMMA CutsStay ==
  ASSUME TypeInv, TypeInv', OwnerGrows, CutsAreCommitted,
         \A i \in Snapshots : \/ SameCut(i)
                              \/ snapshot'[i].epoch = epoch /\ snapshot'[i].watermark = length[epoch]
  PROVE  CutsAreCommitted'
  <1> SUFFICES ASSUME NEW i \in Snapshots
               PROVE  snapshot'[i].epoch <= epoch' /\ snapshot'[i].watermark <= length'[snapshot'[i].epoch]
    BY DEF CutsAreCommitted
  <1>1. CASE SameCut(i)
    BY <1>1, CutTypes, PositionStays DEF SameCut, CutsAreCommitted
  <1>2. CASE snapshot'[i].epoch = epoch /\ snapshot'[i].watermark = length[epoch]
    BY <1>2, LogTypes, PositionStays
  <1> QED
    BY <1>1, <1>2

\* A build nobody touches stays what it is while events and receipts come.
LEMMA BuildStays ==
  ASSUME TypeInv, TypeInv', OwnerGrows, CutsAreCommitted, BuildIsFaithful, UNCHANGED build,
         Pending => SameCut(build.id), receipts \subseteq receipts'
  PROVE  BuildIsFaithful'
  <1> SUFFICES ASSUME Pending PROVE BuildIsFaithful'
    BY DEF BuildIsFaithful, Pending
  <1>1. Cut'.epoch = Cut.epoch /\ Cut'.watermark = Cut.watermark
    BY DEF SameCut, Cut
  <1>2. /\ build.state \in {"loading", "loaded", "catching_up"}
        /\ Cut.watermark <= build.applied /\ build.applied <= length[Cut.epoch]
        /\ build.state = "loading" => build.applied = Cut.watermark
        /\ \A t \in Tenants :
              build.facts[t] = IF build.state # "loading" \/ t \in build.loaded
                               THEN history[Cut.epoch][build.applied][t] ELSE NoFact
        /\ IncrementsReceived
    BY DEF BuildIsFaithful
  <1>3. Cut.epoch <= epoch
    BY BuildTypes DEF CutsAreCommitted, Cut
  <1>4. /\ build.applied <= length'[Cut.epoch]
        /\ history'[Cut.epoch][build.applied] = history[Cut.epoch][build.applied]
    BY <1>2, <1>3, BuildTypes, PositionStays
  <1>5. ASSUME NEW s \in (Cut.watermark + 1)..build.applied
        PROVE  [message |-> Event(Cut.epoch, s)', version |-> build.authority[1]] \in receipts'
    <2>1. s \in 1..length[Cut.epoch]
      BY <1>2, BuildTypes, LogTypes
    <2>2. event'[Cut.epoch][s] = event[Cut.epoch][s]
      BY <2>1, BuildTypes DEF OwnerGrows
    <2>3. Event(Cut.epoch, s) = [kind |-> "lifecycle", epoch |-> Cut.epoch, number |-> s,
                                 at |-> event'[Cut.epoch][s].at]
      BY <2>2 DEF Event
    <2>4. [message |-> Event(Cut.epoch, s), version |-> build.authority[1]] \in receipts
      BY <1>2 DEF IncrementsReceived
    <2> QED
      BY <1>1, <2>3, <2>4 DEF Event
  <1>6. IncrementsReceived'
    BY <1>1, <1>5 DEF IncrementsReceived, Event
  <1> QED
    BY <1>1, <1>2, <1>4, <1>6 DEF BuildIsFaithful, NoFact

-----------------------------------------------------------------------------
(***************************************************************************)
(* Applying a message.                                                     *)
(***************************************************************************)
\* What the owner did is what the projection takes for a valid transition.
LEMMA SuccessorsFit ==
  ASSUME NEW old \in Fact, NEW new \in Fact, old.version = 0 <=> old.status = "absent",
         new.status \in Successors(old.status)
  PROVE  lifecycleTransition(old.status, new.status, old.version = 0)
  BY DEF Successors, LifecycleStatus, lifecycleTransition, Fact

\* The event at a position changes one Tenant's facts, to the next version.
LEMMA Sequel ==
  ASSUME TypeInv, LogInv, NEW e \in Epochs, NEW s \in 1..length[e], NEW t, t = event[e][s].tenant
  PROVE  /\ t \in Tenants /\ s - 1 \in 0..length[e] /\ s \in 0..length[e]
         /\ history[e][s - 1] \in Facts /\ history[e][s] \in Facts
         /\ history[e][s] = [history[e][s - 1] EXCEPT ![t] = history[e][s][t]]
         /\ history[e][s][t].version = history[e][s - 1][t].version + 1
         /\ lifecycleTransition(history[e][s - 1][t].status, history[e][s][t].status,
                                history[e][s - 1][t].version = 0)
  <1>1. s - 1 \in 0..length[e] /\ s \in 0..length[e] /\ s - 1 \in 0..MaxSequence /\ s \in 0..MaxSequence
    BY LogTypes
  <1>2. history[e][s - 1] \in [Tenants -> Fact] /\ history[e][s] \in [Tenants -> Fact]
    BY <1>1, LogTypes
  <1>3. Follows(history[e][s - 1], history[e][s], t)
    BY DEF LogInv, Logged
  <1>4. /\ t \in Tenants
        /\ history[e][s][t].version = history[e][s - 1][t].version + 1
        /\ history[e][s][t].status \in Successors(history[e][s - 1][t].status)
        /\ \A u \in Tenants \ {t} : history[e][s][u] = history[e][s - 1][u]
    BY <1>3 DEF Follows
  <1>5. history[e][s - 1][t].version = 0 <=> history[e][s - 1][t].status = "absent"
    BY <1>1, <1>4 DEF LogInv, Created, FactAt
  <1>6. history[e][s - 1][t] \in Fact /\ history[e][s][t] \in Fact
    BY <1>2, <1>4
  <1>7. lifecycleTransition(history[e][s - 1][t].status, history[e][s][t].status,
                            history[e][s - 1][t].version = 0)
    BY <1>4, <1>5, <1>6, SuccessorsFit
  <1>8. history[e][s] = [history[e][s - 1] EXCEPT ![t] = history[e][s][t]]
    BY <1>2, <1>4
  <1> QED
    BY <1>1, <1>2, <1>4, <1>7, <1>8 DEF Facts

\* The next event of the log is applied, and leads to the next position.
LEMMA NextIsApplied ==
  ASSUME TypeInv, LogInv, BeatsAreTrue, Positioned, NEW m \in Published, m.kind = "lifecycle",
         pipeline.epoch = m.epoch, ~ pipeline.required, m.number = pipeline.applied + 1
  PROVE  /\ Outcome(m) = "applied"
         /\ [view EXCEPT ![TenantOf(m)] = FactOf(m)] = history[m.epoch][m.number]
  <1>1. m.epoch \in Epochs /\ m.number \in 1..length[m.epoch] /\ m = Event(m.epoch, m.number)
    BY MessageForm
  <1>2. PICK e, s, t :
          /\ e \in Epochs /\ s \in Nat /\ s \in 1..length[e]
          /\ e = m.epoch /\ s = m.number /\ t = event[e][s].tenant
    BY <1>1
  <1>3. TenantOf(m) = t /\ FactOf(m) = history[e][s][t]
    BY <1>2 DEF TenantOf, FactOf
  <1>4. pipeline.applied = s - 1 /\ view = history[e][s - 1]
    BY <1>2, PipelineTypes DEF Positioned
  <1>5. /\ t \in Tenants
        /\ history[e][s - 1] \in Facts /\ history[e][s] \in Facts
        /\ history[e][s] = [history[e][s - 1] EXCEPT ![t] = history[e][s][t]]
        /\ history[e][s][t].version = history[e][s - 1][t].version + 1
        /\ lifecycleTransition(history[e][s - 1][t].status, history[e][s][t].status,
                               history[e][s - 1][t].version = 0)
    <2>1. e \in Epochs /\ s \in 1..length[e] /\ t = event[e][s].tenant
      BY <1>2
    <2> HIDE <1>2
    <2> QED
      BY <2>1, Sequel
  <1>6. view[t].version \in Nat /\ FactOf(m).version = view[t].version + 1
    BY <1>3, <1>4, <1>5 DEF Facts, Fact
  <1>7. ~ (FactOf(m).version <= view[t].version)
    BY <1>6
  <1>8. lifecycleTransition(view[t].status, FactOf(m).status, view[t].version = 0)
    BY <1>3, <1>4, <1>5
  <1>9. ~ (m.number <= pipeline.applied)
    BY PipelineTypes
  <1>10. Outcome(m) = "applied"
    BY <1>3, <1>6, <1>7, <1>8, <1>9 DEF Outcome, ProjectionOutcome
  <1> QED
    BY <1>2, <1>3, <1>4, <1>5, <1>10

\* No message of Governance conflicts with what is projected.
LEMMA NothingConflicts ==
  ASSUME TypeInv, LogInv, BeatsAreTrue, BeatsAreOrdered, PipelineInv, NEW m \in Published
  PROVE  Outcome(m) # "conflict"
  <1>0. m \in Message /\ m.kind \in {"lifecycle", "heartbeat"}
    BY MessageForm DEF Message
  <1>1. CASE m.kind = "lifecycle"
    <2>1. m.epoch \in Epochs /\ m.number \in 1..length[m.epoch] /\ m = Event(m.epoch, m.number)
      BY <1>1, MessageForm
    <2>2. CASE pipeline.epoch = m.epoch /\ ~ pipeline.required /\ m.number = pipeline.applied + 1
      BY <1>1, <2>2, NextIsApplied DEF PipelineInv
    <2>3. CASE ~ (pipeline.epoch = m.epoch /\ ~ pipeline.required /\ m.number = pipeline.applied + 1)
      BY <1>1, <2>3 DEF Outcome, ProjectionOutcome
    <2> QED
      BY <2>2, <2>3
  <1>2. CASE m.kind = "heartbeat"
    <2>1. m \in beats /\ m.epoch \in Nat /\ m.number \in Nat /\ m.at \in Nat
      BY <1>2, MessageForm, BeatTypes
    <2>2. CASE pipeline.heartbeat = NoHeartbeat
      <3>1. pipeline.heartbeat.committed = 0
        BY <2>2 DEF NoHeartbeat
      <3>2. ~ (m.number < pipeline.heartbeat.committed)
        BY <2>1, <3>1
      <3> QED
        BY <1>2, <3>2 DEF Outcome, HeartbeatOutcome
    <2>3. ASSUME NEW b \in beats, b.epoch = pipeline.epoch,
                 pipeline.heartbeat = [epoch |-> b.epoch, committed |-> b.number, at |-> b.at],
                 pipeline.heartbeat # NoHeartbeat
          PROVE  Outcome(m) # "conflict"
      <3>1. pipeline.heartbeat.committed = b.number /\ pipeline.heartbeat.at = b.at
        BY <2>3
      <3>2. b.number \in Nat /\ b.at \in Nat
        BY <2>3, BeatTypes
      <3>3. CASE pipeline.epoch = m.epoch /\ ~ (m.at <= b.at)
        <4>1. b.number <= m.number
          BY <2>1, <2>3, <3>2, <3>3 DEF BeatsAreOrdered
        <4>2. ~ (m.number < b.number)
          BY <2>1, <3>2, <4>1
        <4> QED
          BY <1>2, <3>1, <4>2 DEF Outcome, HeartbeatOutcome
      <3>4. CASE ~ (pipeline.epoch = m.epoch /\ ~ (m.at <= b.at))
        BY <1>2, <2>3, <3>1, <3>4 DEF Outcome, HeartbeatOutcome
      <3> QED
        BY <3>3, <3>4
    <2> QED
      BY <2>2, <2>3 DEF PipelineInv, HeartbeatIsSent
  <1> QED
    BY <1>0, <1>1, <1>2

\* What an event does to the pipeline's row.
LEMMA ProjectedRow ==
  ASSUME TypeInv, NEW m \in Message, NEW o, pipeline' = ProjectTenantLifecycle(pipeline, m, o)
  PROVE  /\ pipeline'.generation = pipeline.generation /\ pipeline'.epoch = pipeline.epoch
         /\ pipeline'.heartbeat = pipeline.heartbeat
         /\ pipeline'.applied = IF o = "applied" THEN m.number ELSE pipeline.applied
         /\ pipeline.required => pipeline'.required
         /\ pipeline.highest <= pipeline'.highest
         /\ pipeline.epoch = m.epoch => m.number <= pipeline'.highest
  <1>1. pipeline \in PipelineRow /\ pipeline.highest \in Nat /\ m.number \in Nat
    BY PipelineTypes, OwnerAssumption DEF TypeInv, TypeOK, Message
  <1>2. pipeline'.highest = IF pipeline.epoch = m.epoch THEN AtLeast(pipeline.highest, m.number) ELSE pipeline.highest
    BY <1>1 DEF ProjectTenantLifecycle, PipelineRow
  <1>3. pipeline.highest <= AtLeast(pipeline.highest, m.number) /\ m.number <= AtLeast(pipeline.highest, m.number)
    BY <1>1 DEF AtLeast
  <1>4. /\ pipeline'.generation = pipeline.generation /\ pipeline'.epoch = pipeline.epoch
        /\ pipeline'.heartbeat = pipeline.heartbeat
        /\ pipeline'.applied = IF o = "applied" THEN m.number ELSE pipeline.applied
        /\ pipeline.required => pipeline'.required
    BY <1>1 DEF ProjectTenantLifecycle, PipelineRow
  <1> QED
    BY <1>1, <1>2, <1>3, <1>4

\* What a heartbeat does to it.
LEMMA ObservedRow ==
  ASSUME TypeInv, NEW m \in Message, NEW o, pipeline' = ObserveTenantHeartbeat(pipeline, m, o)
  PROVE  /\ pipeline'.generation = pipeline.generation /\ pipeline'.epoch = pipeline.epoch
         /\ pipeline'.applied = pipeline.applied
         /\ pipeline.required => pipeline'.required
         /\ pipeline.highest <= pipeline'.highest
         /\ pipeline'.heartbeat = IF o = "observed" THEN [epoch |-> m.epoch, committed |-> m.number, at |-> m.at]
                                  ELSE pipeline.heartbeat
  <1>1. pipeline \in PipelineRow /\ pipeline.highest \in Nat /\ m.number \in Nat
    BY PipelineTypes, OwnerAssumption DEF TypeInv, TypeOK, Message
  <1>2. pipeline'.highest = IF o = "observed" THEN AtLeast(pipeline.highest, m.number) ELSE pipeline.highest
    BY <1>1 DEF ObserveTenantHeartbeat, PipelineRow
  <1>3. pipeline.highest <= AtLeast(pipeline.highest, m.number)
    BY <1>1 DEF AtLeast
  <1> QED
    BY <1>1, <1>2, <1>3 DEF ObserveTenantHeartbeat, PipelineRow

\* A message that is applied leads along the log, and one that is not leaves the
\* facts where they are.
LEMMA ApplyIsFaithful ==
  ASSUME TypeInv, TypeInv', LogInv, BeatsAreTrue, ReceiptsArePublished, PipelineInv, UNCHANGED <<owner, beats>>,
         NEW m \in Published, applyTenantIntegration(m)
  PROVE  PipelineInv' /\ ReceiptsArePublished' /\ receipts \subseteq receipts'
  <1>1. m \in Message /\ m.kind \in {"lifecycle", "heartbeat"} /\ m.epoch \in Epochs /\ m.number \in Nat
    BY MessageForm, OwnerAssumption DEF Message
  <1>2. OwnerGrows /\ UNCHANGED <<epoch, length, history, event, now>>
    BY Growth DEF owner, LogInv
  <1>3. Published \subseteq Published'
    BY <1>2, PublishedStays
  <1>4. CASE Retained(m)
    <2>1. UNCHANGED <<pipeline, view, receipts>>
      BY <1>4 DEF applyTenantIntegration
    <2> QED
      BY <1>2, <1>3, <2>1, PipelineStays DEF ReceiptsArePublished
  <1>5. CASE ~ Retained(m)
    <2>1. PICK row : receipts' = receipts \cup {row} /\ row.message = m
      <3>1. [message |-> m, version |-> grant[m.kind].version].message = m
        OBVIOUS
      <3> QED
        BY <1>5, <3>1 DEF applyTenantIntegration
    <2>2. ReceiptsArePublished'
      BY <1>3, <2>1 DEF ReceiptsArePublished
    <2>3. \A r \in receipts : r.message.number \in Nat
      BY OwnerAssumption DEF TypeInv, TypeOK, ReceiptRow, Message
    <2>4. pipeline.highest \in Nat /\ pipeline'.highest \in Nat
      BY OwnerAssumption DEF TypeInv, TypeOK, PipelineRow
    <2>5. CASE m.kind = "lifecycle"
      <3>1. PICK o : o = Outcome(m)
        OBVIOUS
      <3>2. /\ pipeline' = ProjectTenantLifecycle(pipeline, m, o)
            /\ view' = IF o = "applied" THEN [view EXCEPT ![TenantOf(m)] = FactOf(m)] ELSE view
        BY <1>5, <2>5, <3>1 DEF applyTenantIntegration
      <3>3. /\ pipeline'.generation = pipeline.generation /\ pipeline'.epoch = pipeline.epoch
            /\ pipeline'.heartbeat = pipeline.heartbeat
            /\ pipeline'.applied = IF o = "applied" THEN m.number ELSE pipeline.applied
            /\ pipeline.required => pipeline'.required
            /\ pipeline.highest <= pipeline'.highest
            /\ pipeline.epoch = m.epoch => m.number <= pipeline'.highest
        BY <1>1, <3>2, ProjectedRow
      <3>4. HighestCovers'
        <4> SUFFICES ASSUME NEW r \in receipts', r.message.kind = "lifecycle", r.message.epoch = pipeline.epoch
                     PROVE  r.message.number <= pipeline'.highest
          BY <3>3 DEF HighestCovers
        <4>1. CASE r \in receipts
          BY <2>3, <2>4, <3>3, <4>1 DEF PipelineInv, HighestCovers
        <4>2. CASE r = row
          BY <2>1, <3>3, <4>2
        <4> QED
          BY <2>1, <4>1, <4>2
      <3>5. HeartbeatIsSent'
        BY <3>3 DEF PipelineInv, HeartbeatIsSent
      <3>6. Positioned'
        <4>1. CASE pipeline.generation = None
          BY <3>3, <4>1 DEF PipelineInv, Positioned
        <4>2. CASE pipeline.generation # None /\ o # "applied"
          BY <1>2, <3>2, <3>3, <4>2 DEF PipelineInv, Positioned
        <4>3. CASE pipeline.generation # None /\ o = "applied"
          <5>1. pipeline.epoch = m.epoch /\ ~ pipeline.required /\ m.number = pipeline.applied + 1
            BY <2>5, <3>1, <4>3 DEF Outcome, ProjectionOutcome
          <5>2. [view EXCEPT ![TenantOf(m)] = FactOf(m)] = history[m.epoch][m.number]
            BY <2>5, <5>1, NextIsApplied DEF PipelineInv
          <5>3. m.number <= length[m.epoch]
            BY <2>5, MessageForm
          <5>4. pipeline.epoch <= epoch /\ pipeline.epoch \in Epochs
            BY <4>3 DEF PipelineInv, Positioned
          <5> QED
            BY <1>2, <3>2, <3>3, <4>3, <5>1, <5>2, <5>3, <5>4 DEF Positioned
        <4> QED
          BY <4>1, <4>2, <4>3
      <3> QED
        BY <2>1, <2>2, <3>4, <3>5, <3>6 DEF PipelineInv
    <2>6. CASE m.kind = "heartbeat"
      <3>1. PICK o : o = Outcome(m)
        OBVIOUS
      <3>2. pipeline' = ObserveTenantHeartbeat(pipeline, m, o) /\ view' = view
        BY <1>5, <2>6, <3>1 DEF applyTenantIntegration
      <3>3. /\ pipeline'.generation = pipeline.generation /\ pipeline'.epoch = pipeline.epoch
            /\ pipeline'.applied = pipeline.applied
            /\ pipeline.required => pipeline'.required
            /\ pipeline.highest <= pipeline'.highest
            /\ pipeline'.heartbeat = IF o = "observed" THEN [epoch |-> m.epoch, committed |-> m.number, at |-> m.at]
                                     ELSE pipeline.heartbeat
        BY <1>1, <3>2, ObservedRow
      <3>4. HighestCovers'
        BY <2>1, <2>3, <2>4, <2>6, <3>3 DEF PipelineInv, HighestCovers
      <3>5. HeartbeatIsSent'
        <4>1. CASE o = "observed"
          <5>1. pipeline.epoch = m.epoch /\ m \in beats
            BY <2>6, <3>1, <4>1, MessageForm DEF Outcome, HeartbeatOutcome
          <5> QED
            BY <3>3, <4>1, <5>1 DEF HeartbeatIsSent
        <4>2. CASE o # "observed"
          BY <3>3, <4>2 DEF PipelineInv, HeartbeatIsSent
        <4> QED
          BY <4>1, <4>2
      <3>6. Positioned'
        BY <1>2, <3>2, <3>3 DEF PipelineInv, Positioned
      <3> QED
        BY <2>1, <2>2, <3>4, <3>5, <3>6 DEF PipelineInv
    <2> QED
      BY <1>1, <2>5, <2>6
  <1> QED
    BY <1>4, <1>5

\* What is said of the messages stays when no receiver moves.
LEMMA MessagesStay ==
  ASSUME TypeInv, TypeInv', OwnerGrows, MessageInv, UNCHANGED <<beats, receipts, dlq, receiver>>
  PROVE  MessageInv'
  <1>1. BeatsAreTrue' /\ BeatsAreOrdered'
    BY BeatsStay DEF MessageInv, BeatsAreTrue, BeatsAreOrdered
  <1>2. ReceiptsArePublished'
    BY PublishedStays DEF MessageInv, ReceiptsArePublished
  <1> QED
    BY <1>1, <1>2 DEF MessageInv, NoConflictInHand, NoFalseConflict

\* A receiver that takes a message for another reason than a conflict.
LEMMA HandStays ==
  ASSUME TypeInv, NoConflictInHand, NEW r \in Receivers, NEW new, new.reason # "event_conflict",
         receiver' = [receiver EXCEPT ![r] = new]
  PROVE  NoConflictInHand'
  <1>1. \A q \in Receivers : receiver'[q] = IF q = r THEN new ELSE receiver[q]
    BY DEF TypeInv, TypeOK
  <1> QED
    BY <1>1 DEF NoConflictInHand

BrokerStep == (\E r \in Receivers : ReceiverNext(r)) \/ (\E m \in Published : ReplayDLQ(m))

\* A receiver, and a replay, keep the projection on the log and set nothing
\* aside that the owner sent in order.
LEMMA BrokerIsFaithful ==
  ASSUME TypeInv, TypeInv', LogInv, MessageInv, PipelineInv, BrokerStep
  PROVE  /\ MessageInv' /\ PipelineInv' /\ receipts \subseteq receipts'
         /\ UNCHANGED <<owner, beats, rebuild>>
  <1>0. ASSUME UNCHANGED <<owner, beats>> PROVE OwnerGrows /\ BeatsAreTrue' /\ BeatsAreOrdered'
    <2>1. OwnerGrows
      BY <1>0, Growth DEF LogInv
    <2> QED
      BY <1>0, <2>1, BeatsStay DEF MessageInv, BeatsAreTrue, BeatsAreOrdered
  <1>a. ASSUME NEW r \in Receivers, NEW step, NEW m, Await(r, step, m, "none") PROVE NoConflictInHand'
    <2>1. PICK new : new = [step |-> step, message |-> m, reason |-> "none"]
      OBVIOUS
    <2>2. new.reason # "event_conflict" /\ receiver' = [receiver EXCEPT ![r] = new]
      BY <1>a, <2>1 DEF Await
    <2> QED
      BY <2>2, HandStays DEF MessageInv
  <1>b. ASSUME UNCHANGED <<owner, beats, receipts, pipeline, view>>
        PROVE  PipelineInv' /\ ReceiptsArePublished'
    BY <1>0, <1>b, PipelineStays, PublishedStays DEF MessageInv, ReceiptsArePublished
  <1>1. ASSUME NEW r \in Receivers, NEW m \in Published, Receive(r, m)
        PROVE  MessageInv' /\ PipelineInv' /\ receipts \subseteq receipts' /\ UNCHANGED <<owner, beats, rebuild>>
    <2>1. PipelineInv' /\ ReceiptsArePublished' /\ receipts \subseteq receipts'
      BY <1>1, ApplyIsFaithful DEF Receive, MessageInv
    <2>2. NoConflictInHand'
      BY <1>1, <1>a DEF Receive
    <2> QED
      BY <1>0, <1>1, <2>1, <2>2 DEF Receive, MessageInv, NoFalseConflict
  <1>2. ASSUME NEW r \in Receivers, NEW m \in Published, ReceiveQuarantined(r, m)
        PROVE  MessageInv' /\ PipelineInv' /\ receipts \subseteq receipts' /\ UNCHANGED <<owner, beats, rebuild>>
    <2>1. NoConflictInHand'
      BY <1>2, <1>a DEF ReceiveQuarantined
    <2> QED
      BY <1>0, <1>2, <1>b, <2>1 DEF ReceiveQuarantined, MessageInv, NoFalseConflict
  <1>3. ASSUME NEW r \in Receivers, NEW m \in Published, ReceiveRefused(r, m)
        PROVE  MessageInv' /\ PipelineInv' /\ receipts \subseteq receipts' /\ UNCHANGED <<owner, beats, rebuild>>
    <2>1. Outcome(m) # "conflict"
      BY NothingConflicts DEF MessageInv
    <2>2. Refusal(m) # "event_conflict"
      BY <2>1 DEF Refusal
    <2>3. PICK new : new = [step |-> "quarantine", message |-> m, reason |-> Refusal(m)]
      OBVIOUS
    <2>4. new.reason # "event_conflict" /\ receiver' = [receiver EXCEPT ![r] = new]
      BY <1>3, <2>2, <2>3 DEF ReceiveRefused, Await
    <2>5. NoConflictInHand'
      BY <2>4, HandStays DEF MessageInv
    <2> QED
      BY <1>0, <1>3, <1>b, <2>5 DEF ReceiveRefused, MessageInv, NoFalseConflict
  <1>4. ASSUME NEW r \in Receivers, Quarantine(r)
        PROVE  MessageInv' /\ PipelineInv' /\ receipts \subseteq receipts' /\ UNCHANGED <<owner, beats, rebuild>>
    <2>1. receiver[r].reason = "authority_denied"
      BY <1>4 DEF Quarantine, TypeInv, TypeOK, InHand, ReceiverState, MessageInv, NoConflictInHand
    <2>2. NoFalseConflict'
      <3> SUFFICES ASSUME NEW d \in dlq' PROVE d.reason = "authority_denied"
        BY DEF NoFalseConflict
      <3>1. d \in dlq \/ d = [message |-> receiver[r].message, reason |-> receiver[r].reason]
        BY <1>4 DEF Quarantine
      <3> QED
        BY <2>1, <3>1 DEF MessageInv, NoFalseConflict
    <2>3. NoConflictInHand'
      BY <1>4, <1>a DEF Quarantine
    <2> QED
      BY <1>0, <1>4, <1>b, <2>2, <2>3 DEF Quarantine, MessageInv
  <1>5. ASSUME NEW r \in Receivers, Ack(r) \/ LoseDelivery(r)
        PROVE  MessageInv' /\ PipelineInv' /\ receipts \subseteq receipts' /\ UNCHANGED <<owner, beats, rebuild>>
    <2>1. Waiting.reason # "event_conflict"
      BY DEF Waiting
    <2>2. NoConflictInHand'
      BY <1>5, <2>1, HandStays DEF Ack, LoseDelivery, MessageInv
    <2> QED
      BY <1>0, <1>5, <1>b, <2>2 DEF Ack, LoseDelivery, MessageInv, NoFalseConflict
  <1>6. ASSUME NEW m \in Published, ReplayDLQ(m)
        PROVE  MessageInv' /\ PipelineInv' /\ receipts \subseteq receipts' /\ UNCHANGED <<owner, beats, rebuild>>
    <2>1. PipelineInv' /\ ReceiptsArePublished' /\ receipts \subseteq receipts'
      BY <1>6, ApplyIsFaithful DEF ReplayDLQ, MessageInv
    <2> QED
      BY <1>0, <1>6, <2>1 DEF ReplayDLQ, MessageInv, NoConflictInHand, NoFalseConflict
  <1> QED
    BY <1>1, <1>2, <1>3, <1>4, <1>5, <1>6 DEF BrokerStep, ReceiverNext

-----------------------------------------------------------------------------
(***************************************************************************)
(* The build.                                                              *)
(***************************************************************************)
\* A nonempty set of increments has a last one.
LEMMA LastExists ==
  ASSUME NEW n \in Nat, NEW S \in SUBSET (1..n), S # {}
  PROVE  \E k \in S : \A j \in S : j <= k
  <1> DEFINE D == {n - k : k \in S}
  <1>1. D \subseteq Nat /\ D # {}
    <2>1. \A k \in S : n - k \in Nat
      OBVIOUS
    <2>2. D \subseteq Nat
      BY <2>1
    <2>3. PICK k : k \in S
      OBVIOUS
    <2>4. n - k \in D
      BY <2>3
    <2> QED
      BY <2>2, <2>4
  <1>2. PICK d \in D : \A x \in D : ~ (<<x, d>> \in OpToRel(<, Nat))
    BY <1>1, NatLessThanWellFounded, WFMin
  <1>3. \A x \in D : ~ (x < d)
    BY <1>1, <1>2 DEF OpToRel
  <1>4. PICK k \in S : d = n - k
    OBVIOUS
  <1>5. ASSUME NEW j \in S PROVE j <= k
    <2>1. ~ (n - j < n - k)
      BY <1>3, <1>4
    <2> QED
      BY <2>1
  <1> QED
    BY <1>5

\* Replaying increments leads along the log: of those about a Tenant the last one
\* counts, and without any its facts are what they were.
LEMMA ReplayIsFaithful ==
  ASSUME TypeInv, LogInv, Pending, NEW n \in Nat, build.applied + n <= length[Cut.epoch],
         \A t \in Tenants : build.facts[t] = history[Cut.epoch][build.applied][t]
  PROVE  \A t \in Tenants : Replayed(n)[t] = history[Cut.epoch][build.applied + n][t]
  <1> TAKE t \in Tenants
  <1>1. PICK e \in Epochs, a \in Nat : e = Cut.epoch /\ a = build.applied
    BY BuildTypes
  <1>2. length[e] \in Nat /\ a + n <= length[e] /\ a \in 0..length[e] /\ a + n \in 0..length[e]
    BY <1>1, LogTypes
  <1>3. ASSUME NEW k \in 0..n PROVE a + k \in 0..length[e]
    BY <1>2
  <1>4. PICK about : about = {k \in 1..n : event[e][a + k].tenant = t}
    OBVIOUS
  <1>5. PICK lasts : lasts = {k \in about : \A j \in about : j <= k}
    OBVIOUS
  <1>6. \A k : TenantOf(Event(e, a + k)) = event[e][a + k].tenant /\ FactOf(Event(e, a + k)) = history[e][a + k][event[e][a + k].tenant]
    BY DEF TenantOf, FactOf, Event
  <1>7. about = {k \in 1..n : TenantOf(Event(e, a + k)) = t}
    BY <1>4, <1>6
  <1>8. Replayed(n)[t] = IF lasts = {} THEN build.facts[t] ELSE FactOf(Event(e, a + CHOOSE k \in lasts : TRUE))
    BY <1>1, <1>5, <1>7 DEF Replayed
  <1>9. ASSUME NEW k \in 0..n, \A j \in about : j <= k
        PROVE  history[e][a + n][t] = history[e][a + k][t]
    <2>1. ASSUME NEW x \in (a + k + 1)..(a + n) PROVE event[e][x].tenant # t
      <3>1. x - a \in 1..n /\ x - a > k /\ a + (x - a) = x
        OBVIOUS
      <3>2. x - a \notin about
        BY <1>9, <3>1
      <3> QED
        BY <1>4, <3>1, <3>2
    <2>2. a + k <= a + n /\ a + k \in 0..length[e]
      BY <1>3
    <2> QED
      BY <1>2, <2>1, <2>2 DEF LogInv, Unmentioned, FactAt
  <1>10. CASE lasts = {}
    <2>1. about = {}
      BY <1>4, <1>5, <1>10, LastExists
    <2>2. history[e][a + n][t] = history[e][a + 0][t]
      BY <1>9, <2>1
    <2>3. a + 0 = a
      OBVIOUS
    <2> QED
      BY <1>1, <1>8, <1>10, <2>2, <2>3
  <1>11. CASE lasts # {}
    <2>1. PICK k : k = CHOOSE x \in lasts : TRUE
      OBVIOUS
    <2>2. k \in about /\ (\A j \in about : j <= k)
      BY <1>5, <1>11, <2>1
    <2>3. k \in 1..n /\ k \in 0..n /\ event[e][a + k].tenant = t
      BY <1>4, <2>2
    <2>4. history[e][a + n][t] = history[e][a + k][t]
      BY <1>9, <2>2, <2>3
    <2>5. FactOf(Event(e, a + k)) = history[e][a + k][t]
      BY <1>6, <2>3
    <2> QED
      BY <1>1, <1>8, <1>11, <2>1, <2>4, <2>5
  <1> QED
    BY <1>10, <1>11

\* A Snapshot of which only its state changes is the same cut.
LEMMA CutsAreSame ==
  ASSUME TypeInv, NEW i \in Snapshots, NEW x,
         \/ snapshot' = [snapshot EXCEPT ![i].state = x]
         \/ snapshot' = [snapshot EXCEPT ![i].expired = x]
  PROVE  \A j \in Snapshots : SameCut(j)
  <1> SUFFICES ASSUME NEW j \in Snapshots PROVE SameCut(j)
    OBVIOUS
  <1>1. snapshot \in [Snapshots -> CutRow] /\ snapshot[j] \in CutRow
    BY DEF TypeInv, TypeOK
  <1> QED
    BY <1>1 DEF SameCut, CutRow

\* A build that is gone needs no facts, and the Snapshots stay.
LEMMA AbandonIsFaithful ==
  ASSUME TypeInv, TypeInv', OwnerGrows, CutsAreCommitted, Pending, build' = NoBuild, NEW x,
         snapshot' = [snapshot EXCEPT ![build.id].state = x]
  PROVE  CutsAreCommitted' /\ BuildIsFaithful'
  <1>1. \A j \in Snapshots : SameCut(j)
    BY BuildTypes, CutsAreSame
  <1>2. ~ Pending'
    BY DEF Pending, NoBuild
  <1> QED
    BY <1>1, <1>2, CutsStay DEF BuildIsFaithful

\* A new build starts at its Snapshot, with no facts yet.
LEMMA SaveIsFaithful ==
  ASSUME TypeInv, TypeInv', OwnerGrows, CutsAreCommitted, UNCHANGED owner, NEW w \in Workers, SaveBuild(w)
  PROVE  CutsAreCommitted' /\ BuildIsFaithful'
  <1>1. PICK i \in Snapshots : i = worker[w].id
    BY DEF SaveBuild, TypeInv, InHand
  <1>2. snapshot' = [snapshot EXCEPT ![i].state = "saved"]
    BY <1>1 DEF SaveBuild
  <1>3. \A j \in Snapshots : SameCut(j)
    BY <1>2, CutsAreSame
  <1>4. /\ build'.id = i /\ build'.state = "loading" /\ build'.applied = snapshot[i].watermark
        /\ build'.loaded = {} /\ build'.facts = NoFacts
    BY <1>1 DEF SaveBuild
  <1>5. Cut'.epoch = snapshot[i].epoch /\ Cut'.watermark = snapshot[i].watermark
    BY <1>3, <1>4 DEF Cut, SameCut
  <1>6. snapshot[i].watermark \in Nat /\ snapshot[i].watermark <= length[snapshot[i].epoch]
    BY CutTypes DEF CutsAreCommitted
  <1>7. (Cut'.watermark + 1)..build'.applied = {}
    BY <1>4, <1>5, <1>6
  <1>8. IncrementsReceived'
    BY <1>7 DEF IncrementsReceived
  <1>9. \A t \in Tenants : build'.facts[t] = NoFact
    BY <1>4 DEF NoFacts
  <1>10. Cut'.watermark <= build'.applied /\ build'.applied <= length'[Cut'.epoch]
    BY <1>4, <1>5, <1>6 DEF owner
  <1>11. BuildIsFaithful'
    BY <1>4, <1>5, <1>8, <1>9, <1>10 DEF BuildIsFaithful, NoFact
  <1> QED
    BY <1>3, <1>11, CutsStay

\* A page brings facts of the Snapshot's position, the last one all that remain.
LEMMA PageIsFaithful ==
  ASSUME TypeInv, TypeInv', BuildIsFaithful, UNCHANGED <<owner, snapshot, receipts>>, NEW w \in Workers, LoadPage(w)
  PROVE  BuildIsFaithful'
  <1>0. Pending /\ build.state = "loading"
    BY DEF LoadPage, Building
  <1>1. PICK e, a, source : e = Cut.epoch /\ a = build.applied /\ source = history[e][a]
    OBVIOUS
  <1>2. /\ Cut.watermark = a /\ a <= length[e] /\ IncrementsReceived
        /\ \A t \in Tenants : build.facts[t] = IF t \in build.loaded THEN source[t] ELSE NoFact
    BY <1>0, <1>1 DEF BuildIsFaithful
  <1> DEFINE S == history[Cut.epoch][Cut.watermark]
  <1> DEFINE listed == {t \in Tenants : S[t] # NoFact}
  <1>3. PICK page \in SUBSET (listed \ build.loaded) :
          build' = [build EXCEPT
                    !.loaded = build.loaded \cup page,
                    !.facts = [t \in Tenants |-> IF t \in page THEN S[t] ELSE @[t]],
                    !.state = IF build.loaded \cup page = listed THEN "loaded" ELSE "loading"]
    BY DEF LoadPage
  <1>4. S = source
    BY <1>1, <1>2
  <1>5. build \in BuildRow
    BY DEF TypeInv, TypeOK
  <1>6. /\ build'.id = build.id /\ build'.applied = a /\ build'.authority = build.authority
        /\ build'.loaded = build.loaded \cup page
        /\ build'.state = IF build.loaded \cup page = listed THEN "loaded" ELSE "loading"
        /\ build'.facts = [t \in Tenants |-> IF t \in page THEN S[t] ELSE build.facts[t]]
    <2> HIDE DEF S, listed
    <2> QED
      BY <1>1, <1>3, <1>5 DEF BuildRow
  <1>7. Cut' = Cut
    BY <1>6 DEF Cut
  <1>8. UNCHANGED <<length, history, event>>
    BY DEF owner
  <1>9. IncrementsReceived'
    BY <1>1, <1>2, <1>6, <1>7, <1>8 DEF IncrementsReceived, Event
  <1>10. ASSUME NEW t \in Tenants
         PROVE  build'.facts[t] = IF build'.state # "loading" \/ t \in build'.loaded THEN source[t] ELSE NoFact
    <2>1. build'.facts[t] = IF t \in page \/ t \in build.loaded THEN source[t] ELSE NoFact
      BY <1>2, <1>4, <1>6
    <2>2. CASE build'.state = "loading"
      BY <1>6, <2>1, <2>2
    <2>3. CASE build'.state # "loading"
      <3>1. build.loaded \cup page = listed
        BY <1>6, <2>3
      <3> QED
        BY <1>4, <2>1, <2>3, <3>1
    <2> QED
      BY <2>2, <2>3
  <1>11. a \in Nat /\ Cut'.watermark <= build'.applied
    BY <1>0, <1>1, <1>2, <1>6, <1>7, BuildTypes
  <1> QED
    <2> HIDE DEF S, listed
    <2> QED
      BY <1>1, <1>2, <1>6, <1>7, <1>8, <1>9, <1>10, <1>11 DEF BuildIsFaithful, NoFact

\* Increments that fit are events of the log after the build's position, all of
\* them received under the current grant.
LEMMA FittingIncrement ==
  ASSUME TypeInv, MessageInv, Pending, NEW k \in Nat, Fits(k)
  PROVE  /\ build.applied + k \in 1..length[Cut.epoch]
         /\ [message |-> Event(Cut.epoch, build.applied + k), version |-> grant["lifecycle"].version] \in receipts
  <1>1. PICK r \in Increments : r.message.number = build.applied + k /\ r.version = grant["lifecycle"].version
    BY DEF Fits
  <1>2. r \in receipts /\ r.message.kind = "lifecycle" /\ r.message.epoch = Cut.epoch
    BY <1>1 DEF Increments
  <1>3. r.message \in Published
    BY <1>2 DEF MessageInv, ReceiptsArePublished
  <1>4. PICK m : m = r.message
    OBVIOUS
  <1>5. m.number \in 1..length[m.epoch] /\ m = Event(m.epoch, m.number)
    BY <1>2, <1>3, <1>4, MessageForm DEF MessageInv
  <1>6. m = Event(Cut.epoch, build.applied + k)
    BY <1>1, <1>2, <1>4, <1>5
  <1>7. r = [message |-> m, version |-> r.version]
    BY <1>2, <1>4 DEF TypeInv, TypeOK, ReceiptRow
  <1> QED
    BY <1>1, <1>2, <1>4, <1>5, <1>6, <1>7

\* Catching up moves the build along the log.
LEMMA CatchUpIsFaithful ==
  ASSUME TypeInv, TypeInv', LogInv, MessageInv, BuildIsFaithful, UNCHANGED <<owner, receipts, grant, snapshot>>,
         NEW w \in Workers, CatchUp(w), \A k \in 1..Cardinality(Increments) : Fits(k)
  PROVE  BuildIsFaithful'
  <1>0. Pending /\ build.state # "loading" /\ build.authority = Fingerprint
    BY DEF CatchUp, Building, Unavailable
  <1>1. PICK n : n = Cardinality(Increments)
    OBVIOUS
  <1>2. n \in Nat
    BY <1>0, <1>1, ReplayTypes
  <1>3. build' = [build EXCEPT !.state = "catching_up", !.applied = build.applied + n, !.facts = Replayed(n)]
    BY <1>1 DEF CatchUp
  <1>4. build \in BuildRow
    BY DEF TypeInv, TypeOK
  <1>5. /\ build'.id = build.id /\ build'.authority = build.authority /\ build'.state = "catching_up"
        /\ build'.applied = build.applied + n /\ build'.facts = Replayed(n)
    BY <1>3, <1>4 DEF BuildRow
  <1>6. Cut' = Cut /\ UNCHANGED <<length, history, event>>
    BY <1>5 DEF Cut, owner
  <1>7. /\ Cut.epoch \in Epochs /\ build.applied \in Nat /\ Cut.watermark \in Nat /\ length[Cut.epoch] \in Nat
        /\ Cut.watermark <= build.applied /\ build.applied <= length[Cut.epoch] /\ IncrementsReceived
        /\ \A t \in Tenants : build.facts[t] = history[Cut.epoch][build.applied][t]
    BY <1>0, BuildTypes, LogTypes DEF BuildIsFaithful
  <1>8. \A k \in 1..n : Fits(k) /\ k \in Nat
    BY <1>1, <1>2
  <1>9. build.applied + n <= length[Cut.epoch]
    <2>1. CASE n = 0
      BY <1>7, <2>1
    <2>2. CASE n # 0
      <3>1. n \in 1..n
        BY <1>2, <2>2
      <3>2. build.applied + n \in 1..length[Cut.epoch]
        BY <1>0, <1>8, <3>1, FittingIncrement
      <3> QED
        BY <1>7, <3>2
    <2> QED
      BY <2>1, <2>2
  <1>10. \A t \in Tenants : Replayed(n)[t] = history[Cut.epoch][build.applied + n][t]
    BY <1>0, <1>2, <1>7, <1>9, ReplayIsFaithful
  <1>11. build.authority[1] = grant["lifecycle"].version
    BY <1>0 DEF Fingerprint
  <1>12. ASSUME NEW s \in (Cut.watermark + 1)..(build.applied + n)
         PROVE  [message |-> Event(Cut.epoch, s), version |-> build.authority[1]] \in receipts
    <2>1. CASE s <= build.applied
      <3>1. s \in (Cut.watermark + 1)..build.applied
        BY <1>7, <2>1
      <3> QED
        BY <1>7, <3>1 DEF IncrementsReceived
    <2>2. CASE ~ (s <= build.applied)
      <3>1. PICK k : k = s - build.applied
        OBVIOUS
      <3>2. k \in 1..n /\ k \in Nat /\ build.applied + k = s
        BY <1>2, <1>7, <2>2, <3>1
      <3> QED
        BY <1>0, <1>8, <1>11, <3>2, FittingIncrement
    <2> QED
      BY <2>1, <2>2
  <1>13. IncrementsReceived'
    BY <1>5, <1>6, <1>12 DEF IncrementsReceived, Event
  <1>14. Cut.watermark <= build'.applied
    BY <1>2, <1>5, <1>7
  <1> QED
    BY <1>5, <1>6, <1>9, <1>10, <1>13, <1>14 DEF BuildIsFaithful

\* What is activated is the log at the build's position.
LEMMA ActivateIsFaithful ==
  ASSUME TypeInv, TypeInv', LogInv, CutsAreCommitted, BuildIsFaithful, UNCHANGED <<owner, receipts>>,
         NEW w \in Workers, Activate(w), TenantSnapshotCoversCurrent
  PROVE  PipelineInv' /\ build.facts = history[Cut.epoch][build.applied] /\ Cut.epoch <= epoch
  <1>0. Pending /\ build.state # "loading" /\ TenantSnapshotHighest
    BY DEF Activate, Building
  <1>1. /\ Cut.epoch \in Epochs /\ build.applied \in Nat /\ build.applied <= length[Cut.epoch]
        /\ \A t \in Tenants : build.facts[t] = history[Cut.epoch][build.applied][t]
        /\ build.facts \in Facts /\ build.id \in Snapshots
    BY <1>0, BuildTypes DEF BuildIsFaithful
  <1>2. history[Cut.epoch][build.applied] \in Facts
    BY <1>1, LogTypes DEF Facts
  <1>3. build.facts = history[Cut.epoch][build.applied]
    BY <1>1, <1>2 DEF Facts
  <1>4. Cut.epoch <= epoch
    BY <1>1 DEF CutsAreCommitted, Cut
  <1>5. pipeline \in PipelineRow
    BY DEF TypeInv, TypeOK
  <1>6. /\ pipeline' = ActivateTenantSnapshot /\ view' = build.facts
    BY DEF Activate
  <1>7. /\ pipeline'.generation = build.id /\ pipeline'.epoch = Cut.epoch /\ pipeline'.applied = build.applied
        /\ pipeline'.highest = build.applied /\ pipeline'.heartbeat = NoHeartbeat
    BY <1>5, <1>6 DEF ActivateTenantSnapshot, PipelineRow
  <1>8. UNCHANGED <<epoch, length, history>>
    BY DEF owner
  <1>9. build.id # None
    BY <1>0 DEF Pending
  <1>10. Positioned'
    BY <1>1, <1>3, <1>4, <1>6, <1>7, <1>8, <1>9 DEF Positioned
  <1>11. HighestCovers'
    BY <1>0, <1>7 DEF HighestCovers, TenantSnapshotHighest
  <1>12. HeartbeatIsSent'
    BY <1>7 DEF HeartbeatIsSent
  <1> QED
    BY <1>3, <1>4, <1>10, <1>11, <1>12 DEF PipelineInv

WorkerStep == (\E w \in Workers : WorkerNext(w)) \/ ExpireBuild

\* What no step of a coordinator touches.
LEMMA WorkerLeaves ==
  ASSUME WorkerStep
  PROVE  UNCHANGED <<owner, beats, grant, broker>>
  BY DEF WorkerStep, WorkerNext, ResumeBuild, StartRecovery, BeginSnapshot, BeginKnown, SaveBuild, SavedBefore,
         LoadPage, CatchUp, Activate, AbandonBuild, GiveUp, Crash, ExpireRequest, ExpireBuild, Expire

\* Every step of a coordinator keeps readers and the build on the log.
LEMMA WorkerIsFaithful ==
  ASSUME TypeInv, TypeInv', FaithInv, WorkerStep
  PROVE  PipelineInv' /\ CutsAreCommitted' /\ BuildIsFaithful'
  <1> USE DEF FaithInv
  <1>1. UNCHANGED <<owner, beats, grant, broker>> /\ UNCHANGED receipts
    BY WorkerLeaves DEF broker
  <1>2. OwnerGrows
    BY <1>1, Growth DEF LogInv
  <1>3. ASSUME UNCHANGED <<pipeline, view>> PROVE PipelineInv'
    BY <1>1, <1>2, <1>3, PipelineStays
  <1>4. ASSUME UNCHANGED build, \A j \in Snapshots : SameCut(j) PROVE CutsAreCommitted' /\ BuildIsFaithful'
    BY <1>1, <1>2, <1>4, CutsStay, BuildStays, BuildTypes
  <1>5. ASSUME UNCHANGED <<build, snapshot>> PROVE CutsAreCommitted' /\ BuildIsFaithful'
    BY <1>4, <1>5 DEF SameCut
  <1>6. ASSUME NEW w \in Workers,
               ResumeBuild(w) \/ BeginKnown(w) \/ SavedBefore(w) \/ GiveUp(w) \/ Crash(w)
        PROVE  PipelineInv' /\ CutsAreCommitted' /\ BuildIsFaithful'
    <2>1. UNCHANGED <<pipeline, view, build, snapshot>>
      BY <1>6 DEF ResumeBuild, BeginKnown, SavedBefore, GiveUp, Crash
    <2> QED
      BY <1>3, <1>5, <2>1
  <1>7. ASSUME NEW w \in Workers, StartRecovery(w) \/ AbandonBuild(w)
        PROVE  PipelineInv' /\ CutsAreCommitted' /\ BuildIsFaithful'
    <2>1. UNCHANGED <<pipeline, view>>
      BY <1>7 DEF StartRecovery, AbandonBuild
    <2>2. CASE Pending
      <3>1. Abandon
        BY <1>7, <2>2 DEF StartRecovery, AbandonBuild
      <3> QED
        BY <1>2, <1>3, <2>1, <2>2, <3>1, AbandonIsFaithful DEF Abandon
    <2>3. CASE ~ Pending
      BY <1>3, <1>5, <1>7, <2>1, <2>3 DEF StartRecovery, AbandonBuild
    <2> QED
      BY <2>2, <2>3
  <1>8. ASSUME NEW w \in Workers, NEW i \in Snapshots, BeginSnapshot(w, i)
        PROVE  PipelineInv' /\ CutsAreCommitted' /\ BuildIsFaithful'
    <2>1. UNCHANGED <<pipeline, view, build>> /\ i # build.id
      BY <1>8 DEF BeginSnapshot, Unused
    <2>2. /\ \A j \in Snapshots \ {i} : snapshot'[j] = snapshot[j]
          /\ snapshot'[i].epoch = epoch /\ snapshot'[i].watermark = length[epoch]
      <3>1. snapshot' = [snapshot EXCEPT ![i] = [NoCut EXCEPT !.epoch = epoch, !.watermark = length[epoch]]]
        BY <1>8 DEF BeginSnapshot
      <3>2. snapshot \in [Snapshots -> CutRow]
        BY DEF TypeInv, TypeOK
      <3> QED
        BY <3>1, <3>2 DEF NoCut
    <2>3. CutsAreCommitted'
      BY <1>2, <2>2, CutsStay DEF SameCut
    <2>4. Pending => SameCut(build.id)
      BY <2>1, <2>2, BuildTypes DEF SameCut
    <2> QED
      BY <1>1, <1>2, <1>3, <2>1, <2>3, <2>4, BuildStays
  <1>9. ASSUME NEW w \in Workers, SaveBuild(w) PROVE PipelineInv' /\ CutsAreCommitted' /\ BuildIsFaithful'
    <2>1. UNCHANGED <<pipeline, view>>
      BY <1>9 DEF SaveBuild
    <2> QED
      BY <1>1, <1>2, <1>3, <1>9, <2>1, SaveIsFaithful
  <1>10. ASSUME NEW w \in Workers, LoadPage(w) PROVE PipelineInv' /\ CutsAreCommitted' /\ BuildIsFaithful'
    <2>1. UNCHANGED <<pipeline, view, snapshot>>
      BY <1>10 DEF LoadPage
    <2> QED
      BY <1>1, <1>2, <1>3, <1>10, <2>1, PageIsFaithful, CutsStay DEF SameCut
  <1>11. ASSUME NEW w \in Workers, CatchUp(w) PROVE PipelineInv' /\ CutsAreCommitted' /\ BuildIsFaithful'
    <2>1. UNCHANGED <<pipeline, view>> /\ Pending
      BY <1>11 DEF CatchUp, Building
    <2>2. CASE \A k \in 1..Cardinality(Increments) : Fits(k)
      <3>1. UNCHANGED snapshot
        BY <1>11, <2>2 DEF CatchUp
      <3>2. CutsAreCommitted'
        BY <1>2, <3>1, CutsStay DEF SameCut
      <3>3. BuildIsFaithful'
        BY <1>1, <1>11, <2>2, <3>1, CatchUpIsFaithful
      <3> QED
        BY <1>3, <2>1, <3>2, <3>3
    <2>3. CASE ~ (\A k \in 1..Cardinality(Increments) : Fits(k))
      <3>1. Abandon
        BY <1>11, <2>3 DEF CatchUp
      <3> QED
        BY <1>2, <1>3, <2>1, <3>1, AbandonIsFaithful DEF Abandon
    <2> QED
      BY <2>2, <2>3
  <1>12. ASSUME NEW w \in Workers, Activate(w) PROVE PipelineInv' /\ CutsAreCommitted' /\ BuildIsFaithful'
    <2>1. Pending
      BY <1>12 DEF Activate, Building
    <2>2. CASE TenantSnapshotCoversCurrent
      <3>1. PipelineInv'
        BY <1>1, <1>12, <2>2, ActivateIsFaithful
      <3>2. snapshot' = [snapshot EXCEPT ![build.id].state = "activated"] /\ build' = NoBuild
        BY <1>12, <2>2 DEF Activate
      <3> QED
        BY <1>2, <2>1, <3>1, <3>2, AbandonIsFaithful
    <2>3. CASE ~ TenantSnapshotCoversCurrent
      <3>1. Abandon /\ UNCHANGED <<pipeline, view>>
        BY <1>12, <2>3 DEF Activate
      <3> QED
        BY <1>2, <1>3, <2>1, <3>1, AbandonIsFaithful DEF Abandon
    <2> QED
      BY <2>2, <2>3
  <1>13. ASSUME NEW i \in Snapshots, Expire(i) PROVE PipelineInv' /\ CutsAreCommitted' /\ BuildIsFaithful'
    <2>1. UNCHANGED <<pipeline, view, build>> /\ snapshot' = [snapshot EXCEPT ![i].expired = TRUE]
      BY <1>13 DEF Expire
    <2>2. \A j \in Snapshots : SameCut(j)
      BY <2>1, CutsAreSame
    <2> QED
      BY <1>3, <1>4, <2>1, <2>2
  <1>14. ASSUME NEW w \in Workers, ExpireRequest(w) PROVE PipelineInv' /\ CutsAreCommitted' /\ BuildIsFaithful'
    <2>1. worker[w].key \in Snapshots
      BY <1>14 DEF ExpireRequest, TypeInv, TypeOK, WorkerState, SnapshotId
    <2> QED
      BY <1>13, <1>14, <2>1 DEF ExpireRequest
  <1>15. ASSUME ExpireBuild PROVE PipelineInv' /\ CutsAreCommitted' /\ BuildIsFaithful'
    BY <1>13, <1>15, BuildTypes DEF ExpireBuild
  <1> QED
    BY <1>6, <1>7, <1>8, <1>9, <1>10, <1>11, <1>12, <1>14, <1>15 DEF WorkerStep, WorkerNext

-----------------------------------------------------------------------------
LEMMA InitIsFaithful == Init => FaithInv
  <1> SUFFICES ASSUME Init PROVE FaithInv
    OBVIOUS
  <1>0. TypeInv
    BY InitTypes
  <1>1. /\ \A e \in Epochs : length[e] = 0
        /\ \A e \in Epochs : \A s \in 0..MaxSequence : \A t \in Tenants : history[e][s][t] = NoFact
    BY DEF Init, OwnerInit
  <1>2. Unbegun
    BY <1>1 DEF Unbegun
  <1>3. Logged
    BY <1>1 DEF Logged
  <1>4. Unmentioned
    BY <1>1 DEF Unmentioned
  <1>5. Created
    <2>1. 0 \in 0..MaxSequence
      BY OwnerAssumption
    <2> QED
      BY <1>1, <2>1 DEF Created, FactAt, NoFact
  <1>6. MessageInv
    BY DEF Init, MessageInv, BeatsAreTrue, BeatsAreOrdered, ReceiptsArePublished, NoConflictInHand, NoFalseConflict, Waiting
  <1>7. PipelineInv
    BY DEF Init, PipelineInv, Positioned, HeartbeatIsSent, HighestCovers
  <1>8. CutsAreCommitted
    <2> SUFFICES ASSUME NEW i \in Snapshots
                 PROVE  snapshot[i].epoch <= epoch /\ snapshot[i].watermark <= length[snapshot[i].epoch]
      BY DEF CutsAreCommitted
    <2>1. snapshot[i].epoch = 1 /\ snapshot[i].watermark = 0 /\ epoch = 1
      BY DEF Init, OwnerInit, NoCut
    <2>2. 1 \in Epochs
      BY OwnerAssumption DEF Epochs
    <2> QED
      BY <1>1, <2>1, <2>2
  <1>9. BuildIsFaithful
    BY DEF Init, BuildIsFaithful, Pending, NoBuild
  <1> QED
    BY <1>2, <1>3, <1>4, <1>5, <1>6, <1>7, <1>8, <1>9 DEF FaithInv, LogInv

LEMMA NextIsFaithful == TypeInv /\ TypeInv' /\ FaithInv /\ [Next]_vars => FaithInv'
  <1> SUFFICES ASSUME TypeInv, TypeInv', FaithInv, [Next]_vars PROVE FaithInv'
    OBVIOUS
  <1> USE DEF FaithInv
  <1>1. CASE WorkerStep
    <2>1. UNCHANGED <<owner, beats, receipts, dlq, receiver>>
      BY <1>1, WorkerLeaves DEF broker
    <2>2. OwnerGrows /\ LogInv'
      BY <2>1, Growth, LogStays DEF LogInv
    <2> QED
      BY <1>1, <2>1, <2>2, MessagesStay, WorkerIsFaithful
  <1>2. CASE BrokerStep
    <2>1. /\ MessageInv' /\ PipelineInv' /\ receipts \subseteq receipts'
          /\ UNCHANGED <<owner, beats, rebuild>>
      BY <1>2, BrokerIsFaithful
    <2>2. OwnerGrows /\ LogInv'
      BY <2>1, Growth, LogStays DEF LogInv
    <2>3. UNCHANGED <<build, snapshot>> /\ \A i \in Snapshots : SameCut(i)
      BY <2>1 DEF rebuild, SameCut
    <2> QED
      BY <2>1, <2>2, <2>3, CutsStay, BuildStays, BuildTypes
  <1>3. CASE /\ OwnerNext \/ UNCHANGED owner
             /\ beats \subseteq beats' /\ UNCHANGED <<pipeline, view, receipts, dlq, receiver, build, snapshot>>
             /\ UNCHANGED beats \/ EmitHeartbeat
    <2>1. OwnerGrows /\ LogInv'
      BY <1>3, Growth, LogStays DEF LogInv
    <2>2. PipelineInv'
      BY <1>3, <2>1, PipelineStays
    <2>3. CutsAreCommitted' /\ BuildIsFaithful'
      BY <1>3, <2>1, CutsStay, BuildStays, BuildTypes DEF SameCut
    <2>4. MessageInv'
      <3>1. CASE UNCHANGED beats
        BY <1>3, <2>1, <3>1, MessagesStay
      <3>2. CASE EmitHeartbeat
        <4>1. BeatsAreTrue' /\ BeatsAreOrdered'
          BY <3>2, HeartbeatIsTrue DEF LogInv, MessageInv
        <4>2. ReceiptsArePublished'
          BY <1>3, <2>1, PublishedStays DEF MessageInv, ReceiptsArePublished
        <4> QED
          BY <1>3, <4>1, <4>2 DEF MessageInv, NoConflictInHand, NoFalseConflict
      <3> QED
        BY <1>3, <3>1, <3>2
    <2> QED
      BY <2>1, <2>2, <2>3, <2>4
  <1>4. CASE \/ OwnerNext /\ UNCHANGED <<beats, grant, pipeline, view, broker, rebuild>>
             \/ EmitHeartbeat \/ UNCHANGED vars
             \/ \E g \in Grants, active \in BOOLEAN : ChangeAuthority(g, active)
    BY <1>3, <1>4 DEF EmitHeartbeat, ChangeAuthority, vars, broker, rebuild
  <1> QED
    BY <1>1, <1>2, <1>4 DEF Next, WorkerStep, BrokerStep

LEMMA AlwaysFaithful == Spec => []FaithInv
  <1>1. Init => FaithInv
    BY InitIsFaithful
  <1>2. TypeInv /\ TypeInv' /\ FaithInv /\ [Next]_vars => FaithInv'
    BY NextIsFaithful
  <1> QED
    BY <1>1, <1>2, AlwaysTyped, PTL DEF Spec

\* What is called fresh is recent: the heartbeat it rests on was sent less than
\* StaleAfter ago, and covers every event older than itself.
LEMMA FreshIsRecent == TypeInv /\ FaithInv => FreshFactsAreRecent
  <1> SUFFICES ASSUME TypeInv, FaithInv, Fresh, NEW e \in Epochs, NEW s \in 1..length[e],
                      event[e][s].at + StaleAfter <= now
               PROVE  e < pipeline.epoch \/ (e = pipeline.epoch /\ s <= pipeline.applied)
    BY DEF FreshFactsAreRecent
  <1>1. <<e, s>> \in Committed /\ s \in Sequences /\ s \in Nat
    BY CommittedForm, LogTypes
  <1>2. event[e][s].at \in Nat /\ now \in Nat /\ StaleAfter \in Nat
    BY <1>1, LogTypes, LifecycleAssumption
  <1>3. pipeline.generation # None /\ pipeline.epoch \in Epochs
    BY DEF Fresh, FaithInv, PipelineInv, Positioned
  <1>4. pipeline.heartbeat # NoHeartbeat
    BY <1>3, LogTypes DEF Fresh, NoHeartbeat, Epochs
  <1>5. PICK b \in beats : /\ b.epoch = pipeline.epoch
                           /\ pipeline.heartbeat = [epoch |-> b.epoch, committed |-> b.number, at |-> b.at]
    BY <1>4 DEF FaithInv, PipelineInv, HeartbeatIsSent
  <1>6. b.at \in Nat /\ b.number \in Nat /\ b.epoch \in Nat
    BY BeatTypes
  <1>7. now < b.at + StaleAfter /\ b.number <= pipeline.applied
    BY <1>5, <1>6, PipelineTypes DEF Fresh
  <1>8. event[e][s].at < b.at
    BY <1>2, <1>6, <1>7
  <1>9. e < b.epoch \/ (e = b.epoch /\ s <= b.number)
    BY <1>1, <1>8 DEF FaithInv, MessageInv, BeatsAreTrue, CoveredBy
  <1> QED
    BY <1>1, <1>5, <1>6, <1>7, <1>9, PipelineTypes

LEMMA GapsAreNoticed == TypeInv /\ FaithInv => GapIsNoticed
  <1> SUFFICES ASSUME TypeInv, FaithInv, NEW r \in receipts, r.message.kind = "lifecycle",
                      pipeline.epoch = r.message.epoch, pipeline.applied < r.message.number
               PROVE  Needed
    BY DEF GapIsNoticed
  <1>1. r.message.number <= pipeline.highest
    BY DEF FaithInv, PipelineInv, HighestCovers
  <1>2. r.message.number \in Nat
    BY OwnerAssumption DEF TypeInv, TypeOK, ReceiptRow, Message
  <1> QED
    BY <1>1, <1>2, PipelineTypes DEF Needed

\* What readers get is the owner's log at one position, recent when it is called
\* fresh; nothing Governance sends in order is ever set aside as conflicting, and
\* no hole is forgotten.  For any number of Tenants, processes, epochs, events,
\* grants and rebuilds, whatever is lost, repeated, reordered or restored.
THEOREM FaithfulnessTheorem == Spec => []ProjectionIsFaithful
  <1>1. TypeInv /\ FaithInv => ProjectionMatchesOwner
    BY DEF FaithInv, PipelineInv, Positioned, BuildIsFaithful, ProjectionMatchesOwner
  <1>2. FaithInv => NoFalseConflict
    BY DEF FaithInv, MessageInv
  <1>3. TypeInv /\ FaithInv => ProjectionIsFaithful
    BY <1>1, <1>2, FreshIsRecent, GapsAreNoticed DEF ProjectionIsFaithful
  <1> QED
    BY <1>3, AlwaysTyped, AlwaysFaithful, PTL

-----------------------------------------------------------------------------
(***************************************************************************)
(* Steps of the projection.                                                *)
(***************************************************************************)
\* A message leaves the generation, and the position, or takes the next one.
LEMMA ApplyStep ==
  ASSUME TypeInv, FaithInv, NEW m \in Published, applyTenantIntegration(m)
  PROVE  /\ pipeline'.generation = pipeline.generation
         /\ pipeline.generation = None \/ view' = view
            \/ (/\ pipeline.epoch = m.epoch /\ m.kind = "lifecycle" /\ m.number = pipeline.applied + 1
                /\ view' = history[m.epoch][m.number])
  <1> USE DEF FaithInv
  <1>1. m \in Message /\ m.kind \in {"lifecycle", "heartbeat"}
    BY MessageForm DEF MessageInv, Message
  <1>2. PICK o : o = Outcome(m)
    OBVIOUS
  <1>3. CASE Retained(m)
    BY <1>3 DEF applyTenantIntegration
  <1>4. CASE ~ Retained(m) /\ m.kind = "heartbeat"
    <2>1. pipeline' = ObserveTenantHeartbeat(pipeline, m, o) /\ view' = view
      BY <1>2, <1>4 DEF applyTenantIntegration
    <2> QED
      BY <1>1, <2>1, ObservedRow
  <1>5. CASE ~ Retained(m) /\ m.kind = "lifecycle"
    <2>1. /\ pipeline' = ProjectTenantLifecycle(pipeline, m, o)
          /\ view' = IF o = "applied" THEN [view EXCEPT ![TenantOf(m)] = FactOf(m)] ELSE view
      BY <1>2, <1>5 DEF applyTenantIntegration
    <2>2. pipeline'.generation = pipeline.generation
      BY <1>1, <2>1, ProjectedRow
    <2>3. CASE o = "applied"
      <3>1. pipeline.epoch = m.epoch /\ ~ pipeline.required /\ m.number = pipeline.applied + 1
        BY <1>2, <1>5, <2>3 DEF Outcome, ProjectionOutcome
      <3>2. [view EXCEPT ![TenantOf(m)] = FactOf(m)] = history[m.epoch][m.number]
        BY <1>5, <3>1, NextIsApplied DEF PipelineInv, MessageInv
      <3> QED
        BY <1>5, <2>1, <2>2, <2>3, <3>1, <3>2
    <2> QED
      BY <2>1, <2>2, <2>3
  <1> QED
    BY <1>1, <1>3, <1>4, <1>5

\* Every step: the owner's, one that shows readers nothing new, an applied
\* message, or an activation.
LEMMA StepKinds ==
  ASSUME TypeInv, FaithInv, [Next]_vars
  PROVE  \/ (OwnerNext \/ UNCHANGED owner) /\ UNCHANGED <<pipeline, view>>
         \/ UNCHANGED owner /\ \E m \in Published : applyTenantIntegration(m)
         \/ UNCHANGED owner /\ \E w \in Workers : Activate(w) /\ TenantSnapshotCoversCurrent
  <1>1. ASSUME NEW w \in Workers, WorkerNext(w)
        PROVE  \/ UNCHANGED <<owner, pipeline, view>>
               \/ UNCHANGED owner /\ Activate(w) /\ TenantSnapshotCoversCurrent
    BY <1>1 DEF WorkerNext, ResumeBuild, StartRecovery, BeginSnapshot, BeginKnown, SaveBuild, SavedBefore,
         LoadPage, CatchUp, Activate, AbandonBuild, GiveUp, Crash, ExpireRequest, Expire
  <1>2. ASSUME NEW r \in Receivers, ReceiverNext(r)
        PROVE  \/ UNCHANGED <<owner, pipeline, view>>
               \/ UNCHANGED owner /\ \E m \in Published : applyTenantIntegration(m)
    BY <1>2 DEF ReceiverNext, Receive, ReceiveQuarantined, ReceiveRefused, Quarantine, Ack, LoseDelivery
  <1>3. ASSUME NEW m \in Published, ReplayDLQ(m) PROVE UNCHANGED owner /\ applyTenantIntegration(m)
    BY <1>3 DEF ReplayDLQ
  <1>4. CASE \/ OwnerNext /\ UNCHANGED <<beats, grant, pipeline, view, broker, rebuild>>
             \/ EmitHeartbeat \/ ExpireBuild \/ UNCHANGED vars
             \/ \E g \in Grants, active \in BOOLEAN : ChangeAuthority(g, active)
    BY <1>4 DEF EmitHeartbeat, ExpireBuild, Expire, ChangeAuthority, vars
  <1> QED
    BY <1>1, <1>2, <1>3, <1>4 DEF Next

\* A generation is activated only when every event between its Snapshot and its
\* position was received under the grant that is current at that moment: a grant
\* that was changed during a rebuild never lends its authority to another's events.
THEOREM AuthorityTheorem == Spec => ActivationUnderAuthority
  <1>1. ASSUME TypeInv, FaithInv, [Next]_vars, pipeline'.generation # pipeline.generation
        PROVE  \A s \in (Cut.watermark + 1)..build.applied :
                  [message |-> Event(Cut.epoch, s), version |-> grant["lifecycle"].version] \in receipts
    <2>1. PICK w \in Workers : Activate(w)
      BY <1>1, StepKinds, ApplyStep
    <2>2. Pending /\ build.authority = Fingerprint
      BY <2>1 DEF Activate, Building, Unavailable
    <2>3. build.authority[1] = grant["lifecycle"].version
      BY <2>2 DEF Fingerprint
    <2> QED
      BY <1>1, <2>2, <2>3 DEF FaithInv, BuildIsFaithful, IncrementsReceived
  <1>2. TypeInv /\ FaithInv /\ [Next]_vars =>
          [pipeline'.generation # pipeline.generation =>
             \A s \in (Cut.watermark + 1)..build.applied :
                [message |-> Event(Cut.epoch, s), version |-> grant["lifecycle"].version] \in receipts]_vars
    BY <1>1
  <1> QED
    BY <1>2, AlwaysTyped, AlwaysFaithful, PTL DEF Spec, ActivationUnderAuthority

-----------------------------------------------------------------------------
(***************************************************************************)
(* The refinement.                                                         *)
(***************************************************************************)
\* The next position may be shown to readers that have seen the one before.
LEMMA NextCovers ==
  ASSUME TypeInv, LogInv, NEW e \in Epochs, NEW s \in 1..length[e]
  PROVE  Replica!Covers(history[e][s - 1], history[e][s])
  <1>1. PICK t : t = event[e][s].tenant
    OBVIOUS
  <1>2. /\ t \in Tenants /\ s - 1 \in 0..length[e]
        /\ history[e][s - 1] \in Facts /\ history[e][s] \in Facts
        /\ history[e][s] = [history[e][s - 1] EXCEPT ![t] = history[e][s][t]]
        /\ history[e][s][t].version = history[e][s - 1][t].version + 1
        /\ lifecycleTransition(history[e][s - 1][t].status, history[e][s][t].status,
                               history[e][s - 1][t].version = 0)
    BY <1>1, Sequel
  <1>3. PICK old \in Facts, new \in Facts : old = history[e][s - 1] /\ new = history[e][s]
    BY <1>2
  <1>4. old[t].version = 0 <=> old[t].status = "absent"
    BY <1>2, <1>3 DEF LogInv, Created, FactAt
  <1>5. old[t].status # "disabled"
    BY <1>2, <1>3, <1>4 DEF lifecycleTransition
  <1>6. old[t].version \in Nat /\ new[t].version = old[t].version + 1
    BY <1>2, <1>3 DEF Facts, Fact
  <1>7. \A u \in Tenants \ {t} : new[u] = old[u] /\ old[u].version \in Nat
    BY <1>2, <1>3 DEF Facts, Fact
  <1> QED
    BY <1>3, <1>5, <1>6, <1>7 DEF Replica!Covers

\* A Snapshot that covers what readers see may be shown to them.
LEMMA SnapshotCovers ==
  ASSUME TypeInv, LogInv, Pending, TenantSnapshotCoversCurrent,
         build.facts = history[Cut.epoch][build.applied], build.applied <= length[Cut.epoch]
  PROVE  Replica!Covers(view, build.facts)
  <1> SUFFICES ASSUME NEW t \in Tenants
               PROVE  /\ view[t].version <= build.facts[t].version
                      /\ view[t].version = build.facts[t].version => view[t].status = build.facts[t].status
                      /\ view[t].status = "disabled" => build.facts[t].status = "disabled"
    BY DEF Replica!Covers
  <1>1. view[t] \in Fact /\ build.facts[t] \in Fact
    BY BuildTypes DEF TypeInv, TypeOK, Facts
  <1>2. view[t].version \in Nat /\ build.facts[t].version \in Nat
    BY <1>1 DEF Fact
  <1>3. CASE view[t] # NoFact
    BY <1>2, <1>3 DEF TenantSnapshotCoversCurrent
  <1>4. CASE view[t] = NoFact
    <2>1. view[t].version = 0 /\ view[t].status = "absent"
      BY <1>4 DEF NoFact
    <2>2. build.applied \in 0..length[Cut.epoch] /\ Cut.epoch \in Epochs
      BY BuildTypes, LogTypes
    <2>3. build.facts[t].version = 0 => build.facts[t].status = "absent"
      BY <2>2 DEF LogInv, Created, FactAt
    <2> QED
      BY <1>2, <2>1, <2>3
  <1> QED
    BY <1>3, <1>4

Shown == IF pipeline.generation = None THEN None ELSE view

\* Readers that are shown another position see an allowed one.
LEMMA ShownIsRefreshed ==
  ASSUME UNCHANGED owner, NEW e \in Epochs, NEW s \in 0..length[e], e <= epoch,
         pipeline.generation # None => Replica!Covers(view, history[e][s]), Shown' = history[e][s]
  PROVE  Replica!Refresh
  <1>1. Shown # None => Replica!Covers(Shown, history[e][s])
    BY DEF Shown
  <1>2. Shown' = IF pipeline'.generation = None THEN None ELSE view'
    BY DEF Shown
  <1> QED
    BY <1>1, <1>2 DEF Replica!Refresh, Shown, Replica!owner, owner, Replica!Epochs, Epochs

LEMMA ReplicaOwner ==
  ASSUME OwnerNext
  PROVE  Replica!OwnerNext
  <1>1. ASSUME NEW t \in Tenants, NEW to \in LifecycleStatus, CommitEvent(t, to)
        PROVE  Replica!CommitEvent(t, to) /\ to \in Replica!LifecycleStatus
    <2>1. Replica!Committed = Committed
      BY DEF Committed, Replica!Committed, Epochs, Replica!Epochs, Sequences, Replica!Sequences
    <2>2. \A status : Replica!Successors(status) = Successors(status)
      BY DEF Successors, Replica!Successors, LifecycleStatus, Replica!LifecycleStatus
    <2>3. Replica!LifecycleStatus = LifecycleStatus
      BY DEF LifecycleStatus, Replica!LifecycleStatus
    <2>4. Replica!Cardinality(Committed) = Cardinality(Committed)
      BY Zenon DEF Cardinality, Replica!Cardinality
    <2> QED
      BY <1>1, <2>1, <2>2, <2>3, <2>4 DEF CommitEvent, Replica!CommitEvent
  <1>2. ASSUME NEW from \in 0..MaxSequence, StartEpoch(from) PROVE Replica!StartEpoch(from)
    BY <1>2 DEF StartEpoch, Replica!StartEpoch
  <1>3. ASSUME Tick PROVE Replica!Tick
    BY <1>3 DEF Tick, Replica!Tick
  <1> QED
    BY <1>1, <1>2, <1>3 DEF OwnerNext, Replica!OwnerNext

LEMMA ReplicaInit == Init => Replica!Init
  BY DEF Init, OwnerInit, Replica!Init, Replica!OwnerInit, Epochs, Replica!Epochs, Sequences, Replica!Sequences,
     NoFact, Replica!NoFact

LEMMA ReplicaNext ==
  ASSUME TypeInv, FaithInv, [Next]_vars
  PROVE  Replica!Next \/ UNCHANGED Replica!replica
  <1> USE DEF FaithInv
  <1>1. CASE (OwnerNext \/ UNCHANGED owner) /\ UNCHANGED <<pipeline, view>>
    BY <1>1, ReplicaOwner DEF Replica!Next, Replica!replica, Replica!owner, owner
  <1>2. ASSUME UNCHANGED owner, NEW m \in Published, applyTenantIntegration(m)
        PROVE  Replica!Next \/ UNCHANGED Replica!replica
    <2>1. pipeline'.generation = pipeline.generation
      BY <1>2, ApplyStep
    <2>2. CASE pipeline.generation = None \/ view' = view
      BY <1>2, <2>1, <2>2 DEF Replica!replica, Replica!owner, owner
    <2>3. CASE /\ pipeline.generation # None
               /\ pipeline.epoch = m.epoch /\ m.kind = "lifecycle" /\ m.number = pipeline.applied + 1
               /\ view' = history[m.epoch][m.number]
      <3>1. m.epoch \in Epochs /\ m.number \in 1..length[m.epoch]
        BY <2>3, MessageForm DEF MessageInv
      <3>2. PICK e \in Epochs, s \in Nat : s \in 1..length[e] /\ e = m.epoch /\ s = m.number
        BY <3>1
      <3>3. s \in 0..length[e] /\ view = history[e][s - 1] /\ e <= epoch
        BY <2>3, <3>2, PipelineTypes DEF PipelineInv, Positioned
      <3>4. Replica!Covers(view, history[e][s])
        BY <3>2, <3>3, NextCovers
      <3>5. Shown' = history[e][s]
        BY <2>1, <2>3, <3>2 DEF Shown
      <3> QED
        BY <1>2, <3>3, <3>4, <3>5, ShownIsRefreshed DEF Replica!Next
    <2> QED
      BY <1>2, <2>2, <2>3, ApplyStep
  <1>3. ASSUME UNCHANGED owner, NEW w \in Workers, Activate(w), TenantSnapshotCoversCurrent
        PROVE  Replica!Next
    <2>0. Pending
      BY <1>3 DEF Activate, Building
    <2>1. PICK e \in Epochs, s \in Nat : e = Cut.epoch /\ s = build.applied
      BY <2>0, BuildTypes
    <2>2. s <= length[e] /\ s \in 0..length[e]
      BY <2>0, <2>1, LogTypes DEF BuildIsFaithful
    <2>3. build.facts = history[e][s] /\ e <= epoch
      <3>1. TypeInv' /\ UNCHANGED receipts
        BY <1>3, NextTypes DEF Activate, broker
      <3> QED
        BY <1>3, <2>1, <3>1, ActivateIsFaithful
    <2>4. Replica!Covers(view, history[e][s])
      BY <1>3, <2>0, <2>1, <2>2, <2>3, SnapshotCovers
    <2>5. pipeline' = ActivateTenantSnapshot /\ view' = build.facts
      BY <1>3 DEF Activate
    <2>6. pipeline'.generation = build.id
      BY <2>5 DEF ActivateTenantSnapshot, TypeInv, TypeOK, PipelineRow
    <2>7. Shown' = history[e][s]
      BY <2>0, <2>3, <2>5, <2>6 DEF Shown, Pending
    <2> QED
      BY <1>3, <2>2, <2>3, <2>4, <2>7, ShownIsRefreshed DEF Replica!Next
  <1> QED
    BY <1>1, <1>2, <1>3, StepKinds

\* The projection implements the replica: readers see nothing, or one position of
\* the owner's log, and no Tenant they have seen goes back to an older version,
\* to another status of the same version or out of disabled, across rebuilds and
\* restored epochs too.
THEOREM ReplicaTheorem == Spec => ReplicaImplemented
  <1>1. TypeInv /\ FaithInv /\ [Next]_vars => [Replica!Next]_(Replica!replica)
    BY ReplicaNext
  <1> QED
    BY <1>1, ReplicaInit, AlwaysTyped, AlwaysFaithful, PTL DEF Spec, ReplicaImplemented, Replica!Spec

=============================================================================
