----------------------- MODULE TenantBootstrapProofs -----------------------
(***************************************************************************)
(* The bootstrap of a Tenant is safe for any number of dispatchers,        *)
(* recoveries, attempts and generations.                                   *)
(*                                                                         *)
(* BInv strengthens the checked properties with what makes them inductive: *)
(* what the rows of a recovery hold in each status (Recorded), that a      *)
(* dispatcher's claim is numbered by an attempt nobody else has            *)
(* (ClaimsAreNumbered), that a job still open has attempts left            *)
(* (AttemptsLeft), and that the job of an expiry which was ever attempted  *)
(* stays due (ExpiriesAreDue): without the last one, an answer that        *)
(* settled nothing could hand out one attempt too many.                    *)
(***************************************************************************)
EXTENDS TenantBootstrap, TLAPS

AtWork(w) == worker[w].phase \in {"working", "worked"}

\* What the operation of Core and the rows of the recoveries hold.
Recorded ==
  /\ (core.email = None) <=> (core.status = "absent")
  /\ (core.id = None) <=> (core.status = "absent")
  /\ recovered # None => access = "active"
  /\ (inv.generation = 0) <=> (inv.status = "absent")
  /\ \A r \in Recoveries :
       /\ recovery[r].status # "absent" => recovery[r].target \in People
       /\ recovery[r].status \in {"absent", "pending_approval"} => recovery[r].approver = None
       /\ recovery[r].status = "approved" => recovery[r].approver # None

\* A dispatcher at work holds an attempt of its job that no other one holds.
ClaimsAreNumbered ==
  /\ \A w \in Workers : AtWork(w) => worker[w].attempt <= jobs[worker[w].job].attempt
  /\ \A v, w \in Workers :
       /\ AtWork(v) /\ AtWork(w)
       /\ worker[v].job = worker[w].job /\ worker[v].attempt = worker[w].attempt
       => v = w

\* What a row says about its cycle and the attempts made in it.
WithinCycle(row) ==
  /\ row.cycle <= row.attempt
  /\ row.attempt <= row.cycle + CycleAttempts
  /\ row.cycle + CycleAttempts <= MaxAttempts
  /\ row.state \in {"absent", "pending"} => row.attempt < row.cycle + CycleAttempts
  /\ row.state = "claimed" => row.attempt >= 1

AttemptsLeft == \A j \in Jobs : WithinCycle(jobs[j])

\* An expiry that was ever attempted is due, or a later generation replaced it.
ExpiriesAreDue ==
  \A j \in Jobs :
    /\ j.kind = "expire" /\ jobs[j].attempt > 0
    => \/ inv.generation > j.generation
       \/ inv.generation = j.generation /\ inv.elapsed

Appointed == AppointmentIsIntended /\ Recorded
Accounted == ClaimsAreNumbered /\ AttemptsAreRecordedOnce /\ AttemptsLeft /\ ExpiriesAreDue

BInv == TypeOK /\ Appointed /\ Accounted

-----------------------------------------------------------------------------
(* Facts about the constants and the rows. *)

LEMMA Bounds ==
  /\ CycleAttempts \in Nat /\ CycleAttempts >= 1
  /\ MaxGeneration \in Nat /\ MaxGeneration >= 1
  /\ MaxAttempts \in Nat /\ CycleAttempts <= MaxAttempts
<1>1. CycleAttempts \in Nat /\ CycleAttempts >= 1 /\ MaxRetries \in Nat
      /\ MaxGeneration \in Nat /\ MaxGeneration >= 1
  BY BootstrapAssumption
<1>2. CycleAttempts * MaxRetries \in Nat
  BY <1>1
<1>3. CycleAttempts * (1 + MaxRetries) = CycleAttempts + CycleAttempts * MaxRetries
  BY <1>1
<1> QED BY <1>1, <1>2, <1>3 DEF MaxAttempts

LEMMA JobFields ==
  ASSUME NEW j \in Jobs
  PROVE  j.kind \in {"initialize", "expire"} /\ j.generation \in 1..MaxGeneration
BY Bounds DEF Jobs

LEMMA DispatcherFields ==
  ASSUME NEW d \in Dispatcher
  PROVE  /\ d.phase \in {"idle", "found", "working", "worked"}
         /\ d.phase = "idle" => d = Idle
         /\ d.phase \in {"found", "working", "worked"} => d.job \in Jobs
         /\ d.phase \in {"working", "worked"} =>
              d.attempt \in 1..MaxAttempts /\ d.cycle \in 0..MaxAttempts
         /\ d.phase = "worked" => d.code \in Codes
BY DEF Dispatcher, Claim, Idle

LEMMA InitInv == Init => BInv
<1> SUFFICES ASSUME Init PROVE BInv
  OBVIOUS
<1> USE Bounds DEF Init
<1>1. TypeOK
  BY DEF TypeOK, Operation, Invitation, Job, Recovery, Dispatcher, Statuses
<1>2. Appointed
  BY DEF Appointed, AppointmentIsIntended, AdministratorIsIntended,
         InvitationFollowsOperation, ReferencesAreNotShared, Recorded, Waiting
<1>3. Accounted
  BY DEF Accounted, ClaimsAreNumbered, AttemptsAreRecordedOnce, AttemptsLeft, WithinCycle,
         ExpiriesAreDue, AtWork, Idle
<1> QED BY <1>1, <1>2, <1>3 DEF BInv

-----------------------------------------------------------------------------
(* Steps that leave a part of the state alone. *)

\* The Invitation is only replaced by a later generation, and what ran out
\* stays so.
Ages ==
  \/ inv'.generation > inv.generation
  \/ inv'.generation = inv.generation /\ (inv.elapsed => inv'.elapsed)

LEMMA QuietTenant ==
  ASSUME Appointed, UNCHANGED <<tenantVars, recoveryVars>>
  PROVE  Appointed'
BY DEF Appointed, AppointmentIsIntended, AdministratorIsIntended, InvitationFollowsOperation,
       ReferencesAreNotShared, Recorded, tenantVars, recoveryVars

LEMMA QuietAges ==
  ASSUME UNCHANGED inv
  PROVE  Ages
BY DEF Ages

\* A dispatcher keeps its claim or gives it up, and no row starts an attempt.
LEMMA NoClaim ==
  ASSUME BInv, TypeOK', Ages,
         \A w \in Workers : AtWork(w)' =>
           /\ AtWork(w)
           /\ worker'[w].job = worker[w].job /\ worker'[w].attempt = worker[w].attempt,
         \A j \in Jobs :
           /\ jobs'[j].attempt = jobs[j].attempt
           /\ WithinCycle(jobs'[j])
           /\ attempts'[j] = jobs'[j].attempt - (IF jobs'[j].state = "claimed" THEN 1 ELSE 0)
  PROVE  Accounted'
<1>1. ClaimsAreNumbered'
  <2>1. \A w \in Workers : AtWork(w) => worker[w].job \in Jobs
    BY DispatcherFields DEF BInv, TypeOK, AtWork
  <2> QED BY <2>1 DEF BInv, Accounted, ClaimsAreNumbered
<1>2. AttemptsAreRecordedOnce' /\ AttemptsLeft'
  BY DEF AttemptsAreRecordedOnce, AttemptsLeft, WithinCycle
<1>3. ExpiriesAreDue'
  <2> SUFFICES ASSUME NEW j \in Jobs, j.kind = "expire", jobs'[j].attempt > 0
               PROVE  \/ inv'.generation > j.generation
                      \/ inv'.generation = j.generation /\ inv'.elapsed
    BY DEF ExpiriesAreDue
  <2>1. inv.generation > j.generation \/ (inv.generation = j.generation /\ inv.elapsed)
    BY DEF BInv, Accounted, ExpiriesAreDue
  <2>2. inv.generation \in Nat /\ inv'.generation \in Nat /\ j.generation \in Nat
    BY JobFields, Bounds DEF BInv, TypeOK, Invitation
  <2> QED BY <2>1, <2>2 DEF Ages
<1> QED BY <1>1, <1>2, <1>3 DEF Accounted

LEMMA QuietRows ==
  ASSUME BInv, TypeOK', Ages, UNCHANGED <<jobs, attempts>>,
         \A w \in Workers : AtWork(w)' =>
           /\ AtWork(w)
           /\ worker'[w].job = worker[w].job /\ worker'[w].attempt = worker[w].attempt
  PROVE  Accounted'
BY NoClaim DEF BInv, Accounted, AttemptsAreRecordedOnce, AttemptsLeft

LEMMA QuietJobs ==
  ASSUME BInv, TypeOK', Ages, UNCHANGED jobVars
  PROVE  Accounted'
BY QuietRows DEF jobVars, AtWork

\* One row is written, its attempt is kept and settled or left under way.
LEMMA OneRow ==
  ASSUME BInv, TypeOK', Ages, NEW j \in Jobs, NEW row \in Job,
         jobs' = [jobs EXCEPT ![j] = row],
         row.attempt = jobs[j].attempt, WithinCycle(row),
         \A k \in Jobs : k # j => attempts'[k] = attempts[k],
         attempts'[j] = row.attempt - (IF row.state = "claimed" THEN 1 ELSE 0),
         \A w \in Workers : AtWork(w)' =>
           /\ AtWork(w)
           /\ worker'[w].job = worker[w].job /\ worker'[w].attempt = worker[w].attempt
  PROVE  Accounted'
<1>1. \A k \in Jobs : jobs'[k] = IF k = j THEN row ELSE jobs[k]
  BY DEF BInv, TypeOK
<1> QED BY <1>1, NoClaim DEF BInv, Accounted, AttemptsAreRecordedOnce, AttemptsLeft
-----------------------------------------------------------------------------
(* Core, the recipient and the administrators: the jobs are left alone. *)

LEMMA ReceiveInv ==
  ASSUME BInv, NEW e \in Events, NEW o \in Ops, NEW m \in People, Receive(e, o, m)
  PROVE  BInv'
<1> USE DEF Receive, receiveCoreBootstrap, CreateCoreBootstrapOperation,
            AppendCoreBootstrapReceipt, recoveryVars
<1>1. TypeOK'
  BY DEF BInv, TypeOK, Receipt, Operation, Statuses, jobVars
<1>2. Appointed'
  BY BootstrapAssumption
  DEF BInv, Appointed, AppointmentIsIntended, AdministratorIsIntended,
      InvitationFollowsOperation, ReferencesAreNotShared, Recorded, Waiting
<1>3. Accounted'
  BY <1>1, QuietAges, QuietJobs
<1> QED BY <1>1, <1>2, <1>3 DEF BInv

LEMMA AcceptInv ==
  ASSUME BInv, NEW p \in People, NEW g \in 1..inv.generation, AcceptInvitation(p, g)
  PROVE  BInv'
<1> USE DEF AcceptInvitation, validateInvitationBootstrap, CompleteBootstrap,
            CompleteInvitationBootstrap, ActivateInvitationBootstrapAccess, recoveryVars
<1>1. TypeOK'
  BY DEF BInv, TypeOK, Operation, Statuses, Invitation, jobVars
<1>2. Appointed'
  BY DEF BInv, TypeOK, Operation, Invitation, Appointed, AppointmentIsIntended,
         AdministratorIsIntended, InvitationFollowsOperation, ReferencesAreNotShared,
         Recorded, Waiting
<1>3. Ages
  BY DEF Ages, BInv, TypeOK, Invitation
<1>4. Accounted'
  BY <1>1, <1>3, QuietJobs
<1> QED BY <1>1, <1>2, <1>4 DEF BInv

LEMMA ReissueInv ==
  ASSUME BInv, ReissueTenantBootstrapInvitation
  PROVE  BInv'
<1> USE DEF ReissueTenantBootstrapInvitation, ReissuePlatformBootstrapInvitation,
            ResumeReissuedCoreBootstrap, recoveryVars
<1>0. inv.generation \in Nat /\ inv'.generation = inv.generation + 1
  BY Bounds DEF BInv, TypeOK, Invitation
<1>1. TypeOK'
  BY <1>0, Bounds DEF BInv, TypeOK, Operation, Statuses, Invitation, jobVars, Waiting
<1>2. Appointed'
  BY <1>0 DEF BInv, TypeOK, Operation, Invitation, Appointed, AppointmentIsIntended,
         AdministratorIsIntended, InvitationFollowsOperation, ReferencesAreNotShared,
         Recorded, Waiting
<1>3. Ages
  BY <1>0 DEF Ages
<1>4. Accounted'
  BY <1>1, <1>3, QuietJobs
<1> QED BY <1>1, <1>2, <1>4 DEF BInv

LEMMA InvitationElapsesInv ==
  ASSUME BInv, InvitationElapses
  PROVE  BInv'
<1> USE DEF InvitationElapses, recoveryVars
<1>1. TypeOK'
  BY DEF BInv, TypeOK, Invitation, jobVars
<1>2. Appointed'
  BY DEF BInv, TypeOK, Invitation, Appointed, AppointmentIsIntended,
         AdministratorIsIntended, InvitationFollowsOperation, ReferencesAreNotShared,
         Recorded
<1>3. Ages
  BY DEF Ages, BInv, TypeOK, Invitation
<1>4. Accounted'
  BY <1>1, <1>3, QuietJobs
<1> QED BY <1>1, <1>2, <1>4 DEF BInv

\* The rows of the recoveries and references change; nothing else does.
LEMMA RequestInv ==
  ASSUME BInv, NEW r \in Recoveries, NEW a \in Administrators, NEW p \in People,
         RequestTenantBootstrapRecovery(r, a, p)
  PROVE  BInv'
<1> USE DEF RequestTenantBootstrapRecovery, CreateTenantBootstrapRecovery, tenantVars
<1>0. recovery'[r] \in Recovery
  BY DEF BInv, TypeOK, Recovery
<1>1. TypeOK'
  BY <1>0 DEF BInv, TypeOK, jobVars
<1>2. Appointed'
  BY DEF BInv, TypeOK, Recovery, Appointed, AppointmentIsIntended,
         AdministratorIsIntended, InvitationFollowsOperation, ReferencesAreNotShared, Recorded
<1>3. Accounted'
  BY <1>1, QuietAges, QuietJobs
<1> QED BY <1>1, <1>2, <1>3 DEF BInv

LEMMA ApproveInv ==
  ASSUME BInv, NEW r \in Recoveries, NEW b \in Administrators, NEW x \in References,
         ApproveTenantBootstrapRecovery(r, b, x)
  PROVE  BInv'
<1> USE DEF ApproveTenantBootstrapRecovery, ApproveBootstrapRecovery,
            ReserveBootstrapRecoveryApproval, tenantVars
<1>a. recovery[r] \in Recovery
  BY DEF BInv, TypeOK
<1>b. recovery'[r] = [status |-> "approved", target |-> recovery[r].target,
                      requester |-> recovery[r].requester, approver |-> b,
                      reference |-> x, elapsed |-> recovery[r].elapsed]
  BY <1>a DEF BInv, TypeOK, Recovery
<1>0. recovery'[r] \in Recovery
  BY <1>a, <1>b DEF Recovery
<1>1. TypeOK'
  BY <1>0 DEF BInv, TypeOK, jobVars
<1>2. ReferencesAreNotShared'
  BY BootstrapAssumption
  DEF BInv, TypeOK, Recovery, Appointed, AppointmentIsIntended, ReferencesAreNotShared
<1>3. AdministratorIsIntended' /\ InvitationFollowsOperation' /\ Recorded'
  BY BootstrapAssumption
  DEF BInv, TypeOK, Recovery, Appointed, AppointmentIsIntended,
      AdministratorIsIntended, InvitationFollowsOperation, Recorded
<1>4. Accounted'
  BY <1>1, QuietAges, QuietJobs
<1> QED BY <1>1, <1>2, <1>3, <1>4 DEF BInv, Appointed, AppointmentIsIntended

LEMMA ExecuteInv ==
  ASSUME BInv, NEW r \in Recoveries, NEW x \in References,
         ExecuteTenantBootstrapRecovery(r, x)
  PROVE  BInv'
<1> USE DEF ExecuteTenantBootstrapRecovery, ApplyBootstrapRecovery, CompleteBootstrapRecovery,
            SupersedeTenantBootstrap, CancelSupersededBootstrapInvitations,
            ActivateRecoveryBootstrapAccess, CreateRecoveredTenantBootstrap
<1>0. recovery[r].target \in People
  BY DEF BInv, Appointed, Recorded
<1>1. TypeOK'
  BY <1>0 DEF BInv, TypeOK, Recovery, Operation, Statuses, Invitation, jobVars
<1>2. AdministratorIsIntended'
  BY BootstrapAssumption
  DEF BInv, TypeOK, Recovery, Operation, Appointed, AppointmentIsIntended,
      AdministratorIsIntended, ValidateBootstrapRecoveryTarget
<1>3. InvitationFollowsOperation'
  BY DEF BInv, TypeOK, Operation, Invitation, Appointed, AppointmentIsIntended,
         InvitationFollowsOperation, ValidateBootstrapRecoveryTarget, Statuses, Waiting
<1>4. ReferencesAreNotShared'
  BY DEF BInv, TypeOK, Recovery, Appointed, AppointmentIsIntended, ReferencesAreNotShared
<1>5. Recorded'
  BY DEF BInv, TypeOK, Recovery, Operation, Invitation, Appointed, Recorded
<1>6. Ages
  BY DEF Ages, BInv, TypeOK, Invitation
<1>7. Accounted'
  BY <1>1, <1>6, QuietJobs
<1> QED BY <1>1, <1>2, <1>3, <1>4, <1>5, <1>7 DEF BInv, Appointed, AppointmentIsIntended

LEMMA RecoveryElapsesInv ==
  ASSUME BInv, NEW r \in Recoveries, RecoveryElapses(r)
  PROVE  BInv'
<1> USE DEF RecoveryElapses, tenantVars
<1>1. TypeOK'
  BY DEF BInv, TypeOK, Recovery, jobVars
<1>2. Appointed'
  BY DEF BInv, TypeOK, Recovery, Appointed, AppointmentIsIntended,
         AdministratorIsIntended, InvitationFollowsOperation, ReferencesAreNotShared, Recorded
<1>3. Accounted'
  BY <1>1, QuietAges, QuietJobs
<1> QED BY <1>1, <1>2, <1>3 DEF BInv

-----------------------------------------------------------------------------
(* The dispatchers. *)

LEMMA DiscoverInv ==
  ASSUME BInv, NEW w \in Workers, Discover(w)
  PROVE  BInv'
<1> USE DEF Discover
<1>1. TypeOK'
  BY DEF BInv, TypeOK, Dispatcher, DiscoverCoreBootstrapJobs, tenantVars, recoveryVars
<1>2. Appointed'
  BY QuietTenant DEF BInv
<1>3. Accounted'
  <2>1. \A v \in Workers : AtWork(v)' => worker'[v] = worker[v]
    BY DEF BInv, TypeOK, AtWork
  <2>2. UNCHANGED <<jobs, attempts>> /\ Ages
    BY QuietAges DEF tenantVars
  <2> QED BY <1>1, <2>1, <2>2, QuietRows DEF AtWork
<1> QED BY <1>1, <1>2, <1>3 DEF BInv

LEMMA CrashInv ==
  ASSUME BInv, NEW w \in Workers, Crash(w)
  PROVE  BInv'
<1> USE DEF Crash
<1>1. TypeOK'
  BY DEF BInv, TypeOK, Dispatcher, tenantVars, recoveryVars
<1>2. Appointed'
  BY QuietTenant DEF BInv
<1>3. Accounted'
  <2>1. \A v \in Workers : AtWork(v)' => worker'[v] = worker[v]
    BY DEF BInv, TypeOK, AtWork, Idle
  <2>2. UNCHANGED <<jobs, attempts>> /\ Ages
    BY QuietAges DEF tenantVars
  <2> QED BY <1>1, <2>1, <2>2, QuietRows DEF AtWork
<1> QED BY <1>1, <1>2, <1>3 DEF BInv

\* An answer keeps the claim it answers.
LEMMA WorkedKeeps ==
  ASSUME BInv, NEW w \in Workers, worker[w].phase = "working",
         NEW code \in Codes, Worked(w, code)
  PROVE  /\ worker' \in [Workers -> Dispatcher]
         /\ \A v \in Workers : AtWork(v)' =>
              /\ AtWork(v)
              /\ worker'[v].job = worker[v].job /\ worker'[v].attempt = worker[v].attempt
<1>1. worker[w].job \in Jobs /\ worker[w].attempt \in 1..MaxAttempts
      /\ worker[w].cycle \in 0..MaxAttempts
  BY DispatcherFields DEF BInv, TypeOK
<1>2. worker' = [worker EXCEPT ![w] =
        [phase |-> "worked", job |-> worker[w].job, attempt |-> worker[w].attempt,
         cycle |-> worker[w].cycle, code |-> code]]
  BY DEF Worked
<1> QED BY <1>1, <1>2 DEF BInv, TypeOK, Dispatcher, AtWork

LEMMA WorkFailsInv ==
  ASSUME BInv, NEW w \in Workers, WorkFails(w)
  PROVE  BInv'
<1> USE DEF WorkFails
<1>0. PICK code \in Codes : Worked(w, code)
  BY DEF Codes
<1>1. TypeOK'
  BY <1>0, WorkedKeeps DEF BInv, TypeOK, tenantVars, recoveryVars
<1>2. Appointed'
  BY QuietTenant DEF BInv
<1>3. Ages
  BY QuietAges DEF tenantVars
<1>4. Accounted'
  BY <1>0, <1>1, <1>3, WorkedKeeps, QuietRows
<1> QED BY <1>1, <1>2, <1>4 DEF BInv

LEMMA ReconcileInv ==
  ASSUME BInv, NEW w \in Workers, Reconcile(w)
  PROVE  BInv'
<1>0. PICK code \in Codes : Worked(w, code)
  BY DEF Reconcile, Codes
<1>1. /\ worker[w].phase = "working"
      /\ UNCHANGED <<receipts, admins, jobs, attempts, recovery, reserved, recovered>>
  BY DEF Reconcile, recoveryVars
<1>2. CASE UNCHANGED <<core, access, inv>>
  <2>1. TypeOK'
    BY <1>0, <1>1, <1>2, WorkedKeeps DEF BInv, TypeOK
  <2>2. Appointed'
    BY <1>1, <1>2, QuietTenant DEF BInv, tenantVars, recoveryVars
  <2>3. Accounted'
    BY <1>0, <1>1, <1>2, <2>1, QuietAges, WorkedKeeps, QuietRows
  <2> QED BY <2>1, <2>2, <2>3 DEF BInv
<1>3. CASE ~WorkerResult /\ CreateCoreBootstrapInvitation
  <2> USE <1>3 DEF WorkerResult, CreateCoreBootstrapInvitation, CreateBootstrapPendingAccess,
                   CreateCoreBootstrapTenantInvitation, MarkCoreBootstrapWaiting
  <2>1. TypeOK'
    BY <1>0, <1>1, WorkedKeeps, Bounds
    DEF BInv, TypeOK, Invitation, Operation, Statuses, Waiting
  <2>2. Appointed'
    BY <1>1 DEF BInv, TypeOK, Operation, Invitation, Appointed, AppointmentIsIntended,
                AdministratorIsIntended, InvitationFollowsOperation,
                ReferencesAreNotShared, Recorded, Waiting
  <2>3. Ages
    BY DEF Ages, BInv, Appointed, Recorded
  <2>4. Accounted'
    BY <1>0, <1>1, <2>1, <2>3, WorkedKeeps, QuietRows
  <2> QED BY <2>1, <2>2, <2>4 DEF BInv
<1> QED BY <1>2, <1>3 DEF Reconcile

LEMMA ExpireInvitationInv ==
  ASSUME BInv, NEW w \in Workers, ExpireInvitation(w)
  PROVE  BInv'
<1>0. Worked(w, "") /\ "" \in Codes
  BY DEF ExpireInvitation, Codes
<1>1. /\ worker[w].phase = "working"
      /\ UNCHANGED <<receipts, access, admins, jobs, attempts, recovery, reserved, recovered>>
  BY DEF ExpireInvitation, recoveryVars
<1>2. CASE UNCHANGED <<core, inv>>
  <2>1. TypeOK'
    BY <1>0, <1>1, <1>2, WorkedKeeps DEF BInv, TypeOK
  <2>2. Appointed'
    BY <1>1, <1>2, QuietTenant DEF BInv, tenantVars, recoveryVars
  <2>3. Accounted'
    BY <1>0, <1>1, <1>2, <2>1, QuietAges, WorkedKeeps, QuietRows
  <2> QED BY <2>1, <2>2, <2>3 DEF BInv
<1>3. CASE inv.status \in {"pending", "expired"} /\ ExpireCoreBootstrapInvitation
  <2> USE <1>3 DEF ExpireCoreBootstrapInvitation, MarkCoreBootstrapInvitationAttention
  <2>1. TypeOK'
    BY <1>0, <1>1, WorkedKeeps DEF BInv, TypeOK, Invitation, Operation, Statuses
  <2>2. Appointed'
    BY <1>1 DEF BInv, TypeOK, Operation, Invitation, Appointed, AppointmentIsIntended,
                AdministratorIsIntended, InvitationFollowsOperation,
                ReferencesAreNotShared, Recorded, Waiting
  <2>3. Ages
    BY DEF Ages, BInv, TypeOK, Invitation
  <2>4. Accounted'
    BY <1>0, <1>1, <2>1, <2>3, WorkedKeeps, QuietRows
  <2> QED BY <2>1, <2>2, <2>4 DEF BInv
<1> QED BY <1>2, <1>3 DEF ExpireInvitation

\* Writing down the end of an attempt.
LEMMA FinishJobInv ==
  ASSUME BInv, NEW j \in Jobs, NEW row \in Job,
         row = jobs[j], row.state = "claimed",
         NEW state \in {"done", "attention_required", "pending"},
         state = "pending" => ~Exhausted(row),
         finishJob(j, row, state),
         UNCHANGED <<receipts, tenantVars, recoveryVars>>,
         worker' \in [Workers -> Dispatcher],
         \A w \in Workers : AtWork(w)' =>
           /\ AtWork(w)
           /\ worker'[w].job = worker[w].job /\ worker'[w].attempt = worker[w].attempt
  PROVE  BInv'
<1> DEFINE new == FinishCoreBootstrapJob(row, state)
<1>a. /\ new \in Job /\ new.state = state /\ new.attempt = row.attempt
      /\ new.cycle = row.cycle
  BY DEF FinishCoreBootstrapJob, Job
<1>b. row.attempt \in Nat /\ row.cycle \in Nat
  BY Bounds DEF Job
<1>1. /\ new \in Job /\ new.state = state /\ new.attempt = row.attempt /\ new.cycle = row.cycle
      /\ row.attempt \in Nat /\ row.cycle \in Nat
  BY <1>a, <1>b
<1>2. jobs' = [jobs EXCEPT ![j] = new] /\ attempts' = [attempts EXCEPT ![j] = @ + 1]
  BY DEF finishJob, AppendCoreBootstrapAttempt
<1>3. /\ WithinCycle(row) /\ attempts[j] \in Nat /\ attempts[j] = row.attempt - 1
      /\ row.attempt <= MaxAttempts
  BY Bounds DEF BInv, TypeOK, Accounted, AttemptsAreRecordedOnce, AttemptsLeft, Job
<1> HIDE DEF new
<1>4. attempts[j] + 1 = row.attempt /\ row.attempt \in 0..MaxAttempts
  BY <1>1, <1>3, Bounds
<1>5. /\ \A k \in Jobs : k # j => attempts'[k] = attempts[k]
      /\ attempts'[j] = row.attempt
      /\ attempts' \in [Jobs -> 0..MaxAttempts]
  BY <1>2, <1>4 DEF BInv, TypeOK
<1>6. WithinCycle(new)
  BY <1>1, <1>3, Bounds DEF WithinCycle, Exhausted
<1>7. TypeOK'
  BY <1>1, <1>2, <1>5 DEF BInv, TypeOK, tenantVars, recoveryVars
<1>8. Appointed'
  BY QuietTenant DEF BInv
<1>9. Accounted'
  <2>1. Ages
    BY QuietAges DEF tenantVars
  <2>2. attempts'[j] = new.attempt - (IF new.state = "claimed" THEN 1 ELSE 0)
    BY <1>1, <1>5
  <2>3. new.attempt = jobs[j].attempt
    BY <1>1
  <2> QED BY <1>1, <1>2, <1>5, <1>6, <1>7, <2>1, <2>2, <2>3, OneRow
<1> QED BY <1>7, <1>8, <1>9 DEF BInv

\* A job that is looked up has a row from then on.
LEMMA CreatedRow ==
  ASSUME BInv, NEW j \in Jobs
  PROVE  LET row == CreateCoreBootstrapJob(jobs[j])
         IN /\ row \in Job /\ row.attempt = jobs[j].attempt /\ row.cycle = jobs[j].cycle
            /\ row.state \in {"pending", "claimed", "done", "attention_required"}
            /\ (row.state = "claimed") <=> (jobs[j].state = "claimed")
            /\ row.state = "claimed" => row = jobs[j]
            /\ WithinCycle(row)
<1>1. jobs[j] \in Job /\ WithinCycle(jobs[j])
  BY DEF BInv, TypeOK, Accounted, AttemptsLeft
<1> QED BY <1>1, Bounds DEF CreateCoreBootstrapJob, Job, WithinCycle

LEMMA ClaimNothingInv ==
  ASSUME BInv, NEW w \in Workers, ClaimNothing(w)
  PROVE  BInv'
<1>1. PICK j \in Jobs : j = worker[w].job
  BY DispatcherFields DEF ClaimNothing, BInv, TypeOK
<1>2. PICK row \in Job : row = CreateCoreBootstrapJob(jobs[j])
  BY CreatedRow
<1>3. /\ RecoverLease(j, row) \/ SkipJob(j, row)
      /\ worker' = [worker EXCEPT ![w] = Idle]
      /\ UNCHANGED <<receipts, tenantVars, recoveryVars>>
  BY <1>1, <1>2 DEF ClaimNothing
<1>4. /\ worker' \in [Workers -> Dispatcher]
      /\ \A v \in Workers : AtWork(v)' =>
           /\ AtWork(v)
           /\ worker'[v].job = worker[v].job /\ worker'[v].attempt = worker[v].attempt
  BY <1>3 DEF BInv, TypeOK, Dispatcher, AtWork, Idle
<1>5. CASE RecoverLease(j, row)
  <2>1. row = jobs[j] /\ row.state = "claimed"
    BY <1>2, <1>5, CreatedRow DEF RecoverLease
  <2>2. PICK state \in {"done", "attention_required", "pending"} :
          finishJob(j, row, state) /\ (state = "pending" => ~Exhausted(row))
    BY <1>5 DEF RecoverLease
  <2> QED BY <1>3, <1>4, <2>1, <2>2, FinishJobInv
<1>6. CASE SkipJob(j, row)
  <2>1. jobs' = [jobs EXCEPT ![j] = row] /\ UNCHANGED attempts
    BY <1>6 DEF SkipJob
  <2>2. /\ row.attempt = jobs[j].attempt /\ WithinCycle(row)
        /\ (row.state = "claimed") <=> (jobs[j].state = "claimed")
    BY <1>2, CreatedRow
  <2>3. TypeOK'
    BY <1>3, <1>4, <2>1 DEF BInv, TypeOK, tenantVars, recoveryVars
  <2>4. Ages
    BY <1>3, QuietAges DEF tenantVars
  <2>5. Accounted'
    <3>1. attempts'[j] = row.attempt - (IF row.state = "claimed" THEN 1 ELSE 0)
      BY <2>1, <2>2 DEF BInv, Accounted, AttemptsAreRecordedOnce
    <3>2. \A k \in Jobs : k # j => attempts'[k] = attempts[k]
      BY <2>1
    <3> QED BY <1>4, <2>1, <2>2, <2>3, <2>4, <3>1, <3>2, OneRow
  <2> QED BY <1>3, <2>3, <2>5, QuietTenant DEF BInv
<1> QED BY <1>3, <1>5, <1>6

LEMMA ClaimJobInv ==
  ASSUME BInv, NEW w \in Workers, ClaimJob(w)
  PROVE  BInv'
<1>1. PICK j \in Jobs : j = worker[w].job
  BY DispatcherFields DEF ClaimJob, BInv, TypeOK
<1>2. PICK row \in Job : row = CreateCoreBootstrapJob(jobs[j])
  BY CreatedRow
<1>3. PICK new : new = ClaimCoreBootstrapJob(row)
  OBVIOUS
<1>4. /\ row.state = "pending" /\ ~Terminal(j) /\ Due(j)
      /\ jobs' = [jobs EXCEPT ![j] = new]
      /\ worker' = [worker EXCEPT ![w] =
           [phase |-> "working", job |-> j, attempt |-> new.attempt, cycle |-> new.cycle]]
      /\ UNCHANGED <<receipts, tenantVars, attempts, recoveryVars>>
  BY <1>1, <1>2, <1>3 DEF ClaimJob
<1>5. /\ row.attempt = jobs[j].attempt /\ row.cycle = jobs[j].cycle /\ WithinCycle(row)
      /\ jobs[j].state # "claimed"
  BY <1>2, <1>4, CreatedRow
<1>6. /\ row.attempt \in Nat /\ row.cycle \in Nat
      /\ row.attempt + 1 <= row.cycle + CycleAttempts
      /\ row.cycle + CycleAttempts <= MaxAttempts
  BY <1>4, <1>5, Bounds DEF WithinCycle, Job
<1>a. row.attempt + 1 \in 1..MaxAttempts
  BY <1>6, Bounds
<1>b. new = [state |-> "claimed", attempt |-> row.attempt + 1, cycle |-> row.cycle,
             current |-> TRUE]
  BY <1>3 DEF ClaimCoreBootstrapJob, Job
<1>c. new \in Job
  <2>1. row.cycle \in 0..MaxAttempts /\ row.attempt + 1 \in 0..MaxAttempts
    BY <1>6, Bounds
  <2> QED BY <1>b, <2>1 DEF Job
<1>7. /\ new \in Job /\ new.attempt = row.attempt + 1 /\ new.cycle = row.cycle
      /\ new.state = "claimed" /\ new.attempt \in 1..MaxAttempts
      /\ WithinCycle(new)
  BY <1>5, <1>6, <1>a, <1>b, <1>c, Bounds DEF WithinCycle
<1>8. TypeOK'
  BY <1>4, <1>7 DEF BInv, TypeOK, Job, Dispatcher, Claim, tenantVars, recoveryVars
<1>9. Appointed'
  BY <1>4, QuietTenant DEF BInv
<1>10. \A k \in Jobs : jobs'[k] = IF k = j THEN new ELSE jobs[k]
  BY <1>4 DEF BInv, TypeOK
<1>11. ClaimsAreNumbered'
  <2>1. \A v \in Workers : v # w => worker'[v] = worker[v]
    BY <1>4 DEF BInv, TypeOK
  <2>2. worker'[w].job = j /\ worker'[w].attempt = jobs[j].attempt + 1
    BY <1>4, <1>5, <1>7 DEF BInv, TypeOK
  <2>3. \A v \in Workers : AtWork(v) =>
          /\ worker[v].job \in Jobs /\ worker[v].attempt \in Nat
          /\ worker[v].attempt <= jobs[worker[v].job].attempt
    BY DispatcherFields, Bounds DEF BInv, TypeOK, AtWork, Accounted, ClaimsAreNumbered
  <2>4. jobs[j].attempt \in Nat /\ jobs'[j].attempt = jobs[j].attempt + 1
    BY <1>5, <1>6, <1>7, <1>10
  <2>5. \A v \in Workers : AtWork(v)' => worker'[v].attempt <= jobs'[worker'[v].job].attempt
    BY <1>10, <2>1, <2>2, <2>3, <2>4, <1>7, <1>5 DEF AtWork
  <2>6. ASSUME NEW u \in Workers, NEW v \in Workers, AtWork(u)', AtWork(v)',
               worker'[u].job = worker'[v].job, worker'[u].attempt = worker'[v].attempt
        PROVE  u = v
    BY <2>1, <2>2, <2>3, <2>4, <2>6 DEF AtWork, BInv, Accounted, ClaimsAreNumbered
  <2> QED BY <2>5, <2>6 DEF ClaimsAreNumbered
<1>12. AttemptsAreRecordedOnce' /\ AttemptsLeft'
  BY <1>4, <1>5, <1>6, <1>7, <1>10
  DEF BInv, TypeOK, Accounted, AttemptsAreRecordedOnce, AttemptsLeft, WithinCycle
<1>13. ExpiriesAreDue'
  <2>1. UNCHANGED inv
    BY <1>4 DEF tenantVars
  <2>2. j.kind = "expire" => inv.generation = j.generation /\ inv.elapsed
    BY <1>4 DEF Terminal, Due
  <2> QED BY <1>10, <2>1, <2>2 DEF BInv, Accounted, ExpiriesAreDue
<1> QED BY <1>8, <1>9, <1>11, <1>12, <1>13 DEF BInv, Accounted

\* An answer that settled nothing cannot end an attempt: a job of this kind is
\* due, so the answer is a conflict.
LEMMA FinishInv ==
  ASSUME BInv, NEW w \in Workers, Finish(w)
  PROVE  BInv'
<1>1. PICK j \in Jobs : j = worker[w].job
  BY DispatcherFields DEF Finish, BInv, TypeOK
<1>2. PICK row \in Job : row = jobs[j]
  BY DEF BInv, TypeOK
<1>3. /\ worker' = [worker EXCEPT ![w] = Idle]
      /\ UNCHANGED <<receipts, tenantVars, recoveryVars>>
  BY DEF Finish
<1>4. /\ worker' \in [Workers -> Dispatcher]
      /\ \A v \in Workers : AtWork(v)' =>
           /\ AtWork(v)
           /\ worker'[v].job = worker[v].job /\ worker'[v].attempt = worker[v].attempt
  BY <1>3 DEF BInv, TypeOK, Dispatcher, AtWork, Idle
<1>5. CASE UNCHANGED <<jobs, attempts>>
  <2>1. TypeOK'
    BY <1>3, <1>4, <1>5 DEF BInv, TypeOK, tenantVars, recoveryVars
  <2>2. Ages
    BY <1>3, QuietAges DEF tenantVars
  <2>3. Accounted'
    BY <1>4, <1>5, <2>1, <2>2, QuietRows
  <2> QED BY <1>3, <2>1, <2>3, QuietTenant DEF BInv
<1>6. CASE ~UNCHANGED <<jobs, attempts>>
  <2>1. PICK code \in Codes : code = worker[w].code
    BY DispatcherFields DEF Finish, BInv, TypeOK
  <2>2. /\ row.state = "claimed" /\ ~FinishConflict(j, code)
        /\ finishJob(j, row, FinishOutcome(j, row, code))
    BY <1>1, <1>2, <1>6, <2>1 DEF Finish, LeaseHeld
  <2>3. PICK state : state = FinishOutcome(j, row, code)
    OBVIOUS
  <2>4. Terminal(j) \/ code # ""
    <3>1. jobs[j].attempt > 0
      BY <1>2, <2>2, Bounds DEF BInv, TypeOK, Job, Accounted, AttemptsLeft, WithinCycle
    <3>2. j.kind = "expire" =>
            inv.generation > j.generation \/ (inv.generation = j.generation /\ inv.elapsed)
      BY <3>1 DEF BInv, Accounted, ExpiriesAreDue
    <3>3. j.kind \in {"initialize", "expire"} /\ j.generation \in Nat
          /\ inv.generation \in Nat
      BY JobFields, Bounds DEF BInv, TypeOK, Invitation
    <3>4. ASSUME ~Terminal(j) PROVE j.kind = "initialize" \/ inv.elapsed
      BY <3>2, <3>3, <3>4 DEF Terminal
    <3> QED BY <2>2, <3>4 DEF FinishConflict
  <2>5. /\ state \in {"done", "attention_required", "pending"}
        /\ state = "pending" => ~Exhausted(row)
    BY <2>3, <2>4 DEF FinishOutcome, Codes
  <2> QED BY <1>2, <1>3, <1>4, <2>2, <2>3, <2>5, FinishJobInv
<1> QED BY <1>5, <1>6

LEMMA RetryInv ==
  ASSUME BInv, NEW j \in Jobs, RetryTenantBootstrapJob(j)
  PROVE  BInv'
<1>1. PICK new : new = RetryCoreBootstrapJob(jobs[j])
  OBVIOUS
<1>2. /\ jobs' = [jobs EXCEPT ![j] = new] /\ jobs[j].state = "attention_required"
      /\ jobs[j].attempt + CycleAttempts <= MaxAttempts
      /\ UNCHANGED <<receipts, tenantVars, attempts, worker, recoveryVars>>
  BY <1>1 DEF RetryTenantBootstrapJob
<1>3. jobs[j] \in Job
  BY DEF BInv, TypeOK
<1>a. jobs[j].attempt \in 0..MaxAttempts
  BY <1>3 DEF Job
<1>b. /\ new \in Job /\ new.attempt = jobs[j].attempt /\ new.cycle = jobs[j].attempt
      /\ new.state = "pending"
  BY <1>1, <1>3, <1>a DEF RetryCoreBootstrapJob, Job
<1>4. /\ new \in Job /\ new.attempt = jobs[j].attempt /\ new.state = "pending"
      /\ WithinCycle(new)
  BY <1>2, <1>a, <1>b, Bounds DEF WithinCycle
<1>5. TypeOK'
  BY <1>2, <1>4 DEF BInv, TypeOK, tenantVars, recoveryVars
<1>6. Ages
  BY <1>2, QuietAges DEF tenantVars
<1>7. Accounted'
  <2>1. attempts'[j] = new.attempt - (IF new.state = "claimed" THEN 1 ELSE 0)
    BY <1>2, <1>4 DEF BInv, Accounted, AttemptsAreRecordedOnce
  <2> QED BY <1>2, <1>4, <1>5, <1>6, <2>1, OneRow DEF AtWork
<1> QED BY <1>2, <1>5, <1>7, QuietTenant DEF BInv

LEMMA LeaseElapsesInv ==
  ASSUME BInv, NEW j \in Jobs, LeaseElapses(j)
  PROVE  BInv'
<1>1. PICK new : new = [jobs[j] EXCEPT !.current = FALSE]
  OBVIOUS
<1>2. /\ jobs' = [jobs EXCEPT ![j] = new]
      /\ UNCHANGED <<receipts, tenantVars, attempts, worker, recoveryVars>>
  BY <1>1 DEF LeaseElapses
<1>3. jobs[j] \in Job /\ WithinCycle(jobs[j])
  BY DEF BInv, TypeOK, Accounted, AttemptsLeft
<1>4. /\ new \in Job /\ new.attempt = jobs[j].attempt /\ new.state = jobs[j].state
      /\ WithinCycle(new)
  BY <1>1, <1>3, Bounds DEF Job, WithinCycle
<1>5. TypeOK'
  BY <1>2, <1>4 DEF BInv, TypeOK, tenantVars, recoveryVars
<1>6. Ages
  BY <1>2, QuietAges DEF tenantVars
<1>7. Accounted'
  <2>1. attempts'[j] = new.attempt - (IF new.state = "claimed" THEN 1 ELSE 0)
    BY <1>2, <1>4 DEF BInv, Accounted, AttemptsAreRecordedOnce
  <2> QED BY <1>2, <1>4, <1>5, <1>6, <2>1, OneRow DEF AtWork
<1> QED BY <1>2, <1>5, <1>7, QuietTenant DEF BInv
-----------------------------------------------------------------------------
(* The theorems. *)

LEMMA NextInv ==
  ASSUME BInv, [Next]_vars
  PROVE  BInv'
<1>1. CASE UNCHANGED vars
  <2>1. TypeOK'
    BY <1>1 DEF vars, BInv, TypeOK
  <2>2. Appointed'
    BY <1>1, QuietTenant DEF vars, BInv, tenantVars, recoveryVars
  <2>3. Accounted'
    BY <1>1, <2>1, QuietAges, QuietJobs DEF vars, jobVars
  <2> QED BY <2>1, <2>2, <2>3 DEF BInv
<1>2. CASE \E e \in Events, o \in Ops, m \in People : Receive(e, o, m)
  BY <1>2, ReceiveInv
<1>3. CASE \E w \in Workers : DispatchNext(w) \/ Crash(w)
  BY <1>3, DiscoverInv, ClaimNothingInv, ClaimJobInv, ReconcileInv, ExpireInvitationInv,
     WorkFailsInv, FinishInv, CrashInv
  DEF DispatchNext
<1>4. CASE \E p \in People, g \in 1..inv.generation : AcceptInvitation(p, g)
  BY <1>4, AcceptInv
<1>5. CASE ReissueTenantBootstrapInvitation \/ InvitationElapses
  BY <1>5, ReissueInv, InvitationElapsesInv
<1>6. CASE \E j \in Jobs : RetryTenantBootstrapJob(j) \/ LeaseElapses(j)
  BY <1>6, RetryInv, LeaseElapsesInv
<1>7. ASSUME NEW r \in Recoveries,
             \/ \E a \in Administrators, p \in People : RequestTenantBootstrapRecovery(r, a, p)
             \/ \E b \in Administrators, x \in References : ApproveTenantBootstrapRecovery(r, b, x)
             \/ \E x \in References : ExecuteTenantBootstrapRecovery(r, x)
             \/ RecoveryElapses(r)
      PROVE  BInv'
  BY <1>7, RequestInv, ApproveInv, ExecuteInv, RecoveryElapsesInv
<1> QED BY <1>1, <1>2, <1>3, <1>4, <1>5, <1>6, <1>7 DEF Next

\* The inductive invariant of the bootstrap (the rows that receiveCoreBootstrap,
\* the dispatchers, CompleteBootstrap and ApplyBootstrapRecovery write).
THEOREM Inductive == Spec => []BInv
<1>1. Init => BInv
  BY InitInv
<1>2. BInv /\ [Next]_vars => BInv'
  BY NextInv
<1> QED BY <1>1, <1>2, PTL DEF Spec

\* Every row of the bootstrap is well formed; in particular no job ever counts
\* more attempts than its cycles allow (ClaimCoreBootstrapJob).
THEOREM Typing == Spec => []TypeOK
<1>1. BInv => TypeOK
  BY DEF BInv
<1> QED BY <1>1, Inductive, PTL

\* Whoever is the first administrator was meant to be: named by Core, or
\* approved by a second administrator with a reference of its own
\* (CompleteBootstrap, ApplyBootstrapRecovery).
THEOREM Appointment == Spec => []AppointmentIsIntended
<1>1. BInv => AppointmentIsIntended
  BY DEF BInv, Appointed
<1> QED BY <1>1, Inductive, PTL

\* Dispatchers never share a lease, and every attempt has one row and stays in
\* its cycle (Claim, Finish, finishJob).
THEOREM Accountability == Spec => []JobsAreAccountable
<1>1. ASSUME BInv PROVE JobsAreAccountable
  <2>1. LeaseIsExclusive
    BY <1>1 DEF LeaseIsExclusive, LeaseHeld, BInv, Accounted, ClaimsAreNumbered, AtWork
  <2>2. AttemptsStayInTheirCycle
    <3> SUFFICES ASSUME NEW j \in Jobs
                 PROVE  jobs[j].attempt - jobs[j].cycle <= CycleAttempts
      BY DEF AttemptsStayInTheirCycle
    <3>1. jobs[j].attempt \in Nat /\ jobs[j].cycle \in Nat /\ WithinCycle(jobs[j])
      BY <1>1, Bounds DEF BInv, TypeOK, Job, Accounted, AttemptsLeft
    <3> QED BY <3>1, Bounds DEF WithinCycle
  <2> QED BY <1>1, <2>1, <2>2 DEF BInv, Accounted, JobsAreAccountable
<1> QED BY <1>1, Inductive, PTL

-----------------------------------------------------------------------------
(* The bootstrap implements FirstAdministrator. *)

LEMMA HolderOfOne ==
  /\ Holder({}) = None
  /\ \A p \in People : Holder({p}) = p
<1>1. Holder({}) = None
  BY DEF Holder
<1>2. ASSUME NEW p \in People PROVE Holder({p}) = p
  <2>1. \A q \in People : {p} = {q} => q = p
    BY Zenon
  <2>2. (CHOOSE q \in People : {p} = {q}) = p
    BY <2>1
  <2>3. {p} # {}
    BY Zenon
  <2> QED BY <2>2, <2>3 DEF Holder
<1> QED BY <1>1, <1>2

ApprovedRow(row) == row.approver # None /\ row.approver # row.requester

LEMMA SameApproved ==
  ASSUME \A q \in Recoveries :
           /\ ApprovedRow(recovery'[q]) <=> ApprovedRow(recovery[q])
           /\ ApprovedRow(recovery[q]) => recovery'[q].target = recovery[q].target
  PROVE  ApprovedPeople' = ApprovedPeople
BY DEF ApprovedRow, ApprovedPeople

\* A step that names nobody, approves nobody and appoints nobody.
LEMMA Unseen ==
  ASSUME core'.email = core.email, UNCHANGED <<admins, recovery>>
  PROVE  UNCHANGED <<core.email, ApprovedPeople, Holder(admins)>>
BY DEF ApprovedPeople

LEMMA InitRefines == Init => Abstract!Init
BY HolderOfOne DEF Init, Abstract!Init, ApprovedPeople

LEMMA ReceiveRefines ==
  ASSUME BInv, NEW e \in Events, NEW o \in Ops, NEW m \in People, Receive(e, o, m)
  PROVE  [Abstract!Next]_<<core.email, ApprovedPeople, Holder(admins)>>
<1>1. UNCHANGED <<admins, recovery>>
  BY DEF Receive, recoveryVars
<1>2. CASE core.status = "absent" /\ recovered = None
  <2>1. core.email = None /\ core'.email = m
    BY <1>2 DEF Receive, receiveCoreBootstrap, CreateCoreBootstrapOperation, BInv,
                Appointed, Recorded
  <2>2. admins = {}
    BY <1>2 DEF BInv, Appointed, AppointmentIsIntended, AdministratorIsIntended
  <2>3. Abstract!Name(m)
    BY <1>1, <2>1, <2>2, HolderOfOne DEF Abstract!Name, ApprovedPeople
  <2> QED BY <2>3 DEF Abstract!Next
<1>3. CASE ~(core.status = "absent" /\ recovered = None)
  <2>1. core'.email = core.email
    BY <1>3 DEF Receive, receiveCoreBootstrap, CreateCoreBootstrapOperation
  <2> QED BY <1>1, <2>1, Unseen
<1> QED BY <1>2, <1>3

LEMMA AcceptRefines ==
  ASSUME BInv, NEW p \in People, NEW g \in 1..inv.generation, AcceptInvitation(p, g)
  PROVE  Abstract!Next
<1>1. /\ p = core.email /\ core' = [core EXCEPT !.status = "succeeded"]
      /\ admins' = admins \cup {p} /\ access = "bootstrap_pending" /\ UNCHANGED recovery
  BY DEF AcceptInvitation, validateInvitationBootstrap, CompleteBootstrap,
         CompleteInvitationBootstrap, ActivateInvitationBootstrapAccess, recoveryVars
<1>2. admins = {} /\ admins' = {p}
  BY <1>1 DEF BInv, Appointed, AppointmentIsIntended, AdministratorIsIntended
<1>3. core'.email = core.email /\ core.email # None
  BY <1>1, BootstrapAssumption DEF BInv, TypeOK, Operation
<1>4. Abstract!Accept
  BY <1>1, <1>2, <1>3, HolderOfOne DEF Abstract!Accept, ApprovedPeople
<1> QED BY <1>4 DEF Abstract!Next

LEMMA RequestRefines ==
  ASSUME BInv, NEW r \in Recoveries, NEW a \in Administrators, NEW p \in People,
         RequestTenantBootstrapRecovery(r, a, p)
  PROVE  UNCHANGED <<core.email, ApprovedPeople, Holder(admins)>>
<1>1. UNCHANGED <<core, admins>>
  BY DEF RequestTenantBootstrapRecovery, tenantVars
<1>2. \A q \in Recoveries :
        /\ ApprovedRow(recovery'[q]) <=> ApprovedRow(recovery[q])
        /\ ApprovedRow(recovery[q]) => recovery'[q].target = recovery[q].target
  BY DEF RequestTenantBootstrapRecovery, CreateTenantBootstrapRecovery, ApprovedRow,
         BInv, TypeOK, Recovery, Appointed, Recorded
<1> QED BY <1>1, <1>2, SameApproved

LEMMA RecoveryElapsesRefines ==
  ASSUME BInv, NEW r \in Recoveries, RecoveryElapses(r)
  PROVE  UNCHANGED <<core.email, ApprovedPeople, Holder(admins)>>
<1>1. UNCHANGED <<core, admins>>
  BY DEF RecoveryElapses, tenantVars
<1>2. \A q \in Recoveries :
        /\ ApprovedRow(recovery'[q]) <=> ApprovedRow(recovery[q])
        /\ ApprovedRow(recovery[q]) => recovery'[q].target = recovery[q].target
  BY DEF RecoveryElapses, ApprovedRow, BInv, TypeOK, Recovery
<1> QED BY <1>1, <1>2, SameApproved

LEMMA ApproveRefines ==
  ASSUME BInv, NEW r \in Recoveries, NEW b \in Administrators, NEW x \in References,
         ApproveTenantBootstrapRecovery(r, b, x)
  PROVE  Abstract!Next
<1>1. UNCHANGED <<core, admins>>
  BY DEF ApproveTenantBootstrapRecovery, tenantVars
<1>2. admins = {}
  BY DEF ApproveTenantBootstrapRecovery, ValidateBootstrapRecoveryTarget, BInv, Appointed,
         AppointmentIsIntended, AdministratorIsIntended
<1>3. PICK p \in People : p = recovery[r].target
  BY DEF ApproveTenantBootstrapRecovery, BInv, Appointed, Recorded
<1>4. /\ ApprovedRow(recovery'[r]) /\ recovery'[r].target = p
      /\ \A q \in Recoveries : q # r => recovery'[q] = recovery[q]
      /\ ~ApprovedRow(recovery[r])
  BY <1>3, BootstrapAssumption
  DEF ApproveTenantBootstrapRecovery, ApproveBootstrapRecovery, ApprovedRow, BInv, TypeOK,
      Recovery, Appointed, Recorded
<1>5. ApprovedPeople' = ApprovedPeople \cup {p}
  BY <1>4 DEF ApprovedRow, ApprovedPeople
<1>6. Abstract!Approve(p)
  BY <1>1, <1>2, <1>5, HolderOfOne DEF Abstract!Approve
<1> QED BY <1>6 DEF Abstract!Next

LEMMA ExecuteRefines ==
  ASSUME BInv, NEW r \in Recoveries, NEW x \in References,
         ExecuteTenantBootstrapRecovery(r, x)
  PROVE  Abstract!Next
<1> USE DEF ExecuteTenantBootstrapRecovery, ValidateBootstrapRecoveryTarget,
            ApplyBootstrapRecovery
<1>1. PICK p \in People : p = recovery[r].target
  BY DEF BInv, Appointed, Recorded
<1>2. admins = {} /\ admins' = {p}
  BY <1>1 DEF BInv, Appointed, AppointmentIsIntended, AdministratorIsIntended
<1>3. core'.email = core.email /\ core.email # p
  BY <1>1, BootstrapAssumption
  DEF SupersedeTenantBootstrap, BInv, TypeOK, Operation, Appointed, Recorded
<1>4. ApprovedRow(recovery[r])
  BY DEF ApprovedRow, BInv, Appointed, Recorded
<1>5. p \in ApprovedPeople
  BY <1>1, <1>4 DEF ApprovedRow, ApprovedPeople
<1>6. \A q \in Recoveries :
        /\ ApprovedRow(recovery'[q]) <=> ApprovedRow(recovery[q])
        /\ ApprovedRow(recovery[q]) => recovery'[q].target = recovery[q].target
  BY DEF CompleteBootstrapRecovery, ApprovedRow, BInv, TypeOK, Recovery
<1>7. ApprovedPeople' = ApprovedPeople
  BY <1>6, SameApproved
<1>8. Abstract!Replace(p)
  BY <1>2, <1>3, <1>5, <1>7, HolderOfOne DEF Abstract!Replace
<1> QED BY <1>8 DEF Abstract!Next

LEMMA DispatchRefines ==
  ASSUME BInv, NEW w \in Workers, DispatchNext(w) \/ Crash(w)
  PROVE  UNCHANGED <<core.email, ApprovedPeople, Holder(admins)>>
<1>1. UNCHANGED <<admins, recovery>> /\ core'.email = core.email
  BY DEF DispatchNext, Crash, Discover, ClaimNothing, ClaimJob, Reconcile, ExpireInvitation,
         WorkFails, Finish, CreateCoreBootstrapInvitation, MarkCoreBootstrapWaiting,
         ExpireCoreBootstrapInvitation, MarkCoreBootstrapInvitationAttention,
         BInv, TypeOK, Operation, tenantVars, recoveryVars
<1> QED BY <1>1, Unseen

LEMMA NextRefines ==
  ASSUME BInv, [Next]_vars
  PROVE  [Abstract!Next]_<<core.email, ApprovedPeople, Holder(admins)>>
<1>1. CASE UNCHANGED vars
  BY <1>1, Unseen DEF vars
<1>2. CASE \E e \in Events, o \in Ops, m \in People : Receive(e, o, m)
  BY <1>2, ReceiveRefines
<1>3. CASE \E w \in Workers : DispatchNext(w) \/ Crash(w)
  BY <1>3, DispatchRefines
<1>4. CASE \E p \in People, g \in 1..inv.generation : AcceptInvitation(p, g)
  BY <1>4, AcceptRefines
<1>5. CASE ReissueTenantBootstrapInvitation \/ InvitationElapses
  <2>1. UNCHANGED <<admins, recovery>> /\ core'.email = core.email
    BY <1>5 DEF ReissueTenantBootstrapInvitation, ReissuePlatformBootstrapInvitation,
                ResumeReissuedCoreBootstrap, InvitationElapses, BInv, TypeOK, Operation,
                recoveryVars
  <2> QED BY <2>1, Unseen
<1>6. CASE \E j \in Jobs : RetryTenantBootstrapJob(j) \/ LeaseElapses(j)
  <2>1. UNCHANGED <<admins, recovery, core>>
    BY <1>6 DEF RetryTenantBootstrapJob, LeaseElapses, tenantVars, recoveryVars
  <2> QED BY <2>1, Unseen
<1>7. ASSUME NEW r \in Recoveries,
             \/ \E a \in Administrators, p \in People : RequestTenantBootstrapRecovery(r, a, p)
             \/ \E b \in Administrators, x \in References : ApproveTenantBootstrapRecovery(r, b, x)
             \/ \E x \in References : ExecuteTenantBootstrapRecovery(r, x)
             \/ RecoveryElapses(r)
      PROVE  [Abstract!Next]_<<core.email, ApprovedPeople, Holder(admins)>>
  BY <1>7, RequestRefines, ApproveRefines, ExecuteRefines, RecoveryElapsesRefines
<1> QED BY <1>1, <1>2, <1>3, <1>4, <1>5, <1>6, <1>7 DEF Next

\* The bootstrap implements FirstAdministrator: one person is ever appointed,
\* the one Core named by an acceptance, or another one somebody else than the
\* requester approved (CompleteBootstrap, ApplyBootstrapRecovery).
THEOREM Refinement == Spec => AppointsOnce
<1>1. Init => Abstract!Init
  BY InitRefines
<1>2. BInv /\ [Next]_vars => [Abstract!Next]_<<core.email, ApprovedPeople, Holder(admins)>>
  BY NextRefines
<1> QED BY <1>1, <1>2, Inductive, PTL DEF Spec, AppointsOnce, Abstract!Spec

=============================================================================
