-------------------------- MODULE TenantBootstrap --------------------------
(***************************************************************************)
(* The bootstrap of one Tenant: how it gets its first administrator.       *)
(*                                                                         *)
(* Core announces an operation (a durable receipt), dispatchers claim its  *)
(* jobs under leases, a worker invites the intended administrator or       *)
(* expires the Invitation, the recipient accepts, a Platform administrator *)
(* reissues the Invitation or retries a job that needs attention, and two  *)
(* Platform administrators may replace the intended person by a recovery.  *)
(*                                                                         *)
(* Every transaction below holds the Tenant administration guard, so it is *)
(* one action; a dispatcher works in four of them (discover, claim, work,  *)
(* finish) and may crash, or lose its lease, between any two.              *)
(*                                                                         *)
(* Time is the three events that matter: a lease, the Invitation or an     *)
(* approval runs out.  A refused command changes nothing and is a          *)
(* stuttering step; so are a stale Lifecycle or a missing login method of  *)
(* the person, which only ever refuse.                                     *)
(***************************************************************************)
EXTENDS Naturals, FiniteSets

CONSTANTS
  People,        \* Humans with a verified email who are able to log in
  Ops,           \* operation identities Core may announce
  Events,        \* event identities of the bootstrap subject
  Workers,       \* concurrent dispatchers
  Administrators,\* Platform administrators
  Recoveries,    \* recovery operations that may be requested
  References,    \* approval references
  CycleAttempts, \* attempts of one cycle before a job needs attention (20)
  MaxRetries,    \* bound: cycles a Platform administrator may add
  MaxGeneration, \* bound: Invitation generations
  None           \* no value

ASSUME BootstrapAssumption ==
  /\ CycleAttempts \in Nat \ {0}
  /\ MaxRetries \in Nat
  /\ MaxGeneration \in Nat \ {0}
  /\ None \notin People \cup Ops \cup Administrators \cup Recoveries \cup References

VARIABLES
  receipts,   \* core_bootstrap_receipts: the intent each event carried
  core,       \* tenant_bootstrap_operations: the row of source kind core
  recovered,  \* tenant_bootstrap_operations: the row of source kind recovery
  access,     \* tenant_access.status
  admins,     \* active Memberships bound to the built-in administrator role
  inv,        \* tenant_invitations: the bootstrap Invitation
  jobs,       \* core_bootstrap_jobs
  attempts,   \* core_bootstrap_attempts: how many rows each job has
  worker,     \* what each dispatcher holds in memory
  recovery,   \* tenant_bootstrap_recovery_operations
  reserved    \* iam_recovery_approval_references

vars == <<receipts, core, recovered, access, admins, inv, jobs, attempts,
          worker, recovery, reserved>>

MaxAttempts == CycleAttempts * (1 + MaxRetries)

Statuses == {"absent", "pending", "waiting_for_principal_verification",
             "attention_required", "succeeded", "superseded"}
Waiting == "waiting_for_principal_verification"
Jobs == [kind : {"initialize"}, generation : {1}]
          \cup [kind : {"expire"}, generation : 1..MaxGeneration]
Codes == {"", "retryable", "permanent"}

Receipt == [operation : Ops, email : People]
Operation == [id : Ops \cup {None}, email : People \cup {None},
              status : Statuses]
Invitation == [status : {"absent", "pending", "accepted", "cancelled", "expired"},
               generation : 0..MaxGeneration, elapsed : BOOLEAN]
Job == [state : {"absent", "pending", "claimed", "done", "attention_required"},
        attempt : 0..MaxAttempts, cycle : 0..MaxAttempts, current : BOOLEAN]
Idle == [phase |-> "idle"]
Claim == [phase : {"working"}, job : Jobs, attempt : 1..MaxAttempts,
          cycle : 0..MaxAttempts]
Dispatcher == {Idle} \cup [phase : {"found"}, job : Jobs] \cup Claim
                \cup [phase : {"worked"}, job : Jobs, attempt : 1..MaxAttempts,
                      cycle : 0..MaxAttempts, code : Codes]
Recovery == [status : {"absent", "pending_approval", "approved", "executed"},
             target : People \cup {None}, requester : Administrators \cup {None},
             approver : Administrators \cup {None},
             reference : References \cup {None}, elapsed : BOOLEAN]

TypeOK ==
  /\ receipts \in [Events -> Receipt \cup {None}]
  /\ core \in Operation
  /\ recovered \in Recoveries \cup {None}
  /\ access \in {"absent", "bootstrap_pending", "active"}
  /\ admins \subseteq People
  /\ inv \in Invitation
  /\ jobs \in [Jobs -> Job]
  /\ attempts \in [Jobs -> 0..MaxAttempts]
  /\ worker \in [Workers -> Dispatcher]
  /\ recovery \in [Recoveries -> Recovery]
  /\ reserved \in [References -> Recoveries \cup {None}]

Init ==
  /\ receipts = [e \in Events |-> None]
  /\ core = [id |-> None, email |-> None, status |-> "absent"]
  /\ recovered = None
  /\ access = "absent"
  /\ admins = {}
  /\ inv = [status |-> "absent", generation |-> 0, elapsed |-> FALSE]
  /\ jobs = [j \in Jobs |->
              [state |-> "absent", attempt |-> 0, cycle |-> 0, current |-> FALSE]]
  /\ attempts = [j \in Jobs |-> 0]
  /\ worker = [w \in Workers |-> Idle]
  /\ recovery = [r \in Recoveries |->
                  [status |-> "absent", target |-> None, requester |-> None,
                   approver |-> None, reference |-> None, elapsed |-> FALSE]]
  /\ reserved = [x \in References |-> None]

jobVars == <<jobs, attempts, worker>>
recoveryVars == <<recovery, reserved, recovered>>
tenantVars == <<core, access, admins, inv>>

-----------------------------------------------------------------------------
(* Ingress. *)

\* The unique index tenant_bootstrap_one_current: one operation of a Tenant is
\* not superseded.
CreateCoreBootstrapOperation(o, m) ==
  IF core.status = "absent" /\ recovered = None
    THEN [id |-> o, email |-> m, status |-> "pending"]
    ELSE core

AppendCoreBootstrapReceipt(e, o, m) ==
  [receipts EXCEPT ![e] = [operation |-> o, email |-> m]]

\* The operation has to carry the intent of the event: one that was created for
\* another intent refuses it and the message goes to the dead letters.
receiveCoreBootstrap(e, o, m) ==
  /\ core' = CreateCoreBootstrapOperation(o, m)
  /\ core'.id = o /\ core'.email = m
  /\ receipts' = AppendCoreBootstrapReceipt(e, o, m)

\* An event that is known already changes nothing.
Receive(e, o, m) ==
  /\ receipts[e] = None
  /\ receiveCoreBootstrap(e, o, m)
  /\ UNCHANGED <<access, admins, inv, jobVars, recoveryVars>>

-----------------------------------------------------------------------------
(* The job queue. *)

\* Discovery, outside of any lock.
Eligible(j) ==
  \/ j.kind = "initialize" /\ core.status = "pending"
  \/ /\ j.kind = "expire"
     /\ core.status = Waiting
     /\ inv.status \in {"pending", "expired"} /\ inv.elapsed
     /\ inv.generation = j.generation

\* Mutant: a claim whose dispatcher is gone is never found.
DiscoverPendingJobs ==
  {j \in Jobs : Eligible(j) /\ jobs[j].state \in {"absent", "pending"}}

DiscoverCoreBootstrapJobs ==
  {j \in Jobs : \/ Eligible(j) /\ jobs[j].state \in {"absent", "pending"}
                \/ jobs[j].state = "claimed" /\ ~jobs[j].current}

Discover(w) ==
  /\ worker[w] = Idle
  /\ \E j \in DiscoverCoreBootstrapJobs :
       worker' = [worker EXCEPT ![w] = [phase |-> "found", job |-> j]]
  /\ UNCHANGED <<receipts, tenantVars, jobs, attempts, recoveryVars>>

\* coreBootstrapScheduleOutcome: the business state already settles the job.
Terminal(j) ==
  \/ core.status \in {"superseded", "succeeded", "attention_required"}
  \/ IF j.kind = "initialize" THEN core.status = Waiting
                              ELSE inv.generation # j.generation

\* The moment a job waits for: the expiry of the Invitation.
Due(j) == j.kind = "expire" => inv.elapsed

CreateCoreBootstrapJob(row) ==
  IF row.state = "absent" THEN [row EXCEPT !.state = "pending"] ELSE row

\* Mutant: an attempt more than allowed.
ExhaustedLate(row) == row.attempt - row.cycle > CycleAttempts

Exhausted(row) == row.attempt - row.cycle >= CycleAttempts

\* An attempt leaves one immutable row; its outcome and its code are data.
AppendCoreBootstrapAttempt(j) == [attempts EXCEPT ![j] = @ + 1]

FinishCoreBootstrapJob(row, state) == [row EXCEPT !.state = state, !.current = FALSE]

finishJob(j, row, state) ==
  /\ jobs' = [jobs EXCEPT ![j] = FinishCoreBootstrapJob(row, state)]
  /\ attempts' = AppendCoreBootstrapAttempt(j)

ClaimCoreBootstrapJob(row) ==
  [row EXCEPT !.state = "claimed", !.attempt = @ + 1, !.current = TRUE]

\* The lease of an earlier dispatcher ran out: its attempt is settled for it.
RecoverLease(j, row) ==
  /\ row.state = "claimed" /\ ~row.current
  /\ IF Terminal(j)
       THEN finishJob(j, row, "done")
       ELSE finishJob(j, row, IF Exhausted(row) THEN "attention_required" ELSE "pending")

\* Nothing to do: settled, leased, or completed since the discovery.
SkipJob(j, row) ==
  /\ \/ row.state \in {"done", "attention_required"}
     \/ row.state = "claimed" /\ row.current
     \/ row.state = "pending" /\ (Terminal(j) \/ ~Due(j))
  /\ jobs' = [jobs EXCEPT ![j] = row]
  /\ UNCHANGED attempts

ClaimNothing(w) ==
  /\ worker[w].phase = "found"
  /\ LET j == worker[w].job
         row == CreateCoreBootstrapJob(jobs[j])
     IN RecoverLease(j, row) \/ SkipJob(j, row)
  /\ worker' = [worker EXCEPT ![w] = Idle]
  /\ UNCHANGED <<receipts, tenantVars, recoveryVars>>

ClaimJob(w) ==
  /\ worker[w].phase = "found"
  /\ LET j == worker[w].job
         row == CreateCoreBootstrapJob(jobs[j])
         claimed == ClaimCoreBootstrapJob(row)
     IN /\ row.state = "pending" /\ ~Terminal(j) /\ Due(j)
        /\ jobs' = [jobs EXCEPT ![j] = claimed]
        /\ worker' = [worker EXCEPT ![w] =
             [phase |-> "working", job |-> j, attempt |-> claimed.attempt,
              cycle |-> claimed.cycle]]
  /\ UNCHANGED <<receipts, tenantVars, attempts, recoveryVars>>

\* The answer of the worker, classified by classifyCoreBootstrapFailure.
Worked(w, code) ==
  worker' = [worker EXCEPT ![w] =
    [phase |-> "worked", job |-> @.job, attempt |-> @.attempt,
     cycle |-> @.cycle, code |-> code]]

\* Mutant: a job that somebody else settled may be settled again.
LeaseNumbered(w) ==
  jobs[worker[w].job].attempt = worker[w].attempt

\* The lease is checked by the outcome alone: the work itself was not.
LeaseHeld(w) ==
  LET c == worker[w]
      row == jobs[c.job]
  IN row.state = "claimed" /\ row.attempt = c.attempt /\ row.cycle = c.cycle
       /\ row.current

\* What Finish writes: the state of the business decides before the answer.
FinishOutcome(j, row, code) ==
  CASE Terminal(j) -> "done"
    [] ~Terminal(j) /\ code = "" -> "pending"
    [] ~Terminal(j) /\ code = "permanent" -> "attention_required"
    [] OTHER -> IF Exhausted(row) THEN "attention_required" ELSE "pending"

\* A successful answer that settled nothing is an error: the job stays claimed
\* until its lease runs out (ErrCoreBootstrapConflict).
FinishConflict(j, code) ==
  ~Terminal(j) /\ code = "" /\ (j.kind = "initialize" \/ inv.elapsed)

Finish(w) ==
  /\ worker[w].phase = "worked"
  /\ LET j == worker[w].job
         code == worker[w].code
     IN IF LeaseHeld(w) /\ ~FinishConflict(j, code)
          THEN finishJob(j, jobs[j], FinishOutcome(j, jobs[j], code))
          ELSE UNCHANGED <<jobs, attempts>>
  /\ worker' = [worker EXCEPT ![w] = Idle]
  /\ UNCHANGED <<receipts, tenantVars, recoveryVars>>

\* The process stops, its context ends or the database refuses: what it held
\* in memory is gone.  A discovery that is lost is one that was never made.
Crash(w) ==
  /\ worker[w].phase \in {"working", "worked"}
  /\ worker' = [worker EXCEPT ![w] = Idle]
  /\ UNCHANGED <<receipts, tenantVars, jobs, attempts, recoveryVars>>

-----------------------------------------------------------------------------
(* The worker. *)

WorkFails(w) ==
  /\ worker[w].phase = "working"
  /\ \E code \in {"retryable", "permanent"} : Worked(w, code)
  /\ UNCHANGED <<receipts, tenantVars, jobs, attempts, recoveryVars>>

CreateBootstrapPendingAccess ==
  /\ access = "absent"
  /\ access' = "bootstrap_pending"

CreateCoreBootstrapTenantInvitation ==
  [status |-> "pending", generation |-> 1, elapsed |-> FALSE]

MarkCoreBootstrapWaiting ==
  /\ core.status = "pending"
  /\ core' = [core EXCEPT !.status = Waiting]

\* Pending Access, the administrator role, the Invitation and its delivery, in
\* one transaction.
CreateCoreBootstrapInvitation ==
  /\ CreateBootstrapPendingAccess
  /\ inv' = CreateCoreBootstrapTenantInvitation
  /\ MarkCoreBootstrapWaiting

\* LoadCoreBootstrapWork: the Result an earlier execution saved with the
\* Invitation.
WorkerResult == inv.status # "absent"

Reconcile(w) ==
  /\ worker[w].phase = "working" /\ worker[w].job.kind = "initialize"
  /\ \/ /\ core.status = "superseded"
        /\ Worked(w, "permanent")
        /\ UNCHANGED <<core, access, inv>>
     \/ /\ core.status # "superseded" /\ WorkerResult
        /\ Worked(w, "")
        /\ UNCHANGED <<core, access, inv>>
     \/ /\ core.status # "superseded" /\ ~WorkerResult
        /\ CreateCoreBootstrapInvitation
        /\ Worked(w, "")
  /\ UNCHANGED <<receipts, admins, jobs, attempts, recoveryVars>>

MarkCoreBootstrapInvitationAttention ==
  /\ core.status = Waiting
  /\ core' = [core EXCEPT !.status = "attention_required"]

ExpireCoreBootstrapInvitation ==
  /\ inv' = [inv EXCEPT !.status = "expired"]
  /\ MarkCoreBootstrapInvitationAttention

\* A process whose clock is behind the database's sees an Invitation that is
\* not over yet and leaves it.
ExpireInvitation(w) ==
  /\ worker[w].phase = "working" /\ worker[w].job.kind = "expire"
  /\ Worked(w, "")
  /\ \/ UNCHANGED <<core, inv>>
     \/ /\ inv.generation = worker[w].job.generation
        /\ inv.elapsed /\ inv.status \in {"pending", "expired"}
        /\ ExpireCoreBootstrapInvitation
  /\ UNCHANGED <<receipts, access, admins, jobs, attempts, recoveryVars>>

-----------------------------------------------------------------------------
(* The recipient. *)

\* The operation the Invitation belongs to, and the role it carries.
validateInvitationBootstrap(p) == core.status = Waiting /\ p = core.email

CompleteInvitationBootstrap == core' = [core EXCEPT !.status = "succeeded"]

ActivateInvitationBootstrapAccess ==
  /\ access = "bootstrap_pending"
  /\ access' = "active"

CompleteBootstrap ==
  /\ CompleteInvitationBootstrap
  /\ ActivateInvitationBootstrapAccess

\* A token belongs to the generation it was issued for; the digest of the
\* latest one is stored.
AcceptInvitation(p, g) ==
  /\ inv.status = "pending" /\ ~inv.elapsed
  /\ g = inv.generation
  /\ validateInvitationBootstrap(p)
  /\ p \notin admins
  /\ inv' = [inv EXCEPT !.status = "accepted"]
  /\ admins' = admins \cup {p}
  /\ CompleteBootstrap
  /\ UNCHANGED <<receipts, jobVars, recoveryVars>>

-----------------------------------------------------------------------------
(* Platform administrators. *)

\* Mutant: the operation stays in attention_required.
ReissueInvitationOnly ==
  /\ core.status \in {Waiting, "attention_required"}
  /\ UNCHANGED core

ResumeReissuedCoreBootstrap ==
  /\ core.status \in {Waiting, "attention_required"}
  /\ core' = [core EXCEPT !.status = Waiting]

\* A new token, a new expiry and the next generation, whether the old one ran
\* out or not.
ReissuePlatformBootstrapInvitation ==
  /\ inv.status \in {"pending", "expired"}
  /\ inv' = [status |-> "pending", generation |-> inv.generation + 1, elapsed |-> FALSE]
  /\ ResumeReissuedCoreBootstrap

ReissueTenantBootstrapInvitation ==
  /\ access = "bootstrap_pending"
  /\ inv.generation < MaxGeneration
  /\ ReissuePlatformBootstrapInvitation
  /\ UNCHANGED <<receipts, access, admins, jobVars, recoveryVars>>

\* A new cycle starts at the attempt the last one ended with.
RetryCoreBootstrapJob(row) ==
  [row EXCEPT !.state = "pending", !.cycle = row.attempt]

RetryTenantBootstrapJob(j) ==
  /\ jobs[j].state = "attention_required"
  /\ IF j.kind = "initialize"
       THEN core.status = "pending" /\ inv.status = "absent"
       ELSE /\ core.status = Waiting /\ inv.generation = j.generation
            /\ inv.status \in {"pending", "expired"}
  /\ jobs[j].attempt + CycleAttempts <= MaxAttempts
  /\ jobs' = [jobs EXCEPT ![j] = RetryCoreBootstrapJob(@)]
  /\ UNCHANGED <<receipts, tenantVars, attempts, worker, recoveryVars>>

\* Mutant: a Tenant that has its administrator may be given another.
ValidateTargetPerson(p) ==
  /\ recovered = None
  /\ core.status # "absent" => core.email # p

\* Access may not be active, and the current operation is neither finished nor
\* meant for the same person.
ValidateBootstrapRecoveryTarget(p) ==
  /\ access \in {"absent", "bootstrap_pending"}
  /\ recovered = None
  /\ core.status # "succeeded"
  /\ core.status # "absent" => core.email # p

CreateTenantBootstrapRecovery(row, a, p) ==
  [row EXCEPT !.status = "pending_approval", !.target = p, !.requester = a]

RequestTenantBootstrapRecovery(r, a, p) ==
  /\ recovery[r].status = "absent"
  /\ ValidateBootstrapRecoveryTarget(p)
  /\ recovery' = [recovery EXCEPT ![r] = CreateTenantBootstrapRecovery(@, a, p)]
  /\ UNCHANGED <<receipts, tenantVars, jobVars, reserved, recovered>>

\* The reference is a primary key: a second use fails the transaction.
ReserveBootstrapRecoveryApproval(x, r) ==
  /\ reserved[x] = None
  /\ reserved' = [reserved EXCEPT ![x] = r]

ApproveBootstrapRecovery(row, b, x) ==
  [row EXCEPT !.status = "approved", !.approver = b, !.reference = x]

ApproveTenantBootstrapRecovery(r, b, x) ==
  /\ recovery[r].status = "pending_approval" /\ ~recovery[r].elapsed
  /\ recovery[r].requester # b
  /\ ValidateBootstrapRecoveryTarget(recovery[r].target)
  /\ ReserveBootstrapRecoveryApproval(x, r)
  /\ recovery' = [recovery EXCEPT ![r] = ApproveBootstrapRecovery(@, b, x)]
  /\ UNCHANGED <<receipts, tenantVars, jobVars, recovered>>

SupersedeTenantBootstrap ==
  IF core.status = "absent" THEN core
  ELSE [core EXCEPT !.status = "superseded"]

CancelSupersededBootstrapInvitations ==
  IF inv.status \in {"pending", "expired"} THEN [inv EXCEPT !.status = "cancelled"]
  ELSE inv

ActivateRecoveryBootstrapAccess == access' = "active"

\* The unique index again: no other operation is current by now.
CreateRecoveredTenantBootstrap(r) ==
  /\ recovered = None
  /\ recovered' = r

ApplyBootstrapRecovery(r, p) ==
  /\ core' = SupersedeTenantBootstrap
  /\ inv' = CancelSupersededBootstrapInvitations
  /\ admins' = admins \cup {p}
  /\ ActivateRecoveryBootstrapAccess
  /\ CreateRecoveredTenantBootstrap(r)

CompleteBootstrapRecovery(row) == [row EXCEPT !.status = "executed"]

ExecuteTenantBootstrapRecovery(r, x) ==
  /\ recovery[r].status = "approved" /\ ~recovery[r].elapsed
  /\ recovery[r].reference = x
  /\ recovery[r].requester # recovery[r].approver
  /\ ValidateBootstrapRecoveryTarget(recovery[r].target)
  /\ ApplyBootstrapRecovery(r, recovery[r].target)
  /\ recovery' = [recovery EXCEPT ![r] = CompleteBootstrapRecovery(@)]
  /\ UNCHANGED <<receipts, jobVars, reserved>>

-----------------------------------------------------------------------------
(* Time. *)

LeaseElapses(j) ==
  /\ jobs[j].state = "claimed" /\ jobs[j].current
  /\ jobs' = [jobs EXCEPT ![j].current = FALSE]
  /\ UNCHANGED <<receipts, tenantVars, attempts, worker, recoveryVars>>

InvitationElapses ==
  /\ inv.status = "pending" /\ ~inv.elapsed
  /\ inv' = [inv EXCEPT !.elapsed = TRUE]
  /\ UNCHANGED <<receipts, core, access, admins, jobVars, recoveryVars>>

RecoveryElapses(r) ==
  /\ recovery[r].status \in {"pending_approval", "approved"} /\ ~recovery[r].elapsed
  /\ recovery' = [recovery EXCEPT ![r].elapsed = TRUE]
  /\ UNCHANGED <<receipts, tenantVars, jobVars, reserved, recovered>>

-----------------------------------------------------------------------------
DispatchNext(w) ==
  \/ Discover(w) \/ ClaimNothing(w) \/ ClaimJob(w)
  \/ Reconcile(w) \/ ExpireInvitation(w) \/ WorkFails(w) \/ Finish(w)

Next ==
  \/ \E e \in Events, o \in Ops, m \in People : Receive(e, o, m)
  \/ \E w \in Workers : DispatchNext(w) \/ Crash(w)
  \/ \E p \in People, g \in 1..inv.generation : AcceptInvitation(p, g)
  \/ ReissueTenantBootstrapInvitation
  \/ \E j \in Jobs : RetryTenantBootstrapJob(j) \/ LeaseElapses(j)
  \/ \E r \in Recoveries :
       \/ \E a \in Administrators, p \in People : RequestTenantBootstrapRecovery(r, a, p)
       \/ \E b \in Administrators, x \in References : ApproveTenantBootstrapRecovery(r, b, x)
       \/ \E x \in References : ExecuteTenantBootstrapRecovery(r, x)
       \/ RecoveryElapses(r)
  \/ InvitationElapses

Spec == Init /\ [][Next]_vars

\* RunObserved loops for as long as the process lives: a dispatcher that can
\* take its next step takes it, and the clock never stops.
Fairness ==
  /\ \A w \in Workers : WF_vars(DispatchNext(w))
  /\ \A j \in Jobs : WF_vars(LeaseElapses(j))

FairSpec == Spec /\ Fairness

-----------------------------------------------------------------------------
(* Properties. *)

\* Access is active exactly when there is an administrator.  It is the person
\* Core named, who accepted the Invitation while the operation waited for them,
\* or the target of the executed recovery, requested and approved by different
\* administrators, and then the operation of Core is superseded
\* (CompleteBootstrap, ApplyBootstrapRecovery).
AdministratorIsIntended ==
  /\ (access = "active") <=> (admins # {})
  /\ \A p \in admins :
       \/ /\ recovered = None /\ p = core.email
          /\ core.status = "succeeded" /\ inv.status = "accepted"
       \/ /\ recovered # None /\ core.status \in {"absent", "superseded"}
          /\ recovery[recovered].status = "executed"
          /\ recovery[recovered].target = p
          /\ recovery[recovered].requester # recovery[recovered].approver

\* The Invitation and the operation never disagree, though a worker, the
\* recipient and two administrators change them in any order: an open
\* Invitation is one the operation waits for, and a superseded operation has
\* none (reconcile, complete, SupersedeTenantBootstrap).
InvitationFollowsOperation ==
  /\ (inv.status = "pending") <=> (core.status = Waiting)
  /\ (inv.status = "accepted") <=> (core.status = "succeeded")
  /\ (inv.status = "expired") <=> (core.status = "attention_required")
  /\ core.status = "superseded" => inv.status \in {"absent", "cancelled"}

\* Two dispatchers never both hold the lease of a job, even when the first one
\* is still at work after its lease ran out (Claim, Finish).
LeaseIsExclusive ==
  \A v, w \in Workers :
    /\ worker[v].phase \in {"working", "worked"} /\ LeaseHeld(v)
    /\ worker[w].phase \in {"working", "worked"} /\ LeaseHeld(w)
    /\ worker[v].job = worker[w].job
    => v = w

\* Every attempt but the one under way has exactly one row, whoever settled it:
\* its own dispatcher, or the next one after its lease ran out (finishJob).
AttemptsAreRecordedOnce ==
  \A j \in Jobs :
    attempts[j] = jobs[j].attempt - (IF jobs[j].state = "claimed" THEN 1 ELSE 0)

\* A cycle never makes more attempts than it may, and a job that needs
\* attention is left alone until an administrator starts a new one
\* (DiscoverCoreBootstrapJobs, RetryTenantBootstrapJob).
AttemptsStayInTheirCycle ==
  \A j \in Jobs : jobs[j].attempt - jobs[j].cycle <= CycleAttempts

\* An approval reference stands for one recovery only
\* (iam_recovery_approval_references).
ReferencesAreNotShared ==
  \A r \in Recoveries :
    recovery[r].reference # None => reserved[recovery[r].reference] = r

\* The people somebody else than the requester approved, and the only
\* administrator of the Tenant.
ApprovedPeople ==
  {recovery[r].target : r \in {q \in Recoveries :
     recovery[q].approver # None /\ recovery[q].approver # recovery[q].requester}}
Holder(S) == IF S = {} THEN None ELSE CHOOSE p \in People : S = {p}

Abstract ==
  INSTANCE FirstAdministrator
    WITH intended <- core.email, approved <- ApprovedPeople, holder <- Holder(admins)

\* The bootstrap appoints as the abstract specification says: once, the person
\* Core named or one approved by a second administrator
\* (CompleteBootstrap, ApplyBootstrapRecovery).
AppointsOnce == Abstract!Spec

\* An announced operation is worked on until the Invitation is out, somebody
\* replaces it, or the job needs attention, whatever workers crash
\* (CoreBootstrapDispatcher.RunObserved).
BootstrapProgresses ==
  \A j \in {k \in Jobs : k.kind = "initialize"} :
    (core.status = "pending")
      ~> (core.status # "pending" \/ jobs[j].state = "attention_required")

\* An Invitation that runs out is noticed: the operation leaves its waiting
\* state, a new one is issued, or the job needs attention (ExpireInvitation).
ExpiryIsNoticed ==
  \A j \in {k \in Jobs : k.kind = "expire"} :
    (core.status = Waiting /\ inv.elapsed /\ inv.generation = j.generation)
      ~> \/ core.status # Waiting
         \/ inv.generation # j.generation
         \/ jobs[j].state = "attention_required"

\* Whoever became the first administrator was meant to, by Core or by two
\* administrators with an approval of their own, and the Invitation, the
\* operation and the Tenant's access always tell the same story.
AppointmentIsIntended ==
  AdministratorIsIntended /\ InvitationFollowsOperation /\ ReferencesAreNotShared

\* Dispatchers that crash, lose their lease and come back late share a job
\* without losing or repeating an attempt (Claim, Finish, finishJob).
JobsAreAccountable ==
  LeaseIsExclusive /\ AttemptsAreRecordedOnce /\ AttemptsStayInTheirCycle

\* Neither an announced operation nor an Invitation that ran out is forgotten.
WorkIsNeverForgotten == BootstrapProgresses /\ ExpiryIsNoticed
=============================================================================
