---------------------------- MODULE Invitations ----------------------------
(***************************************************************************)
(* The Invitations of one Tenant: its administrators create, resend,       *)
(* cancel and read them, a role may be deleted meanwhile, dispatchers mail *)
(* the tokens, and the recipient accepts one, proving who he is by a       *)
(* Session or by a password.                                               *)
(*                                                                         *)
(* Every transaction on an Invitation holds the Tenant administration      *)
(* guard and is one action.  Accepting by password is not: the password is *)
(* read and verified outside of any lock, and the acceptance has to look   *)
(* at the credential again.                                                *)
(*                                                                         *)
(* A person stands for a normalized email and the Human it was verified    *)
(* for.  Time is the events that matter: an Invitation runs out, a lease   *)
(* lapses, a lock ends.  "created" dates an Invitation by the number of    *)
(* times its addressee had been removed.  Refused commands change nothing; *)
(* what only ever refuses an administrator (an expected version that is    *)
(* old, the ledger of a command that is retried) is not represented.       *)
(***************************************************************************)
EXTENDS Naturals, FiniteSets

CONSTANTS
  People,          \* invited people
  Invites,         \* Invitation identities
  CustomRoles,     \* roles that may be deleted
  Keys,            \* idempotency keys of acceptances
  Workers,         \* concurrent dispatchers
  MaxAttempts,     \* submissions of one delivery
  MaxClaims,       \* bound: claims of one delivery
  MaxFailures,     \* wrong passwords before the credential is locked (5)
  MaxGeneration,   \* bound: generations of an Invitation
  MaxRemovals,     \* bound: removals of one person
  MaxHash,         \* bound: passwords of one person
  None             \* no value

ASSUME InvitationsAssumption ==
  /\ MaxAttempts \in Nat \ {0} /\ MaxClaims \in Nat /\ MaxClaims > MaxAttempts
  /\ MaxFailures \in Nat \ {0} /\ MaxGeneration \in Nat \ {0}
  /\ MaxRemovals \in Nat /\ MaxHash \in Nat \ {0}
  /\ None \notin People \cup Invites

VARIABLES
  inv,        \* tenant_invitations
  refs,       \* tenant_invitation_roles
  roles,      \* tenant_roles: the custom roles that exist
  member,     \* tenant_memberships: the latest row of each person
  bound,      \* tenant_role_bindings of active Memberships
  joined,     \* how many Membership rows each person has got
  open,       \* the Tenant has active Access and a fresh, active Lifecycle
  sessions,   \* people with a Session an acceptance may use
  cred,       \* password_credentials
  proof,      \* a password acceptance in flight
  receipts,   \* invitation acceptance receipts
  outbox, worker, submitted   \* tenant_invitation_outbox, see NotificationOutbox

Deliveries == [inv : Invites, generation : 1..MaxGeneration]
Outbox == INSTANCE NotificationOutbox

tenantVars == <<inv, refs, roles, member, bound, joined>>
accountVars == <<open, sessions, cred, proof, receipts>>
outboxVars == <<outbox, worker, submitted>>
vars == <<tenantVars, accountVars, outboxVars>>

Ended == {"accepted", "cancelled", "expired"}
InvitationRow == [status : {"absent", "pending"} \cup Ended,
                  email : People \cup {None}, roles : SUBSET CustomRoles,
                  generation : 0..MaxGeneration, elapsed : BOOLEAN,
                  created : 0..MaxRemovals]
MembershipRow == [status : {"none", "active", "removed"}, removals : 0..MaxRemovals]
Credential == [hash : 0..MaxHash, failures : 0..MaxFailures, locked : BOOLEAN]
Attempt == [id : Invites, generation : 1..MaxGeneration, key : Keys]
NoProof == [phase |-> "none"]
Proof == [phase : {"verified"}, hash : 1..MaxHash, attempt : Attempt]
           \cup [phase : {"denied"}, hash : 0..MaxHash, increment : BOOLEAN]
Receipt == {None} \cup [person : People, id : Invites]

TypeOK ==
  /\ inv \in [Invites -> InvitationRow]
  /\ refs \subseteq Invites \X CustomRoles
  /\ roles \subseteq CustomRoles
  /\ member \in [People -> MembershipRow]
  /\ bound \subseteq People \X CustomRoles
  /\ joined \in [People -> 0..(MaxRemovals + 1)]
  /\ open \in BOOLEAN
  /\ sessions \subseteq People
  /\ cred \in [People -> Credential]
  /\ proof \in [People -> {NoProof} \cup Proof]
  /\ receipts \in [Keys -> Receipt]
  /\ Outbox!OutboxTypeOK

Init ==
  /\ inv = [i \in Invites |->
       [status |-> "absent", email |-> None, roles |-> {}, generation |-> 0,
        elapsed |-> FALSE, created |-> 0]]
  /\ refs = {}
  /\ roles = CustomRoles
  /\ member = [p \in People |-> [status |-> "none", removals |-> 0]]
  /\ bound = {}
  /\ joined = [p \in People |-> 0]
  /\ open = TRUE
  /\ sessions = {}
  /\ cred = [p \in People |-> [hash |-> 1, failures |-> 0, locked |-> FALSE]]
  /\ proof = [p \in People |-> NoProof]
  /\ receipts = [k \in Keys |-> None]
  /\ Outbox!OutboxInit

-----------------------------------------------------------------------------
(* The rows of an Invitation. *)

\* The unique index tenant_invitations_pending_email admits one of them.
FindPendingTenantInvitation(p) == {i \in Invites : inv[i].status = "pending" /\ inv[i].email = p}

CreateTenantInvitation(p, rs) ==
  [status |-> "pending", email |-> p, roles |-> rs, generation |-> 1,
   elapsed |-> FALSE, created |-> member[p].removals]

ResendTenantInvitation(row) ==
  [row EXCEPT !.status = "pending", !.generation = @ + 1, !.elapsed = FALSE]

TransitionTenantInvitationTerminal(row, status) == [row EXCEPT !.status = status]

ClearTenantInvitationRoles(rs, i) == {r \in rs : r[1] # i}

AddTenantInvitationRole(rs, i, granted) == rs \cup ({i} \X granted)

CancelTenantInvitationDeliveries(rows, i) ==
  [d \in Deliveries |-> IF d.inv = i THEN Outbox!CancelDelivery(rows[d]) ELSE rows[d]]

CreateTenantInvitationDelivery(rows, i, g) ==
  [rows EXCEPT ![[inv |-> i, generation |-> g]] = Outbox!NewDelivery]

\* Mutant: the messages of an Invitation that ended stay in the queue.
ClearRolesOnly(i) ==
  /\ refs' = ClearTenantInvitationRoles(refs, i)
  /\ UNCHANGED outbox

clearInvitationReferences(i) ==
  /\ refs' = ClearTenantInvitationRoles(refs, i)
  /\ outbox' = CancelTenantInvitationDeliveries(outbox, i)

\* Roles and the message of a new generation, after the old ones are cleared.
IssueReferences(i, granted, g) ==
  /\ refs' = AddTenantInvitationRole(ClearTenantInvitationRoles(refs, i), i, granted)
  /\ outbox' = CreateTenantInvitationDelivery(
                 CancelTenantInvitationDeliveries(outbox, i), i, g)

EndInvitation(i, status) ==
  /\ inv[i].status = "pending"
  /\ inv' = [inv EXCEPT ![i] = TransitionTenantInvitationTerminal(@, status)]
  /\ clearInvitationReferences(i)

-----------------------------------------------------------------------------
(* Administrators. *)

\* One transaction under the guard of the Tenant; it changes neither people nor
\* Memberships.
mutate == UNCHANGED <<member, bound, joined, accountVars, worker, submitted>>

RolesExist(rs) == rs \subseteq roles

\* Creating one finds an Invitation that ran out and ends it first; in the same
\* transaction the new one is written.
ReplaceExpired(i, p, rs) ==
  \E old \in FindPendingTenantInvitation(p) :
    /\ inv[old].elapsed
    /\ inv' = [inv EXCEPT ![old] = TransitionTenantInvitationTerminal(@, "expired"),
                          ![i] = CreateTenantInvitation(p, rs)]
    /\ refs' = AddTenantInvitationRole(ClearTenantInvitationRoles(refs, old), i, rs)
    /\ outbox' = CreateTenantInvitationDelivery(
                   CancelTenantInvitationDeliveries(outbox, old), i, 1)

\* An open Invitation with the same roles is returned as it is, with others it
\* is a conflict: neither changes anything.
CreateInvitation(i, p, rs) ==
  /\ inv[i].status = "absent" /\ rs # {}
  /\ RolesExist(rs)
  /\ \/ /\ FindPendingTenantInvitation(p) = {}
        /\ inv' = [inv EXCEPT ![i] = CreateTenantInvitation(p, rs)]
        /\ IssueReferences(i, rs, 1)
     \/ ReplaceExpired(i, p, rs)
  /\ UNCHANGED roles /\ mutate

ResendInvitation(i) ==
  /\ inv[i].status \in {"pending", "expired"}
  /\ FindPendingTenantInvitation(inv[i].email) \subseteq {i}
  /\ RolesExist(inv[i].roles)
  /\ inv[i].generation < MaxGeneration
  /\ inv' = [inv EXCEPT ![i] = ResendTenantInvitation(@)]
  /\ IssueReferences(i, inv[i].roles, inv[i].generation + 1)
  /\ UNCHANGED roles /\ mutate

CancelInvitation(i) ==
  /\ ~inv[i].elapsed
  /\ EndInvitation(i, "cancelled")
  /\ UNCHANGED roles /\ mutate

\* A page is selected by the status its reader will see.
ListTenantInvitations(status) ==
  {i \in Invites :
     (IF inv[i].status = "pending" /\ inv[i].elapsed THEN "expired" ELSE inv[i].status)
       = status}

ListExpiredTenantInvitationsForRole(r) ==
  {i \in Invites : <<i, r>> \in refs /\ inv[i].status = "pending" /\ inv[i].elapsed}

\* What ran out is ended by whoever reads it.
expire(some) ==
  LET over == {i \in some : inv[i].status = "pending" /\ inv[i].elapsed}
  IN /\ over # {}
     /\ inv' = [i \in Invites |-> IF i \in over
                  THEN TransitionTenantInvitationTerminal(inv[i], "expired") ELSE inv[i]]
     /\ refs' = {x \in refs : x[1] \notin over}
     /\ outbox' = [d \in Deliveries |->
                    IF d.inv \in over THEN Outbox!CancelDelivery(outbox[d]) ELSE outbox[d]]
     /\ UNCHANGED roles /\ mutate

GetInvitation(i) == expire({i})

ListInvitations(status) == expire(ListTenantInvitations(status))

\* The first transaction of deleting a role.
ExpireForRole(r) == expire(ListExpiredTenantInvitationsForRole(r))

CustomTenantRoleReferenced(r) ==
  (\E p \in People : <<p, r>> \in bound) \/ (\E i \in Invites : <<i, r>> \in refs)

\* The second one: the roles of an Invitation that is open protect it.
DeleteRole(r) ==
  /\ r \in roles /\ ~CustomTenantRoleReferenced(r)
  /\ roles' = roles \ {r}
  /\ UNCHANGED <<inv, refs, outbox>> /\ mutate

RemoveMember(p) ==
  /\ member[p].status = "active" /\ member[p].removals < MaxRemovals
  /\ member' = [member EXCEPT ![p] = [status |-> "removed", removals |-> @.removals + 1]]
  /\ bound' = {x \in bound : x[1] # p}
  /\ UNCHANGED <<inv, refs, roles, joined, accountVars, outboxVars>>

-----------------------------------------------------------------------------
(* The recipient. *)

\* Mutant: any Membership of the past allows an Invitation.
RemovedOnce(p, i) == member[p].status \in {"none", "removed"}

\* Active Access and a Lifecycle that is fresh and active.
InvitationTargetLifecycle == open

TargetReady == InvitationTargetLifecycle

\* A person who was removed needs an Invitation that was created afterwards.
ExistingMembershipAllows(p, i) ==
  \/ member[p].status = "none"
  \/ member[p].status = "removed" /\ inv[i].created = member[p].removals

CreateMembership(p, granted) ==
  /\ member' = [member EXCEPT ![p].status = "active"]
  /\ bound' = bound \cup ({p} \X granted)
  /\ joined' = [joined EXCEPT ![p] = @ + 1]

ValidateRoles(granted) == granted \subseteq roles

AcceptTenantInvitation(row) == [row EXCEPT !.status = "accepted"]

ConsumeInvitation(i) ==
  /\ inv' = [inv EXCEPT ![i] = AcceptTenantInvitation(@)]
  /\ clearInvitationReferences(i)

\* The token names the Invitation; its digest is that of one generation.
TokenMatches(p, a) ==
  inv[a.id].generation = a.generation /\ inv[a.id].email = p

SaveReceipt(p, a) == receipts' = [receipts EXCEPT ![a.key] = [person |-> p, id |-> a.id]]

\* A retry of the same acceptance is answered from its receipt; a key of
\* another acceptance is a conflict.
FindReceipt(p, a) == receipts[a.key] = [person |-> p, id |-> a.id]

accept(p, a) ==
  /\ TokenMatches(p, a)
  /\ receipts[a.key] = None
  /\ inv[a.id].status = "pending" /\ ~inv[a.id].elapsed
  /\ TargetReady
  /\ ExistingMembershipAllows(p, a.id)
  /\ ValidateRoles(inv[a.id].roles)
  /\ CreateMembership(p, inv[a.id].roles)
  /\ ConsumeInvitation(a.id)
  /\ SaveReceipt(p, a)

\* The Session, its Grant, the Membership and the Tenant it was made for, locked
\* by the acceptance.
LockInvitationTenantActor(p) == p \in sessions

validateInvitationAcceptanceActor(p) == LockInvitationTenantActor(p)

\* The boundaries of the actor and of the target are locked, in their order.
WithinInvitationAcceptance == UNCHANGED <<roles, open, sessions, worker, submitted>>

AcceptBySession(p, a) ==
  /\ validateInvitationAcceptanceActor(p)
  /\ accept(p, a)
  /\ UNCHANGED <<cred, proof>> /\ WithinInvitationAcceptance

invitationPasswordActive(p) == cred[p].hash # 0 /\ ~cred[p].locked

ReadInvitationPassword(p) == cred[p].hash

\* The password is read and verified outside of any transaction.
VerifyPassword(p, a, valid) ==
  /\ proof[p] = NoProof
  /\ inv[a.id].status # "absent"
  /\ proof' = [proof EXCEPT ![p] =
       IF valid /\ invitationPasswordActive(p)
         THEN [phase |-> "verified", hash |-> ReadInvitationPassword(p), attempt |-> a]
         ELSE [phase |-> "denied", hash |-> ReadInvitationPassword(p),
               increment |-> invitationPasswordActive(p)]]
  /\ UNCHANGED <<tenantVars, open, sessions, cred, receipts, outboxVars>>

\* Mutant: the proof is taken for current.
ValidatePasswordOnce(p) == invitationPasswordActive(p)

validateInvitationPassword(p) ==
  invitationPasswordActive(p) /\ proof[p].hash = cred[p].hash

ResetPasswordLoginFailures(c) == [c EXCEPT !.failures = 0, !.locked = FALSE]

\* The first acceptance and its replay both clear the failures.
AcceptByPassword(p) ==
  /\ proof[p].phase = "verified"
  /\ validateInvitationPassword(p)
  /\ \/ accept(p, proof[p].attempt)
     \/ /\ TokenMatches(p, proof[p].attempt) /\ FindReceipt(p, proof[p].attempt)
        /\ UNCHANGED <<inv, refs, outbox, member, bound, joined, receipts>>
  /\ cred' = [cred EXCEPT ![p] = ResetPasswordLoginFailures(@)]
  /\ proof' = [proof EXCEPT ![p] = NoProof]
  /\ WithinInvitationAcceptance

\* The credential changed meanwhile: a denial that does not count against it.
\* Any other refusal of the acceptance ends the request.
RefuseAcceptance(p) ==
  /\ proof[p].phase = "verified"
  /\ proof' = [proof EXCEPT ![p] =
       IF validateInvitationPassword(p) THEN NoProof
         ELSE [phase |-> "denied", hash |-> @.hash, increment |-> FALSE]]
  /\ UNCHANGED <<tenantVars, open, sessions, cred, receipts, outboxVars>>

\* Mutant: failures are counted and never lock.
CountFailure(c) == [c EXCEPT !.failures = @ + 1]

RecordPasswordLoginFailure(c) ==
  [c EXCEPT !.failures = @ + 1, !.locked = c.failures + 1 >= MaxFailures]

CountsAgainst(p) ==
  proof[p].increment /\ invitationPasswordActive(p) /\ proof[p].hash = cred[p].hash

RecordInvitationPasswordFailure(p) ==
  /\ proof[p].phase = "denied"
  /\ cred' = IF CountsAgainst(p)
               THEN [cred EXCEPT ![p] = RecordPasswordLoginFailure(@)] ELSE cred
  /\ proof' = [proof EXCEPT ![p] = NoProof]
  /\ UNCHANGED <<tenantVars, open, sessions, receipts, outboxVars>>

-----------------------------------------------------------------------------
(* Other components. *)

\* A login, and what ends its Session.
SessionChanges(p) ==
  /\ sessions' = IF p \in sessions THEN sessions \ {p} ELSE sessions \cup {p}
  /\ UNCHANGED <<tenantVars, open, cred, proof, receipts, outboxVars>>

\* The Tenant is suspended, or its Lifecycle becomes stale, and back.
TargetChanges ==
  /\ open' = ~open
  /\ UNCHANGED <<tenantVars, sessions, cred, proof, receipts, outboxVars>>

\* A password action completes: a new hash, no failures.
PasswordChanges(p) ==
  /\ cred[p].hash < MaxHash
  /\ cred' = [cred EXCEPT ![p] = [hash |-> @.hash + 1, failures |-> 0, locked |-> FALSE]]
  /\ UNCHANGED <<tenantVars, open, sessions, proof, receipts, outboxVars>>

\* locked_until passes: the next failure is the first again.
LockEnds(p) ==
  /\ cred[p].locked
  /\ cred' = [cred EXCEPT ![p].failures = 0, ![p].locked = FALSE]
  /\ UNCHANGED <<tenantVars, open, sessions, proof, receipts, outboxVars>>

InvitationElapses(i) ==
  /\ inv[i].status = "pending" /\ ~inv[i].elapsed
  /\ inv' = [inv EXCEPT ![i].elapsed = TRUE]
  /\ UNCHANGED <<refs, roles, member, bound, joined, accountVars, outboxVars>>

\* CurrentTenantInvitationNotification.
CurrentInvitation(d) ==
  /\ inv[d.inv].generation = d.generation
  /\ inv[d.inv].status = "pending" /\ ~inv[d.inv].elapsed

Dispatch(w) ==
  Outbox!DispatchNext(w, CurrentInvitation) /\ UNCHANGED <<tenantVars, accountVars>>

QueueFails ==
  /\ \/ \E w \in Workers : Outbox!AbandonNotification(w)
     \/ \E d \in Deliveries : Outbox!LeaseLapses(d)
  /\ UNCHANGED <<tenantVars, accountVars>>

-----------------------------------------------------------------------------
Next ==
  \/ \E i \in Invites, p \in People, rs \in SUBSET CustomRoles : CreateInvitation(i, p, rs)
  \/ \E i \in Invites : ResendInvitation(i) \/ CancelInvitation(i) \/ GetInvitation(i)
                          \/ InvitationElapses(i)
  \/ \E status \in {"pending", "expired"} : ListInvitations(status)
  \/ TargetChanges
  \/ \E r \in CustomRoles : ExpireForRole(r) \/ DeleteRole(r)
  \/ \E p \in People : \/ RemoveMember(p) \/ AcceptByPassword(p) \/ RefuseAcceptance(p)
                       \/ RecordInvitationPasswordFailure(p) \/ SessionChanges(p)
                       \/ PasswordChanges(p) \/ LockEnds(p)
  \/ \E p \in People, a \in Attempt :
       AcceptBySession(p, a) \/ \E valid \in BOOLEAN : VerifyPassword(p, a, valid)
  \/ \E w \in Workers : Dispatch(w)
  \/ QueueFails

Spec == Init /\ [][Next]_vars

-----------------------------------------------------------------------------
(* Properties. *)

AcceptedBy(p) == {i \in Invites : inv[i].status = "accepted" /\ inv[i].email = p}

\* Every Membership row of a person was given for exactly one Invitation
\* addressed to him, and no two of them for Invitations of the time before the
\* same removal: neither an acceptance that is repeated or races with another,
\* nor an old Invitation that is sent again, lets anybody join twice.
JoinsAreInvited ==
  \A p \in People :
    /\ joined[p] = Cardinality(AcceptedBy(p))
    /\ \A i, j \in AcceptedBy(p) : inv[i].created = inv[j].created => i = j

\* The reference rows are those of the pending Invitations, and neither they nor
\* the bindings of a member name a role that was deleted while an Invitation
\* was created, sent again, expired or accepted.
InvitationGrantsExistingRoles ==
  /\ refs = {x \in Invites \X CustomRoles :
               inv[x[1]].status = "pending" /\ x[2] \in inv[x[1]].roles}
  /\ \A x \in refs \cup bound : x[2] \in roles

\* Only the latest token of a pending Invitation waits to be sent: what ended or
\* was replaced leaves no message behind, whatever a dispatcher does late.
OnlyCurrentDeliveryIsLive ==
  /\ \A d \in Deliveries : outbox[d].status \in Outbox!Live =>
       inv[d.inv].status = "pending" /\ inv[d.inv].generation = d.generation
  /\ \A i \in Invites : inv[i].status = "pending" =>
       outbox[[inv |-> i, generation |-> inv[i].generation]].status # "absent"

\* A message that was delivered or cancelled stays so: the late outcome of a
\* dispatcher that lost its claim is dropped.
SettledStaysSettled ==
  [][\A d \in Deliveries :
       outbox[d].status \in Outbox!Settled => outbox'[d] = outbox[d]]_vars

\* Dispatchers that stop and leases that lapse never let a message be submitted
\* more often than allowed; a delivered one was submitted, and the payload is
\* kept exactly as long as it may be needed.
DeliveryIsAccountable ==
  \A d \in Deliveries :
    /\ submitted[d] <= MaxAttempts
    /\ outbox[d].status = "delivered" => submitted[d] > 0
    /\ outbox[d].sealed = (outbox[d].status \in Outbox!Live)

\* A password that was verified before it changed, or before the credential was
\* locked, admits nobody, and a wrong one is never counted against its
\* successor.
ProofIsCurrent ==
  [][\A p \in People :
       ( /\ proof[p] # NoProof /\ proof'[p] # proof[p]
         /\ joined'[p] # joined[p] \/ cred'[p].failures > cred[p].failures )
       => proof[p].hash = cred[p].hash /\ ~cred[p].locked]_vars

\* Who joins was invited, once, and gets only roles that still exist, however
\* acceptances, resends, expiries and deletions of roles overlap (AcceptTenant,
\* CreateInvitation, DeleteRole).
InvitationsAreHonoured == JoinsAreInvited /\ InvitationGrantsExistingRoles

\* The outbox holds the current token of every open Invitation and no other, and
\* accounts for every submission (clearInvitationReferences, Claim, Finish).
MessagesAreCurrent == OnlyCurrentDeliveryIsLive /\ DeliveryIsAccountable

\* A result that comes too late counts for nothing: the outcome of a dispatcher
\* that lost its claim, or a password verified before it changed.
LateResultsAreDropped == SettledStaysSettled /\ ProofIsCurrent
=============================================================================
